------------------------------ MODULE RequestLog ------------------------------
(***************************************************************************)
(* The request log of a tunnel: rows that the gateway inserts and cleans   *)
(* up, the pages of GET /tunnels/:id/requests, and the command             *)
(* "agentj logs", which walks through all pages or follows new rows.       *)
(*                                                                         *)
(* started_at is the database's clock at the start of the INSERT, in       *)
(* microseconds; a row is visible when the INSERT commits.  A cursor holds *)
(* milliseconds: a JavaScript Date has no more.  Time is counted in ticks, *)
(* TicksPerMs of them to the millisecond.  Left out: what is in a row      *)
(* besides its id and its time, the details of a single request.           *)
(***************************************************************************)
EXTENDS Integers, FiniteSets

CONSTANTS
    Ids,            \* request ids, in their order; which comes first is chance
    PageSize,       \* PAGE_SIZE
    TicksPerMs,
    Retention,      \* REQUEST_LOG_RETENTION_MS, in ticks
    BatchSize,      \* CLEANUP_BATCH_SIZE
    MaxTime         \* bound: ticks that pass

ASSUME LogAssumption ==
    /\ Ids \subseteq Nat \ {0} /\ IsFiniteSet(Ids)
    /\ {PageSize, TicksPerMs, BatchSize} \subseteq Nat \ {0}
    /\ {Retention, MaxTime} \subseteq Nat

VARIABLES
    now,            \* the clock, of database and command alike
    startedAt,      \* of each row, from the start of its INSERT
    inserting,      \* INSERTs under way
    rows,           \* rows that are visible
    reader,         \* what the command is doing
    cursor,         \* its cursor
    times,          \* history: how often each row was printed, up to twice
    owed            \* history: rows the command must print

tableVars  == <<startedAt, inserting, rows>>
readerVars == <<reader, cursor, times>>
vars == <<now, tableVars, readerVars, owed>>

Time == 0 .. MaxTime

NoCursor == [at |-> -1, id |-> 0]

TypeOK ==
    /\ now \in Time
    /\ startedAt \in [Ids -> Time]
    /\ inserting \in SUBSET Ids
    /\ rows \in SUBSET Ids /\ inserting \cap rows = {}
    /\ reader \in {"idle", "walk", "stamp", "follow", "done", "failed"}
    /\ cursor \in {NoCursor} \cup [at : {t \in Time : t % TicksPerMs = 0}, id : Ids \cup {0}]
    /\ (reader = "follow") => (cursor # NoCursor)
    /\ times \in [Ids -> 0 .. 2]
    /\ owed \in SUBSET rows

Init ==
    /\ now = 0
    /\ startedAt = [r \in Ids |-> 0]
    /\ inserting = {} /\ rows = {}
    /\ reader = "idle" /\ cursor = NoCursor
    /\ times = [r \in Ids |-> 0]
    /\ owed = {}

-------------------------------------------------------------------------------
(* Order and pages *)

Older(q, r) ==
    \/ startedAt[q] < startedAt[r]
    \/ startedAt[q] = startedAt[r] /\ q < r

Millisecond(t) == (t \div TicksPerMs) * TicksPerMs

SameMillisecond(q, r) == Millisecond(startedAt[q]) = Millisecond(startedAt[r])

(* formatRequestLogCursor, toCursor: getTime() drops the microseconds.     *)
FormatCursor(r) == [at |-> Millisecond(startedAt[r]), id |-> r]

(* The conditions of the query on "cursor" and on "after"; a cursor without *)
(* an id has the id 0.                                                     *)
Before(c, r) == startedAt[r] < c.at \/ (c.id # 0 /\ startedAt[r] = c.at /\ r < c.id)
After(c, r)  == startedAt[r] > c.at \/ (c.id # 0 /\ startedAt[r] = c.at /\ r > c.id)

(* The first n rows of R, newest or oldest first.                          *)
Newest(R, n) == {r \in R : Cardinality({q \in R : Older(r, q)}) < n}
Oldest(R, n) == {r \in R : Cardinality({q \in R : Older(q, r)}) < n}

OldestOf(R) == CHOOSE r \in R : r \in Oldest(R, 1)
NewestOf(R) == CHOOSE r \in R : r \in Newest(R, 1)

Render(page) ==
    times' = [r \in Ids |-> IF r \in page /\ times[r] < 2 THEN times[r] + 1 ELSE times[r]]

-------------------------------------------------------------------------------
(* The gateway *)

StartInsert(r) ==
    /\ r \notin inserting \cup rows /\ startedAt[r] = 0 /\ times[r] = 0   \* ids are new
    /\ startedAt' = [startedAt EXCEPT ![r] = now]
    /\ inserting' = inserting \cup {r}
    /\ UNCHANGED <<now, rows, readerVars, owed>>

(* The command owes a row that appears after its cursor; one that appears  *)
(* behind it, because its INSERT took long, is never read.                 *)
InsertCommits(r) ==
    /\ r \in inserting
    /\ inserting' = inserting \ {r}
    /\ rows' = rows \cup {r}
    /\ owed' = IF reader = "follow" /\ After(cursor, r) THEN owed \cup {r} ELSE owed
    /\ UNCHANGED <<now, startedAt, readerVars>>

(* cleanupOldRequestLogs, one batch: the oldest of the expired rows.       *)
CleanupBatch ==
    LET expired == {r \in rows : startedAt[r] < now - Retention}
        deleted == Oldest(expired, BatchSize)
    IN  /\ deleted # {}
        /\ rows' = rows \ deleted
        /\ owed' = owed \ deleted
        /\ UNCHANGED <<now, startedAt, inserting, readerVars>>

Tick ==
    /\ now < MaxTime                                            \* bound
    /\ now' = now + 1
    /\ UNCHANGED <<tableVars, readerVars, owed>>

-------------------------------------------------------------------------------
(* agentj logs *)

ListFirst ==
    /\ reader = "idle"
    /\ reader' = "walk"
    /\ owed' = rows
    /\ UNCHANGED <<now, tableVars, cursor, times>>

WalkPage_TailOfQuery ==         \* mutant: the cursor is the row past the page
    LET found == {r \in rows : cursor = NoCursor \/ Before(cursor, r)}
        page  == Newest(found, PageSize)
        more  == Newest(found, PageSize + 1)
    IN  /\ reader = "walk"
        /\ Render(page)
        /\ IF page = found
           THEN reader' = "done" /\ cursor' = NoCursor
           ELSE reader' = "walk" /\ cursor' = FormatCursor(OldestOf(more))
        /\ UNCHANGED <<now, tableVars, owed>>

WalkPage ==
    LET found == {r \in rows : cursor = NoCursor \/ Before(cursor, r)}
        page  == Newest(found, PageSize)
    IN  /\ reader = "walk"
        /\ Render(page)
        /\ IF page = found
           THEN reader' = "done" /\ cursor' = NoCursor
           ELSE reader' = "walk" /\ cursor' = FormatCursor(OldestOf(page))
        /\ UNCHANGED <<now, tableVars, owed>>

FollowFirst_NoStamp ==          \* mutant: no rows, no cursor
    LET page == Newest(rows, PageSize) IN
    /\ reader = "idle"
    /\ Render(page)
    /\ reader' = "follow"
    /\ cursor' = IF page = {} THEN NoCursor ELSE FormatCursor(NewestOf(page))
    /\ UNCHANGED <<now, tableVars, owed>>

(* logs --follow: the newest page, ...                                     *)
FollowFirst ==
    LET page == Newest(rows, PageSize) IN
    /\ reader = "idle"
    /\ Render(page)
    /\ IF page = {}
       THEN reader' = "stamp" /\ cursor' = NoCursor
       ELSE reader' = "follow" /\ cursor' = FormatCursor(NewestOf(page))
    /\ UNCHANGED <<now, tableVars, owed>>

(* ... the time, if there is none, taken when the answer has arrived, ...  *)
Stamp ==
    /\ reader = "stamp"
    /\ reader' = "follow"
    /\ cursor' = [at |-> Millisecond(now), id |-> 0]
    /\ UNCHANGED <<now, tableVars, times, owed>>

FollowPage_KeepsCursor ==       \* mutant: only nextCursor moves the cursor
    LET found == {r \in rows : After(cursor, r)}
        page  == Oldest(found, PageSize)
    IN  /\ reader = "follow"
        /\ Render(page)
        /\ cursor' = IF page = found THEN cursor ELSE FormatCursor(NewestOf(page))
        /\ UNCHANGED <<now, tableVars, reader, owed>>

FollowPage_NewestFirst ==       \* mutant: pages after a cursor in the other order
    LET found == {r \in rows : After(cursor, r)}
        page  == Newest(found, PageSize)
    IN  /\ reader = "follow"
        /\ Render(page)
        /\ cursor' = IF page = {} THEN cursor ELSE FormatCursor(NewestOf(page))
        /\ UNCHANGED <<now, tableVars, reader, owed>>

(* ... then page after page, at once while there is more, otherwise every  *)
(* two seconds.  nextCursor and the cursor of the last row are the same.   *)
FollowPage ==
    LET found == {r \in rows : After(cursor, r)}
        page  == Oldest(found, PageSize)
    IN  /\ reader = "follow"
        /\ Render(page)
        /\ cursor' = IF page = {} THEN cursor ELSE FormatCursor(NewestOf(page))
        /\ UNCHANGED <<now, tableVars, reader, owed>>

(* A request fails, or the tunnel is gone: the command ends.               *)
RequestFails ==
    /\ reader \in {"walk", "follow"}
    /\ reader' = "failed"
    /\ UNCHANGED <<now, tableVars, cursor, times, owed>>

Next ==
    \/ \E r \in Ids : StartInsert(r) \/ InsertCommits(r)
    \/ CleanupBatch \/ Tick
    \/ ListFirst \/ WalkPage \/ FollowFirst \/ Stamp \/ FollowPage \/ RequestFails

Spec == Init /\ [][Next]_vars

(* The command asks again, sooner or later, and gets an answer.            *)
FairSpec == Spec /\ WF_vars(FollowPage)

-------------------------------------------------------------------------------
(* Properties *)

(* agentj logs prints every row that is there when it starts and not       *)
(* cleaned up meanwhile, except behind the last row of a page, among those *)
(* of the same millisecond: the cursor stands before all of them.          *)
WalkComplete ==
    reader = "done" =>
        \A r \in owed :
            \/ times[r] > 0
            \/ \E q \in Ids : times[q] > 0 /\ SameMillisecond(q, r) /\ Older(r, q)

(* A row is printed again only by --follow, and only while the cursor      *)
(* stands in the row's own millisecond.                                    *)
RepeatsWithinMillisecond ==
    [][\A r \in Ids :
         times[r] = 1 /\ times'[r] = 2 =>
            reader = "follow" /\ Millisecond(startedAt[r]) = cursor.at]_vars

(* A page never gets past a millisecond of PAGE_SIZE rows: its last row    *)
(* leads back to its first.                                                *)
Crowded ==
    \E r \in rows : Cardinality({q \in rows : SameMillisecond(q, r)}) >= PageSize

(* --follow prints every row that appears after its cursor, however many   *)
(* appear between two polls, or a millisecond is crowded, or the command   *)
(* ends.                                                                   *)
FollowPrintsAll ==
    \A r \in Ids :
        (reader = "follow" /\ r \in owed) ~>
            (times[r] > 0 \/ r \notin owed \/ Crowded \/ reader = "failed")
===============================================================================
