--------------------------- MODULE RequestLogProofs ---------------------------
(***************************************************************************)
(* What "agentj logs" prints, for any number of rows, any page size, any   *)
(* clock resolution and any cleanup: the types, what a walk through all    *)
(* pages leaves out, and what --follow prints twice.                       *)
(***************************************************************************)
EXTENDS RequestLog, FiniteSetTheorems, TLAPS

-------------------------------------------------------------------------------
(* Milliseconds, order and pages *)

LEMMA MillisecondFacts ==
  ASSUME NEW t \in Time
  PROVE  /\ Millisecond(t) \in Time
         /\ Millisecond(t) <= t
         /\ Millisecond(t) % TicksPerMs = 0
         /\ t % TicksPerMs = 0 => Millisecond(t) = t
<1>. USE LogAssumption DEF Time, Millisecond
<1>1. Millisecond(t) \in Nat /\ Millisecond(t) <= t
  OBVIOUS
<1>2. Millisecond(t) % TicksPerMs = 0
  OBVIOUS
<1>3. t % TicksPerMs = 0 => Millisecond(t) = t
  OBVIOUS
<1>. QED  BY <1>1, <1>2, <1>3

LEMMA MillisecondMonotone ==
  ASSUME NEW t \in Time, NEW u \in Time, t <= u
  PROVE  Millisecond(t) <= Millisecond(u)
BY LogAssumption DEF Time, Millisecond

LEMMA OlderIsTotalOrder ==
  ASSUME startedAt \in [Ids -> Time]
  PROVE  /\ \A r \in Ids : ~Older(r, r)
         /\ \A q, r \in Ids : q = r \/ Older(q, r) \/ Older(r, q)
         /\ \A p, q, r \in Ids : Older(p, q) /\ Older(q, r) => Older(p, r)
BY LogAssumption DEF Older, Time

(* A finite set of rows has a newest and an oldest one.  Both are rows for *)
(* which the set of rows beyond is minimal.                                *)
LEMMA ExtremesExist ==
  ASSUME startedAt \in [Ids -> Time], NEW R \in SUBSET Ids, R # {}
  PROVE  /\ \E r \in R : \A q \in R : ~Older(r, q)
         /\ \E r \in R : \A q \in R : ~Older(q, r)
<1>. DEFINE Above(r) == {q \in R : Older(r, q)}
            Below(r) == {q \in R : Older(q, r)}
            Aboves == {Above(r) : r \in R}
            Belows == {Below(r) : r \in R}
<1>1. IsWellFoundedOn(StrictSubsetOrdering(R), SUBSET R)
  <2>1. IsFiniteSet(R)
    BY LogAssumption, FS_Subset
  <2>. QED  BY <2>1, FS_StrictSubsetOrderingWellFounded, FS_FiniteSubsetsOfFinite
<1>2. \E r \in R : \A q \in R : ~Older(r, q)
  <2>1. PICK x \in Aboves : \A y \in Aboves : <<y, x>> \notin StrictSubsetOrdering(R)
    <3>1. Aboves \subseteq SUBSET R /\ Aboves # {}
      OBVIOUS
    <3>. QED  BY <1>1, <3>1, WFMin
  <2>2. PICK r \in R : x = Above(r)
    BY <2>1
  <2>3. ASSUME NEW q \in R, Older(r, q)  PROVE FALSE
    <3>1. Above(q) \subseteq Above(r) /\ q \in Above(r) /\ q \notin Above(q)
      BY <2>3, OlderIsTotalOrder
    <3>2. <<Above(q), Above(r)>> \in StrictSubsetOrdering(R)
      BY <3>1 DEF StrictSubsetOrdering
    <3>. QED  BY <2>1, <2>2, <3>2
  <2>. QED  BY <2>3
<1>3. \E r \in R : \A q \in R : ~Older(q, r)
  <2>1. PICK x \in Belows : \A y \in Belows : <<y, x>> \notin StrictSubsetOrdering(R)
    <3>1. Belows \subseteq SUBSET R /\ Belows # {}
      OBVIOUS
    <3>. QED  BY <1>1, <3>1, WFMin
  <2>2. PICK r \in R : x = Below(r)
    BY <2>1
  <2>3. ASSUME NEW q \in R, Older(q, r)  PROVE FALSE
    <3>1. Below(q) \subseteq Below(r) /\ q \in Below(r) /\ q \notin Below(q)
      BY <2>3, OlderIsTotalOrder
    <3>2. <<Below(q), Below(r)>> \in StrictSubsetOrdering(R)
      BY <3>1 DEF StrictSubsetOrdering
    <3>. QED  BY <2>1, <2>2, <3>2
  <2>. QED  BY <2>3
<1>. QED  BY <1>2, <1>3

LEMMA NoneIsFewerThanOne ==
  ASSUME NEW S, IsFiniteSet(S)
  PROVE  (Cardinality(S) < 1) <=> S = {}
BY FS_EmptySet, FS_CardinalityType

(* The first and the last row of a page.                                   *)
LEMMA EndsOfPage ==
  ASSUME startedAt \in [Ids -> Time], NEW R \in SUBSET Ids, R # {}
  PROVE  /\ NewestOf(R) \in R /\ \A q \in R : ~Older(NewestOf(R), q)
         /\ OldestOf(R) \in R /\ \A q \in R : ~Older(q, OldestOf(R))
<1>1. IsFiniteSet(R)
  BY LogAssumption, FS_Subset
<1>2. \A r \in R : /\ r \in Newest(R, 1) <=> \A q \in R : ~Older(r, q)
                   /\ r \in Oldest(R, 1) <=> \A q \in R : ~Older(q, r)
  <2>. TAKE r \in R
  <2>1. /\ IsFiniteSet({q \in R : Older(r, q)})
        /\ IsFiniteSet({q \in R : Older(q, r)})
    BY <1>1, FS_Subset
  <2>. QED  BY <2>1, NoneIsFewerThanOne DEF Newest, Oldest
<1>3. (\E r \in R : r \in Newest(R, 1)) /\ (\E r \in R : r \in Oldest(R, 1))
  BY <1>2, ExtremesExist
<1>4. /\ NewestOf(R) \in R /\ NewestOf(R) \in Newest(R, 1)
      /\ OldestOf(R) \in R /\ OldestOf(R) \in Oldest(R, 1)
  BY <1>3 DEF NewestOf, OldestOf
<1>. QED  BY <1>2, <1>4

(* A page of the newest rows is empty only if there is no row, and what is *)
(* not on it is older than all that is.                                    *)
LEMMA NewestPage ==
  ASSUME startedAt \in [Ids -> Time], NEW R \in SUBSET Ids
  PROVE  /\ Newest(R, PageSize) \subseteq R
         /\ R # {} => Newest(R, PageSize) # {}
         /\ \A r \in R \ Newest(R, PageSize) : \A p \in Newest(R, PageSize) : Older(r, p)
<1>. DEFINE page == Newest(R, PageSize)
            Above(r) == {q \in R : Older(r, q)}
<1>1. page \subseteq R
  BY DEF Newest
<1>2. IsFiniteSet(R) /\ PageSize \in Nat \ {0}
  BY LogAssumption, FS_Subset
<1>3. \A r \in R : IsFiniteSet(Above(r)) /\ Cardinality(Above(r)) \in Nat
  BY <1>2, FS_Subset, FS_CardinalityType
<1>4. ASSUME R # {}  PROVE page # {}
  <2>1. PICK r \in R : \A q \in R : ~Older(r, q)
    BY <1>4, ExtremesExist
  <2>2. Above(r) = {}
    BY <2>1
  <2>3. Cardinality(Above(r)) < PageSize
    BY <2>2, <1>2, FS_EmptySet
  <2>. QED  BY <2>3 DEF Newest
<1>5. ASSUME NEW r \in R \ page, NEW p \in page  PROVE Older(r, p)
  <2>1. SUFFICES ASSUME Older(p, r)  PROVE FALSE
    BY <1>1, <1>5, OlderIsTotalOrder
  <2>2. Above(r) \subseteq Above(p)
    BY <2>1, <1>1, OlderIsTotalOrder
  <2>3. Cardinality(Above(r)) <= Cardinality(Above(p))
    BY <2>2, <1>1, <1>3, FS_Subset
  <2>4. Cardinality(Above(p)) < PageSize /\ ~(Cardinality(Above(r)) < PageSize)
    BY DEF Newest
  <2>5. Cardinality(Above(r)) \in Nat /\ Cardinality(Above(p)) \in Nat
    BY <1>1, <1>3
  <2>. HIDE DEF Above
  <2>. QED  BY <2>3, <2>4, <2>5, <1>2
<1>. QED  BY <1>1, <1>4, <1>5

LEMMA OldestPage ==
  ASSUME NEW R \in SUBSET Ids
  PROVE  Oldest(R, PageSize) \subseteq R
BY DEF Oldest

-------------------------------------------------------------------------------
(* The invariant *)

(* The cursor of a walk stands before every row printed, and behind every  *)
(* row owed and not printed, up to those of the page's last millisecond.   *)
Passed(r) ==
    \E q \in Ids : times[q] > 0 /\ SameMillisecond(q, r) /\ Older(r, q)

Walking ==
    /\ cursor = NoCursor => \A r \in Ids : times[r] = 0
    /\ cursor # NoCursor => \A r \in Ids : times[r] > 0 => ~Before(cursor, r)
    /\ \A r \in owed : times[r] > 0 \/ cursor = NoCursor \/ Before(cursor, r) \/ Passed(r)

Following == \A r \in Ids : times[r] > 0 => Millisecond(startedAt[r]) <= cursor.at

Fresh == \A r \in Ids : times[r] = 0

IInv ==
    /\ TypeOK
    /\ reader \in {"idle", "stamp"} => Fresh
    /\ reader = "idle" => cursor = NoCursor
    /\ reader = "walk" => Walking
    /\ reader = "follow" => Following
    /\ WalkComplete

LEMMA InitEstablishes == Init => IInv
BY LogAssumption
   DEF Init, IInv, TypeOK, Fresh, WalkComplete, Time, NoCursor

(* Types *)

LEMMA CursorOfRow ==
  ASSUME startedAt \in [Ids -> Time], NEW r \in Ids
  PROVE  /\ FormatCursor(r) \in [at : {t \in Time : t % TicksPerMs = 0}, id : Ids \cup {0}]
         /\ FormatCursor(r) # NoCursor
         /\ FormatCursor(r).at = Millisecond(startedAt[r])
         /\ FormatCursor(r).id = r
<1>1. /\ Millisecond(startedAt[r]) \in Time
      /\ Millisecond(startedAt[r]) % TicksPerMs = 0
  BY MillisecondFacts
<1>2. Millisecond(startedAt[r]) # -1
  BY <1>1 DEF Time
<1>. HIDE DEF Millisecond
<1>. QED  BY <1>1, <1>2 DEF FormatCursor, NoCursor

LEMMA Rendered ==
  ASSUME times \in [Ids -> 0 .. 2], NEW page \in SUBSET Ids, Render(page)
  PROVE  /\ times' \in [Ids -> 0 .. 2]
         /\ \A r \in Ids : times'[r] > 0 <=> times[r] > 0 \/ r \in page
         /\ \A r \in Ids : times[r] = 1 /\ times'[r] = 2 => r \in page
BY DEF Render

(* Steps that leave what is printed, and the times of printed and owed     *)
(* rows, alone.                                                            *)
LEMMA QuietStep ==
  ASSUME IInv, TypeOK', UNCHANGED readerVars,
         \A r \in Ids : times[r] > 0 \/ r \in owed => startedAt'[r] = startedAt[r],
         reader # "follow" => owed' \subseteq owed
  PROVE  IInv'
<1>1. /\ startedAt \in [Ids -> Time] /\ startedAt' \in [Ids -> Time]
      /\ owed \subseteq Ids /\ owed' \subseteq Ids
      /\ times \in [Ids -> 0 .. 2]
  BY DEF IInv, TypeOK
<1>2. \A q, r \in Ids : (times[q] > 0 \/ q \in owed) /\ (times[r] > 0 \/ r \in owed) =>
        /\ SameMillisecond(q, r) = SameMillisecond(q, r)'
        /\ Older(q, r) = Older(q, r)'
  BY DEF SameMillisecond, Older
<1>3. \A r \in Ids : times[r] > 0 \/ r \in owed => Before(cursor, r) = Before(cursor, r)'
  BY DEF Before, readerVars
<1>4. \A r \in owed : Passed(r) => Passed(r)'
  BY <1>1, <1>2 DEF Passed, readerVars
<1>5. (reader \in {"idle", "stamp"} => Fresh)'
  BY DEF IInv, Fresh, readerVars
<1>6. (reader = "idle" => cursor = NoCursor)'
  BY DEF IInv, readerVars
<1>7. (reader = "walk" => Walking)'
  BY <1>1, <1>3, <1>4 DEF IInv, Walking, readerVars
<1>8. (reader = "follow" => Following)'
  BY <1>1 DEF IInv, Following, readerVars
<1>9. WalkComplete'
  <2>. SUFFICES ASSUME reader = "done", NEW r \in owed'
                PROVE  (times[r] > 0 \/ Passed(r))'
    BY DEF WalkComplete, Passed, readerVars
  <2>1. times[r] > 0 \/ Passed(r)
    BY DEF IInv, WalkComplete, Passed
  <2>. QED  BY <2>1, <1>4 DEF readerVars
<1>. QED  BY <1>5, <1>6, <1>7, <1>8, <1>9 DEF IInv

(* The steps of the gateway and of the clock.                              *)
LEMMA TableStep ==
  ASSUME IInv, \/ \E r \in Ids : StartInsert(r) \/ InsertCommits(r)
               \/ CleanupBatch \/ Tick
  PROVE  IInv'
<1>1. ASSUME NEW r \in Ids, StartInsert(r)  PROVE IInv'
  <2>1. TypeOK'
    BY <1>1, LogAssumption DEF IInv, TypeOK, StartInsert, readerVars
  <2>. QED  BY <1>1, <2>1, QuietStep DEF IInv, TypeOK, StartInsert
<1>2. ASSUME NEW r \in Ids, InsertCommits(r)  PROVE IInv'
  <2>1. TypeOK'
    BY <1>2 DEF IInv, TypeOK, InsertCommits, readerVars
  <2>. QED  BY <1>2, <2>1, QuietStep DEF IInv, TypeOK, InsertCommits
<1>3. CASE CleanupBatch
  <2>1. TypeOK'
    BY <1>3 DEF IInv, TypeOK, CleanupBatch, readerVars
  <2>. QED  BY <1>3, <2>1, QuietStep DEF CleanupBatch
<1>4. CASE Tick
  <2>1. TypeOK'
    BY <1>4, LogAssumption DEF IInv, TypeOK, Tick, Time, tableVars, readerVars
  <2>. QED  BY <1>4, <2>1, QuietStep DEF Tick, tableVars
<1>. QED  BY <1>1, <1>2, <1>3, <1>4

(* The steps of the command that print nothing.                            *)
LEMMA SilentStep ==
  ASSUME IInv, ListFirst \/ Stamp \/ RequestFails
  PROVE  IInv'
<1>1. CASE ListFirst
  <2>1. TypeOK'
    BY <1>1 DEF IInv, TypeOK, ListFirst, tableVars
  <2>2. cursor' = NoCursor /\ Fresh'
    BY <1>1 DEF IInv, ListFirst, Fresh
  <2>3. Walking'
    BY <2>2 DEF Walking, Fresh
  <2>. QED  BY <1>1, <2>1, <2>3 DEF IInv, ListFirst, WalkComplete
<1>2. CASE Stamp
  <2>1. /\ Millisecond(now) \in Time
        /\ Millisecond(now) % TicksPerMs = 0
    BY MillisecondFacts DEF IInv, TypeOK
  <2>2. Millisecond(now) # -1
    BY <2>1 DEF Time
  <2>3. TypeOK'
    <3>. HIDE DEF Millisecond
    <3>. QED  BY <1>2, <2>1, <2>2 DEF IInv, TypeOK, Stamp, tableVars, NoCursor
  <2>4. Following'
    BY <1>2, <2>3 DEF IInv, Stamp, Fresh, Following, TypeOK
  <2>. QED  BY <1>2, <2>3, <2>4 DEF IInv, Stamp, WalkComplete
<1>3. CASE RequestFails
  BY <1>3 DEF IInv, TypeOK, RequestFails, tableVars, WalkComplete
<1>. QED  BY <1>1, <1>2, <1>3

(* A walk: what is not on the page, and not of the millisecond of its last *)
(* row, is before the new cursor, which is before all that was printed.    *)
LEMMA WalkStep ==
  ASSUME IInv, WalkPage
  PROVE  IInv'
<1>. DEFINE found == {r \in rows : cursor = NoCursor \/ Before(cursor, r)}
            page  == Newest(found, PageSize)
            last  == OldestOf(page)
<1>1. /\ reader = "walk" /\ Render(page)
      /\ IF page = found
         THEN reader' = "done" /\ cursor' = NoCursor
         ELSE reader' = "walk" /\ cursor' = FormatCursor(last)
      /\ UNCHANGED <<now, tableVars, owed>>
  BY DEF WalkPage
<1>2. /\ startedAt \in [Ids -> Time] /\ times \in [Ids -> 0 .. 2]
      /\ rows \subseteq Ids /\ owed \subseteq rows
      /\ startedAt' = startedAt /\ rows' = rows /\ owed' = owed
  BY <1>1 DEF IInv, TypeOK, tableVars
<1>3. Walking /\ found \subseteq Ids
  BY <1>1, <1>2 DEF IInv
<1>4. page \subseteq found
  BY <1>2, <1>3, NewestPage
<1>5. /\ times' \in [Ids -> 0 .. 2]
      /\ \A r \in Ids : times'[r] > 0 <=> times[r] > 0 \/ r \in page
  BY <1>1, <1>2, <1>3, <1>4, Rendered
<1>. HIDE DEF page, found
<1>6. CASE page = found
  <2>1. TypeOK'
    BY <1>1, <1>5, <1>6 DEF IInv, TypeOK, tableVars
  <2>2. WalkComplete'
    <3>. SUFFICES ASSUME NEW r \in owed  PROVE times'[r] > 0 \/ Passed(r)'
      BY <1>2 DEF WalkComplete, Passed
    <3>1. times[r] > 0 \/ r \in found \/ Passed(r)
      BY <1>2, <1>3 DEF Walking, found
    <3>2. Passed(r) => Passed(r)'
      BY <1>2, <1>5 DEF Passed, SameMillisecond, Older
    <3>. QED  BY <3>1, <3>2, <1>2, <1>5, <1>6
  <2>. QED  BY <1>1, <1>6, <2>1, <2>2 DEF IInv
<1>7. CASE page # found
  <2>1. reader' = "walk" /\ cursor' = FormatCursor(last)
    BY <1>1, <1>7
  <2>2. /\ last \in page /\ last \in Ids
        /\ \A q \in page : ~Older(q, last)
    <3>1. page # {}
      BY <1>2, <1>3, <1>7, <1>4, NewestPage DEF page
    <3>. QED  BY <3>1, <1>2, <1>3, <1>4, EndsOfPage
  <2>. HIDE DEF last
  <2>3. /\ cursor' \in [at : {t \in Time : t % TicksPerMs = 0}, id : Ids \cup {0}]
        /\ cursor' # NoCursor
        /\ cursor'.at = Millisecond(startedAt[last]) /\ cursor'.id = last
    BY <1>2, <2>1, <2>2, CursorOfRow
  <2>4. TypeOK'
    BY <1>1, <1>2, <1>5, <2>1, <2>3 DEF IInv, TypeOK, tableVars
  <2>5. /\ \A r \in Ids : startedAt[r] \in Nat /\ r \in Nat \ {0}
        /\ Millisecond(startedAt[last]) \in Nat
        /\ Millisecond(startedAt[last]) <= startedAt[last]
    BY <1>2, <2>2, LogAssumption, MillisecondFacts DEF Time
  <2>6. ASSUME NEW r \in Ids, times'[r] > 0  PROVE ~Before(cursor, r)'
    <3>1. CASE r \in page
      <4>1. r = last \/ Older(last, r)
        BY <3>1, <2>2, <1>2, OlderIsTotalOrder
      <4>. QED  BY <4>1, <1>2, <2>2, <2>3, <2>5 DEF Before, Older
    <3>2. CASE r \notin page
      <4>1. times[r] > 0
        BY <1>5, <2>6, <3>2
      <4>2. cursor # NoCursor /\ ~Before(cursor, r)
        BY <4>1, <1>3, <1>2 DEF Walking
      <4>3. Before(cursor, last)
        BY <4>2, <2>2, <1>4 DEF found
      <4>4. cursor.at \in Nat /\ cursor.id \in Nat
        <5>1. cursor \in [at : {t \in Time : t % TicksPerMs = 0}, id : Ids \cup {0}]
          BY <4>2 DEF IInv, TypeOK
        <5>2. cursor.at \in Time /\ cursor.id \in Ids \cup {0}
          BY <5>1
        <5>3. cursor.at \in Nat
          BY <5>2, LogAssumption DEF Time
        <5>4. cursor.id \in Nat
          BY <5>2, <2>5
        <5>. QED  BY <5>3, <5>4
      <4>. QED  BY <4>2, <4>3, <4>4, <1>2, <2>2, <2>3, <2>5 DEF Before
    <3>. QED  BY <3>1, <3>2
  <2>7. ASSUME NEW r \in owed
        PROVE  times'[r] > 0 \/ Before(cursor, r)' \/ Passed(r)'
    <3>1. r \in Ids /\ (times[r] > 0 \/ r \in found \/ Passed(r))
      BY <1>2, <1>3 DEF Walking, found
    <3>2. Passed(r) => Passed(r)'
      BY <1>2, <1>5 DEF Passed, SameMillisecond, Older
    <3>3. ASSUME r \in found, r \notin page, ~Before(cursor, r)'  PROVE Passed(r)'
      <4>1. Older(r, last)
        BY <3>3, <2>2, <1>2, <1>3, NewestPage DEF page
      <4>2. Millisecond(startedAt[last]) <= startedAt[r] /\ startedAt[r] <= startedAt[last]
        BY <4>1, <3>1, <3>3, <1>2, <2>2, <2>3, <2>5 DEF Before, Older
      <4>3. Millisecond(startedAt[r]) = Millisecond(startedAt[last])
        <5>1. /\ Millisecond(startedAt[last]) \in Time
              /\ Millisecond(Millisecond(startedAt[last])) = Millisecond(startedAt[last])
              /\ Millisecond(startedAt[r]) \in Time
          <6>1. /\ Millisecond(startedAt[last]) \in Time
                /\ Millisecond(startedAt[last]) % TicksPerMs = 0
            BY <1>2, <2>2, MillisecondFacts
          <6>. HIDE DEF Millisecond
          <6>. QED  BY <6>1, <1>2, <3>1, MillisecondFacts
        <5>2. Millisecond(startedAt[last]) <= Millisecond(startedAt[r])
          BY <5>1, <4>2, <1>2, <3>1, MillisecondMonotone
        <5>3. Millisecond(startedAt[r]) <= Millisecond(startedAt[last])
          BY <4>2, <1>2, <2>2, <3>1, MillisecondMonotone
        <5>. QED  BY <5>1, <5>2, <5>3 DEF Time
      <4>. QED  BY <4>1, <4>3, <1>2, <1>5, <2>2 DEF Passed, SameMillisecond, Older
    <3>. QED  BY <3>1, <3>2, <3>3, <1>5
  <2>8. Walking'
    BY <1>2, <2>3, <2>6, <2>7 DEF Walking
  <2>. QED  BY <2>1, <2>4, <2>8 DEF IInv, WalkComplete
<1>. QED  BY <1>6, <1>7

(* --follow: the cursor is the newest row of the page, and none that was   *)
(* printed is of a later millisecond.                                      *)
LEMMA PrintedUpToCursor ==
  ASSUME TypeOK, NEW page \in SUBSET rows, page # {}, Render(page),
         UNCHANGED startedAt,
         cursor' = FormatCursor(NewestOf(page)),
         \A r \in Ids : times[r] > 0 =>
            Millisecond(startedAt[r]) <= Millisecond(startedAt[NewestOf(page)])
  PROVE  /\ cursor' \in [at : {t \in Time : t % TicksPerMs = 0}, id : Ids \cup {0}]
         /\ cursor' # NoCursor
         /\ times' \in [Ids -> 0 .. 2]
         /\ Following'
<1>. DEFINE newest == NewestOf(page)
<1>1. /\ startedAt \in [Ids -> Time] /\ times \in [Ids -> 0 .. 2] /\ page \subseteq Ids
  BY DEF TypeOK
<1>2. newest \in page /\ \A q \in page : ~Older(newest, q)
  BY <1>1, EndsOfPage
<1>. HIDE DEF newest
<1>3. /\ times' \in [Ids -> 0 .. 2]
      /\ \A r \in Ids : times'[r] > 0 <=> times[r] > 0 \/ r \in page
  BY <1>1, Rendered
<1>4. cursor' = FormatCursor(newest)
  BY DEF newest
<1>5. /\ cursor' \in [at : {t \in Time : t % TicksPerMs = 0}, id : Ids \cup {0}]
      /\ cursor' # NoCursor
      /\ cursor'.at = Millisecond(startedAt[newest])
  BY <1>1, <1>2, <1>4, CursorOfRow
<1>6. ASSUME NEW r \in page
      PROVE  Millisecond(startedAt[r]) <= Millisecond(startedAt[newest])
  <2>1. startedAt[r] \in Time /\ startedAt[newest] \in Time
    BY <1>1, <1>2
  <2>2. startedAt[r] <= startedAt[newest]
    BY <2>1, <1>2 DEF Older, Time
  <2>. QED  BY <2>1, <2>2, MillisecondMonotone
<1>7. \A r \in Ids : times'[r] > 0 => Millisecond(startedAt[r]) <= cursor'.at
  BY <1>3, <1>5, <1>6 DEF newest
<1>8. Following'
  BY <1>7 DEF Following, Millisecond
<1>. QED  BY <1>3, <1>5, <1>8

LEMMA FollowFirstStep ==
  ASSUME IInv, FollowFirst
  PROVE  IInv'
<1>. DEFINE page == Newest(rows, PageSize)
<1>1. /\ reader = "idle" /\ Render(page)
      /\ IF page = {}
         THEN reader' = "stamp" /\ cursor' = NoCursor
         ELSE reader' = "follow" /\ cursor' = FormatCursor(NewestOf(page))
      /\ UNCHANGED <<now, tableVars, owed>>
  BY DEF FollowFirst
<1>2. /\ TypeOK /\ Fresh /\ page \subseteq rows /\ rows \subseteq Ids
      /\ times \in [Ids -> 0 .. 2]
  BY <1>1, NewestPage DEF IInv, TypeOK
<1>. HIDE DEF page
<1>3. CASE page = {}
  <2>1. times' = times
    BY <1>1, <1>2, <1>3 DEF Render
  <2>. QED  BY <1>1, <1>2, <1>3, <2>1 DEF IInv, TypeOK, Fresh, WalkComplete, tableVars
<1>4. CASE page # {}
  <2>1. reader' = "follow" /\ cursor' = FormatCursor(NewestOf(page))
    BY <1>1, <1>4
  <2>2. /\ cursor' \in [at : {t \in Time : t % TicksPerMs = 0}, id : Ids \cup {0}]
        /\ cursor' # NoCursor
        /\ times' \in [Ids -> 0 .. 2]
        /\ Following'
    BY <1>1, <1>2, <1>4, <2>1, PrintedUpToCursor DEF Fresh, tableVars
  <2>3. TypeOK'
    BY <1>1, <1>2, <2>1, <2>2 DEF TypeOK, tableVars
  <2>. QED  BY <2>1, <2>2, <2>3 DEF IInv, WalkComplete
<1>. QED  BY <1>3, <1>4

(* A row found after the cursor is not of an earlier millisecond.          *)
LEMMA FoundAfterCursor ==
  ASSUME TypeOK, cursor # NoCursor, NEW r \in Ids, After(cursor, r)
  PROVE  cursor.at \in Time /\ cursor.at <= Millisecond(startedAt[r])
<1>1. cursor \in [at : {t \in Time : t % TicksPerMs = 0}, id : Ids \cup {0}]
  BY DEF TypeOK
<1>2. cursor.at \in Time /\ cursor.at % TicksPerMs = 0 /\ startedAt[r] \in Time
  BY <1>1 DEF TypeOK
<1>3. cursor.at <= startedAt[r]
  BY <1>2 DEF After, Time
<1>4. Millisecond(cursor.at) = cursor.at
  BY <1>2, MillisecondFacts
<1>. QED  BY <1>2, <1>3, <1>4, MillisecondMonotone

LEMMA FollowStep ==
  ASSUME IInv, FollowPage
  PROVE  IInv'
<1>. DEFINE found == {r \in rows : After(cursor, r)}
            page  == Oldest(found, PageSize)
<1>1. /\ reader = "follow" /\ Render(page)
      /\ cursor' = IF page = {} THEN cursor ELSE FormatCursor(NewestOf(page))
      /\ UNCHANGED <<now, tableVars, reader, owed>>
  BY DEF FollowPage
<1>2. /\ TypeOK /\ Following /\ cursor # NoCursor
      /\ found \subseteq rows /\ rows \subseteq Ids /\ page \subseteq found
      /\ times \in [Ids -> 0 .. 2] /\ startedAt \in [Ids -> Time]
      /\ startedAt' = startedAt
  BY <1>1, OldestPage DEF IInv, TypeOK, tableVars
<1>3. \A r \in page : After(cursor, r)
  BY <1>2
<1>. HIDE DEF page, found
<1>4. CASE page = {}
  <2>1. times' = times /\ cursor' = cursor
    BY <1>1, <1>2, <1>4 DEF Render
  <2>2. Following'
    BY <1>2, <2>1 DEF Following, Millisecond
  <2>. QED  BY <1>1, <1>2, <2>1, <2>2 DEF IInv, TypeOK, WalkComplete, tableVars
<1>5. CASE page # {}
  <2>1. cursor' = FormatCursor(NewestOf(page))
    BY <1>1, <1>5
  <2>2. NewestOf(page) \in page
    BY <1>2, <1>5, EndsOfPage
  <2>3. cursor.at \in Time /\ cursor.at <= Millisecond(startedAt[NewestOf(page)])
    BY <1>2, <1>3, <2>2, FoundAfterCursor
  <2>4. ASSUME NEW r \in Ids, times[r] > 0
        PROVE  Millisecond(startedAt[r]) <= Millisecond(startedAt[NewestOf(page)])
    <3>1. Millisecond(startedAt[r]) <= cursor.at
      BY <1>2, <2>4 DEF Following
    <3>2. /\ Millisecond(startedAt[r]) \in Time
          /\ Millisecond(startedAt[NewestOf(page)]) \in Time
      BY <1>2, <2>2, MillisecondFacts
    <3>. HIDE DEF Millisecond
    <3>. QED  BY <2>3, <3>1, <3>2 DEF Time
  <2>5. /\ cursor' \in [at : {t \in Time : t % TicksPerMs = 0}, id : Ids \cup {0}]
        /\ cursor' # NoCursor
        /\ times' \in [Ids -> 0 .. 2]
        /\ Following'
    BY <1>1, <1>2, <1>5, <2>1, <2>4, PrintedUpToCursor
  <2>6. TypeOK'
    BY <1>1, <1>2, <2>5 DEF TypeOK, tableVars
  <2>. QED  BY <1>1, <2>5, <2>6 DEF IInv, WalkComplete
<1>. QED  BY <1>4, <1>5

LEMMA NextPreserves ==
  ASSUME IInv, [Next]_vars
  PROVE  IInv'
<1>1. CASE UNCHANGED vars
  <2>1. TypeOK'
    BY <1>1 DEF IInv, TypeOK, vars, tableVars, readerVars
  <2>. QED  BY <1>1, <2>1, QuietStep DEF vars, tableVars
<1>. QED  BY <1>1, TableStep, SilentStep, WalkStep, FollowFirstStep, FollowStep DEF Next

(***************************************************************************)
(* The invariant: during a walk the cursor stands before what was printed  *)
(* and behind what is owed; nothing printed by --follow is of a later      *)
(* millisecond than the cursor.                                            *)
(***************************************************************************)
THEOREM CursorInvariant == Spec => []IInv
BY InitEstablishes, NextPreserves, PTL DEF Spec

(* The types of rows, cursor and counters hold for any constants.          *)
THEOREM TypeCorrect == Spec => []TypeOK
<1>1. IInv => TypeOK
  BY DEF IInv
<1>. QED  BY <1>1, CursorInvariant, PTL

(* agentj logs prints every row that was there when it started and is      *)
(* still there when it ends, but for rows of the last millisecond of a     *)
(* page: whatever the page size, and however many rows come meanwhile.     *)
THEOREM WalksAreComplete == Spec => []WalkComplete
<1>1. IInv => WalkComplete
  BY DEF IInv
<1>. QED  BY <1>1, CursorInvariant, PTL

(* A walk prints no row twice; --follow does so only with rows of the      *)
(* millisecond its cursor stands in.                                       *)
THEOREM RepeatsBounded == Spec => RepeatsWithinMillisecond
<1>1. ASSUME IInv, [Next]_vars, NEW r \in Ids, times[r] = 1, times'[r] = 2
      PROVE  reader = "follow" /\ Millisecond(startedAt[r]) = cursor.at
  <2>1. TypeOK /\ startedAt \in [Ids -> Time] /\ times \in [Ids -> 0 .. 2]
    BY <1>1 DEF IInv, TypeOK
  <2>2. times' # times
    BY <1>1
  <2>3. WalkPage \/ FollowFirst \/ FollowPage
    BY <1>1, <2>2
       DEF Next, vars, StartInsert, InsertCommits, CleanupBatch, Tick, ListFirst,
           Stamp, RequestFails, readerVars
  <2>4. ~FollowFirst
    BY <1>1 DEF FollowFirst, IInv, Fresh
  <2>5. ~WalkPage
    <3>. SUFFICES ASSUME WalkPage  PROVE FALSE
      OBVIOUS
    <3>. DEFINE found == {q \in rows : cursor = NoCursor \/ Before(cursor, q)}
                page == Newest(found, PageSize)
    <3>1. Render(page) /\ Walking /\ found \subseteq Ids /\ page \subseteq found
      BY <1>1, <2>1, NewestPage DEF WalkPage, IInv, TypeOK
    <3>2. r \in page
      BY <1>1, <2>1, <3>1, Rendered
    <3>. QED  BY <1>1, <3>1, <3>2 DEF Walking
  <2>6. FollowPage
    BY <2>3, <2>4, <2>5
  <2>. DEFINE found == {q \in rows : After(cursor, q)}
              page == Oldest(found, PageSize)
  <2>7. /\ reader = "follow" /\ Render(page) /\ Following /\ cursor # NoCursor
        /\ found \subseteq Ids /\ page \subseteq found
    BY <1>1, <2>6, OldestPage DEF FollowPage, IInv, TypeOK
  <2>8. r \in page
    BY <1>1, <2>1, <2>7, Rendered
  <2>9. cursor.at \in Time /\ cursor.at <= Millisecond(startedAt[r])
    BY <2>1, <2>7, <2>8, FoundAfterCursor
  <2>10. Millisecond(startedAt[r]) <= cursor.at /\ Millisecond(startedAt[r]) \in Time
    BY <1>1, <2>1, <2>7, MillisecondFacts DEF Following
  <2>. HIDE DEF Millisecond
  <2>. QED  BY <2>7, <2>9, <2>10 DEF Time
<1>2. IInv /\ [Next]_vars =>
        [\A r \in Ids : times[r] = 1 /\ times'[r] = 2 =>
            reader = "follow" /\ Millisecond(startedAt[r]) = cursor.at]_vars
  BY <1>1
<1>. QED  BY <1>2, CursorInvariant, PTL DEF Spec, RepeatsWithinMillisecond

===============================================================================
