------------------------------ MODULE LineWebhook ------------------------------
(***************************************************************************)
(* The queue of managed LINE webhooks in the tunnel gateway                *)
(* (src/apps/tunnel-gateway/src/index.ts).  A signed webhook is stored as  *)
(* a row of line_webhook_events and answered at once; a poller claims due  *)
(* rows by moving their nextRetryAt one lease ahead, dispatches each as a  *)
(* stream without a client, and the finalizer of that stream marks the     *)
(* row delivered or schedules a retry.                                     *)
(*                                                                         *)
(* Streams are those of StreamLifecycle with kind "managed", reduced to    *)
(* what decides the row's fate: their timer, the upstream status and the   *)
(* calls of finalizeStream that wait for the database.                     *)
(*                                                                         *)
(* Time.  The lease is defined by the stream timeout (five seconds more),  *)
(* so both are counted in ticks, with the retry delays.  A timer that has  *)
(* run out fires before the clock moves on; what is awaited (a statement,  *)
(* a queued send) may take any number of ticks.  The lease counts from the *)
(* time the claim was issued; a retry delay, and being due, from the time  *)
(* the statement is applied, since nothing depends on that difference.     *)
(*                                                                         *)
(* Left out: signatures and bodies, the request log, and the agent         *)
(* registry: a lookup may find an agent or not, and a session may close    *)
(* at any time (AgentSessions says when).                                  *)
(***************************************************************************)
EXTENDS Integers, FiniteSets

CONSTANTS
    Events,             \* ids of line_webhook_events rows
    Streams,            \* slots for managed streams in flight, reused
    None,               \* no event, no stream
    MaxRetries,         \* LINE_WEBHOOK_MAX_RETRIES
    BatchSize,          \* LINE_WEBHOOK_PROCESS_BATCH_SIZE
    StreamTicks,        \* AGENTJ_STREAM_TIMEOUT_MS
    LeaseTicks,         \* LINE_WEBHOOK_DISPATCH_LEASE_MS
    RetryTicks,         \* delay after the n-th attempt
    MaxAnswers,         \* bound: response messages of one stream that re-arm it
    MaxFinalizers,      \* bound: calls of finalizeStream at once, per stream
    MaxFailures,        \* bound: failing statements
    MaxRestarts         \* bound: restarts of the gateway

ASSUME WebhookAssumption ==
    /\ IsFiniteSet(Events) /\ None \notin Events \cup Streams
    /\ MaxRetries \in Nat \ {0} /\ BatchSize \in Nat \ {0}
    /\ StreamTicks \in Nat /\ LeaseTicks \in Nat /\ LeaseTicks > StreamTicks
    /\ RetryTicks \in [1 .. MaxRetries -> Nat]
    /\ MaxAnswers \in Nat /\ MaxFinalizers \in Nat \ {0}
    /\ MaxFailures \in Nat /\ MaxRestarts \in Nat

VARIABLES
    row,                \* the event's row
    createdAt,          \* its createdAt, as a rank; 0 before it is inserted
    isProcessing,       \* isProcessingLineWebhookEvents
    at,                 \* the await at which the poller's run is suspended
    batch,              \* events of the batch the loop has not come to yet
    snapshot,           \* event.attempts as the batch was selected
    current,            \* the event in processSingleLineWebhookEvent
    claimAge,           \* time since its claim was issued (up to LeaseTicks)
    stream,             \* its stream in startBufferedHttpIngress
    awaited,            \* the finalizer failStream is awaited for
    streams,            \* the managed entries of the map `streams`
    finalizers,         \* finalizeStream calls suspended on the database
    failures, restarts, \* bounded environment
    claims,             \* history: claims of the event (up to MaxRetries)
    overlapped,         \* history: taken up while an earlier dispatch ran
    twice,              \* history: events with a stream finalized twice at once
    early,              \* history: events whose stream ended while still sending
    rearmed,            \* history: events whose stream's timer was re-armed
    late                \* history: ticks outside the stream timer (up to Slack)

poller  == <<isProcessing, at, batch, snapshot, current, claimAge, stream, awaited>>
bounded == <<failures, restarts>>
causes  == <<overlapped, twice, early, rearmed, late>>
history == <<claims, causes>>
vars == <<row, createdAt, poller, streams, finalizers, bounded, history>>

(* Where processPendingLineWebhookEvents and the calls it awaits wait.     *)
Locations ==
    {"idle",      \* not running
     "select",    \* the query for due events
     "claim",     \* claimLineWebhookEventForDispatch
     "lookup",    \* the queries for channel and tunnel
     "insert",    \* startBufferedHttpIngress: INSERT of the request row
     "start", "chunk", "persist", "end",   \* its sends and persistChunk
     "failing",   \* its failStream
     "retry"}     \* markLineWebhookEventRetry

(* A row is absent ("none") before its INSERT and after a cascade.  `wait` *)
(* is the time until nextRetryAt; null and a past time are both 0.         *)
Statuses == {"none", "pending", "delivered", "failed"}
Row == [status : Statuses, attempts : Nat, wait : Nat]

(* A managed StreamState; event = None when the slot is not in the map.    *)
(* timer is the time left, Off when there is no live timer.                *)
Off == -1
Stream == [event    : Events \cup {None},
           timer    : Nat \cup {Off},
           upstream : {"null", "2xx", "other"},
           told     : BOOLEAN,
           answers  : Nat]
Free == [event |-> None, timer |-> Off, upstream |-> "null",
         told |-> FALSE, answers |-> 0]

Finalizer == [stream : Streams, id : Nat, event : Events, delivered : BOOLEAN,
              at : {"update", "deliver", "read", "write"}, attempts : Nat]

Slack == LeaseTicks - StreamTicks

TypeOK ==
    /\ row \in [Events -> Row]
    /\ createdAt \in [Events -> Nat]
    /\ isProcessing \in BOOLEAN
    /\ at \in Locations
    /\ batch \in SUBSET Events
    /\ snapshot \in [Events -> Nat]
    /\ current \in Events \cup {None}
    /\ claimAge \in Nat
    /\ stream \in Streams \cup {None}
    /\ awaited \in Nat
    /\ streams \in [Streams -> Stream]
    /\ finalizers \in SUBSET Finalizer
    /\ failures \in Nat /\ restarts \in Nat
    /\ claims \in [Events -> Nat]
    /\ overlapped \in SUBSET Events /\ twice \in SUBSET Events
    /\ early \in SUBSET Events /\ rearmed \in SUBSET Events
    /\ late \in [Events -> Nat]

Idle ==
    /\ isProcessing = FALSE /\ at = "idle" /\ batch = {}
    /\ snapshot = [e \in Events |-> 0]
    /\ current = None /\ claimAge = 0 /\ stream = None /\ awaited = 0

Init ==
    /\ row = [e \in Events |-> [status |-> "none", attempts |-> 0, wait |-> 0]]
    /\ createdAt = [e \in Events |-> 0]
    /\ Idle
    /\ streams = [s \in Streams |-> Free]
    /\ finalizers = {}
    /\ failures = 0 /\ restarts = 0
    /\ claims = [e \in Events |-> 0]
    /\ overlapped = {} /\ twice = {} /\ early = {} /\ rearmed = {}
    /\ late = [e \in Events |-> 0]

-----------------------------------------------------------------------------
(* Rows.                                                                   *)

Exists(e) == row[e].status # "none"
Pending(e) == row[e].status = "pending"
Due(e) == Pending(e) /\ row[e].wait = 0
Open(s) == streams[s].event # None

(* The event has a stream in the map or a finalizer of one is running.     *)
InFlight(e) == \/ \E s \in Streams : streams[s].event = e
               \/ \E f \in finalizers : f.event = e

(* A statement may fail; the bound keeps the failures finite.              *)
DatabaseFails == failures < MaxFailures /\ failures' = failures + 1

(* INSERT of a verified webhook.  The unique index on the channel and the  *)
(* webhook's id makes a repeated delivery by LINE a no-op (23505).         *)
Enqueue(e) ==
    /\ createdAt[e] = 0
    /\ createdAt' = [createdAt EXCEPT ![e] =
                       Cardinality({x \in Events : createdAt[x] # 0}) + 1]
    /\ row' = [row EXCEPT ![e] = [status |-> "pending", attempts |-> 0, wait |-> 0]]
    /\ UNCHANGED <<poller, streams, finalizers, bounded, history>>

(* The tunnel or its channel is deleted: ON DELETE CASCADE.                *)
Cascade(e) ==
    /\ Exists(e)
    /\ row' = [row EXCEPT ![e] = [status |-> "none", attempts |-> 0, wait |-> 0]]
    /\ UNCHANGED <<createdAt, poller, streams, finalizers, bounded, history>>

(* Mutant: the limit is tested before the attempt is counted.              *)
MarkRetry_OneMore(e, n) ==
    IF ~Exists(e) THEN row
    ELSE [row EXCEPT ![e] =
            IF n >= MaxRetries
            THEN [status |-> "failed", attempts |-> n + 1, wait |-> 0]
            ELSE [status |-> "pending", attempts |-> n + 1,
                  wait |-> RetryTicks[n + 1]]]

(* Mutant: attempts is taken for the number of attempts that are left.     *)
MarkRetry_CountsDown(e, n) ==
    IF ~Exists(e) THEN row
    ELSE [row EXCEPT ![e] =
            IF n + 1 >= MaxRetries
            THEN [status |-> "failed", attempts |-> n - 1, wait |-> 0]
            ELSE [status |-> "pending", attempts |-> n - 1,
                  wait |-> RetryTicks[n + 1]]]

(* markLineWebhookEventRetry, where event.attempts is n: the UPDATE names  *)
(* the id alone, whatever the row's status is by now.                      *)
MarkRetry(e, n) ==
    IF ~Exists(e) THEN row
    ELSE [row EXCEPT ![e] =
            IF n + 1 >= MaxRetries
            THEN [status |-> "failed", attempts |-> n + 1, wait |-> 0]
            ELSE [status |-> "pending", attempts |-> n + 1,
                  wait |-> RetryTicks[n + 1]]]

(* markLineWebhookEventDelivered.                                          *)
MarkDelivered(e) ==
    IF ~Exists(e) THEN row
    ELSE [row EXCEPT ![e] = [@ EXCEPT !.status = "delivered", !.wait = 0]]

-----------------------------------------------------------------------------
(* The poller.                                                             *)

(* The loop ends, or an exception leaves it: the finally block.            *)
LeaveLoop ==
    /\ isProcessing' = FALSE /\ at' = "idle" /\ batch' = {}
    /\ snapshot' = [e \in Events |-> 0]
    /\ current' = None /\ claimAge' = 0 /\ stream' = None /\ awaited' = 0

(* The loop takes the oldest event of B.                                   *)
Take(B) ==
    \E e \in B :
        /\ \A x \in B : createdAt[e] <= createdAt[x]
        /\ current' = e
        /\ batch' = B \ {e}
        /\ at' = "claim" /\ claimAge' = 0 /\ stream' = None /\ awaited' = 0

(* `for (const event of pending)`: on to the next event of the batch.      *)
NextEvent ==
    IF batch = {} THEN LeaveLoop
                  ELSE Take(batch) /\ UNCHANGED <<isProcessing, snapshot>>

Goto(l) ==
    /\ at' = l
    /\ UNCHANGED <<isProcessing, batch, snapshot, current, claimAge, stream, awaited>>

(* The interval timer; a tick that finds the flag set returns at once.     *)
Poll ==
    /\ ~isProcessing
    /\ isProcessing' = TRUE
    /\ at' = "select"
    /\ UNCHANGED <<batch, snapshot, current, claimAge, stream, awaited, row,
                   createdAt, streams, finalizers, bounded, history>>

(* The due events, oldest first, at most a batch of them.                  *)
DueBatch ==
    LET due == {e \in Events : Due(e)}
    IN  {e \in due :
           Cardinality({x \in due : createdAt[x] < createdAt[e]}) < BatchSize}

Select ==
    /\ at = "select"
    /\ LET due == DueBatch
       IN  IF due = {}
           THEN LeaveLoop /\ UNCHANGED overlapped
           ELSE /\ snapshot' = [e \in Events |->
                                  IF e \in due THEN row[e].attempts ELSE 0]
                /\ Take(due)
                /\ overlapped' = overlapped \cup {e \in due : InFlight(e)}
                /\ UNCHANGED isProcessing
    /\ UNCHANGED <<row, createdAt, streams, finalizers, bounded,
                   claims, twice, early, rearmed, late>>

(* Mutant: the lease is no longer than the stream timeout.                 *)
Claim_ShortLease ==
    /\ at = "claim" /\ Due(current)
    /\ row' = [row EXCEPT ![current].wait =
                 IF claimAge < StreamTicks THEN StreamTicks - claimAge ELSE 0]
    /\ claims' = [claims EXCEPT ![current] = IF @ < MaxRetries THEN @ + 1 ELSE @]
    /\ overlapped' = IF InFlight(current) THEN overlapped \cup {current}
                                          ELSE overlapped
    /\ at' = "lookup" /\ claimAge' = 0
    /\ UNCHANGED <<isProcessing, batch, snapshot, current, stream, awaited,
                   createdAt, streams, finalizers, bounded,
                   twice, early, rearmed, late>>

(* claimLineWebhookEventForDispatch: one conditional UPDATE.               *)
Claim ==
    /\ at = "claim" /\ Due(current)
    /\ row' = [row EXCEPT ![current].wait =
                 IF claimAge < LeaseTicks THEN LeaseTicks - claimAge ELSE 0]
    /\ claims' = [claims EXCEPT ![current] = IF @ < MaxRetries THEN @ + 1 ELSE @]
    /\ overlapped' = IF InFlight(current) THEN overlapped \cup {current}
                                          ELSE overlapped
    /\ at' = "lookup" /\ claimAge' = 0
    /\ UNCHANGED <<isProcessing, batch, snapshot, current, stream, awaited,
                   createdAt, streams, finalizers, bounded,
                   twice, early, rearmed, late>>

ClaimRefused ==
    /\ at = "claim" /\ ~Due(current)
    /\ NextEvent
    /\ UNCHANGED <<row, createdAt, streams, finalizers, bounded, history>>

(* Channel or tunnel not found: both references cascade, so the row is     *)
(* gone too and the UPDATE to 'failed' touches nothing.                    *)
LookupMissing ==
    /\ at = "lookup" /\ ~Exists(current)
    /\ NextEvent
    /\ UNCHANGED <<row, createdAt, streams, finalizers, bounded, history>>

(* No agent, or reserveStreamCapacity refuses.                             *)
NoAgentOrBusy ==
    /\ at = "lookup" /\ Exists(current)
    /\ Goto("retry")
    /\ UNCHANGED <<row, createdAt, streams, finalizers, bounded, history>>

(* startBufferedHttpIngress up to the INSERT of the request row.           *)
StartStream(s) ==
    /\ at = "lookup" /\ Exists(current)
    /\ ~Open(s) /\ \A f \in finalizers : f.stream # s
    /\ streams' = [streams EXCEPT ![s] =
                     [Free EXCEPT !.event = current, !.timer = StreamTicks]]
    /\ stream' = s
    /\ at' = "insert"
    /\ UNCHANGED <<isProcessing, batch, snapshot, current, claimAge, awaited,
                   row, createdAt, finalizers, bounded, history>>

(* Mutant: no finally block, the flag stays set.                           *)
Throws_KeepsFlag ==
    /\ at \in {"select", "claim", "lookup", "retry", "persist"}
    /\ DatabaseFails
    /\ at' = "idle" /\ batch' = {} /\ snapshot' = [e \in Events |-> 0]
    /\ current' = None /\ claimAge' = 0 /\ stream' = None /\ awaited' = 0
    /\ UNCHANGED <<isProcessing, row, createdAt, streams, finalizers, restarts,
                   history>>

(* An await outside a try block rejects: the exception ends the batch.     *)
Throws ==
    /\ at \in {"select", "claim", "lookup", "retry", "persist"}
    /\ DatabaseFails
    /\ LeaveLoop
    /\ UNCHANGED <<row, createdAt, streams, finalizers, restarts, history>>

(* Mutants: a dispatch that did not start puts the event back as if new;   *)
(* or delays it without counting the attempt.                              *)
RetrySelected_PutsBack ==
    /\ at = "retry"
    /\ row' = IF ~Exists(current) THEN row
              ELSE [row EXCEPT ![current] =
                      [status |-> "pending", attempts |-> 0, wait |-> 1]]
    /\ NextEvent
    /\ UNCHANGED <<createdAt, streams, finalizers, bounded, history>>

RetrySelected_NotCounted ==
    /\ at = "retry"
    /\ row' = IF ~Pending(current) THEN row
              ELSE [row EXCEPT ![current].wait = 1]
    /\ NextEvent
    /\ UNCHANGED <<createdAt, streams, finalizers, bounded, history>>

(* markLineWebhookEventRetry with the event as it was selected.            *)
RetrySelected ==
    /\ at = "retry"
    /\ row' = MarkRetry(current, snapshot[current])
    /\ NextEvent
    /\ UNCHANGED <<createdAt, streams, finalizers, bounded, history>>

-----------------------------------------------------------------------------
(* Streams and their finalizers.                                           *)

FinalizersOf(s) == {f \in finalizers : f.stream = s}

(* finalizeStream up to its first await: the timer is cleared, the outcome *)
(* is decided from the status the agent has sent so far.                   *)
Finalize(s, id, delivered) ==
    /\ Open(s)
    /\ \A f \in FinalizersOf(s) : f.id # id
    /\ \A n \in 1 .. (id - 1) : \E f \in FinalizersOf(s) : f.id = n
    /\ finalizers' = finalizers \cup
         {[stream |-> s, id |-> id, event |-> streams[s].event,
           delivered |-> delivered, at |-> "update", attempts |-> 0]}
    /\ streams' = [streams EXCEPT ![s].timer = Off]
    /\ twice' = IF FinalizersOf(s) # {} THEN twice \cup {streams[s].event}
                                        ELSE twice

(* The same from an event: the poller may still be sending the request.    *)
FinalizeByEvent(s, delivered) ==
    /\ \E id \in 1 .. MaxFinalizers : Finalize(s, id, delivered)
    /\ early' = IF stream = s THEN early \cup {streams[s].event} ELSE early
    /\ UNCHANGED <<row, createdAt, poller, bounded,
                   claims, overlapped, rearmed, late>>

(* onAgentResponseStart, onAgentResponseChunk: both re-arm the timer.      *)
Rearm(s, upstream) ==
    /\ Open(s) /\ streams[s].told /\ streams[s].answers < MaxAnswers
    /\ streams' = [streams EXCEPT ![s] =
                     [streams[s] EXCEPT !.timer = StreamTicks,
                                        !.upstream = upstream,
                                        !.answers = streams[s].answers + 1]]
    /\ rearmed' = rearmed \cup {streams[s].event}
    /\ UNCHANGED <<row, createdAt, poller, finalizers, bounded,
                   claims, overlapped, twice, early, late>>

OnAgentResponseStart(s) == \E status \in {"2xx", "other"} : Rearm(s, status)
OnAgentResponseChunk(s) == Rearm(s, streams[s].upstream)

(* Mutant: any answer of the agent counts as a delivery.                   *)
OnAgentResponseEnd_AnyStatus(s) ==
    streams[s].told /\ FinalizeByEvent(s, streams[s].upstream # "null")

(* finalizeStream(streamId, null, null): the upstream status decides.      *)
OnAgentResponseEnd(s) ==
    streams[s].told /\ FinalizeByEvent(s, streams[s].upstream = "2xx")

OnStreamError(s) == streams[s].told /\ FinalizeByEvent(s, FALSE)

(* failActiveStreamsForSession for the session of the stream.              *)
SessionCloses(s) == FinalizeByEvent(s, FALSE)

StreamTimeout(s) == streams[s].timer = 0 /\ FinalizeByEvent(s, FALSE)

(* A step of startBufferedHttpIngress fails: failStream is awaited, which  *)
(* returns at once when the stream has left the map; then null is returned *)
(* and the event is to be retried.                                         *)
IngressFails ==
    IF Open(stream)
    THEN /\ \E id \in 1 .. MaxFinalizers :
              Finalize(stream, id, FALSE) /\ awaited' = id
         /\ at' = "failing"
         /\ UNCHANGED <<isProcessing, batch, snapshot, current, claimAge, stream>>
    ELSE /\ Goto("retry")
         /\ UNCHANGED <<streams, finalizers, twice>>

InsertFails ==
    /\ at = "insert"
    /\ DatabaseFails
    /\ IngressFails
    /\ UNCHANGED <<row, createdAt, restarts, claims, overlapped, early, rearmed,
                   late>>

(* sendToAgent rejects: the socket is closing or does not drain.           *)
SendFails ==
    /\ at \in {"start", "chunk", "end"}
    /\ IngressFails
    /\ UNCHANGED <<row, createdAt, bounded, claims, overlapped, early, rearmed,
                   late>>

(* The start message is handed to the socket when the INSERT is done: the  *)
(* agent may answer before the send resolves.                              *)
InsertOk ==
    /\ at = "insert"
    /\ Goto("start")
    /\ streams' = IF Open(stream) THEN [streams EXCEPT ![stream].told = TRUE]
                                  ELSE streams
    /\ UNCHANGED <<row, createdAt, finalizers, bounded, history>>

(* The await resolves; a body that is not empty is sent and persisted.     *)
IngressProceeds ==
    /\ \/ at = "start" /\ Goto("chunk")
       \/ at = "start" /\ Goto("end")
       \/ at = "chunk" /\ Goto("persist")
       \/ at = "persist" /\ Goto("end")
       \/ at = "end" /\ NextEvent
    /\ UNCHANGED <<row, createdAt, streams, finalizers, bounded, history>>

(* The UPDATE of the request row resolves, or fails and is logged.         *)
RequestUpdated(f) ==
    /\ f.at = "update"
    /\ finalizers' = (finalizers \ {f}) \cup
         {[f EXCEPT !.at = IF f.delivered THEN "deliver" ELSE "read"]}
    /\ UNCHANGED <<row, createdAt, poller, streams, bounded, history>>

(* The end of finalizeStream; startBufferedHttpIngress may wait for it.    *)
FinalizerReturns(f) ==
    /\ finalizers' = finalizers \ {f}
    /\ streams' = [streams EXCEPT ![f.stream] = Free]
    /\ IF at = "failing" /\ stream = f.stream /\ awaited = f.id
       THEN /\ at' = "retry" /\ awaited' = 0
            /\ UNCHANGED <<isProcessing, batch, snapshot, current, claimAge, stream>>
       ELSE UNCHANGED poller
    /\ UNCHANGED <<createdAt, restarts, history>>

Delivers(f) ==
    /\ f.at = "deliver"
    /\ row' = MarkDelivered(f.event)
    /\ FinalizerReturns(f) /\ UNCHANGED failures

(* markLineWebhookEventRetryById: a read, then the UPDATE.                 *)
ReadsPending(f) ==
    /\ f.at = "read" /\ Pending(f.event)
    /\ finalizers' = (finalizers \ {f}) \cup
         {[f EXCEPT !.at = "write", !.attempts = row[f.event].attempts]}
    /\ UNCHANGED <<row, createdAt, poller, streams, bounded, history>>

ReadsSettled(f) ==
    /\ f.at = "read" /\ ~Pending(f.event)
    /\ FinalizerReturns(f) /\ UNCHANGED <<row, failures>>

Retries(f) ==
    /\ f.at = "write"
    /\ row' = MarkRetry(f.event, f.attempts)
    /\ FinalizerReturns(f) /\ UNCHANGED failures

(* A statement on the event fails and is logged.                           *)
MarkFails(f) ==
    /\ f.at # "update"
    /\ DatabaseFails
    /\ FinalizerReturns(f) /\ UNCHANGED row

-----------------------------------------------------------------------------
(* Time and restarts.                                                      *)

(* The event waits for something that no stream timer limits.              *)
Untimed(e) == \/ at \in {"claim", "lookup"} /\ current = e
              \/ \E f \in finalizers : f.event = e

(* The clock that setTimeout and the comparisons of next_retry_at with the *)
(* time of day refer to.                                                   *)
Tick ==
    /\ \A s \in Streams : streams[s].timer # 0
    /\ \/ \E e \in Events : row[e].wait > 0
       \/ \E s \in Streams : streams[s].timer # Off
       \/ at = "claim" /\ claimAge < LeaseTicks
    /\ row' = [e \in Events |->
                 [row[e] EXCEPT !.wait = IF @ > 0 THEN @ - 1 ELSE 0]]
    /\ streams' = [s \in Streams |->
                     [streams[s] EXCEPT !.timer = IF @ = Off THEN Off ELSE @ - 1]]
    /\ late' = [e \in Events |-> IF Untimed(e) /\ late[e] < Slack
                                 THEN late[e] + 1 ELSE late[e]]
    /\ claimAge' = IF at = "claim" /\ claimAge < LeaseTicks THEN claimAge + 1
                                                            ELSE claimAge
    /\ UNCHANGED <<isProcessing, at, batch, snapshot, current, stream, awaited,
                   createdAt, finalizers, bounded,
                   claims, overlapped, twice, early, rearmed>>

(* The process ends and starts: only the rows are left.                    *)
GatewayRestart ==
    /\ restarts < MaxRestarts
    /\ restarts' = restarts + 1
    /\ LeaveLoop
    /\ streams' = [s \in Streams |-> Free]
    /\ finalizers' = {}
    /\ UNCHANGED <<row, createdAt, failures, history>>

PollerStep ==
    \/ Poll \/ Select \/ Claim \/ ClaimRefused \/ LookupMissing \/ NoAgentOrBusy
    \/ RetrySelected \/ InsertOk \/ IngressProceeds
PollerFails == Throws \/ InsertFails \/ SendFails
StreamEvent(s) ==
    \/ StartStream(s) \/ OnAgentResponseStart(s) \/ OnAgentResponseChunk(s)
    \/ OnAgentResponseEnd(s) \/ OnStreamError(s) \/ SessionCloses(s)
FinalizerStep(f) ==
    RequestUpdated(f) \/ Delivers(f) \/ ReadsPending(f) \/ ReadsSettled(f) \/ Retries(f)

Next ==
    \/ \E e \in Events : Enqueue(e) \/ Cascade(e)
    \/ PollerStep \/ PollerFails
    \/ \E s \in Streams : StreamEvent(s) \/ StreamTimeout(s)
    \/ \E f \in finalizers : FinalizerStep(f) \/ MarkFails(f)
    \/ Tick
    \/ GatewayRestart

Spec == Init /\ [][Next]_vars

(* Queries answer, queued sends settle, timers fire and time goes on.      *)
(* Nothing is assumed of the agent, except that MaxAnswers bounds how      *)
(* often it re-arms the timer of one stream: one that answered for ever    *)
(* would keep its event pending.                                           *)
Fairness ==
    /\ WF_vars(PollerStep)
    /\ \A s \in Streams : WF_vars(StreamTimeout(s))
    /\ WF_vars(\E f \in finalizers : FinalizerStep(f))
    /\ WF_vars(Tick)

FairSpec == Spec /\ Fairness

-----------------------------------------------------------------------------
(* Properties.                                                             *)

(* An event is not taken up again while an earlier dispatch of it is under *)
(* way, unless the agent's answer re-armed the stream's timer, the stream  *)
(* was finalized twice at once (the first finalizer replaces the lease by  *)
(* a retry delay), or the queries before and after the stream took longer  *)
(* than LINE_WEBHOOK_DISPATCH_LEASE_MS exceeds the stream timeout.         *)
LeasePreventsOverlap ==
    \A e \in overlapped : e \in rearmed \cup twice \/ late[e] >= Slack

(* An event is given up only after MaxRetries claims of it, unless one of  *)
(* its streams was finalized twice at once: each of the two finalizers     *)
(* counts an attempt (markLineWebhookEventRetryById).                      *)
GivenUpAfterAllRetries ==
    \A e \in Events :
        row[e].status = "failed" => e \in twice \/ claims[e] >= MaxRetries

(* The count of attempts is exact at the limit: a pending event has some   *)
(* left and a failed one has used them all, whatever mix of snapshots and  *)
(* finalizers wrote the row.                                               *)
AttemptsWithinLimit ==
    \A e \in Events :
        /\ Pending(e) => row[e].attempts < MaxRetries
        /\ row[e].status = "failed" => row[e].attempts = MaxRetries

(* A delivered or failed event is not reopened, unless two parties had     *)
(* work on it: an overlapping dispatch, two finalizers of one stream, or a *)
(* stream that ended before its request was sent out.                      *)
SettledStaysSettled ==
    [][\A e \in Events :
         row[e].status \in {"delivered", "failed"} /\ row'[e].status = "pending"
           => e \in overlapped \cup twice \cup early]_vars

(* The queue keeps the contract of WebhookContract: an event is recorded   *)
(* as delivered only after the agent has answered a dispatch of it with    *)
(* 2xx, as failed only after enough of them, and then for good; a deleted  *)
(* one is neither dispatched nor written again.                            *)
State(e) == IF Exists(e) THEN row[e].status
            ELSE IF createdAt[e] = 0 THEN "absent" ELSE "deleted"

Answered == {e \in Events :
               \E s \in Streams : streams[s].event = e /\ streams[s].upstream = "2xx"}
Accepted == {e \in Events : \E f \in finalizers : f.event = e /\ f.delivered}

Contract == INSTANCE WebhookContract
                WITH state      <- [e \in Events |-> State(e)],
                     dispatches <- claims,
                     answered   <- Answered,
                     accepted   <- Accepted,
                     disturbed  <- overlapped \cup twice \cup early,
                     doubled    <- twice

KeepsQueueContract == Contract!Spec

(* A run of the poller ends, so that the flag is reset and the next run    *)
(* can start, whichever statement or send of the batch fails.              *)
PollerComesBack == isProcessing ~> ~isProcessing

(* Every stored event is delivered, given up or deleted, whether agents    *)
(* answer or not, once statements stop failing and the agents' messages    *)
(* that re-arm a stream's timer stop (their bounds).                       *)
EventsSettle == \A e \in Events : Pending(e) ~> ~Pending(e)
=============================================================================
