--------------------------- MODULE LineWebhookProofs ---------------------------
(***************************************************************************)
(* Theorems about LineWebhook, for any number of events and streams, any   *)
(* batch size, any timeouts with a lease longer than the stream timeout,   *)
(* and any bounds.                                                         *)
(***************************************************************************)
EXTENDS LineWebhook, FiniteSetTheorems, TLAPS

-----------------------------------------------------------------------------
(* The strengthened invariant.                                             *)

Sending == {"insert", "start", "chunk", "persist", "end", "failing"}

(* What the poller's location says of its variables.                       *)
PollerShape ==
    /\ ~isProcessing => at = "idle"
    /\ at \in {"idle", "select"} => current = None /\ batch = {}
    /\ at \notin {"idle", "select"} => current \in Events
    /\ at \in Sending => stream \in Streams

(* An event that anybody works on has been stored.                         *)
Known ==
    \A e \in Events :
        Exists(e) \/ InFlight(e) \/ current = e \/ e \in batch => createdAt[e] # 0

(* The finalizers of a slot are those of the stream in it; a stream in the *)
(* map has a live timer or a finalizer.                                    *)
SlotsMatch ==
    /\ \A f \in finalizers : Open(f.stream) => f.event = streams[f.stream].event
    /\ \A s \in Streams : Open(s) => \/ streams[s].timer # Off
                                     \/ \E f \in finalizers : f.stream = s

(* Until an event's stream is finalized twice at once, its finalizers have *)
(* their streams in the map, one finalizer each.                           *)
OneFinalizer ==
    \A e \in Events : e \notin twice =>
        /\ \A f \in finalizers : f.event = e => Open(f.stream)
        /\ \A f, g \in finalizers :
               f.event = e /\ g.stream = f.stream => f = g

(* The events the lease protects.                                          *)
Sound(e) == e \notin rearmed \cup twice /\ late[e] < Slack

(* For these, one dispatch at a time, and the lease outlasts it: what is   *)
(* left of it covers what is left of the stream timer and of the slack.    *)
OneDispatch(e) ==
    /\ \A s, t \in Streams :
           streams[s].event = e /\ streams[t].event = e => s = t
    /\ current = e /\ at \in {"lookup", "retry"} => ~InFlight(e)
    /\ current = e /\ at \in Sending =>
           \A s \in Streams : streams[s].event = e => s = stream

LeaseLeft(e) ==
    LET rest == Slack - late[e]
    IN  /\ at = "lookup" /\ current = e => row[e].wait >= StreamTicks + rest
        /\ \A s \in Streams :
               streams[s].event = e /\ streams[s].timer # Off
                 => row[e].wait >= streams[s].timer + rest
        /\ \A f \in finalizers : f.event = e => row[e].wait >= rest

LeaseHolds ==
    \A e \in Events : Sound(e) =>
        /\ e \notin overlapped
        /\ OneDispatch(e)
        /\ Pending(e) => LeaseLeft(e)

(* The time a claim waited for the database is taken from the slack.       *)
ClaimTimed ==
    at = "claim" /\ late[current] < Slack => claimAge <= late[current]

LeaseInv ==
    /\ TypeOK /\ PollerShape /\ Known /\ SlotsMatch /\ OneFinalizer
    /\ LeaseHolds /\ ClaimTimed

(* Every copy of an event's count that may be written back was read below  *)
(* the limit.                                                              *)
CountInv ==
    /\ AttemptsWithinLimit
    /\ \A e \in Events : snapshot[e] < MaxRetries
    /\ \A f \in finalizers : f.at = "write" => f.attempts < MaxRetries

-----------------------------------------------------------------------------
(* Types.                                                                  *)

(* A retry writes a row, whatever count it starts from.                    *)
LEMMA RetryTyped ==
    ASSUME TypeOK, NEW e \in Events, NEW n \in Nat
    PROVE  /\ MarkRetry(e, n) \in [Events -> Row]
           /\ \A x \in Events : x # e => MarkRetry(e, n)[x] = row[x]
<1>1. n + 1 >= MaxRetries \/ RetryTicks[n + 1] \in Nat
  BY WebhookAssumption
<1> QED  BY <1>1 DEF TypeOK, MarkRetry, Row, Statuses

LEMMA DeliveredTyped ==
    ASSUME TypeOK, NEW e \in Events
    PROVE  /\ MarkDelivered(e) \in [Events -> Row]
           /\ \A x \in Events : x # e => MarkDelivered(e)[x] = row[x]
BY DEF TypeOK, MarkDelivered, Row, Statuses

(* The types of the poller's variables.                                    *)
PollerTypes ==
    /\ isProcessing \in BOOLEAN /\ at \in Locations
    /\ batch \in SUBSET Events /\ snapshot \in [Events -> Nat]
    /\ current \in Events \cup {None} /\ claimAge \in Nat
    /\ stream \in Streams \cup {None} /\ awaited \in Nat

(* Whatever ends an event or moves the poller keeps its types.             *)
LEMMA LeaveTyped ==
    ASSUME LeaveLoop
    PROVE  PollerTypes'
<1>1. isProcessing' \in BOOLEAN
  BY Zenon DEF LeaveLoop
<1>2. snapshot' \in [Events -> Nat]
  BY DEF LeaveLoop
<1> QED  BY <1>1, <1>2 DEF LeaveLoop, PollerTypes, Locations

LEMMA TakeTyped ==
    ASSUME TypeOK, NEW B \in SUBSET Events, Take(B),
           isProcessing' \in BOOLEAN, snapshot' \in [Events -> Nat]
    PROVE  PollerTypes'
BY DEF TypeOK, Take, PollerTypes, Locations

LEMMA NextEventTyped ==
    TypeOK /\ NextEvent => PollerTypes'
BY LeaveTyped, TakeTyped DEF TypeOK, NextEvent

LEMMA GotoTyped ==
    ASSUME TypeOK, NEW l \in Locations, Goto(l)
    PROVE  PollerTypes'
BY DEF TypeOK, Goto, PollerTypes

(* A new finalizer has its type and its stream stays one.                  *)
LEMMA FinalizeTyped ==
    ASSUME TypeOK, NEW s \in Streams, NEW id \in Nat, NEW d \in BOOLEAN,
           Finalize(s, id, d)
    PROVE  /\ streams' \in [Streams -> Stream]
           /\ finalizers' \in SUBSET Finalizer
           /\ twice' \in SUBSET Events
<1>1. streams[s] \in Stream /\ streams[s].event \in Events
  BY DEF TypeOK, Finalize, Open, Stream
<1>2. [streams[s] EXCEPT !.timer = Off] \in Stream
  BY <1>1 DEF Stream
<1>3. streams' \in [Streams -> Stream]
  BY <1>2 DEF TypeOK, Finalize
<1>4. [stream |-> s, id |-> id, event |-> streams[s].event,
       delivered |-> d, at |-> "update", attempts |-> 0] \in Finalizer
  BY <1>1 DEF Finalizer
<1> QED  BY <1>1, <1>3, <1>4 DEF TypeOK, Finalize

LEMMA FreeTyped == Free \in Stream
BY DEF Free, Stream, Off

LEMMA FinalizerReturnsTyped ==
    ASSUME TypeOK, NEW f \in finalizers, FinalizerReturns(f)
    PROVE  /\ streams' \in [Streams -> Stream]
           /\ finalizers' \in SUBSET Finalizer
           /\ PollerTypes'
<1>1. f \in Finalizer
  BY DEF TypeOK
<1>2. streams' \in [Streams -> Stream] /\ finalizers' \in SUBSET Finalizer
  BY <1>1, FreeTyped DEF TypeOK, FinalizerReturns
<1>3. PollerTypes'
  BY DEF TypeOK, FinalizerReturns, PollerTypes, poller, Locations
<1> QED  BY <1>2, <1>3

(* Every action keeps the types.                                           *)
LEMMA TypeStep ==
    ASSUME TypeOK, PollerShape, [Next]_vars
    PROVE  TypeOK'
<1>1. ASSUME NEW e \in Events, Enqueue(e)
      PROVE  TypeOK'
  <2>1. Cardinality({x \in Events : createdAt[x] # 0}) \in Nat
    BY WebhookAssumption, FS_Subset, FS_CardinalityType
  <2> QED  BY <1>1, <2>1
           DEF TypeOK, Enqueue, poller, bounded, history, causes, Row, Statuses
<1>2. ASSUME NEW e \in Events, Cascade(e)
      PROVE  TypeOK'
  BY <1>2 DEF TypeOK, Cascade, poller, bounded, history, causes, Row, Statuses
<1>3. CASE Poll
  <2>1. isProcessing' \in BOOLEAN
    BY <1>3, Zenon DEF Poll
  <2> QED  BY <1>3, <2>1 DEF TypeOK, Poll, bounded, history, causes, Locations
<1>4. CASE Select
  <2>1. CASE DueBatch = {}
    BY <1>4, <2>1, LeaveTyped
    DEF TypeOK, Select, bounded, PollerTypes
  <2>2. CASE DueBatch # {}
    <3>1. DueBatch \in SUBSET Events
      BY DEF DueBatch
    <3>2. snapshot' \in [Events -> Nat] /\ isProcessing' \in BOOLEAN
      BY <1>4, <2>2 DEF TypeOK, Select, Row
    <3>3. Take(DueBatch)
      BY <1>4, <2>2 DEF Select
    <3>4. PollerTypes'
      BY <3>1, <3>2, <3>3, TakeTyped
    <3> QED  BY <1>4, <2>2, <3>1, <3>4 DEF TypeOK, Select, bounded, PollerTypes
  <2> QED  BY <2>1, <2>2
<1>5. CASE Claim
  <2>1. current \in Events /\ row[current] \in Row
    BY <1>5 DEF TypeOK, PollerShape, Claim
  <2>2. PollerTypes'
    BY <1>5 DEF TypeOK, Claim, PollerTypes, Locations
  <2>3. [row[current] EXCEPT !.wait =
           IF claimAge < LeaseTicks THEN LeaseTicks - claimAge ELSE 0] \in Row
    <3>1. (IF claimAge < LeaseTicks THEN LeaseTicks - claimAge ELSE 0) \in Nat
      BY WebhookAssumption DEF TypeOK
    <3> QED  BY <2>1, <3>1 DEF Row
  <2>4. row' \in [Events -> Row]
    BY <1>5, <2>1, <2>3 DEF TypeOK, Claim
  <2>5. claims' \in [Events -> Nat]
    BY <1>5, <2>1 DEF TypeOK, Claim
  <2>6. overlapped' \in SUBSET Events
    BY <1>5, <2>1 DEF TypeOK, Claim
  <2> QED  BY <1>5, <2>2, <2>4, <2>5, <2>6
           DEF TypeOK, Claim, bounded, PollerTypes
<1>6. CASE ClaimRefused \/ LookupMissing
  <2>1. PollerTypes'
    BY <1>6, NextEventTyped DEF ClaimRefused, LookupMissing
  <2> QED  BY <1>6, <2>1
           DEF TypeOK, ClaimRefused, LookupMissing, bounded, history, causes,
               PollerTypes
<1>7. CASE NoAgentOrBusy
  BY <1>7, GotoTyped
  DEF TypeOK, NoAgentOrBusy, bounded, history, causes, PollerTypes, Locations
<1>8. ASSUME NEW s \in Streams, StartStream(s)
      PROVE  TypeOK'
  <2>1. current \in Events
    BY <1>8 DEF PollerShape, StartStream
  <2>2. [Free EXCEPT !.event = current, !.timer = StreamTicks] \in Stream
    BY <2>1, WebhookAssumption DEF Free, Stream, Off
  <2> QED  BY <1>8, <2>1, <2>2
           DEF TypeOK, StartStream, bounded, history, causes, Locations
<1>9. CASE Throws
  BY <1>9, LeaveTyped
  DEF TypeOK, Throws, DatabaseFails, history, causes, PollerTypes
<1>10. CASE RetrySelected
  <2>1. current \in Events /\ snapshot[current] \in Nat
    BY <1>10 DEF TypeOK, PollerShape, RetrySelected
  <2>2. row' \in [Events -> Row] /\ PollerTypes'
    BY <1>10, <2>1, RetryTyped, NextEventTyped DEF RetrySelected
  <2> QED  BY <1>10, <2>2
           DEF TypeOK, RetrySelected, bounded, history, causes, PollerTypes
<1>11. ASSUME NEW s \in Streams, NEW d \in BOOLEAN, FinalizeByEvent(s, d)
       PROVE  TypeOK'
  <2>1. streams' \in [Streams -> Stream] /\ finalizers' \in SUBSET Finalizer
        /\ twice' \in SUBSET Events
    BY <1>11, FinalizeTyped, WebhookAssumption DEF FinalizeByEvent
  <2>2. early' \in SUBSET Events
    BY <1>11 DEF TypeOK, FinalizeByEvent, Finalize, Open, Stream
  <2> QED  BY <1>11, <2>1, <2>2
           DEF TypeOK, FinalizeByEvent, poller, bounded
<1>12. ASSUME NEW s \in Streams, NEW u \in {"null", "2xx", "other"}, Rearm(s, u)
       PROVE  TypeOK'
  <2>1. streams[s] \in Stream /\ streams[s].event \in Events
    BY <1>12 DEF TypeOK, Rearm, Open, Stream
  <2>2. streams[s].answers + 1 \in Nat /\ StreamTicks \in Nat
    BY <2>1, WebhookAssumption DEF Stream
  <2>3. [streams[s] EXCEPT !.timer = StreamTicks, !.upstream = u,
                           !.answers = streams[s].answers + 1] \in Stream
    BY <2>1, <2>2 DEF Stream
  <2>4. streams' = [streams EXCEPT ![s] =
            [streams[s] EXCEPT !.timer = StreamTicks, !.upstream = u,
                               !.answers = streams[s].answers + 1]]
    BY <1>12 DEF Rearm
  <2>5. streams' \in [Streams -> Stream]
    BY <2>3, <2>4 DEF TypeOK
  <2> QED  BY <1>12, <2>1, <2>5 DEF TypeOK, Rearm, poller, bounded
<1>13. ASSUME NEW s \in Streams,
              OnAgentResponseStart(s) \/ OnAgentResponseChunk(s)
       PROVE  TypeOK'
  <2>1. streams[s].upstream \in {"null", "2xx", "other"}
    BY DEF TypeOK, Stream
  <2> QED  BY <1>12, <1>13, <2>1 DEF OnAgentResponseStart, OnAgentResponseChunk
<1>14. ASSUME NEW s \in Streams,
              \/ OnAgentResponseEnd(s) \/ OnStreamError(s)
              \/ SessionCloses(s) \/ StreamTimeout(s)
       PROVE  TypeOK'
  BY <1>11, <1>14
  DEF OnAgentResponseEnd, OnStreamError, SessionCloses, StreamTimeout
<1>15. CASE InsertFails \/ SendFails
  <2>1. stream \in Streams
    BY <1>15 DEF PollerShape, Sending, InsertFails, SendFails
  <2>2. IngressFails
    BY <1>15 DEF InsertFails, SendFails
  <2>3. /\ streams' \in [Streams -> Stream] /\ finalizers' \in SUBSET Finalizer
        /\ twice' \in SUBSET Events
    <3>1. CASE Open(stream)
      <4>1. PICK id \in 1 .. MaxFinalizers : Finalize(stream, id, FALSE)
        BY <2>2, <3>1 DEF IngressFails
      <4>2. id \in Nat
        BY WebhookAssumption
      <4>3. FALSE \in BOOLEAN
        OBVIOUS
      <4> QED  BY <2>1, <4>1, <4>2, <4>3, FinalizeTyped, Zenon
    <3>2. CASE ~Open(stream)
      BY <2>2, <3>2 DEF TypeOK, IngressFails
    <3> QED  BY <3>1, <3>2
  <2>4. PollerTypes'
    <3>1. CASE Open(stream)
      <4>1. PICK id \in 1 .. MaxFinalizers : awaited' = id
        BY <2>2, <3>1 DEF IngressFails
      <4>2. awaited' \in Nat
        BY <4>1, WebhookAssumption
      <4> QED  BY <2>2, <3>1, <4>2
               DEF TypeOK, IngressFails, PollerTypes, Locations
    <3>2. CASE ~Open(stream)
      BY <2>2, <3>2, GotoTyped DEF IngressFails, Locations
    <3> QED  BY <3>1, <3>2
  <2> QED  BY <1>15, <2>3, <2>4
           DEF TypeOK, InsertFails, SendFails, DatabaseFails, bounded, PollerTypes
<1>16. CASE InsertOk
  <2>1. stream \in Streams
    BY <1>16 DEF PollerShape, Sending, InsertOk
  <2>2. [streams[stream] EXCEPT !.told = TRUE] \in Stream
    BY <2>1 DEF TypeOK, Stream
  <2>3. PollerTypes'
    BY <1>16, GotoTyped DEF InsertOk, Locations
  <2> QED  BY <1>16, <2>1, <2>2, <2>3
           DEF TypeOK, InsertOk, bounded, history, causes, PollerTypes
<1>17. CASE IngressProceeds
  <2>1. PollerTypes'
    BY <1>17, GotoTyped, NextEventTyped DEF IngressProceeds, Locations
  <2> QED  BY <1>17, <2>1
           DEF TypeOK, IngressProceeds, bounded, history, causes, PollerTypes
<1>18. ASSUME NEW f \in finalizers, RequestUpdated(f) \/ ReadsPending(f)
       PROVE  TypeOK'
  <2>1. f \in Finalizer /\ row[f.event].attempts \in Nat
    BY DEF TypeOK, Finalizer, Row
  <2>2. finalizers' \in SUBSET Finalizer
    <3>1. CASE RequestUpdated(f)
      BY <2>1, <3>1 DEF TypeOK, RequestUpdated, Finalizer
    <3>2. CASE ReadsPending(f)
      <4>1. [f EXCEPT !.at = "write", !.attempts = row[f.event].attempts]
              \in Finalizer
        BY <2>1 DEF Finalizer
      <4> QED  BY <3>2, <4>1 DEF TypeOK, ReadsPending
    <3> QED  BY <1>18, <3>1, <3>2
  <2> QED  BY <1>18, <2>2
           DEF TypeOK, RequestUpdated, ReadsPending, poller, bounded, history, causes
<1>19. ASSUME NEW f \in finalizers,
              \/ Delivers(f) \/ ReadsSettled(f) \/ Retries(f) \/ MarkFails(f)
       PROVE  TypeOK'
  <2>1. f.event \in Events /\ f.attempts \in Nat
    BY DEF TypeOK, Finalizer
  <2>2. row' \in [Events -> Row] /\ failures' \in Nat
    BY <1>19, <2>1, RetryTyped, DeliveredTyped
    DEF TypeOK, Delivers, ReadsSettled, Retries, MarkFails, DatabaseFails
  <2>3. FinalizerReturns(f)
    BY <1>19 DEF Delivers, ReadsSettled, Retries, MarkFails
  <2> QED  BY <2>2, <2>3, FinalizerReturnsTyped
           DEF TypeOK, FinalizerReturns, PollerTypes, history, causes
<1>20. CASE Tick
  <2>1. row' \in [Events -> Row]
    <3>1. ASSUME NEW e \in Events
          PROVE  [row[e] EXCEPT !.wait = IF row[e].wait > 0 THEN row[e].wait - 1
                                                            ELSE 0] \in Row
      <4>1. row[e] \in Row /\ row[e].wait \in Nat
        BY DEF TypeOK, Row
      <4>2. (IF row[e].wait > 0 THEN row[e].wait - 1 ELSE 0) \in Nat
        BY <4>1
      <4> QED  BY <4>1, <4>2 DEF Row
    <3> QED  BY <1>20, <3>1 DEF Tick
  <2>2. streams' \in [Streams -> Stream]
    <3>1. ASSUME NEW s \in Streams
          PROVE  [streams[s] EXCEPT !.timer = IF streams[s].timer = Off THEN Off
                                              ELSE streams[s].timer - 1] \in Stream
      <4>1. streams[s] \in Stream /\ streams[s].timer \in Nat \cup {Off}
        BY DEF TypeOK, Stream
      <4>2. streams[s].timer # 0
        BY <1>20 DEF Tick
      <4>3. (IF streams[s].timer = Off THEN Off ELSE streams[s].timer - 1)
               \in Nat \cup {Off}
        BY <4>1, <4>2
      <4> QED  BY <4>1, <4>3 DEF Stream
    <3> QED  BY <1>20, <3>1 DEF Tick
  <2>3. late' \in [Events -> Nat]
    BY <1>20 DEF TypeOK, Tick
  <2> QED  BY <1>20, <2>1, <2>2, <2>3 DEF TypeOK, Tick, poller, bounded
<1>21. CASE GatewayRestart
  BY <1>21, LeaveTyped, FreeTyped
  DEF TypeOK, GatewayRestart, history, causes, PollerTypes
<1>22. CASE UNCHANGED vars
  BY <1>22 DEF TypeOK, vars, poller, bounded, history, causes
<1> QED
  BY <1>1, <1>2, <1>3, <1>4, <1>5, <1>6, <1>7, <1>8, <1>9, <1>10, <1>13, <1>14,
     <1>15, <1>16, <1>17, <1>18, <1>19, <1>20, <1>21, <1>22
  DEF Next, PollerStep, PollerFails, StreamEvent, FinalizerStep

(* What the loop does to the poller's shape, whoever calls it.             *)
LEMMA NextEventShape ==
    ASSUME TypeOK, PollerShape, at # "idle", NextEvent
    PROVE  PollerShape' /\ at' \in {"idle", "claim"}
           /\ (current' = None \/ current' \in batch) /\ batch' \subseteq batch
<1>1. CASE batch = {}
  BY <1>1 DEF NextEvent, LeaveLoop, PollerShape, Sending
<1>2. CASE batch # {}
  <2>1. Take(batch)
    BY <1>2 DEF NextEvent
  <2>2. isProcessing /\ isProcessing' = isProcessing
    BY <1>2 DEF NextEvent, PollerShape
  <2>3. isProcessing'
    BY <2>2, Zenon
  <2> QED  BY <2>1, <2>3 DEF TypeOK, Take, PollerShape, Sending
<1> QED  BY <1>1, <1>2

(* Every action keeps the poller's shape.                                  *)
LEMMA ShapeStep ==
    ASSUME TypeOK, PollerShape, [Next]_vars
    PROVE  PollerShape'
<1>1. CASE UNCHANGED poller
  BY <1>1 DEF poller, PollerShape
<1>2. CASE Poll
  BY <1>2 DEF Poll, PollerShape, Sending, TypeOK
<1>3. CASE Select
  <2>1. CASE DueBatch = {}
    BY <1>3, <2>1 DEF Select, LeaveLoop, PollerShape, Sending
  <2>2. CASE DueBatch # {}
    <3>1. Take(DueBatch)
      BY <1>3, <2>2 DEF Select
    <3>2. isProcessing /\ isProcessing' = isProcessing
      BY <1>3, <2>2 DEF Select, PollerShape
    <3>3. isProcessing'
      BY <3>2, Zenon
    <3> QED  BY <3>1, <3>3 DEF Take, DueBatch, PollerShape, Sending
  <2> QED  BY <2>1, <2>2
<1>4. CASE Claim \/ NoAgentOrBusy \/ InsertOk
  BY <1>4 DEF Claim, NoAgentOrBusy, InsertOk, Goto, PollerShape, Sending
<1>5. CASE ClaimRefused \/ LookupMissing \/ RetrySelected
  BY <1>5, NextEventShape DEF ClaimRefused, LookupMissing, RetrySelected
<1>6. ASSUME NEW s \in Streams, StartStream(s)
      PROVE  PollerShape'
  BY <1>6 DEF StartStream, PollerShape, Sending
<1>7. CASE Throws \/ GatewayRestart
  BY <1>7 DEF Throws, GatewayRestart, LeaveLoop, PollerShape, Sending
<1>8. CASE InsertFails \/ SendFails
  <2>1. IngressFails /\ at \in Sending
    BY <1>8 DEF InsertFails, SendFails, Sending
  <2> QED  BY <2>1 DEF IngressFails, Goto, PollerShape, Sending
<1>9. CASE IngressProceeds
  BY <1>9, NextEventShape DEF IngressProceeds, Goto, PollerShape, Sending
<1>10. ASSUME NEW f \in finalizers, FinalizerReturns(f)
       PROVE  PollerShape'
  BY <1>10 DEF FinalizerReturns, poller, PollerShape, Sending
<1>11. CASE Tick
  BY <1>11 DEF Tick, PollerShape
<1> QED
  BY <1>1, <1>2, <1>3, <1>4, <1>5, <1>6, <1>7, <1>8, <1>9, <1>10, <1>11
  DEF Next, vars, Enqueue, Cascade, PollerStep, PollerFails, StreamEvent,
      StreamTimeout, OnAgentResponseStart, OnAgentResponseChunk, Rearm,
      OnAgentResponseEnd, OnStreamError, SessionCloses, FinalizeByEvent,
      FinalizerStep, RequestUpdated, ReadsPending, Delivers, ReadsSettled,
      Retries, MarkFails

(* The actions that touch neither streams nor finalizers, those that only  *)
(* re-arm or tell, and the rest, one by one.                               *)
LEMMA SlotsStep ==
    ASSUME TypeOK, PollerShape, SlotsMatch, OneFinalizer, [Next]_vars
    PROVE  SlotsMatch' /\ OneFinalizer'
<1>1. CASE UNCHANGED <<streams, finalizers, twice>>
  BY <1>1 DEF SlotsMatch, OneFinalizer, Open
<1>2. ASSUME NEW s \in Streams, NEW id, NEW d, Finalize(s, id, d)
      PROVE  SlotsMatch' /\ OneFinalizer'
  <2> DEFINE new == [stream |-> s, id |-> id, event |-> streams[s].event,
                     delivered |-> d, at |-> "update", attempts |-> 0]
  <2>1. /\ finalizers' = finalizers \cup {new} /\ new.stream = s
        /\ new.event = streams[s].event
    BY <1>2 DEF Finalize
  <2>2. /\ \A t \in Streams : streams'[t].event = streams[t].event
        /\ \A t \in Streams : t # s => streams'[t] = streams[t]
    BY <1>2 DEF TypeOK, Finalize, Stream
  <2>3. \A f \in finalizers : f.stream \in Streams /\ f.event \in Events
    BY DEF TypeOK, Finalizer
  <2> HIDE DEF new
  <2>4. SlotsMatch'
    BY <1>2, <2>1, <2>2, <2>3 DEF SlotsMatch, Open
  <2>5. OneFinalizer'
    <3> SUFFICES ASSUME NEW e \in Events, e \notin twice'
                 PROVE  /\ \A f \in finalizers' : f.event = e => Open(f.stream)'
                        /\ \A f, g \in finalizers' :
                             f.event = e /\ g.stream = f.stream => f = g
      BY DEF OneFinalizer
    <3>1. e \notin twice /\ (streams[s].event = e => FinalizersOf(s) = {})
      BY <1>2 DEF Finalize
    <3>2. \A f \in finalizers' : f.event = e => Open(f.stream)'
      BY <1>2, <2>1, <2>2, <2>3, <3>1 DEF OneFinalizer, Finalize, Open
    <3>3. ASSUME NEW f \in finalizers', NEW g \in finalizers',
                 f.event = e, g.stream = f.stream
          PROVE  f = g
      <4>1. CASE f \in finalizers /\ g \in finalizers
        BY <3>1, <3>3, <4>1 DEF OneFinalizer
      <4>2. CASE f = new \/ g = new
        <5>1. f.stream = s
          BY <2>1, <3>3, <4>2
        <5>2. streams[s].event = e
          BY <2>1, <2>3, <3>1, <3>3, <4>2, <5>1, <1>2
          DEF OneFinalizer, SlotsMatch, Finalize
        <5>3. f \notin finalizers /\ g \notin finalizers
          BY <3>1, <3>3, <5>1, <5>2 DEF FinalizersOf
        <5> QED  BY <2>1, <5>3
      <4> QED  BY <2>1, <4>1, <4>2
    <3> QED  BY <3>2, <3>3
  <2> QED  BY <2>4, <2>5
<1>3. ASSUME NEW s \in Streams, NEW u, Rearm(s, u)
      PROVE  SlotsMatch' /\ OneFinalizer'
  <2>1. /\ streams'[s].timer = StreamTicks
        /\ \A t \in Streams : streams'[t].event = streams[t].event
        /\ \A t \in Streams : t # s => streams'[t] = streams[t]
    BY <1>3 DEF TypeOK, Rearm, Stream
  <2>2. StreamTicks # Off
    BY WebhookAssumption DEF Off
  <2>3. \A f \in finalizers : f.stream \in Streams
    BY DEF TypeOK, Finalizer
  <2>4. finalizers' = finalizers /\ twice' = twice
    BY <1>3 DEF Rearm
  <2> QED  BY <2>1, <2>2, <2>3, <2>4 DEF SlotsMatch, OneFinalizer, Open
<1>4. ASSUME NEW s \in Streams, StartStream(s)
      PROVE  SlotsMatch' /\ OneFinalizer'
  <2>1. /\ streams'[s].timer = StreamTicks
        /\ \A t \in Streams : t # s => streams'[t] = streams[t]
    BY <1>4 DEF TypeOK, StartStream, Free
  <2>2. StreamTicks # Off
    BY WebhookAssumption DEF Off
  <2>3. \A f \in finalizers : f.stream \in Streams /\ f.stream # s
    BY <1>4 DEF TypeOK, Finalizer, StartStream
  <2>4. finalizers' = finalizers /\ twice' = twice
    BY <1>4 DEF StartStream, history, causes
  <2> QED  BY <2>1, <2>2, <2>3, <2>4 DEF SlotsMatch, OneFinalizer, Open
<1>5. CASE InsertOk
  <2>1. stream \in Streams
    BY <1>5 DEF InsertOk, PollerShape, Sending
  <2>2. \A t \in Streams : /\ streams'[t].event = streams[t].event
                           /\ streams'[t].timer = streams[t].timer
    BY <1>5, <2>1 DEF TypeOK, InsertOk, Stream
  <2>3. \A f \in finalizers : f.stream \in Streams
    BY DEF TypeOK, Finalizer
  <2>4. finalizers' = finalizers /\ twice' = twice
    BY <1>5 DEF InsertOk, history, causes
  <2> QED  BY <2>2, <2>3, <2>4 DEF SlotsMatch, OneFinalizer, Open
<1>6. ASSUME NEW f \in finalizers, NEW g,
             g.stream = f.stream, g.event = f.event,
             finalizers' = (finalizers \ {f}) \cup {g},
             streams' = streams, twice' = twice
      PROVE  SlotsMatch' /\ OneFinalizer'
  <2>1. SlotsMatch'
    BY <1>6 DEF SlotsMatch, Open
  <2>2. OneFinalizer'
    BY <1>6 DEF OneFinalizer, Open
  <2> QED  BY <2>1, <2>2
<1>7. ASSUME NEW f \in finalizers, RequestUpdated(f) \/ ReadsPending(f)
      PROVE  SlotsMatch' /\ OneFinalizer'
  <2>1. PICK g : /\ g.stream = f.stream /\ g.event = f.event
                 /\ finalizers' = (finalizers \ {f}) \cup {g}
    <3>1. CASE RequestUpdated(f)
      <4> WITNESS [f EXCEPT !.at = IF f.delivered THEN "deliver" ELSE "read"]
      <4> QED  BY <3>1 DEF TypeOK, RequestUpdated, Finalizer
    <3>2. CASE ReadsPending(f)
      <4> WITNESS [f EXCEPT !.at = "write", !.attempts = row[f.event].attempts]
      <4> QED  BY <3>2 DEF TypeOK, ReadsPending, Finalizer
    <3> QED  BY <1>7, <3>1, <3>2
  <2>2. streams' = streams /\ twice' = twice
    BY <1>7 DEF RequestUpdated, ReadsPending, history, causes
  <2> QED  BY <1>6, <2>1, <2>2
<1>8. ASSUME NEW f \in finalizers, FinalizerReturns(f)
      PROVE  SlotsMatch' /\ OneFinalizer'
  <2>1. /\ streams'[f.stream].event = None
        /\ \A t \in Streams : t # f.stream => streams'[t] = streams[t]
        /\ f.stream \in Streams
    BY <1>8 DEF TypeOK, FinalizerReturns, Free, Finalizer
  <2>2. finalizers' = finalizers \ {f} /\ twice' = twice
    BY <1>8 DEF FinalizerReturns, history, causes
  <2>3. \A g \in finalizers : g.stream \in Streams
    BY DEF TypeOK, Finalizer
  <2>4. SlotsMatch'
    BY <2>1, <2>2, <2>3 DEF SlotsMatch, Open
  <2>5. OneFinalizer'
    BY <2>1, <2>2, <2>3 DEF OneFinalizer, Open
  <2> QED  BY <2>4, <2>5
<1>9. CASE Tick
  <2>1. \A t \in Streams :
          /\ streams'[t].event = streams[t].event
          /\ streams[t].timer # Off => streams'[t].timer # Off
    <3> TAKE t \in Streams
    <3>1. streams[t] \in Stream /\ streams[t].timer # 0
      BY <1>9 DEF TypeOK, Tick
    <3>2. streams'[t] = [streams[t] EXCEPT !.timer =
                           IF streams[t].timer = Off THEN Off
                                                     ELSE streams[t].timer - 1]
      BY <1>9 DEF Tick
    <3> QED  BY <3>1, <3>2 DEF Stream, Off
  <2>2. \A f \in finalizers : f.stream \in Streams
    BY DEF TypeOK, Finalizer
  <2>3. finalizers' = finalizers /\ twice' = twice
    BY <1>9 DEF Tick
  <2> QED  BY <2>1, <2>2, <2>3 DEF SlotsMatch, OneFinalizer, Open
<1>10. CASE GatewayRestart
  BY <1>10 DEF GatewayRestart, Free, SlotsMatch, OneFinalizer, Open
<1>11. CASE InsertFails \/ SendFails
  <2>1. stream \in Streams /\ IngressFails
    BY <1>11 DEF InsertFails, SendFails, PollerShape, Sending
  <2> QED  BY <1>1, <1>2, <2>1 DEF IngressFails
<1>12. ASSUME NEW s \in Streams, NEW d, FinalizeByEvent(s, d)
       PROVE  SlotsMatch' /\ OneFinalizer'
  BY <1>2, <1>12 DEF FinalizeByEvent
<1> QED
  BY <1>1, <1>3, <1>4, <1>5, <1>7, <1>8, <1>9, <1>10, <1>11, <1>12
  DEF Next, vars, Enqueue, Cascade, PollerStep, PollerFails, StreamEvent,
      Poll, Select, Claim, ClaimRefused, LookupMissing, NoAgentOrBusy, Throws,
      RetrySelected, IngressProceeds, history, causes,
      StreamTimeout, OnAgentResponseStart, OnAgentResponseChunk,
      OnAgentResponseEnd, OnStreamError, SessionCloses,
      FinalizerStep, Delivers, ReadsSettled, Retries, MarkFails

(* An event gets into flight only by being dispatched.                     *)
LEMMA FlightStep ==
    ASSUME TypeOK, PollerShape, [Next]_vars, NEW e \in Events, InFlight(e)'
    PROVE  InFlight(e) \/ (current = e /\ at = "lookup")
<1>1. CASE streams' = streams /\ finalizers' = finalizers
  BY <1>1 DEF InFlight
<1>2. ASSUME NEW s \in Streams, NEW id, NEW d, Finalize(s, id, d)
      PROVE  InFlight(e)
  <2>1. \A t \in Streams : streams'[t].event = streams[t].event
    BY <1>2 DEF TypeOK, Finalize, Stream
  <2> QED  BY <1>2, <2>1 DEF InFlight, Finalize
<1>3. ASSUME NEW s \in Streams, NEW u, Rearm(s, u)
      PROVE  InFlight(e)
  <2>1. \A t \in Streams : streams'[t].event = streams[t].event
    BY <1>3 DEF TypeOK, Rearm, Stream
  <2> QED  BY <1>3, <2>1 DEF InFlight, Rearm
<1>4. ASSUME NEW s \in Streams, StartStream(s)
      PROVE  InFlight(e) \/ (current = e /\ at = "lookup")
  <2>1. streams'[s].event = current /\ at = "lookup" /\ finalizers' = finalizers
        /\ \A t \in Streams : t # s => streams'[t] = streams[t]
    BY <1>4 DEF TypeOK, StartStream, Free
  <2> QED  BY <2>1 DEF InFlight
<1>5. CASE InsertOk
  <2>1. \A t \in Streams : streams'[t].event = streams[t].event
    BY <1>5 DEF TypeOK, InsertOk, Stream, PollerShape, Sending
  <2> QED  BY <1>5, <2>1 DEF InFlight, InsertOk
<1>6. ASSUME NEW f \in finalizers, RequestUpdated(f) \/ ReadsPending(f)
      PROVE  InFlight(e)
  <2>1. streams' = streams
    BY <1>6 DEF RequestUpdated, ReadsPending
  <2>2. \A g \in finalizers' : g \in finalizers \/ g.event = f.event
    <3>1. CASE RequestUpdated(f)
      BY <3>1 DEF TypeOK, RequestUpdated, Finalizer
    <3>2. CASE ReadsPending(f)
      <4>1. [f EXCEPT !.at = "write", !.attempts = row[f.event].attempts].event
              = f.event
        BY DEF TypeOK, Finalizer
      <4> QED  BY <3>2, <4>1 DEF ReadsPending
    <3> QED  BY <1>6, <3>1, <3>2
  <2> QED  BY <2>1, <2>2 DEF InFlight
<1>7. ASSUME NEW f \in finalizers, FinalizerReturns(f)
      PROVE  InFlight(e)
  <2>1. e # None
    BY WebhookAssumption
  <2>2. \A t \in Streams : streams'[t] = streams[t] \/ streams'[t].event = None
    BY <1>7 DEF TypeOK, FinalizerReturns, Free
  <2> QED  BY <1>7, <2>1, <2>2 DEF InFlight, FinalizerReturns
<1>8. CASE Tick
  <2>1. \A t \in Streams : streams'[t].event = streams[t].event
    BY <1>8 DEF TypeOK, Tick, Stream
  <2> QED  BY <1>8, <2>1 DEF InFlight, Tick
<1>9. CASE GatewayRestart
  <2>1. e # None
    BY WebhookAssumption
  <2> QED  BY <1>9, <2>1 DEF InFlight, GatewayRestart, Free
<1>10. CASE InsertFails \/ SendFails
  <2>1. stream \in Streams /\ IngressFails
    BY <1>10 DEF InsertFails, SendFails, PollerShape, Sending
  <2> QED  BY <1>1, <1>2, <2>1 DEF IngressFails
<1>11. ASSUME NEW s \in Streams, NEW d, FinalizeByEvent(s, d)
       PROVE  InFlight(e)
  BY <1>2, <1>11 DEF FinalizeByEvent
<1> QED
  BY <1>1, <1>3, <1>4, <1>5, <1>6, <1>7, <1>8, <1>9, <1>10, <1>11
  DEF Next, vars, Enqueue, Cascade, PollerStep, PollerFails, StreamEvent,
      Poll, Select, Claim, ClaimRefused, LookupMissing, NoAgentOrBusy, Throws,
      RetrySelected, IngressProceeds,
      StreamTimeout, OnAgentResponseStart, OnAgentResponseChunk,
      OnAgentResponseEnd, OnStreamError, SessionCloses,
      FinalizerStep, Delivers, ReadsSettled, Retries, MarkFails

(* The poller takes up only what is in its batch or due.                   *)
LEMMA TakenStep ==
    ASSUME TypeOK, PollerShape, [Next]_vars, NEW e \in Events,
           current' = e \/ e \in batch'
    PROVE  current = e \/ e \in batch \/ Exists(e)
<1>0. e # None
  BY WebhookAssumption
<1>1. CASE current' = current /\ batch' = batch
  BY <1>1
<1>2. CASE Select
  <2>1. CASE DueBatch = {}
    BY <1>0, <1>2, <2>1 DEF Select, LeaveLoop
  <2>2. CASE DueBatch # {}
    <3>1. Take(DueBatch)
      BY <1>2, <2>2 DEF Select
    <3>2. e \in DueBatch
      BY <1>0, <3>1 DEF Take
    <3> QED  BY <3>2 DEF DueBatch, Due, Pending, Exists
  <2> QED  BY <2>1, <2>2
<1>3. CASE NextEvent
  BY <1>0, <1>3 DEF NextEvent, LeaveLoop, Take
<1>4. CASE LeaveLoop
  BY <1>0, <1>4 DEF LeaveLoop
<1>5. CASE InsertFails \/ SendFails
  BY <1>1, <1>5 DEF InsertFails, SendFails, IngressFails, Goto
<1>6. ASSUME NEW f \in finalizers, FinalizerReturns(f)
      PROVE  current' = current /\ batch' = batch
  BY <1>6 DEF FinalizerReturns, poller
<1> QED
  BY <1>1, <1>2, <1>3, <1>4, <1>5, <1>6
  DEF Next, vars, poller, Enqueue, Cascade, PollerStep, PollerFails, StreamEvent,
      Poll, Claim, ClaimRefused, LookupMissing, NoAgentOrBusy, Throws, Goto,
      RetrySelected, InsertOk, IngressProceeds, StartStream, FinalizeByEvent,
      StreamTimeout, OnAgentResponseStart, OnAgentResponseChunk, Rearm,
      OnAgentResponseEnd, OnStreamError, SessionCloses, RequestUpdated,
      FinalizerStep, Delivers, ReadsPending, ReadsSettled, Retries, MarkFails,
      Tick, GatewayRestart

(* Rows appear by Enqueue alone.                                           *)
LEMMA ExistsStep ==
    ASSUME TypeOK, PollerShape, [Next]_vars, NEW e \in Events
    PROVE  /\ createdAt[e] # 0 => createdAt'[e] # 0
           /\ Exists(e)' => Exists(e) \/ createdAt'[e] # 0
<1>1. CASE row' = row /\ createdAt' = createdAt
  BY <1>1 DEF Exists
<1>2. ASSUME NEW x \in Events, Enqueue(x)
      PROVE  /\ createdAt[e] # 0 => createdAt'[e] # 0
             /\ Exists(e)' => Exists(e) \/ createdAt'[e] # 0
  <2>1. Cardinality({y \in Events : createdAt[y] # 0}) \in Nat
    BY WebhookAssumption, FS_Subset, FS_CardinalityType
  <2>2. createdAt'[x] # 0
    BY <1>2, <2>1 DEF TypeOK, Enqueue
  <2> QED  BY <1>2, <2>2 DEF TypeOK, Enqueue, Exists
<1>3. ASSUME NEW x \in Events, Cascade(x)
      PROVE  createdAt' = createdAt /\ (Exists(e)' => Exists(e))
  BY <1>3 DEF TypeOK, Cascade, Exists
<1>4. CASE Claim
  BY <1>4 DEF TypeOK, PollerShape, Claim, Exists, Row
<1>5. ASSUME NEW x \in Events, NEW n \in Nat, row' = MarkRetry(x, n)
      PROVE  Exists(e)' => Exists(e)
  BY <1>5, RetryTyped DEF MarkRetry, Exists
<1>6. ASSUME NEW x \in Events, row' = MarkDelivered(x)
      PROVE  Exists(e)' => Exists(e)
  BY <1>6, DeliveredTyped DEF MarkDelivered, Exists
<1>7. CASE RetrySelected
  BY <1>5, <1>7 DEF TypeOK, RetrySelected, PollerShape
<1>8. ASSUME NEW f \in finalizers, Delivers(f) \/ Retries(f)
      PROVE  createdAt' = createdAt /\ (Exists(e)' => Exists(e))
  BY <1>5, <1>6, <1>8
  DEF TypeOK, Finalizer, Delivers, Retries, FinalizerReturns
<1>9. CASE Tick
  BY <1>9 DEF TypeOK, Tick, Exists, Row
<1> QED
  BY <1>1, <1>2, <1>3, <1>4, <1>7, <1>8, <1>9
  DEF Next, vars, PollerStep, PollerFails, StreamEvent,
      Poll, Select, ClaimRefused, LookupMissing, NoAgentOrBusy, Throws,
      InsertFails, SendFails, InsertOk, IngressProceeds, StartStream,
      FinalizeByEvent, StreamTimeout, OnAgentResponseStart, OnAgentResponseChunk,
      Rearm, OnAgentResponseEnd, OnStreamError, SessionCloses, RequestUpdated,
      FinalizerStep, ReadsPending, ReadsSettled, MarkFails, FinalizerReturns,
      GatewayRestart

LEMMA KnownStep ==
    ASSUME TypeOK, PollerShape, Known, [Next]_vars
    PROVE  Known'
BY FlightStep, TakenStep, ExistsStep DEF Known

-----------------------------------------------------------------------------
(* The lease.                                                              *)

Protected(e) ==
    /\ e \notin overlapped
    /\ OneDispatch(e)
    /\ Pending(e) => LeaseLeft(e)

(* A protected event that is due has no dispatch under way.                *)
LEMMA DueIsQuiet ==
    ASSUME TypeOK, SlotsMatch, LeaseHolds, NEW e \in Events, Sound(e), Due(e)
    PROVE  ~InFlight(e)
<1>1. LeaseLeft(e)
  BY DEF LeaseHolds, Due
<1>2. late[e] \in Nat /\ Slack \in Nat /\ Slack - late[e] > 0 /\ row[e].wait = 0
  BY WebhookAssumption DEF TypeOK, Sound, Slack, Due
<1>3. \A f \in finalizers : f.event # e
  BY <1>1, <1>2 DEF LeaseLeft
<1>4. ASSUME NEW s \in Streams, streams[s].event = e
      PROVE  FALSE
  <2>1. Open(s)
    BY <1>4, WebhookAssumption DEF Open
  <2>2. CASE streams[s].timer # Off
    <3>1. streams[s].timer \in Nat
      BY <2>2 DEF TypeOK, Stream
    <3> QED  BY <1>1, <1>2, <1>4, <2>2, <3>1 DEF LeaseLeft
  <2>3. CASE streams[s].timer = Off
    BY <1>3, <1>4, <2>1, <2>3 DEF SlotsMatch
  <2> QED  BY <2>2, <2>3
<1> QED  BY <1>3, <1>4 DEF InFlight

(* Protection is only ever lost; the slack is used up by the clock alone.  *)
LEMMA SoundStep ==
    ASSUME TypeOK, PollerShape, [Next]_vars, NEW e \in Events, Sound(e)'
    PROVE  Sound(e) /\ (late'[e] = late[e] \/ Tick)
<1>1. CASE UNCHANGED <<rearmed, twice, late>>
  BY <1>1 DEF Sound, Slack
<1>2. CASE rearmed \subseteq rearmed' /\ twice \subseteq twice' /\ late' = late
  BY <1>2 DEF Sound, Slack
<1>3. CASE Tick
  <2>1. late[e] \in Nat /\ (late'[e] = late[e] \/ late'[e] = late[e] + 1)
    BY <1>3 DEF TypeOK, Tick
  <2>2. Slack \in Nat
    BY WebhookAssumption DEF Slack
  <2> QED  BY <1>3, <2>1, <2>2 DEF Sound, Tick, Slack
<1>4. CASE InsertFails \/ SendFails
  BY <1>2, <1>4 DEF InsertFails, SendFails, IngressFails, Finalize
<1>5. ASSUME NEW s \in Streams, NEW d, FinalizeByEvent(s, d)
      PROVE  rearmed \subseteq rearmed' /\ twice \subseteq twice' /\ late' = late
  BY <1>5 DEF FinalizeByEvent, Finalize
<1> QED
  BY <1>1, <1>2, <1>3, <1>4, <1>5
  DEF Next, vars, history, causes, Enqueue, Cascade, PollerStep, PollerFails,
      Poll, Select, Claim, ClaimRefused, LookupMissing, NoAgentOrBusy, Throws,
      RetrySelected, InsertOk, IngressProceeds, StreamEvent, StartStream,
      StreamTimeout, OnAgentResponseStart, OnAgentResponseChunk, Rearm,
      OnAgentResponseEnd, OnStreamError, SessionCloses, FinalizerStep,
      RequestUpdated, Delivers, ReadsPending, ReadsSettled, Retries, MarkFails,
      FinalizerReturns, GatewayRestart

(* The poller moves on; streams, finalizers and the event's row stay.      *)
LEMMA LoopKeepsLease ==
    ASSUME TypeOK, PollerShape, LeaseHolds, NEW e \in Events, Sound(e),
           streams' = streams, finalizers' = finalizers, late'[e] = late[e],
           e \notin overlapped',
           at' \in {"idle", "select", "claim"},
           Pending(e)' => row'[e] = row[e]
    PROVE  Protected(e)'
<1>1. OneDispatch(e)'
  BY DEF LeaseHolds, OneDispatch, Sending
<1>2. Pending(e)' => LeaseLeft(e)'
  BY DEF LeaseHolds, LeaseLeft, Pending, Slack
<1> QED  BY <1>1, <1>2 DEF Protected

(* The same without a move of the poller.                                  *)
LEMMA RowKeepsLease ==
    ASSUME TypeOK, LeaseHolds, NEW e \in Events, Sound(e),
           streams' = streams, finalizers' = finalizers,
           overlapped' = overlapped, at' = at, current' = current,
           stream' = stream, late'[e] = late[e],
           Pending(e)' /\ row'[e] # row[e] => ~InFlight(e) /\ current # e
    PROVE  Protected(e)'
<1>1. OneDispatch(e)'
  BY DEF LeaseHolds, OneDispatch, Sending, InFlight
<1>2. Pending(e)' => LeaseLeft(e)'
  BY DEF LeaseHolds, LeaseLeft, Pending, Slack, InFlight
<1> QED  BY <1>1, <1>2 DEF LeaseHolds, Protected

(* What the loop and its exceptions leave behind.                          *)
LEMMA NextEventAt ==
    ASSUME NextEvent \/ LeaveLoop
    PROVE  at' \in {"idle", "claim"}
BY DEF NextEvent, LeaveLoop, Take

(* A new finalizer has what is left of the lease.                          *)
LEMMA FinalizeKeepsLease ==
    ASSUME TypeOK, SlotsMatch, LeaseHolds, NEW e \in Events, Sound(e),
           NEW s \in Streams, NEW id, NEW d, Finalize(s, id, d),
           row' = row, late' = late, overlapped' = overlapped,
           current' = current, stream' = stream,
           at' # at => at \in Sending /\ at' = "failing"
    PROVE  Protected(e)'
<1> DEFINE new == [stream |-> s, id |-> id, event |-> streams[s].event,
                   delivered |-> d, at |-> "update", attempts |-> 0]
<1>1. finalizers' = finalizers \cup {new} /\ new.event = streams[s].event
  BY DEF Finalize
<1> HIDE DEF new
<1>2. /\ \A t \in Streams : streams'[t].event = streams[t].event
      /\ \A t \in Streams : t # s => streams'[t] = streams[t]
      /\ streams'[s].timer = Off
  BY DEF TypeOK, Finalize, Stream
<1>3. InFlight(e)' => InFlight(e)
  BY <1>1, <1>2 DEF InFlight
<1>4. OneDispatch(e)'
  BY <1>2, <1>3 DEF LeaseHolds, OneDispatch, Sending
<1>5. ASSUME Pending(e)
      PROVE  LeaseLeft(e)'
  <2>1. late[e] \in Nat /\ Slack \in Nat /\ row[e].wait \in Nat
    BY WebhookAssumption DEF TypeOK, Slack, Row
  <2>2. LeaseLeft(e)
    BY <1>5 DEF LeaseHolds
  <2>3. streams[s].event = e => row[e].wait >= Slack - late[e]
    <3>1. CASE streams[s].timer # Off
      <4>1. streams[s].timer \in Nat
        BY <3>1 DEF TypeOK, Stream
      <4> QED  BY <2>1, <2>2, <3>1, <4>1 DEF LeaseLeft
    <3>2. CASE streams[s].timer = Off
      BY <2>2, <3>2 DEF LeaseLeft, SlotsMatch, Finalize
    <3> QED  BY <3>1, <3>2
  <2>4. Slack' = Slack
    BY DEF Slack
  <2> QED  BY <1>1, <1>2, <2>2, <2>3, <2>4 DEF LeaseLeft, Sending
<1> QED  BY <1>4, <1>5 DEF LeaseHolds, Protected, Pending

(* A failing step of startBufferedHttpIngress whose stream is gone leaves  *)
(* nothing of its event in flight.                                         *)
LEMMA GoneIsQuiet ==
    ASSUME TypeOK, PollerShape, SlotsMatch, OneFinalizer, LeaseHolds,
           NEW e \in Events, Sound(e), at \in Sending, current = e, ~Open(stream)
    PROVE  ~InFlight(e)
<1>1. e # None /\ e \notin twice
  BY WebhookAssumption DEF Sound
<1>2. \A s \in Streams : streams[s].event # e
  BY <1>1 DEF LeaseHolds, OneDispatch, Open
<1>3. \A f \in finalizers : f.event # e
  BY <1>1, <1>2 DEF OneFinalizer, SlotsMatch, TypeOK, Finalizer
<1> QED  BY <1>2, <1>3 DEF InFlight

(* The return of a finalizer: of its own event nothing is left in flight,  *)
(* and the poller that waited for it may write its retry.                  *)
LEMMA ReturnKeepsLease ==
    ASSUME TypeOK, PollerShape, SlotsMatch, OneFinalizer, LeaseHolds,
           NEW e \in Events, Sound(e), NEW f \in finalizers, FinalizerReturns(f),
           f.event # e => row'[e] = row[e]
    PROVE  Protected(e)'
<1>1. e # None /\ e \notin twice /\ f.stream \in Streams
  BY WebhookAssumption DEF Sound, TypeOK, Finalizer
<1>2. /\ finalizers' = finalizers \ {f} /\ UNCHANGED <<late, overlapped>>
      /\ current' = current /\ stream' = stream
      /\ at' = at \/ (at' = "retry" /\ at = "failing" /\ stream = f.stream)
  BY DEF FinalizerReturns, poller, history, causes
<1>3. /\ streams'[f.stream].event = None
      /\ \A t \in Streams : t # f.stream => streams'[t] = streams[t]
  BY <1>1 DEF TypeOK, FinalizerReturns, Free
<1>4. ASSUME f.event = e \/ (current = e /\ at = "failing" /\ stream = f.stream)
      PROVE  ~InFlight(e)'
  <2>1. \A s \in Streams : streams[s].event = e => s = f.stream
    <3>1. CASE f.event = e
      <4>1. streams[f.stream].event = e
        BY <1>1, <3>1 DEF OneFinalizer, SlotsMatch
      <4> QED  BY <1>1, <4>1 DEF LeaseHolds, OneDispatch
    <3>2. CASE current = e /\ at = "failing" /\ stream = f.stream
      BY <3>2 DEF LeaseHolds, OneDispatch, Sending
    <3> QED  BY <1>4, <3>1, <3>2
  <2>2. \A s \in Streams : streams'[s].event # e
    BY <1>1, <1>3, <2>1
  <2>3. ASSUME NEW g \in finalizers, g.event = e
        PROVE  g = f
    <3>1. g.stream = f.stream
      BY <1>1, <2>1, <2>3 DEF OneFinalizer, SlotsMatch, TypeOK, Finalizer
    <3> QED  BY <1>1, <2>3, <3>1 DEF OneFinalizer
  <2> QED  BY <1>2, <2>2, <2>3 DEF InFlight
<1>5. InFlight(e)' => InFlight(e)
  BY <1>1, <1>2, <1>3 DEF InFlight
<1>6. OneDispatch(e)'
  BY <1>1, <1>2, <1>3, <1>4, <1>5 DEF LeaseHolds, OneDispatch, Sending
<1>7. Pending(e)' => LeaseLeft(e)'
  <2>1. CASE f.event = e
    <3>1. ~InFlight(e)'
      BY <1>4, <2>1
    <3>2. ~(at' = "lookup" /\ current' = e)
      BY <1>2, <2>1 DEF LeaseHolds, OneDispatch, InFlight
    <3> QED  BY <3>1, <3>2 DEF LeaseLeft, InFlight
  <2>2. CASE f.event # e
    <3>1. row'[e] = row[e]
      BY <2>2
    <3>2. \A t \in Streams : streams'[t].event = e => streams'[t] = streams[t]
      BY <1>1, <1>3
    <3> QED  BY <1>2, <3>1, <3>2 DEF LeaseHolds, LeaseLeft, Pending, Slack
  <2> QED  BY <2>1, <2>2
<1> QED  BY <1>2, <1>6, <1>7 DEF LeaseHolds, Protected

(* The clock: a tick takes one from the lease, and one from the stream     *)
(* timer or from the slack.                                                *)
LEMMA TickKeepsLease ==
    ASSUME TypeOK, SlotsMatch, LeaseHolds, NEW e \in Events, Sound(e), Tick
    PROVE  Protected(e)'
<1>1. /\ UNCHANGED <<finalizers, overlapped, at, current, stream>>
  BY DEF Tick
<1>2. /\ \A t \in Streams : streams'[t].event = streams[t].event
      /\ \A t \in Streams : streams'[t].timer # Off =>
           streams[t].timer # Off /\ streams[t].timer \in Nat
             /\ streams'[t].timer = streams[t].timer - 1
  <2> SUFFICES ASSUME NEW t \in Streams
               PROVE  /\ streams'[t].event = streams[t].event
                      /\ streams'[t].timer # Off =>
                           streams[t].timer # Off /\ streams[t].timer \in Nat
                             /\ streams'[t].timer = streams[t].timer - 1
    OBVIOUS
  <2>1. streams[t] \in Stream
    BY DEF TypeOK
  <2>2. streams'[t] = [streams[t] EXCEPT !.timer =
                         IF streams[t].timer = Off THEN Off
                                                   ELSE streams[t].timer - 1]
    BY DEF Tick
  <2> QED  BY <2>1, <2>2 DEF Stream
<1>3. InFlight(e)' => InFlight(e)
  BY <1>1, <1>2 DEF InFlight
<1>4. OneDispatch(e)'
  BY <1>1, <1>2, <1>3 DEF LeaseHolds, OneDispatch
<1>5. ASSUME Pending(e)'
      PROVE  LeaseLeft(e)'
  <2>1. row[e] \in Row /\ row[e].wait \in Nat /\ late[e] \in Nat
        /\ Slack \in Nat /\ late[e] < Slack /\ StreamTicks \in Nat
    BY WebhookAssumption DEF TypeOK, Row, Slack, Sound
  <2>2. /\ row'[e].status = row[e].status
        /\ row'[e].wait = IF row[e].wait > 0 THEN row[e].wait - 1 ELSE 0
    BY <2>1 DEF Tick, Row
  <2>3. LeaseLeft(e)
    BY <1>5, <2>2 DEF LeaseHolds, Pending
  <2>4. late'[e] = IF Untimed(e) THEN late[e] + 1 ELSE late[e]
    BY <2>1 DEF Tick
  <2>5. Slack' = Slack
    BY DEF Slack
  <2>6. at' = "lookup" /\ current' = e => row'[e].wait >= StreamTicks + (Slack - late'[e])
    BY <1>1, <2>1, <2>2, <2>3, <2>4 DEF LeaseLeft, Untimed
  <2>7. ASSUME NEW s \in Streams, streams'[s].event = e, streams'[s].timer # Off
        PROVE  row'[e].wait >= streams'[s].timer + (Slack - late'[e])
    <3>1. /\ row[e].wait >= streams[s].timer + (Slack - late[e])
          /\ streams[s].timer \in Nat
          /\ streams'[s].timer = streams[s].timer - 1
      BY <1>2, <2>3, <2>7 DEF LeaseLeft
    <3>2. late'[e] >= late[e] /\ late'[e] \in Nat
      BY <2>1, <2>4
    <3> QED  BY <2>1, <2>2, <3>1, <3>2
  <2>8. ASSUME NEW f \in finalizers, f.event = e
        PROVE  row'[e].wait >= Slack - late'[e]
    <3>1. row[e].wait >= Slack - late[e]
      BY <2>3, <2>8 DEF LeaseLeft
    <3>2. late'[e] = late[e] + 1
      BY <2>4, <2>8 DEF Untimed
    <3> QED  BY <2>1, <2>2, <3>1, <3>2
  <2> QED  BY <1>1, <2>5, <2>6, <2>7, <2>8 DEF LeaseLeft
<1> QED  BY <1>1, <1>4, <1>5 DEF LeaseHolds, Protected

(* A claim finds the event quiet and sets the whole lease.                 *)
LEMMA ClaimKeepsLease ==
    ASSUME TypeOK, PollerShape, SlotsMatch, LeaseHolds, ClaimTimed,
           NEW e \in Events, Sound(e), Claim
    PROVE  Protected(e)'
<1>1. /\ current \in Events /\ Due(current) /\ current' = current /\ at' = "lookup"
      /\ UNCHANGED <<streams, finalizers, late>>
  BY DEF Claim, PollerShape
<1>2. CASE current = e
  <2>1. ~InFlight(e)
    BY <1>1, <1>2, DueIsQuiet
  <2>2. ~InFlight(e)'
    BY <1>1, <2>1 DEF InFlight
  <2>3. /\ row'[e].wait = IF claimAge < LeaseTicks THEN LeaseTicks - claimAge ELSE 0
        /\ late[e] \in Nat /\ late[e] < Slack /\ claimAge \in Nat
        /\ claimAge <= late[e]
    BY <1>1, <1>2 DEF Claim, TypeOK, Row, Sound, ClaimTimed
  <2>4. row'[e].wait >= StreamTicks + (Slack - late[e])
    BY <2>3, WebhookAssumption DEF Slack
  <2>5. e \notin overlapped'
    BY <1>2, <2>1 DEF Claim, LeaseHolds
  <2>6. OneDispatch(e)'
    BY <1>1, <2>2 DEF OneDispatch, InFlight, Sending
  <2>7. Slack' = Slack
    BY DEF Slack
  <2>8. LeaseLeft(e)'
    BY <1>1, <2>2, <2>4, <2>7 DEF LeaseLeft, InFlight
  <2> QED  BY <2>5, <2>6, <2>8 DEF Protected
<1>3. CASE current # e
  <2>1. row'[e] = row[e] /\ e \notin overlapped'
    BY <1>1, <1>3 DEF Claim, TypeOK, LeaseHolds
  <2>2. OneDispatch(e)'
    BY <1>1, <1>3 DEF LeaseHolds, OneDispatch
  <2>3. Pending(e)' => LeaseLeft(e)'
    BY <1>1, <1>3, <2>1 DEF LeaseHolds, LeaseLeft, Pending, Slack
  <2> QED  BY <2>1, <2>2, <2>3 DEF Protected
<1> QED  BY <1>2, <1>3

(* The stream of a dispatch starts with the whole timeout, which the lease *)
(* still covers.                                                           *)
LEMMA StartKeepsLease ==
    ASSUME TypeOK, PollerShape, SlotsMatch, LeaseHolds,
           NEW e \in Events, Sound(e), NEW s \in Streams, StartStream(s)
    PROVE  Protected(e)'
<1>1. /\ current \in Events /\ current' = current /\ at = "lookup" /\ at' = "insert"
      /\ stream' = s /\ streams[s].event = None
      /\ UNCHANGED <<row, finalizers, late, overlapped>>
  BY DEF StartStream, PollerShape, Open, history, causes
<1>2. /\ streams'[s].event = current /\ streams'[s].timer = StreamTicks
      /\ \A t \in Streams : t # s => streams'[t] = streams[t]
  BY DEF TypeOK, StartStream, Free, Stream
<1>3. e # None
  BY WebhookAssumption
<1>4. current = e => ~InFlight(e)
  BY <1>1 DEF LeaseHolds, OneDispatch
<1>5. OneDispatch(e)'
  BY <1>1, <1>2, <1>3, <1>4 DEF LeaseHolds, OneDispatch, InFlight
<1>6. Pending(e)' => LeaseLeft(e)'
  BY <1>1, <1>2, <1>3, <1>4 DEF LeaseHolds, LeaseLeft, InFlight, Pending, Slack
<1> QED  BY <1>1, <1>5, <1>6 DEF LeaseHolds, Protected

(* A failing step of startBufferedHttpIngress.                             *)
LEMMA IngressFailsKeepsLease ==
    ASSUME TypeOK, PollerShape, SlotsMatch, OneFinalizer, LeaseHolds,
           NEW e \in Events, Sound(e), at \in Sending, IngressFails,
           row' = row, late' = late, overlapped' = overlapped
    PROVE  Protected(e)'
<1>1. stream \in Streams
  BY DEF PollerShape
<1>2. CASE Open(stream)
  <2>1. PICK id \in 1 .. MaxFinalizers : Finalize(stream, id, FALSE)
    BY <1>2 DEF IngressFails
  <2>2. current' = current /\ stream' = stream /\ at' = "failing"
    BY <1>2 DEF IngressFails
  <2> QED  BY <1>1, <2>1, <2>2, FinalizeKeepsLease
<1>3. CASE ~Open(stream)
  <2>1. /\ at' = "retry"
        /\ UNCHANGED <<current, stream, streams, finalizers>>
    BY <1>3 DEF IngressFails, Goto
  <2>2. current = e => ~InFlight(e)
    BY <1>3, GoneIsQuiet
  <2>3. OneDispatch(e)'
    BY <2>1, <2>2 DEF LeaseHolds, OneDispatch, InFlight, Sending
  <2>4. Pending(e)' => LeaseLeft(e)'
    BY <2>1 DEF LeaseHolds, LeaseLeft, Pending, Slack
  <2> QED  BY <2>3, <2>4 DEF LeaseHolds, Protected
<1> QED  BY <1>2, <1>3

(* Every step keeps the events that are still sound protected.             *)
LEMMA LeaseStep ==
    ASSUME TypeOK, PollerShape, Known, SlotsMatch, OneFinalizer, LeaseHolds,
           ClaimTimed, [Next]_vars
    PROVE  LeaseHolds'
<1> SUFFICES ASSUME NEW e \in Events, Sound(e)'
             PROVE  Protected(e)'
  BY DEF LeaseHolds, Protected
<1>1. Sound(e) /\ (late'[e] = late[e] \/ Tick)
  BY SoundStep
<1>2. e \notin overlapped
  BY <1>1 DEF LeaseHolds
<1>3. CASE UNCHANGED vars
  <2>1. /\ streams' = streams /\ finalizers' = finalizers /\ overlapped' = overlapped
        /\ at' = at /\ current' = current /\ stream' = stream
        /\ row'[e] = row[e] /\ late'[e] = late[e]
    BY <1>3 DEF vars, poller, history, causes
  <2> QED  BY <1>1, <2>1, RowKeepsLease
<1>4. ASSUME NEW x \in Events, Enqueue(x)
      PROVE  Protected(e)'
  <2>1. CASE x = e
    <3>1. ~InFlight(e) /\ current # e
      BY <1>4, <2>1 DEF Enqueue, Known
    <3> QED  BY <1>1, <1>4, <3>1, RowKeepsLease
             DEF Enqueue, poller, history, causes
  <2>2. CASE x # e
    <3>1. /\ streams' = streams /\ finalizers' = finalizers /\ overlapped' = overlapped
          /\ at' = at /\ current' = current /\ stream' = stream
          /\ row'[e] = row[e] /\ late'[e] = late[e]
      BY <1>4, <2>2 DEF Enqueue, poller, history, causes, TypeOK
    <3> QED  BY <1>1, <3>1, RowKeepsLease
  <2> QED  BY <2>1, <2>2
<1>5. ASSUME NEW x \in Events, Cascade(x)
      PROVE  Protected(e)'
  <2>1. Pending(e)' => row'[e] = row[e]
    BY <1>5 DEF Cascade, TypeOK, Pending, Row
  <2>2. /\ streams' = streams /\ finalizers' = finalizers /\ overlapped' = overlapped
        /\ at' = at /\ current' = current /\ stream' = stream
        /\ late'[e] = late[e]
    BY <1>5 DEF Cascade, poller, history, causes
  <2> QED  BY <1>1, <2>1, <2>2, RowKeepsLease
<1>6. CASE Poll
  BY <1>1, <1>2, <1>6, LoopKeepsLease DEF Poll, history, causes
<1>7. CASE Select
  <2>1. e \notin overlapped'
    <3>1. CASE DueBatch = {}
      BY <1>2, <1>7, <3>1 DEF Select
    <3>2. CASE DueBatch # {}
      <4>1. overlapped' = overlapped \cup {x \in DueBatch : InFlight(x)}
        BY <1>7, <3>2 DEF Select
      <4>2. e \in DueBatch => ~InFlight(e)
        BY <1>1, DueIsQuiet DEF DueBatch
      <4> QED  BY <1>2, <4>1, <4>2
    <3> QED  BY <3>1, <3>2
  <2>2. at' \in {"idle", "claim"}
    BY <1>7 DEF Select, LeaveLoop, Take
  <2> QED  BY <1>1, <1>7, <2>1, <2>2, LoopKeepsLease DEF Select
<1>8. CASE Claim
  BY <1>1, <1>8, ClaimKeepsLease
<1>9. CASE ClaimRefused \/ LookupMissing \/ Throws
  <2>1. at' \in {"idle", "claim"}
    BY <1>9, NextEventAt DEF ClaimRefused, LookupMissing, Throws
  <2> QED  BY <1>1, <1>2, <1>9, <2>1, LoopKeepsLease
           DEF ClaimRefused, LookupMissing, Throws, history, causes
<1>10. CASE NoAgentOrBusy
  <2>1. /\ at = "lookup" /\ at' = "retry"
        /\ UNCHANGED <<row, streams, finalizers, overlapped, late, current, stream>>
    BY <1>10 DEF NoAgentOrBusy, Goto, history, causes
  <2>2. OneDispatch(e)'
    BY <1>1, <2>1 DEF LeaseHolds, OneDispatch, InFlight, Sending
  <2>3. Pending(e)' => LeaseLeft(e)'
    BY <1>1, <2>1 DEF LeaseHolds, LeaseLeft, Pending, Slack
  <2> QED  BY <1>2, <2>1, <2>2, <2>3 DEF Protected
<1>11. ASSUME NEW s \in Streams, StartStream(s)
       PROVE  Protected(e)'
  BY <1>1, <1>11, StartKeepsLease
<1>12. CASE RetrySelected
  <2>1. /\ at = "retry" /\ current \in Events /\ snapshot[current] \in Nat
        /\ at' \in {"idle", "claim"}
        /\ UNCHANGED <<streams, finalizers, overlapped, late>>
    BY <1>12, NextEventAt
    DEF RetrySelected, PollerShape, TypeOK, history, causes
  <2>2. CASE current = e
    <3>1. ~InFlight(e)
      BY <1>1, <2>1, <2>2 DEF LeaseHolds, OneDispatch
    <3>2. ~InFlight(e)' /\ at' # "lookup" /\ at' \notin Sending
      BY <2>1, <3>1 DEF InFlight, Sending
    <3>3. \A s \in Streams : streams'[s].event # e
      BY <3>2 DEF InFlight
    <3>4. OneDispatch(e)'
      BY <2>1, <3>2, <3>3 DEF OneDispatch
    <3>5. LeaseLeft(e)'
      BY <3>2, <3>3 DEF LeaseLeft, InFlight
    <3> QED  BY <1>2, <2>1, <3>4, <3>5 DEF Protected
  <2>3. CASE current # e
    <3>1. row'[e] = row[e]
      BY <1>12, <2>1, <2>3, RetryTyped DEF RetrySelected
    <3> QED  BY <1>1, <1>2, <2>1, <3>1, LoopKeepsLease
  <2> QED  BY <2>2, <2>3
<1>13. ASSUME NEW s \in Streams, NEW d \in BOOLEAN, FinalizeByEvent(s, d)
       PROVE  Protected(e)'
  <2>1. PICK id \in 1 .. MaxFinalizers : Finalize(s, id, d)
    BY <1>13 DEF FinalizeByEvent
  <2>2. /\ row' = row /\ late' = late /\ overlapped' = overlapped
        /\ current' = current /\ stream' = stream /\ at' = at
    BY <1>13 DEF FinalizeByEvent, poller
  <2> QED  BY <1>1, <2>1, <2>2, FinalizeKeepsLease
<1>14. ASSUME NEW s \in Streams, NEW u, Rearm(s, u)
       PROVE  Protected(e)'
  <2>1. streams[s].event # e
    BY <1>14 DEF Rearm, Sound
  <2>2. /\ UNCHANGED <<row, finalizers, overlapped, late, at, current, stream>>
        /\ \A t \in Streams : t # s => streams'[t] = streams[t]
        /\ streams'[s].event = streams[s].event
    BY <1>14 DEF Rearm, poller, TypeOK, Stream
  <2>3. \A t \in Streams : /\ streams'[t].event = streams[t].event
                           /\ streams'[t].event = e => streams'[t] = streams[t]
    BY <2>1, <2>2
  <2>4. InFlight(e)' => InFlight(e)
    BY <2>2, <2>3 DEF InFlight
  <2>5. OneDispatch(e)'
    BY <1>1, <2>2, <2>3, <2>4 DEF LeaseHolds, OneDispatch
  <2>6. Pending(e)' => LeaseLeft(e)'
    BY <1>1, <2>2, <2>3 DEF LeaseHolds, LeaseLeft, Pending, Slack
  <2> QED  BY <1>2, <2>2, <2>5, <2>6 DEF Protected
<1>15. CASE InsertFails \/ SendFails
  BY <1>1, <1>15, IngressFailsKeepsLease DEF InsertFails, SendFails, Sending
<1>16. CASE InsertOk
  <2>1. /\ UNCHANGED <<row, finalizers, overlapped, late, current, stream>>
        /\ at = "insert" /\ at' = "start"
    BY <1>16 DEF InsertOk, Goto, history, causes
  <2>2. \A t \in Streams : /\ streams'[t].event = streams[t].event
                           /\ streams'[t].timer = streams[t].timer
    BY <1>16 DEF InsertOk, TypeOK, Stream
  <2>3. OneDispatch(e)'
    BY <1>1, <2>1, <2>2 DEF LeaseHolds, OneDispatch, Sending
  <2>4. Pending(e)' => LeaseLeft(e)'
    BY <1>1, <2>1, <2>2 DEF LeaseHolds, LeaseLeft, Pending, Slack
  <2> QED  BY <1>2, <2>1, <2>3, <2>4 DEF Protected
<1>17. CASE IngressProceeds
  <2>1. UNCHANGED <<row, streams, finalizers, overlapped, late>>
    BY <1>17 DEF IngressProceeds, history, causes
  <2>2. CASE NextEvent
    <3>1. at' \in {"idle", "claim"}
      BY <2>2, NextEventAt
    <3> QED  BY <1>1, <1>2, <2>1, <3>1, LoopKeepsLease
  <2>3. CASE ~NextEvent
    <3>1. at \in Sending /\ at' \in Sending /\ UNCHANGED <<current, stream>>
      BY <1>17, <2>3 DEF IngressProceeds, Goto, Sending
    <3>2. OneDispatch(e)'
      BY <1>1, <2>1, <3>1 DEF LeaseHolds, OneDispatch, Sending
    <3>3. Pending(e)' => LeaseLeft(e)'
      BY <1>1, <2>1, <3>1 DEF LeaseHolds, LeaseLeft, Pending, Slack, Sending
    <3> QED  BY <1>2, <2>1, <3>2, <3>3 DEF Protected
  <2> QED  BY <2>2, <2>3
<1>18. ASSUME NEW f \in finalizers, RequestUpdated(f) \/ ReadsPending(f)
       PROVE  Protected(e)'
  <2>1. PICK g : finalizers' = (finalizers \ {f}) \cup {g} /\ g.event = f.event
    <3>1. f \in Finalizer
      BY DEF TypeOK
    <3>2. CASE RequestUpdated(f)
      <4> DEFINE g == [f EXCEPT !.at = IF f.delivered THEN "deliver" ELSE "read"]
      <4>1. finalizers' = (finalizers \ {f}) \cup {g}
        BY <3>2 DEF RequestUpdated
      <4>2. g.event = f.event
        BY <3>1 DEF Finalizer
      <4> QED  BY <4>1, <4>2
    <3>3. CASE ReadsPending(f)
      <4> DEFINE g == [f EXCEPT !.at = "write", !.attempts = row[f.event].attempts]
      <4>1. finalizers' = (finalizers \ {f}) \cup {g}
        BY <3>3 DEF ReadsPending
      <4>2. g.event = f.event
        BY <3>1 DEF Finalizer
      <4> QED  BY <4>1, <4>2
    <3> QED  BY <1>18, <3>2, <3>3
  <2>2. UNCHANGED <<row, streams, overlapped, late, at, current, stream>>
    BY <1>18 DEF RequestUpdated, ReadsPending, poller, history, causes
  <2>3. InFlight(e)' => InFlight(e)
    BY <2>1, <2>2 DEF InFlight
  <2>4. OneDispatch(e)'
    BY <1>1, <2>2, <2>3 DEF LeaseHolds, OneDispatch
  <2>5. Pending(e)' => LeaseLeft(e)'
    BY <1>1, <2>1, <2>2 DEF LeaseHolds, LeaseLeft, Pending, Slack
  <2> QED  BY <1>2, <2>2, <2>4, <2>5 DEF Protected
<1>19. ASSUME NEW f \in finalizers,
              \/ Delivers(f) \/ ReadsSettled(f) \/ Retries(f) \/ MarkFails(f)
       PROVE  Protected(e)'
  <2>1. f.event \in Events /\ f.attempts \in Nat
    BY DEF TypeOK, Finalizer
  <2>2. f.event # e => row'[e] = row[e]
    BY <1>19, <2>1, RetryTyped, DeliveredTyped
    DEF Delivers, ReadsSettled, Retries, MarkFails
  <2>3. FinalizerReturns(f)
    BY <1>19 DEF Delivers, ReadsSettled, Retries, MarkFails
  <2> QED  BY <1>1, <2>2, <2>3, ReturnKeepsLease
<1>20. CASE Tick
  BY <1>1, <1>20, TickKeepsLease
<1>21. CASE GatewayRestart
  <2>1. /\ at' = "idle" /\ finalizers' = {} /\ UNCHANGED <<row, overlapped>>
        /\ \A s \in Streams : streams'[s].event = None
    BY <1>21 DEF GatewayRestart, LeaveLoop, history, causes, Free
  <2>2. e # None
    BY WebhookAssumption
  <2> QED  BY <1>2, <2>1, <2>2
           DEF Protected, OneDispatch, LeaseLeft, InFlight, Sending
<1> QED
  BY <1>3, <1>4, <1>5, <1>6, <1>7, <1>8, <1>9, <1>10, <1>11, <1>12, <1>13,
     <1>14, <1>15, <1>16, <1>17, <1>18, <1>19, <1>20, <1>21
  DEF Next, PollerStep, PollerFails, StreamEvent, FinalizerStep,
      OnAgentResponseStart, OnAgentResponseChunk, OnAgentResponseEnd,
      OnStreamError, SessionCloses, StreamTimeout

(* The clock reaches a waiting claim and the slack together.               *)
LEMMA ClaimTimedStep ==
    ASSUME TypeOK, PollerShape, ClaimTimed, [Next]_vars
    PROVE  ClaimTimed'
<1>1. Slack \in Nat /\ Slack' = Slack
  BY WebhookAssumption DEF Slack
<1>2. CASE at' # "claim"
  BY <1>2 DEF ClaimTimed
<1>3. ASSUME claimAge' = 0, current' \in Events, late' = late
      PROVE  ClaimTimed'
  BY <1>1, <1>3 DEF TypeOK, ClaimTimed
<1>4. ASSUME UNCHANGED <<at, current, claimAge, late>>
      PROVE  ClaimTimed'
  BY <1>1, <1>4 DEF ClaimTimed
<1>5. ASSUME NEW B \in SUBSET Events, Take(B), late' = late
      PROVE  ClaimTimed'
  BY <1>3, <1>5 DEF Take
<1>6. ASSUME NextEvent \/ LeaveLoop, late' = late
      PROVE  ClaimTimed'
  <2>1. CASE LeaveLoop
    BY <1>2, <2>1 DEF LeaveLoop
  <2>2. CASE NextEvent /\ batch # {}
    BY <1>5, <1>6, <2>2 DEF NextEvent, TypeOK
  <2>3. CASE NextEvent /\ batch = {}
    BY <2>1, <2>3 DEF NextEvent
  <2> QED  BY <1>6, <2>1, <2>2, <2>3
<1>7. CASE Select
  <2>1. DueBatch \in SUBSET Events /\ late' = late
    BY <1>7 DEF DueBatch, Select
  <2> QED  BY <1>5, <1>6, <1>7, <2>1 DEF Select
<1>8. CASE Tick
  <2>1. CASE at = "claim"
    <3>1. current \in Events /\ at' = at /\ current' = current
      BY <1>8, <2>1 DEF PollerShape, Tick
    <3>2. late[current] \in Nat /\ claimAge \in Nat
      BY <3>1 DEF TypeOK
    <3>3. late'[current] = IF late[current] < Slack THEN late[current] + 1
                                                    ELSE late[current]
      BY <1>8, <2>1, <3>1 DEF Tick, Untimed
    <3>4. claimAge' = claimAge \/ claimAge' = claimAge + 1
      BY <1>8 DEF Tick
    <3> QED  BY <1>1, <2>1, <3>1, <3>2, <3>3, <3>4 DEF ClaimTimed
  <2>2. CASE at # "claim"
    BY <1>2, <1>8, <2>2 DEF Tick
  <2> QED  BY <2>1, <2>2
<1>9. CASE InsertFails \/ SendFails
  BY <1>2, <1>9 DEF InsertFails, SendFails, IngressFails, Goto
<1>10. ASSUME NEW f \in finalizers, FinalizerReturns(f)
       PROVE  ClaimTimed'
  BY <1>2, <1>4, <1>10 DEF FinalizerReturns, poller, history, causes
<1>11. CASE ClaimRefused \/ LookupMissing \/ Throws \/ RetrySelected
            \/ GatewayRestart
  BY <1>6, <1>11
  DEF ClaimRefused, LookupMissing, Throws, RetrySelected, GatewayRestart,
      history, causes
<1>12. CASE IngressProceeds
  BY <1>2, <1>6, <1>12 DEF IngressProceeds, Goto, history, causes
<1>13. CASE Poll \/ Claim \/ NoAgentOrBusy \/ InsertOk
  BY <1>2, <1>13 DEF Poll, Claim, NoAgentOrBusy, InsertOk, Goto
<1>14. ASSUME NEW s \in Streams, StartStream(s)
       PROVE  ClaimTimed'
  BY <1>2, <1>14 DEF StartStream
<1>15. ASSUME NEW s \in Streams, NEW d, FinalizeByEvent(s, d) \/ Rearm(s, d)
       PROVE  ClaimTimed'
  BY <1>4, <1>15 DEF FinalizeByEvent, Rearm, poller
<1>16. ASSUME NEW f \in finalizers, RequestUpdated(f) \/ ReadsPending(f)
       PROVE  ClaimTimed'
  BY <1>4, <1>16 DEF RequestUpdated, ReadsPending, poller, history, causes
<1>17. ASSUME NEW e \in Events, Enqueue(e) \/ Cascade(e)
       PROVE  ClaimTimed'
  BY <1>4, <1>17 DEF Enqueue, Cascade, poller, history, causes
<1>18. CASE UNCHANGED vars
  BY <1>4, <1>18 DEF vars, poller, history, causes
<1> QED
  BY <1>7, <1>8, <1>9, <1>10, <1>11, <1>12, <1>13, <1>14, <1>15, <1>16, <1>17,
     <1>18
  DEF Next, PollerStep, PollerFails, StreamEvent, FinalizerStep,
      OnAgentResponseStart, OnAgentResponseChunk, OnAgentResponseEnd,
      OnStreamError, SessionCloses, StreamTimeout, Delivers, ReadsSettled,
      Retries, MarkFails

-----------------------------------------------------------------------------
(* The count of attempts.                                                  *)

(* What one step may do to the row of e, as far as its count goes.         *)
RowCounts(e) ==
    /\ Pending(e) => row[e].attempts < MaxRetries
    /\ row[e].status = "failed" => row[e].attempts = MaxRetries

(* A retry from a count below the limit writes a count within it.          *)
LEMMA RetryCounts ==
    ASSUME TypeOK, CountInv, NEW x \in Events, NEW n \in Nat, n < MaxRetries,
           row' = MarkRetry(x, n), NEW e \in Events
    PROVE  RowCounts(e)'
<1>1. MaxRetries \in Nat
  BY WebhookAssumption
<1>2. CASE x = e
  BY <1>1, <1>2 DEF TypeOK, MarkRetry, RowCounts, Pending, Exists
<1>3. CASE x # e
  BY <1>3, RetryTyped DEF RowCounts, Pending, CountInv, AttemptsWithinLimit
<1> QED  BY <1>2, <1>3

(* Rows keep to the limit, whichever copy of the count is written.         *)
LEMMA RowCountStep ==
    ASSUME TypeOK, PollerShape, CountInv, [Next]_vars, NEW e \in Events
    PROVE  RowCounts(e)'
<1>1. CASE row' = row
  BY <1>1 DEF RowCounts, CountInv, AttemptsWithinLimit, Pending
<1>2. ASSUME NEW x \in Events, Enqueue(x) \/ Cascade(x)
      PROVE  RowCounts(e)'
  <2>1. \/ row'[e] = row[e]
        \/ row'[e].status = "pending" /\ row'[e].attempts = 0
        \/ row'[e].status = "none"
    <3>1. CASE Enqueue(x)
      BY <3>1 DEF Enqueue, TypeOK
    <3>2. CASE Cascade(x)
      BY <3>2 DEF Cascade, TypeOK
    <3> QED  BY <1>2, <3>1, <3>2
  <2> QED  BY <2>1, WebhookAssumption
           DEF RowCounts, CountInv, AttemptsWithinLimit, Pending
<1>3. CASE Claim \/ Tick
  <2>1. row'[e].status = row[e].status /\ row'[e].attempts = row[e].attempts
    BY <1>3 DEF Claim, Tick, TypeOK, Row
  <2> QED  BY <2>1 DEF RowCounts, CountInv, AttemptsWithinLimit, Pending
<1>4. CASE RetrySelected
  <2>1. current \in Events /\ snapshot[current] \in Nat
    BY <1>4 DEF RetrySelected, TypeOK, PollerShape
  <2> QED  BY <1>4, <2>1, RetryCounts DEF RetrySelected, CountInv
<1>5. ASSUME NEW f \in finalizers, Delivers(f)
      PROVE  RowCounts(e)'
  <2>1. f.event \in Events
    BY DEF TypeOK, Finalizer
  <2> QED  BY <1>5, <2>1
           DEF Delivers, MarkDelivered, TypeOK, Row, RowCounts, CountInv,
               AttemptsWithinLimit, Pending
<1>6. ASSUME NEW f \in finalizers, Retries(f)
      PROVE  RowCounts(e)'
  <2>1. f.event \in Events /\ f.attempts \in Nat
    BY DEF TypeOK, Finalizer
  <2> QED  BY <1>6, <2>1, RetryCounts DEF Retries, CountInv
<1> QED
  BY <1>1, <1>2, <1>3, <1>4, <1>5, <1>6
  DEF Next, vars, PollerStep, PollerFails, StreamEvent, Poll, Select,
      ClaimRefused, LookupMissing, NoAgentOrBusy, Throws, InsertFails, SendFails,
      InsertOk, IngressProceeds, StartStream, FinalizeByEvent, StreamTimeout,
      OnAgentResponseStart, OnAgentResponseChunk, Rearm, OnAgentResponseEnd,
      OnStreamError, SessionCloses, FinalizerStep, RequestUpdated, ReadsPending,
      ReadsSettled, MarkFails, GatewayRestart

(* Copies of a count are taken of pending rows alone.                      *)
LEMMA SnapshotStep ==
    ASSUME TypeOK, CountInv, [Next]_vars, NEW e \in Events
    PROVE  snapshot'[e] < MaxRetries
<1>1. 0 < MaxRetries
  BY WebhookAssumption
<1>2. CASE snapshot' = snapshot
  BY <1>2 DEF CountInv
<1>3. CASE LeaveLoop
  BY <1>1, <1>3 DEF LeaveLoop
<1>4. CASE NextEvent
  BY <1>2, <1>3, <1>4 DEF NextEvent
<1>5. CASE Select
  BY <1>1, <1>3, <1>5
  DEF Select, DueBatch, Due, CountInv, AttemptsWithinLimit
<1>6. CASE IngressFails
  BY <1>2, <1>6 DEF IngressFails, Goto
<1>7. ASSUME NEW f \in finalizers, FinalizerReturns(f)
      PROVE  snapshot' = snapshot
  BY <1>7 DEF FinalizerReturns, poller
<1> QED
  BY <1>2, <1>3, <1>4, <1>5, <1>6, <1>7
  DEF Next, vars, poller, PollerStep, PollerFails, StreamEvent, Enqueue, Cascade,
      Poll, Claim, ClaimRefused, LookupMissing, NoAgentOrBusy, Throws, Goto,
      RetrySelected, InsertFails, SendFails, InsertOk, IngressProceeds,
      StartStream, FinalizeByEvent, StreamTimeout, OnAgentResponseStart,
      OnAgentResponseChunk, Rearm, OnAgentResponseEnd, OnStreamError,
      SessionCloses, FinalizerStep, RequestUpdated, Delivers, ReadsPending,
      ReadsSettled, Retries, MarkFails, Tick, GatewayRestart

LEMMA FinalizerCountStep ==
    ASSUME TypeOK, CountInv, [Next]_vars, NEW g \in finalizers', g.at = "write"
    PROVE  g.attempts < MaxRetries
<1>1. CASE g \in finalizers
  BY <1>1 DEF CountInv
<1>2. ASSUME NEW s, NEW id, NEW d, Finalize(s, id, d)
      PROVE  g \in finalizers
  BY <1>2 DEF Finalize
<1>3. ASSUME NEW f \in finalizers, RequestUpdated(f), g \notin finalizers
      PROVE  FALSE
  <2>1. g = [f EXCEPT !.at = IF f.delivered THEN "deliver" ELSE "read"]
    BY <1>3 DEF RequestUpdated
  <2> QED  BY <2>1 DEF TypeOK, Finalizer
<1>4. ASSUME NEW f \in finalizers, ReadsPending(f), g \notin finalizers
      PROVE  g.attempts < MaxRetries
  <2>1. f \in Finalizer /\ f.event \in Events
    BY DEF TypeOK, Finalizer
  <2>2. g = [f EXCEPT !.at = "write", !.attempts = row[f.event].attempts]
    BY <1>4 DEF ReadsPending
  <2>3. g.attempts = row[f.event].attempts
    BY <2>1, <2>2 DEF Finalizer
  <2> QED  BY <1>4, <2>1, <2>3 DEF ReadsPending, CountInv, AttemptsWithinLimit
<1>5. ASSUME NEW f \in finalizers, FinalizerReturns(f)
      PROVE  g \in finalizers
  BY <1>5 DEF FinalizerReturns
<1>6. ASSUME IngressFails
      PROVE  g \in finalizers
  BY <1>2, <1>6 DEF IngressFails
<1>7. ASSUME NEW s \in Streams, NEW d, FinalizeByEvent(s, d)
      PROVE  g \in finalizers
  BY <1>2, <1>7 DEF FinalizeByEvent
<1> QED
  BY <1>1, <1>3, <1>4, <1>5, <1>6, <1>7
  DEF Next, vars, PollerStep, PollerFails, StreamEvent, Enqueue, Cascade,
      Poll, Select, Claim, ClaimRefused, LookupMissing, NoAgentOrBusy, Throws,
      RetrySelected, InsertFails, SendFails, InsertOk, IngressProceeds,
      StartStream, StreamTimeout, OnAgentResponseStart, OnAgentResponseChunk,
      Rearm, OnAgentResponseEnd, OnStreamError, SessionCloses, FinalizerStep,
      Delivers, ReadsSettled, Retries, MarkFails, Tick, GatewayRestart

LEMMA CountStep ==
    ASSUME TypeOK, PollerShape, CountInv, [Next]_vars
    PROVE  CountInv'
<1>1. AttemptsWithinLimit'
  BY RowCountStep DEF RowCounts, AttemptsWithinLimit
<1>2. \A e \in Events : snapshot'[e] < MaxRetries
  BY SnapshotStep
<1>3. \A f \in finalizers' : f.at = "write" => f.attempts < MaxRetries
  BY FinalizerCountStep
<1> QED  BY <1>1, <1>2, <1>3 DEF CountInv

-----------------------------------------------------------------------------
(* The theorems.                                                           *)

LEMMA InitInvariant == Init => LeaseInv /\ CountInv
<1> SUFFICES ASSUME Init
             PROVE  LeaseInv /\ CountInv
  OBVIOUS
<1>1. TypeOK
  <2>1. \A s \in Streams : streams[s] \in Stream
    BY FreeTyped DEF Init
  <2>2. streams \in [Streams -> Stream]
    BY <2>1 DEF Init
  <2>3. isProcessing \in BOOLEAN
    BY Zenon DEF Init, Idle
  <2> QED  BY <2>2, <2>3 DEF Init, Idle, TypeOK, Row, Statuses, Locations
<1>2. \A s \in Streams : streams[s].event = None
  BY DEF Init, Free
<1>3. PollerShape
  BY DEF Init, Idle, PollerShape, Sending
<1>4. Known
  BY <1>2, WebhookAssumption DEF Init, Idle, Known, Exists, InFlight
<1>5. SlotsMatch /\ OneFinalizer
  BY <1>2 DEF Init, SlotsMatch, OneFinalizer, Open
<1>6. LeaseHolds
  BY <1>2, WebhookAssumption
  DEF Init, Idle, LeaseHolds, OneDispatch, LeaseLeft, InFlight, Pending
<1>7. ClaimTimed
  BY DEF Init, Idle, ClaimTimed
<1>8. CountInv
  BY WebhookAssumption DEF Init, Idle, CountInv, AttemptsWithinLimit, Pending
<1> QED  BY <1>1, <1>3, <1>4, <1>5, <1>6, <1>7, <1>8 DEF LeaseInv

(* Every step keeps the invariant.                                         *)
LEMMA InvariantStep ==
    LeaseInv /\ CountInv /\ [Next]_vars => LeaseInv' /\ CountInv'
BY TypeStep, ShapeStep, KnownStep, SlotsStep, LeaseStep, ClaimTimedStep,
   CountStep
DEF LeaseInv

(* The lease invariant: for every event no exception applies to, there is  *)
(* one dispatch at a time and its lease outlasts it, in every state of the *)
(* gateway (LINE_WEBHOOK_DISPATCH_LEASE_MS, index.ts).                     *)
THEOREM LeaseInvariant == Spec => [](LeaseInv /\ CountInv)
<1>1. Init => LeaseInv /\ CountInv
  BY InitInvariant
<1>2. LeaseInv /\ CountInv /\ [Next]_vars => (LeaseInv /\ CountInv)'
  BY InvariantStep
<1> QED  BY <1>1, <1>2, PTL DEF Spec

(* Every variable keeps its type: rows keep to the statuses of the schema, *)
(* and no nextRetryAt or timer is counted below zero.                      *)
THEOREM TypeCorrect == Spec => []TypeOK
<1>1. LeaseInv => TypeOK
  BY DEF LeaseInv
<1> QED  BY <1>1, LeaseInvariant, PTL

(* The lease that claimLineWebhookEventForDispatch takes keeps the poller  *)
(* from dispatching an event twice at a time, outside the named exceptions.*)
THEOREM LeaseProtects == Spec => []LeasePreventsOverlap
<1>1. LeaseInv => LeasePreventsOverlap
  <2> SUFFICES ASSUME LeaseInv, NEW e \in overlapped
               PROVE  e \in rearmed \cup twice \/ late[e] >= Slack
    BY DEF LeasePreventsOverlap
  <2>1. e \in Events /\ ~Sound(e)
    BY DEF LeaseInv, TypeOK, LeaseHolds
  <2>2. late[e] \in Nat /\ Slack \in Nat
    BY <2>1, WebhookAssumption DEF LeaseInv, TypeOK, Slack
  <2> QED  BY <2>1, <2>2 DEF Sound
<1> QED  BY <1>1, LeaseInvariant, PTL

(* However snapshots and finalizers interleave, markLineWebhookEventRetry  *)
(* gives an event up at exactly LINE_WEBHOOK_MAX_RETRIES attempts.         *)
THEOREM AttemptsBounded == Spec => []AttemptsWithinLimit
<1>1. CountInv => AttemptsWithinLimit
  BY DEF CountInv
<1> QED  BY <1>1, LeaseInvariant, PTL
=============================================================================
