-------------------------- MODULE WebhookRetryProofs --------------------------
(***************************************************************************)
(* Theorems about what becomes of a LineWebhook event: that it stays       *)
(* settled, that it is given up only after all its claims, and that the    *)
(* queue implements WebhookContract.  They rest on the lease invariant of  *)
(* LineWebhookProofs, and on what one step does to the slots, the          *)
(* finalizers and the batch as one event sees them.                        *)
(***************************************************************************)
EXTENDS LineWebhookProofs

-----------------------------------------------------------------------------
(* The effects of the steps that several arguments share.                  *)

(* Every slot keeps its stream, or stays free.                             *)
SlotsSame == \A t \in Streams : streams'[t].event = streams[t].event

(* The event's row keeps what the retries are decided by.                  *)
RowSame(e) == /\ row'[e].status = row[e].status
              /\ row'[e].attempts = row[e].attempts

PollerSame ==
    UNCHANGED <<at, batch, snapshot, current, stream, awaited>>

LEMMA FinalizeEffect ==
    ASSUME TypeOK, NEW s \in Streams, NEW id, NEW d, Finalize(s, id, d)
    PROVE  /\ SlotsSame /\ streams[s].event \in Events
           /\ \E g : /\ finalizers' = finalizers \cup {g}
                     /\ g.stream = s /\ g.id = id /\ g.event = streams[s].event
                     /\ g.delivered = d /\ g.at = "update"
<1>1. SlotsSame /\ streams[s].event \in Events
  BY DEF TypeOK, Finalize, Stream, SlotsSame, Open
<1> DEFINE g == [stream |-> s, id |-> id, event |-> streams[s].event,
                 delivered |-> d, at |-> "update", attempts |-> 0]
<1>2. finalizers' = finalizers \cup {g}
  BY DEF Finalize
<1>3. /\ g.stream = s /\ g.id = id /\ g.event = streams[s].event
      /\ g.delivered = d /\ g.at = "update"
  OBVIOUS
<1> HIDE DEF g
<1> QED  BY <1>1, <1>2, <1>3, Zenon

(* finalizeStream goes on with the same stream, event and outcome.         *)
LEMMA AdvanceEffect ==
    ASSUME TypeOK, NEW f \in finalizers, RequestUpdated(f) \/ ReadsPending(f)
    PROVE  /\ UNCHANGED <<row, createdAt, poller, streams, history>>
           /\ \E g : /\ finalizers' = (finalizers \ {f}) \cup {g}
                     /\ g.stream = f.stream /\ g.id = f.id /\ g.event = f.event
                     /\ g.delivered = f.delivered
                     /\ g.at = "deliver" => f.delivered
                     /\ g.at = "write" =>
                          Pending(f.event) /\ g.attempts = row[f.event].attempts
<1>1. f \in Finalizer
  BY DEF TypeOK
<1>2. UNCHANGED <<row, createdAt, poller, streams, history>>
  BY DEF RequestUpdated, ReadsPending
<1>3. CASE RequestUpdated(f)
  <2> DEFINE g == [f EXCEPT !.at = IF f.delivered THEN "deliver" ELSE "read"]
  <2>1. finalizers' = (finalizers \ {f}) \cup {g}
    BY <1>3 DEF RequestUpdated
  <2>2. /\ g.stream = f.stream /\ g.id = f.id /\ g.event = f.event
        /\ g.delivered = f.delivered
        /\ g.at = "deliver" => f.delivered
        /\ g.at # "write"
    BY <1>1 DEF Finalizer
  <2> HIDE DEF g
  <2> QED  BY <1>2, <2>1, <2>2, Zenon
<1>4. CASE ReadsPending(f)
  <2> DEFINE g == [f EXCEPT !.at = "write", !.attempts = row[f.event].attempts]
  <2>1. finalizers' = (finalizers \ {f}) \cup {g}
    BY <1>4 DEF ReadsPending
  <2>2. /\ g.stream = f.stream /\ g.id = f.id /\ g.event = f.event
        /\ g.delivered = f.delivered /\ g.at # "deliver"
        /\ g.attempts = row[f.event].attempts /\ Pending(f.event)
    BY <1>1, <1>4 DEF Finalizer, ReadsPending
  <2> HIDE DEF g
  <2> QED  BY <1>2, <2>1, <2>2, Zenon
<1> QED  BY <1>3, <1>4

(* finalizeStream ends: its slot is free; the poller may have waited.      *)
LEMMA ReturnEffect ==
    ASSUME TypeOK, NEW f \in finalizers, FinalizerReturns(f)
    PROVE  /\ f.stream \in Streams /\ f.event \in Events
           /\ streams'[f.stream].event = None
           /\ \A t \in Streams : t # f.stream => streams'[t] = streams[t]
           /\ finalizers' = finalizers \ {f}
           /\ UNCHANGED <<batch, snapshot, current, stream, history>>
           /\ \/ /\ at = "failing" /\ stream = f.stream /\ awaited = f.id
                 /\ at' = "retry"
              \/ /\ ~(at = "failing" /\ stream = f.stream /\ awaited = f.id)
                 /\ at' = at /\ awaited' = awaited
<1>1. f.stream \in Streams /\ f.event \in Events
  BY DEF TypeOK, Finalizer
<1>2. /\ streams'[f.stream].event = None
      /\ \A t \in Streams : t # f.stream => streams'[t] = streams[t]
  BY <1>1 DEF TypeOK, FinalizerReturns, Free
<1> QED  BY <1>1, <1>2 DEF FinalizerReturns, poller

(* The loop goes on to an event of the batch, or ends.                     *)
LEMMA LoopEffect ==
    ASSUME NextEvent \/ LeaveLoop
    PROVE  \/ /\ at' = "claim" /\ current' \in batch /\ batch' = batch \ {current'}
              /\ snapshot' = snapshot
           \/ at' = "idle" /\ batch' = {} /\ current' = None
BY DEF NextEvent, LeaveLoop, Take

(* The steps that leave every stream in its slot and the rows as they are. *)
LEMMA RearmEffect ==
    ASSUME TypeOK, NEW s \in Streams, NEW u, Rearm(s, u)
    PROVE  /\ SlotsSame /\ PollerSame
           /\ UNCHANGED <<row, createdAt, finalizers, claims, overlapped, twice, early>>
BY DEF TypeOK, Rearm, Stream, SlotsSame, PollerSame, poller

LEMMA InsertOkEffect ==
    ASSUME TypeOK, PollerShape, InsertOk
    PROVE  /\ SlotsSame /\ at = "insert" /\ at' = "start"
           /\ UNCHANGED <<batch, snapshot, current, stream, awaited>>
           /\ UNCHANGED <<row, createdAt, finalizers, history>>
BY DEF TypeOK, PollerShape, Sending, InsertOk, Goto, Stream, SlotsSame

LEMMA TickEffect ==
    ASSUME TypeOK, Tick
    PROVE  /\ SlotsSame /\ PollerSame
           /\ \A e \in Events : RowSame(e)
           /\ UNCHANGED <<createdAt, finalizers, claims, overlapped, twice, early>>
BY DEF TypeOK, Tick, Stream, Row, SlotsSame, PollerSame, RowSame

(* The exceptions grow.                                                    *)
Clean(e) == e \notin overlapped \cup twice \cup early

LEMMA HistoryStep ==
    ASSUME TypeOK, PollerShape, [Next]_vars
    PROVE  /\ twice \subseteq twice' /\ overlapped \subseteq overlapped'
           /\ early \subseteq early'
           /\ \A e \in Events : \/ claims'[e] = claims[e]
                                \/ /\ claims[e] < MaxRetries
                                   /\ claims'[e] = claims[e] + 1
                                   /\ Claim /\ current = e
<1>1. CASE UNCHANGED history
  BY <1>1 DEF history, causes
<1>2. CASE Claim
  BY <1>2 DEF Claim, TypeOK, PollerShape
<1>3. CASE UNCHANGED claims /\ twice \subseteq twice'
           /\ overlapped \subseteq overlapped' /\ early \subseteq early'
  BY <1>3
<1>4. CASE Select
  BY <1>3, <1>4 DEF Select
<1>5. CASE InsertFails \/ SendFails
  BY <1>3, <1>5 DEF InsertFails, SendFails, IngressFails, Finalize
<1>6. ASSUME NEW s \in Streams, NEW d, FinalizeByEvent(s, d) \/ Rearm(s, d)
      PROVE  UNCHANGED claims /\ twice \subseteq twice'
             /\ overlapped \subseteq overlapped' /\ early \subseteq early'
  BY <1>6 DEF FinalizeByEvent, Finalize, Rearm
<1>7. CASE Tick
  BY <1>3, <1>7 DEF Tick
<1> QED
  BY <1>1, <1>2, <1>3, <1>4, <1>5, <1>6, <1>7
  DEF Next, vars, Enqueue, Cascade, PollerStep, PollerFails,
      Poll, ClaimRefused, LookupMissing, NoAgentOrBusy, Throws,
      RetrySelected, InsertOk, IngressProceeds, StreamEvent, StartStream,
      StreamTimeout, OnAgentResponseStart, OnAgentResponseChunk,
      OnAgentResponseEnd, OnStreamError, SessionCloses, FinalizerStep,
      RequestUpdated, Delivers, ReadsPending, ReadsSettled, Retries, MarkFails,
      FinalizerReturns, GatewayRestart

-----------------------------------------------------------------------------
(* Settled events.                                                         *)

(* What the poller holds of the event is what its row says.                *)
Fresh(e) == Exists(e) => Pending(e) /\ row[e].attempts = snapshot[e]

(* An event that only one party has worked on at a time.  Whoever may      *)
(* still write its row is the one that can settle it: while a stream of it *)
(* is in flight the row is not settled, what the poller is about to        *)
(* dispatch has no stream, and a poller that has given up on the dispatch  *)
(* counts the attempt its finalizer counted.                               *)
Undisturbed(e) ==
    /\ \A s, t \in Streams :
           streams[s].event = e /\ streams[t].event = e => s = t
    /\ InFlight(e) => row[e].status \in {"none", "pending"}
    /\ e \in batch \/ (current = e /\ at \in {"claim", "lookup"}) =>
           ~InFlight(e) /\ Fresh(e)
    /\ current = e /\ at \in Sending => Fresh(e) /\ streams[stream].event = e
    /\ current = e /\ at \in Sending \ {"failing"} =>
           \A f \in finalizers : f.event # e
    /\ current = e /\ at = "failing" =>
           \A f \in finalizers : f.event = e =>
               /\ f.id = awaited /\ ~f.delivered /\ f.at # "deliver"
               /\ f.at = "write" => f.attempts = snapshot[e]
    /\ current = e /\ at = "retry" =>
           /\ ~InFlight(e) /\ row[e].status # "delivered"
           /\ row[e].status = "failed" => snapshot[e] + 1 >= MaxRetries

SettleInv ==
    /\ current \notin batch
    /\ \A e \in Events : Clean(e) => Undisturbed(e)

(* The poller and the streams stay.                                        *)
LEMMA StayUndisturbed ==
    ASSUME NEW e \in Events, Undisturbed(e), PollerShape,
           SlotsSame, PollerSame, finalizers' = finalizers,
           \/ RowSame(e)
           \/ row'[e].status = "none"
           \/ ~InFlight(e) /\ current # e /\ e \notin batch
    PROVE  Undisturbed(e)'
<1>1. InFlight(e)' <=> InFlight(e)
  BY DEF SlotsSame, InFlight
<1>2. at \in Sending => stream \in Streams
  BY DEF PollerShape
<1> QED  BY <1>1, <1>2
         DEF Undisturbed, SlotsSame, PollerSame, RowSame, Fresh, Exists, Pending

(* The loop goes on; the event is left, stays in the batch or is taken.    *)
LEMMA LoopUndisturbed ==
    ASSUME NEW e \in Events, Undisturbed(e), NextEvent \/ LeaveLoop,
           streams' = streams, finalizers' = finalizers,
           RowSame(e) \/ (~InFlight(e) /\ e \notin batch)
    PROVE  Undisturbed(e)'
<1>1. InFlight(e)' <=> InFlight(e)
  BY DEF InFlight
<1>2. e # None
  BY WebhookAssumption
<1>3. \/ /\ at' = "claim" /\ current' \in batch /\ batch' = batch \ {current'}
         /\ snapshot' = snapshot
      \/ at' = "idle" /\ batch' = {} /\ current' = None
  BY LoopEffect
<1> QED  BY <1>1, <1>2, <1>3
         DEF Undisturbed, RowSame, Fresh, Exists, Pending, Sending

(* Select takes the due events whose copy it has just made.                *)
LEMMA SelectUndisturbed ==
    ASSUME TypeOK, PollerShape, NEW e \in Events, Undisturbed(e), Select,
           e \notin overlapped'
    PROVE  Undisturbed(e)'
<1>1. /\ UNCHANGED <<row, streams, finalizers>>
      /\ InFlight(e)' <=> InFlight(e)
  BY DEF Select, InFlight
<1>2. e # None
  BY WebhookAssumption
<1>3. CASE DueBatch = {}
  <2>1. at' = "idle" /\ batch' = {} /\ current' = None
    BY <1>3 DEF Select, LeaveLoop
  <2> QED  BY <1>1, <1>2, <2>1 DEF Undisturbed, Sending
<1>4. CASE DueBatch # {}
  <2>1. /\ at' = "claim" /\ current' \in DueBatch
        /\ batch' = DueBatch \ {current'}
        /\ e \in DueBatch => snapshot'[e] = row[e].attempts /\ ~InFlight(e)
    BY <1>4 DEF Select, Take
  <2>2. e \in DueBatch => Pending(e)
    BY DEF DueBatch, Due
  <2> QED  BY <1>1, <1>2, <2>1, <2>2
           DEF Undisturbed, Fresh, Exists, Pending, Sending
<1> QED  BY <1>3, <1>4

LEMMA ClaimUndisturbed ==
    ASSUME TypeOK, PollerShape, NEW e \in Events, Undisturbed(e), Claim
    PROVE  Undisturbed(e)'
<1>1. RowSame(e)
  BY DEF Claim, TypeOK, PollerShape, Row, RowSame
<1>2. /\ at = "claim" /\ at' = "lookup"
      /\ UNCHANGED <<streams, finalizers, current, batch, snapshot>>
  BY DEF Claim
<1>3. InFlight(e)' <=> InFlight(e)
  BY <1>2 DEF InFlight
<1> QED  BY <1>1, <1>2, <1>3
         DEF Undisturbed, RowSame, Fresh, Exists, Pending, Sending

(* A dispatch starts: the event had no stream and gets this one.           *)
LEMMA StartUndisturbed ==
    ASSUME TypeOK, PollerShape, NEW e \in Events, Undisturbed(e),
           current \notin batch, NEW s \in Streams, StartStream(s)
    PROVE  Undisturbed(e)'
<1>1. /\ at = "lookup" /\ at' = "insert" /\ stream' = s /\ Exists(current)
      /\ streams[s].event = None
      /\ streams'[s].event = current
      /\ \A t \in Streams : t # s => streams'[t] = streams[t]
      /\ UNCHANGED <<row, finalizers, current, batch, snapshot>>
  BY DEF TypeOK, StartStream, Free, Open
<1>2. e # None
  BY WebhookAssumption
<1>3. CASE current = e
  <2>1. ~InFlight(e) /\ Fresh(e) /\ Pending(e)
    BY <1>1, <1>3 DEF Undisturbed, Fresh
  <2>2. \A f \in finalizers : f.event # e
    BY <2>1 DEF InFlight
  <2>3. \A t \in Streams : streams'[t].event = e => t = s
    BY <1>1, <1>2, <2>1 DEF InFlight
  <2> QED  BY <1>1, <1>3, <2>1, <2>2, <2>3
           DEF Undisturbed, Fresh, Exists, Pending, Sending
<1>4. CASE current # e
  <2>1. InFlight(e)' <=> InFlight(e)
    BY <1>1, <1>2, <1>4 DEF InFlight
  <2>2. \A t \in Streams : streams'[t].event = e => streams[t].event = e
    BY <1>1, <1>2, <1>4
  <2> QED  BY <1>1, <1>4, <2>1, <2>2 DEF Undisturbed, Fresh, Exists, Pending
<1> QED  BY <1>3, <1>4

(* A stream is finalized by an event: not the one the poller is sending.   *)
LEMMA EventUndisturbed ==
    ASSUME TypeOK, PollerShape, NEW e \in Events, Undisturbed(e),
           NEW s \in Streams, NEW d, FinalizeByEvent(s, d), e \notin early'
    PROVE  Undisturbed(e)'
<1>1. PICK id : Finalize(s, id, d)
  BY DEF FinalizeByEvent
<1>2. SlotsSame
  BY <1>1, FinalizeEffect
<1>3. PICK g : /\ finalizers' = finalizers \cup {g} /\ g.event = streams[s].event
  BY <1>1, FinalizeEffect
<1>4. PollerSame /\ row' = row
  BY DEF FinalizeByEvent, poller, PollerSame
<1>5. InFlight(e)' <=> InFlight(e)
  BY <1>2, <1>3 DEF InFlight, SlotsSame
<1>6. CASE streams[s].event = e
  <2>1. stream # s
    BY <1>6 DEF FinalizeByEvent
  <2>2. InFlight(e)
    BY <1>6 DEF InFlight
  <2>3. ~(e \in batch \/ (current = e /\ at \in {"claim", "lookup", "retry"}))
    BY <2>2 DEF Undisturbed
  <2>4. ~(current = e /\ at \in Sending)
    BY <1>6, <2>1 DEF Undisturbed, PollerShape
  <2> QED  BY <1>2, <1>4, <1>5, <2>3, <2>4
           DEF Undisturbed, SlotsSame, PollerSame, Sending
<1>7. CASE streams[s].event # e
  <2>1. \A f \in finalizers' : f.event = e => f \in finalizers
    BY <1>3, <1>7
  <2>2. at \in Sending => stream \in Streams
    BY DEF PollerShape
  <2> QED  BY <1>2, <1>4, <1>5, <2>1, <2>2
           DEF Undisturbed, SlotsSame, PollerSame, Fresh, Exists, Pending
<1> QED  BY <1>6, <1>7

(* startBufferedHttpIngress fails with its stream in the map, since only   *)
(* an event takes it out earlier; the poller awaits the one finalizer.     *)
LEMMA FailUndisturbed ==
    ASSUME TypeOK, PollerShape, NEW e \in Events, Undisturbed(e),
           at \in Sending \ {"failing"}, IngressFails, row' = row
    PROVE  Undisturbed(e)'
<1>1. stream \in Streams /\ UNCHANGED <<batch, snapshot, current, stream>>
  BY DEF PollerShape, IngressFails, Goto
<1>2. CASE Open(stream)
  <2>1. PICK id \in 1 .. MaxFinalizers :
          Finalize(stream, id, FALSE) /\ awaited' = id
    BY <1>2 DEF IngressFails
  <2>2. SlotsSame /\ at' = "failing"
    BY <1>1, <1>2, <2>1, FinalizeEffect DEF IngressFails
  <2>3. PICK g : /\ finalizers' = finalizers \cup {g}
                 /\ g.event = streams[stream].event /\ g.id = id
                 /\ ~g.delivered /\ g.at = "update"
    <3> DEFINE h == [stream |-> stream, id |-> id, event |-> streams[stream].event,
                     delivered |-> FALSE, at |-> "update", attempts |-> 0]
    <3>1. finalizers' = finalizers \cup {h}
      BY <2>1 DEF Finalize
    <3>2. /\ h.event = streams[stream].event /\ h.id = id
          /\ ~h.delivered /\ h.at = "update"
      OBVIOUS
    <3> HIDE DEF h
    <3> QED  BY <3>1, <3>2, Zenon
  <2>4. InFlight(e)' <=> InFlight(e)
    BY <1>1, <2>2, <2>3 DEF InFlight, SlotsSame
  <2>5. current = e => \A f \in finalizers' : f.event = e => f = g
    BY <2>3 DEF Undisturbed
  <2>6. /\ \A s, t \in Streams :
             streams'[s].event = e /\ streams'[t].event = e => s = t
        /\ InFlight(e)' => row'[e].status \in {"none", "pending"}
        /\ e \in batch' => ~InFlight(e)' /\ Fresh(e)'
    BY <1>1, <2>2, <2>4 DEF Undisturbed, SlotsSame, Fresh, Exists, Pending
  <2>7. current' = e => Fresh(e)' /\ streams'[stream'].event = e
    BY <1>1, <2>2 DEF Undisturbed, SlotsSame, Fresh, Exists, Pending
  <2>8. current' = e => \A f \in finalizers' : f.event = e =>
               /\ f.id = awaited' /\ ~f.delivered /\ f.at # "deliver"
               /\ f.at = "write" => f.attempts = snapshot'[e]
    BY <1>1, <2>1, <2>3, <2>5
  <2> QED  BY <2>2, <2>6, <2>7, <2>8 DEF Undisturbed
<1>3. CASE ~Open(stream)
  <2>1. /\ at' = "retry" /\ UNCHANGED <<streams, finalizers>>
    BY <1>3 DEF IngressFails, Goto
  <2>2. current # e
    BY <1>3, WebhookAssumption DEF Undisturbed, Open
  <2>3. InFlight(e)' <=> InFlight(e)
    BY <2>1 DEF InFlight
  <2> QED  BY <1>1, <2>1, <2>2, <2>3 DEF Undisturbed, Fresh, Exists, Pending
<1> QED  BY <1>2, <1>3

(* A finalizer of the event goes on.                                       *)
LEMMA AdvanceUndisturbed ==
    ASSUME TypeOK, PollerShape, NEW e \in Events, Undisturbed(e),
           NEW f \in finalizers, RequestUpdated(f) \/ ReadsPending(f)
    PROVE  Undisturbed(e)'
<1>1. /\ UNCHANGED <<row, streams>>
      /\ UNCHANGED <<at, batch, snapshot, current, stream, awaited>>
  BY AdvanceEffect DEF poller
<1>2. PICK g : /\ finalizers' = (finalizers \ {f}) \cup {g}
               /\ g.id = f.id /\ g.event = f.event
               /\ g.delivered = f.delivered
               /\ g.at = "deliver" => f.delivered
               /\ g.at = "write" =>
                    Pending(f.event) /\ g.attempts = row[f.event].attempts
  BY AdvanceEffect
<1>3. InFlight(e)' <=> InFlight(e)
  BY <1>1, <1>2 DEF InFlight
<1>4. ASSUME current = e, at = "failing", NEW h \in finalizers', h.event = e
      PROVE  /\ h.id = awaited /\ ~h.delivered /\ h.at # "deliver"
             /\ h.at = "write" => h.attempts = snapshot[e]
  <2>1. CASE h \in finalizers
    BY <1>4, <2>1 DEF Undisturbed
  <2>2. CASE h = g
    <3>1. f.id = awaited /\ ~f.delivered
      BY <1>2, <1>4, <2>2 DEF Undisturbed
    <3>2. Fresh(e)
      BY <1>4 DEF Undisturbed, Sending
    <3> QED  BY <1>2, <1>4, <2>2, <3>1, <3>2 DEF Fresh, Exists, Pending
  <2> QED  BY <1>2, <1>4, <2>1, <2>2
<1>5. (\A h \in finalizers : h.event # e) => \A h \in finalizers' : h.event # e
  BY <1>2
<1> QED  BY <1>1, <1>3, <1>4, <1>5 DEF Undisturbed, Fresh, Exists, Pending

(* A finalizer ends.  Of its own event nothing is left in flight.          *)
LEMMA ReturnUndisturbed ==
    ASSUME TypeOK, PollerShape, SlotsMatch, OneFinalizer,
           NEW e \in Events, e \notin twice, Undisturbed(e),
           NEW f \in finalizers, FinalizerReturns(f),
           \/ RowSame(e)
           \/ f.event = e /\ f.at = "deliver"
           \/ /\ f.event = e /\ f.at = "write" /\ row'[e].status # "delivered"
              /\ row'[e].status = "failed" => f.attempts + 1 >= MaxRetries
    PROVE  Undisturbed(e)'
<1>1. /\ f.stream \in Streams
      /\ streams'[f.stream].event = None
      /\ \A t \in Streams : t # f.stream => streams'[t] = streams[t]
      /\ finalizers' = finalizers \ {f}
      /\ UNCHANGED <<batch, snapshot, current, stream>>
  BY ReturnEffect
<1>2. \/ /\ at = "failing" /\ stream = f.stream /\ awaited = f.id
         /\ at' = "retry"
      \/ /\ ~(at = "failing" /\ stream = f.stream /\ awaited = f.id)
         /\ at' = at /\ awaited' = awaited
  BY ReturnEffect
<1>3. e # None
  BY WebhookAssumption
<1>4. CASE f.event = e
  <2>1. streams[f.stream].event = e
    BY <1>1, <1>4 DEF OneFinalizer, SlotsMatch
  <2>2. InFlight(e)
    BY <1>1, <2>1 DEF InFlight
  <2>3. ~InFlight(e)'
    <3>1. \A t \in Streams : streams'[t].event # e
      BY <1>1, <1>3, <2>1 DEF Undisturbed
    <3>2. ASSUME NEW g \in finalizers, g.event = e
          PROVE  g = f
      <4>1. g.stream \in Streams
        BY DEF TypeOK, Finalizer
      <4>2. streams[g.stream].event = e
        BY <3>2 DEF OneFinalizer, SlotsMatch
      <4>3. g.stream = f.stream
        BY <1>1, <2>1, <4>1, <4>2 DEF Undisturbed
      <4> QED  BY <1>4, <4>3 DEF OneFinalizer
    <3> QED  BY <1>1, <3>1, <3>2 DEF InFlight
  <2>4. /\ \A t \in Streams : streams'[t].event # e
        /\ \A g \in finalizers' : g.event # e
    BY <2>3 DEF InFlight
  <2>5. ~(e \in batch \/ (current = e /\ at \in {"claim", "lookup", "retry"}))
    BY <2>2 DEF Undisturbed
  <2>6. CASE current = e /\ at \in Sending
    <3>1. /\ at = "failing" /\ f.id = awaited /\ f.at # "deliver" /\ Fresh(e)
          /\ f.at = "write" => f.attempts = snapshot[e]
      BY <1>4, <2>6 DEF Undisturbed
    <3>2. stream = f.stream
      BY <1>1, <2>1, <2>6 DEF Undisturbed, PollerShape
    <3>3. at' = "retry"
      BY <1>2, <3>1, <3>2
    <3>4. row[e].status \in {"none", "pending"}
      BY <2>2 DEF Undisturbed
    <3>5. /\ row'[e].status # "delivered"
          /\ row'[e].status = "failed" => snapshot[e] + 1 >= MaxRetries
      BY <3>1, <3>4 DEF RowSame
    <3> QED  BY <1>1, <2>3, <2>4, <2>5, <3>3, <3>5 DEF Undisturbed, Sending
  <2>7. CASE ~(current = e /\ at \in Sending)
    <3>1. ~(current = e /\ at' = "retry")
      BY <1>2, <2>5, <2>7 DEF Sending
    <3> QED  BY <1>1, <1>2, <2>3, <2>4, <2>5, <2>7, <3>1 DEF Undisturbed, Sending
  <2> QED  BY <2>6, <2>7
<1>5. CASE f.event # e
  <2>1. RowSame(e)
    BY <1>5
  <2>2. streams[f.stream].event # e
    BY <1>1, <1>3, <1>5 DEF SlotsMatch, Open
  <2>3. \A t \in Streams : streams'[t].event = e <=> streams[t].event = e
    BY <1>1, <1>3, <2>2
  <2>4. \A g \in finalizers : g.event = e <=> g \in finalizers' /\ g.event = e
    BY <1>1, <1>5
  <2>5. InFlight(e)' <=> InFlight(e)
    BY <1>1, <2>3, <2>4 DEF InFlight
  <2>6. current = e => at' = at /\ awaited' = awaited
    BY <1>2, <2>2 DEF Undisturbed, Sending
  <2>7. at \in Sending => stream \in Streams
    BY DEF PollerShape
  <2>8. CASE current = e
    BY <1>1, <2>1, <2>3, <2>4, <2>5, <2>6, <2>7, <2>8
    DEF Undisturbed, RowSame, Fresh, Exists, Pending
  <2>9. CASE current # e
    BY <1>1, <2>1, <2>3, <2>5, <2>9
    DEF Undisturbed, RowSame, Fresh, Exists, Pending
  <2> QED  BY <2>8, <2>9
<1> QED  BY <1>4, <1>5

(* Every step keeps an event that is still clean undisturbed.              *)
LEMMA SettleStep ==
    ASSUME TypeOK, PollerShape, Known, SlotsMatch, OneFinalizer, SettleInv,
           [Next]_vars
    PROVE  SettleInv'
<1>1. (current \notin batch)'
  <2>1. None \notin batch'
    BY TypeStep, WebhookAssumption DEF TypeOK
  <2>2. CASE UNCHANGED <<current, batch>>
    BY <2>2 DEF SettleInv
  <2>3. CASE NextEvent \/ LeaveLoop
    BY <2>1, <2>3, LoopEffect
  <2>4. CASE Select
    BY <2>1, <2>3, <2>4 DEF Select, Take
  <2>5. CASE IngressFails
    BY <2>2, <2>5 DEF IngressFails, Goto
  <2>6. ASSUME NEW f \in finalizers, FinalizerReturns(f)
        PROVE  UNCHANGED <<current, batch>>
    BY <2>6, ReturnEffect
  <2> QED
    BY <2>2, <2>3, <2>4, <2>5, <2>6
    DEF Next, vars, poller, Enqueue, Cascade, PollerStep, PollerFails, StreamEvent,
      Poll, Claim, ClaimRefused, LookupMissing, NoAgentOrBusy, Throws, Goto,
      RetrySelected, InsertFails, SendFails, InsertOk, IngressProceeds,
      StartStream, FinalizeByEvent, StreamTimeout, OnAgentResponseStart,
      OnAgentResponseChunk, Rearm, OnAgentResponseEnd, OnStreamError,
      SessionCloses, FinalizerStep, RequestUpdated, Delivers, ReadsPending,
      ReadsSettled, Retries, MarkFails, Tick, GatewayRestart
<1> SUFFICES ASSUME NEW e \in Events, Clean(e)'
             PROVE  Undisturbed(e)'
  BY <1>1 DEF SettleInv
<1>2. /\ Undisturbed(e) /\ e \notin twice
      /\ e \notin overlapped' /\ e \notin early'
  BY HistoryStep DEF Clean, SettleInv
<1>3. CASE UNCHANGED vars
  BY <1>2, <1>3, StayUndisturbed
  DEF vars, poller, SlotsSame, PollerSame, RowSame
<1>4. ASSUME NEW x \in Events, Enqueue(x) \/ Cascade(x)
      PROVE  Undisturbed(e)'
  <2>1. SlotsSame /\ PollerSame /\ finalizers' = finalizers
    BY <1>4 DEF Enqueue, Cascade, poller, SlotsSame, PollerSame
  <2>2. CASE x # e
    <3>1. RowSame(e)
      BY <1>4, <2>2 DEF TypeOK, Enqueue, Cascade, RowSame
    <3> QED  BY <1>2, <2>1, <3>1, StayUndisturbed
  <2>3. CASE x = e /\ Enqueue(x)
    <3>1. ~InFlight(e) /\ current # e /\ e \notin batch
      BY <2>3 DEF Enqueue, Known
    <3> QED  BY <1>2, <2>1, <3>1, StayUndisturbed
  <2>4. CASE x = e /\ Cascade(x)
    <3>1. row'[e].status = "none"
      BY <2>4 DEF TypeOK, Cascade
    <3> QED  BY <1>2, <2>1, <3>1, StayUndisturbed
  <2> QED  BY <1>4, <2>2, <2>3, <2>4
<1>5. CASE Poll
  <2>1. /\ at = "idle" /\ at' = "select" /\ current = None /\ batch = {}
        /\ UNCHANGED <<row, streams, finalizers, batch, current>>
    BY <1>5 DEF Poll, PollerShape
  <2>2. InFlight(e)' <=> InFlight(e)
    BY <2>1 DEF InFlight
  <2> QED  BY <1>2, <2>1, <2>2, WebhookAssumption DEF Undisturbed, Sending
<1>6. CASE Select
  BY <1>2, <1>6, SelectUndisturbed
<1>7. CASE Claim
  BY <1>2, <1>7, ClaimUndisturbed
<1>8. CASE ClaimRefused \/ LookupMissing \/ Throws
  <2>1. /\ NextEvent \/ LeaveLoop
        /\ streams' = streams /\ finalizers' = finalizers /\ RowSame(e)
    BY <1>8 DEF ClaimRefused, LookupMissing, Throws, RowSame
  <2> QED  BY <1>2, <2>1, LoopUndisturbed
<1>9. CASE NoAgentOrBusy
  <2>1. /\ at = "lookup" /\ at' = "retry" /\ Exists(current)
        /\ UNCHANGED <<row, streams, finalizers, batch, current, snapshot, stream>>
    BY <1>9 DEF NoAgentOrBusy, Goto
  <2>2. InFlight(e)' <=> InFlight(e)
    BY <2>1 DEF InFlight
  <2> QED  BY <1>2, <2>1, <2>2
           DEF Undisturbed, Fresh, Exists, Pending, Sending
<1>10. ASSUME NEW s \in Streams, StartStream(s)
       PROVE  Undisturbed(e)'
  BY <1>2, <1>10, StartUndisturbed DEF SettleInv
<1>11. CASE RetrySelected
  <2>1. /\ NextEvent /\ at = "retry" /\ current \in Events
        /\ snapshot[current] \in Nat
        /\ row' = MarkRetry(current, snapshot[current])
        /\ streams' = streams /\ finalizers' = finalizers
    BY <1>11 DEF RetrySelected, PollerShape, TypeOK
  <2>2. CASE current = e
    <3>1. ~InFlight(e) /\ e \notin batch
      BY <1>2, <2>1, <2>2 DEF Undisturbed, SettleInv
    <3> QED  BY <1>2, <2>1, <3>1, LoopUndisturbed
  <2>3. CASE current # e
    <3>1. RowSame(e)
      BY <2>1, <2>3, RetryTyped DEF RowSame
    <3> QED  BY <1>2, <2>1, <3>1, LoopUndisturbed
  <2> QED  BY <2>2, <2>3
<1>12. ASSUME NEW s \in Streams, NEW d, FinalizeByEvent(s, d)
       PROVE  Undisturbed(e)'
  BY <1>2, <1>12, EventUndisturbed
<1>13. ASSUME NEW s \in Streams, NEW u, Rearm(s, u)
       PROVE  Undisturbed(e)'
  <2>1. SlotsSame /\ PollerSame /\ finalizers' = finalizers /\ RowSame(e)
    BY <1>13, RearmEffect DEF RowSame
  <2> QED  BY <1>2, <2>1, StayUndisturbed
<1>14. CASE InsertFails \/ SendFails
  <2>1. at \in Sending \ {"failing"} /\ IngressFails /\ row' = row
    BY <1>14 DEF InsertFails, SendFails, Sending
  <2> QED  BY <1>2, <2>1, FailUndisturbed
<1>15. CASE InsertOk
  <2>1. /\ SlotsSame /\ at = "insert" /\ at' = "start"
        /\ UNCHANGED <<row, finalizers, batch, snapshot, current, stream, awaited>>
    BY <1>15, InsertOkEffect
  <2>2. InFlight(e)' <=> InFlight(e)
    BY <2>1 DEF InFlight, SlotsSame
  <2>3. stream \in Streams
    BY <2>1 DEF PollerShape, Sending
  <2> QED  BY <1>2, <2>1, <2>2, <2>3
           DEF Undisturbed, SlotsSame, Fresh, Exists, Pending, Sending
<1>16. CASE IngressProceeds
  <2>1. UNCHANGED <<row, streams, finalizers>>
    BY <1>16 DEF IngressProceeds
  <2>2. CASE NextEvent
    BY <1>2, <2>1, <2>2, LoopUndisturbed DEF RowSame
  <2>3. CASE ~NextEvent
    <3>1. /\ at \in Sending \ {"failing"} /\ at' \in Sending \ {"failing"}
          /\ UNCHANGED <<batch, snapshot, current, stream, awaited>>
      BY <1>16, <2>3 DEF IngressProceeds, Goto, Sending
    <3>2. InFlight(e)' <=> InFlight(e)
      BY <2>1 DEF InFlight
    <3> QED  BY <1>2, <2>1, <3>1, <3>2
             DEF Undisturbed, Fresh, Exists, Pending, Sending
  <2> QED  BY <2>2, <2>3
<1>17. ASSUME NEW f \in finalizers, RequestUpdated(f) \/ ReadsPending(f)
       PROVE  Undisturbed(e)'
  BY <1>2, <1>17, AdvanceUndisturbed
<1>18. ASSUME NEW f \in finalizers,
              \/ Delivers(f) \/ ReadsSettled(f) \/ Retries(f) \/ MarkFails(f)
       PROVE  Undisturbed(e)'
  <2>1. FinalizerReturns(f) /\ f.event \in Events /\ f.attempts \in Nat
    BY <1>18
    DEF Delivers, ReadsSettled, Retries, MarkFails, TypeOK, Finalizer
  <2>2. \/ RowSame(e)
        \/ f.event = e /\ f.at = "deliver"
        \/ /\ f.event = e /\ f.at = "write" /\ row'[e].status # "delivered"
           /\ row'[e].status = "failed" => f.attempts + 1 >= MaxRetries
    <3>1. CASE ReadsSettled(f) \/ MarkFails(f)
      BY <3>1 DEF ReadsSettled, MarkFails, RowSame
    <3>2. CASE Delivers(f)
      BY <2>1, <3>2, DeliveredTyped DEF Delivers, RowSame
    <3>3. CASE Retries(f) /\ f.event # e
      BY <2>1, <3>3, RetryTyped DEF Retries, RowSame
    <3>4. CASE Retries(f) /\ f.event = e /\ ~Exists(e)
      BY <3>4 DEF Retries, MarkRetry, RowSame
    <3>5. CASE Retries(f) /\ f.event = e /\ Exists(e)
      BY <2>1, <3>5 DEF Retries, MarkRetry, TypeOK
    <3> QED  BY <1>18, <3>1, <3>2, <3>3, <3>4, <3>5
  <2> QED  BY <1>2, <2>1, <2>2, ReturnUndisturbed
<1>19. CASE Tick
  BY <1>2, <1>19, TickEffect, StayUndisturbed
<1>20. CASE GatewayRestart
  <2>1. /\ at' = "idle" /\ batch' = {} /\ current' = None /\ finalizers' = {}
        /\ \A s \in Streams : streams'[s].event = None
    BY <1>20 DEF GatewayRestart, LeaveLoop, Free
  <2> QED  BY <2>1, WebhookAssumption DEF Undisturbed, InFlight, Sending
<1> QED
  BY <1>3, <1>4, <1>5, <1>6, <1>7, <1>8, <1>9, <1>10, <1>11, <1>12, <1>13,
     <1>14, <1>15, <1>16, <1>17, <1>18, <1>19, <1>20
  DEF Next, PollerStep, PollerFails, StreamEvent, FinalizerStep,
      OnAgentResponseStart, OnAgentResponseChunk, OnAgentResponseEnd,
      OnStreamError, SessionCloses, StreamTimeout

(* No step reopens a settled event that is clean: nobody who is left to    *)
(* write its row would.                                                    *)
LEMMA SettledStep ==
    ASSUME TypeOK, PollerShape, Known, SettleInv, [Next]_vars,
           NEW e \in Events, Clean(e),
           row[e].status \in {"delivered", "failed"}, row'[e].status = "pending"
    PROVE  FALSE
<1>1. Undisturbed(e) /\ Exists(e)
  BY DEF SettleInv, Exists
<1>2. ~InFlight(e)
  BY <1>1 DEF Undisturbed
<1>3. CASE row' = row
  BY <1>3
<1>4. ASSUME NEW x \in Events, Enqueue(x) \/ Cascade(x)
      PROVE  FALSE
  <2>1. CASE Enqueue(x)
    BY <1>1, <2>1 DEF Known, Enqueue, TypeOK
  <2>2. CASE Cascade(x)
    BY <2>2 DEF Cascade, TypeOK
  <2> QED  BY <1>4, <2>1, <2>2
<1>5. CASE Claim
  BY <1>5 DEF Claim, TypeOK, PollerShape, Row
<1>6. CASE RetrySelected
  <2>1. /\ at = "retry" /\ current \in Events /\ snapshot[current] \in Nat
        /\ row' = MarkRetry(current, snapshot[current])
    BY <1>6 DEF RetrySelected, PollerShape, TypeOK
  <2>2. current = e
    BY <2>1, RetryTyped
  <2>3. snapshot[e] + 1 >= MaxRetries
    BY <1>1, <2>1, <2>2 DEF Undisturbed
  <2>4. row'[e].status = "failed"
    BY <1>1, <2>1, <2>2, <2>3 DEF MarkRetry, TypeOK
  <2> QED  BY <2>4
<1>7. ASSUME NEW f \in finalizers, Delivers(f) \/ Retries(f)
      PROVE  FALSE
  <2>1. f.event \in Events /\ f.attempts \in Nat /\ f.event # e
    BY <1>2 DEF TypeOK, Finalizer, InFlight
  <2>2. row'[e] = row[e]
    BY <1>7, <2>1, RetryTyped, DeliveredTyped DEF Delivers, Retries
  <2> QED  BY <2>2
<1>8. CASE Tick
  BY <1>8, TickEffect DEF RowSame
<1> QED
  BY <1>3, <1>4, <1>5, <1>6, <1>7, <1>8
  DEF Next, vars, PollerStep, PollerFails, StreamEvent, Poll, Select,
      ClaimRefused, LookupMissing, NoAgentOrBusy, Throws, InsertFails, SendFails,
      InsertOk, IngressProceeds, StartStream, FinalizeByEvent, StreamTimeout,
      OnAgentResponseStart, OnAgentResponseChunk, Rearm, OnAgentResponseEnd,
      OnStreamError, SessionCloses, FinalizerStep, RequestUpdated, ReadsPending,
      ReadsSettled, MarkFails, GatewayRestart

LEMMA InitSettle == Init => SettleInv
<1> SUFFICES ASSUME Init
             PROVE  SettleInv
  OBVIOUS
<1>1. /\ \A s \in Streams : streams[s].event = None
      /\ finalizers = {} /\ batch = {} /\ current = None
  BY DEF Init, Idle, Free
<1> QED  BY <1>1, WebhookAssumption DEF SettleInv, Undisturbed, InFlight

LEMMA SettleInvariant == Spec => []SettleInv
<1>1. LeaseInv /\ SettleInv /\ [Next]_vars => SettleInv'
  BY SettleStep DEF LeaseInv
<1> QED  BY <1>1, InitSettle, LeaseInvariant, PTL DEF Spec

(* A delivered or failed event stays that: the finalizer and the poller    *)
(* that write its row after an await (markLineWebhookEventRetry names the  *)
(* id alone) find no settled row, unless two parties had work on it.       *)
THEOREM SettledIsFinal == Spec => SettledStaysSettled
<1>1. LeaseInv /\ SettleInv /\ [Next]_vars =>
        [\A e \in Events :
           row[e].status \in {"delivered", "failed"} /\ row'[e].status = "pending"
             => e \in overlapped \cup twice \cup early]_vars
  BY SettledStep DEF LeaseInv, Clean
<1> QED  BY <1>1, SettleInvariant, LeaseInvariant, PTL
         DEF Spec, SettledStaysSettled

-----------------------------------------------------------------------------
(* Claims and attempts.                                                    *)

Slots(e) == {s \in Streams : streams[s].event = e}
Load(e) == Cardinality(Slots(e))

(* A claim that has led to neither a stream nor a retry yet.               *)
Asked(e) == IF current = e /\ at = "lookup" THEN 1 ELSE 0

(* The stream of the poller's own dispatch has been finalized.             *)
Ended == IF Open(stream) THEN 0 ELSE 1

OwnSlot == at \in Sending /\ Open(stream) => streams[stream].event = current

(* Whatever may still be written as the event's count of attempts has been *)
(* paid for: each attempt that is counted, and each stream whose finalizer *)
(* may count one, has a claim of its own.                                  *)
Balance(e) ==
    /\ row[e].attempts + Load(e) + Asked(e) <= claims[e]
    /\ \A f \in finalizers : f.event = e /\ f.at = "write" =>
           f.attempts + Load(e) + Asked(e) <= claims[e]
    /\ e \in batch \/ (current = e /\ at = "claim") =>
           snapshot[e] + Load(e) <= claims[e]
    /\ current = e /\ at \in Sending =>
           snapshot[e] + Load(e) + Ended <= claims[e]
    /\ current = e /\ at \in {"lookup", "retry"} =>
           snapshot[e] + Load(e) + 1 <= claims[e]

BalanceInv ==
    /\ OwnSlot
    /\ \A e \in Events : IsFiniteSet(Slots(e))
    /\ \A e \in Events : e \notin twice /\ claims[e] < MaxRetries => Balance(e)

(* What the sums are made of.                                              *)
LEMMA BalanceTypes ==
    ASSUME TypeOK, NEW e \in Events, IsFiniteSet(Slots(e))
    PROVE  /\ row[e].attempts \in Nat /\ claims[e] \in Nat
           /\ snapshot[e] \in Nat /\ Load(e) \in Nat
           /\ \A f \in finalizers : f.attempts \in Nat
BY FS_CardinalityType DEF TypeOK, Row, Finalizer, Load

LEMMA LoadSame ==
    ASSUME NEW e \in Events, SlotsSame
    PROVE  Slots(e)' = Slots(e) /\ Load(e)' = Load(e)
BY DEF SlotsSame, Slots, Load

(* A stream starts in a free slot.                                         *)
LEMMA LoadStart ==
    ASSUME TypeOK, NEW e \in Events, IsFiniteSet(Slots(e)),
           NEW s \in Streams, StartStream(s)
    PROVE  /\ IsFiniteSet(Slots(e)')
           /\ Load(e)' = IF current = e THEN Load(e) + 1 ELSE Load(e)
<1>1. /\ streams[s].event = None /\ streams'[s].event = current
      /\ \A t \in Streams : t # s => streams'[t] = streams[t]
  BY DEF TypeOK, StartStream, Free, Open
<1>2. e # None
  BY WebhookAssumption
<1>3. CASE current = e
  <2>1. s \notin Slots(e) /\ Slots(e)' = Slots(e) \cup {s}
    BY <1>1, <1>2, <1>3 DEF Slots
  <2> QED  BY <1>3, <2>1, FS_AddElement DEF Load
<1>4. CASE current # e
  <2>1. Slots(e)' = Slots(e)
    BY <1>1, <1>2, <1>4 DEF Slots
  <2> QED  BY <1>4, <2>1 DEF Load
<1> QED  BY <1>3, <1>4

(* The return of a finalizer frees the slot of its event's stream.         *)
LEMMA LoadReturn ==
    ASSUME TypeOK, SlotsMatch, NEW e \in Events, IsFiniteSet(Slots(e)),
           NEW f \in finalizers, FinalizerReturns(f)
    PROVE  /\ IsFiniteSet(Slots(e)')
           /\ Load(e)' = IF f.event = e /\ Open(f.stream) THEN Load(e) - 1
                                                          ELSE Load(e)
<1>1. /\ f.stream \in Streams /\ streams'[f.stream].event = None
      /\ \A t \in Streams : t # f.stream => streams'[t] = streams[t]
  BY ReturnEffect
<1>2. e # None
  BY WebhookAssumption
<1>3. CASE f.event = e /\ Open(f.stream)
  <2>1. f.stream \in Slots(e) /\ Slots(e)' = Slots(e) \ {f.stream}
    BY <1>1, <1>2, <1>3 DEF Slots, SlotsMatch
  <2> QED  BY <1>3, <2>1, FS_RemoveElement DEF Load
<1>4. CASE ~(f.event = e /\ Open(f.stream))
  <2>1. Slots(e)' = Slots(e)
    BY <1>1, <1>2, <1>4 DEF Slots, SlotsMatch, Open
  <2> QED  BY <1>4, <2>1 DEF Load
<1> QED  BY <1>3, <1>4

(* The slots of an event stay finitely many.                               *)
LEMMA SlotsFinite ==
    ASSUME TypeOK, PollerShape, SlotsMatch, [Next]_vars,
           NEW e \in Events, IsFiniteSet(Slots(e))
    PROVE  IsFiniteSet(Slots(e)')
<1>1. CASE SlotsSame
  BY <1>1, LoadSame
<1>2. CASE streams' = streams
  BY <1>1, <1>2 DEF SlotsSame
<1>3. ASSUME NEW s \in Streams, StartStream(s)
      PROVE  IsFiniteSet(Slots(e)')
  BY <1>3, LoadStart
<1>4. ASSUME NEW f \in finalizers, FinalizerReturns(f)
      PROVE  IsFiniteSet(Slots(e)')
  BY <1>4, LoadReturn
<1>5. CASE GatewayRestart
  <2>1. Slots(e)' = {}
    BY <1>5, WebhookAssumption DEF GatewayRestart, Free, Slots
  <2> QED  BY <2>1, FS_EmptySet
<1>6. ASSUME NEW s \in Streams, NEW d, FinalizeByEvent(s, d)
      PROVE  SlotsSame
  BY <1>6, FinalizeEffect DEF FinalizeByEvent
<1>7. ASSUME NEW s \in Streams, NEW u, Rearm(s, u)
      PROVE  SlotsSame
  BY <1>7, RearmEffect
<1>8. CASE InsertFails \/ SendFails
  <2>1. stream \in Streams /\ IngressFails
    BY <1>8 DEF InsertFails, SendFails, PollerShape, Sending
  <2>2. CASE Open(stream)
    <3>1. PICK id : Finalize(stream, id, FALSE)
      BY <2>1, <2>2 DEF IngressFails
    <3> QED  BY <1>1, <2>1, <3>1, FinalizeEffect
  <2>3. CASE ~Open(stream)
    BY <1>2, <2>1, <2>3 DEF IngressFails
  <2> QED  BY <2>2, <2>3
<1>9. CASE InsertOk
  BY <1>1, <1>9, InsertOkEffect
<1>10. CASE Tick
  BY <1>1, <1>10, TickEffect
<1> QED
  BY <1>1, <1>2, <1>3, <1>4, <1>5, <1>6, <1>7, <1>8, <1>9, <1>10
  DEF Next, vars, PollerStep, PollerFails, StreamEvent, FinalizerStep,
      Enqueue, Cascade, Poll, Select, Claim, ClaimRefused, LookupMissing,
      NoAgentOrBusy, RetrySelected, IngressProceeds, Throws,
      OnAgentResponseStart, OnAgentResponseChunk, OnAgentResponseEnd,
      OnStreamError, SessionCloses, StreamTimeout, RequestUpdated, Delivers,
      ReadsPending, ReadsSettled, Retries, MarkFails

(* The poller stays, moves on within startBufferedHttpIngress, or leaves   *)
(* it for the retry; a finalizer may have read the count.                  *)
LEMMA MoveBalanced ==
    ASSUME TypeOK, PollerShape, OwnSlot, NEW e \in Events,
           IsFiniteSet(Slots(e)), Balance(e), SlotsSame,
           UNCHANGED <<batch, snapshot, current, stream>>,
           claims'[e] = claims[e],
           row'[e].attempts = row[e].attempts \/ row'[e].attempts = 0,
           \A f \in finalizers' : f.event = e /\ f.at = "write" =>
               f \in finalizers \/ f.attempts = row[e].attempts,
           \/ at' = at
           \/ current # e /\ at' # "claim"
           \/ at \in Sending /\ at' \in Sending
           \/ at = "lookup" /\ at' = "retry"
           \/ at \in Sending /\ ~Open(stream) /\ at' = "retry"
    PROVE  Balance(e)'
<1>1. /\ row[e].attempts \in Nat /\ claims[e] \in Nat
      /\ snapshot[e] \in Nat /\ Load(e) \in Nat
  BY BalanceTypes
<1>2. Load(e)' = Load(e)
  BY LoadSame
<1>3. at \in Sending => Ended' = Ended /\ (~Open(stream) => Ended = 1)
  BY DEF PollerShape, SlotsSame, Open, Ended
<1>4. /\ Asked(e) \in {0, 1} /\ Asked(e)' \in {0, 1}
      /\ Asked(e)' = 1 => Asked(e) = 1
  BY DEF Asked, Sending
<1>5. row'[e].attempts + Load(e)' + Asked(e)' <= claims'[e]
  BY <1>1, <1>2, <1>4 DEF Balance
<1>6. ASSUME NEW f \in finalizers', f.event = e, f.at = "write"
      PROVE  f.attempts + Load(e)' + Asked(e)' <= claims'[e]
  <2>1. CASE f \in finalizers
    <3>1. f.attempts \in Nat /\ f.attempts + Load(e) + Asked(e) <= claims[e]
      BY <1>6, <2>1 DEF Balance, TypeOK, Finalizer
    <3> QED  BY <1>1, <1>2, <1>4, <3>1
  <2>2. CASE f.attempts = row[e].attempts
    BY <1>1, <1>2, <1>4, <2>2 DEF Balance
  <2> QED  BY <1>6, <2>1, <2>2
<1>7. /\ e \in batch' \/ (current' = e /\ at' = "claim") =>
           snapshot'[e] + Load(e)' <= claims'[e]
      /\ current' = e /\ at' \in Sending =>
           snapshot'[e] + Load(e)' + Ended' <= claims'[e]
      /\ current' = e /\ at' \in {"lookup", "retry"} =>
           snapshot'[e] + Load(e)' + 1 <= claims'[e]
  BY <1>1, <1>2, <1>3 DEF Balance, Sending
<1> QED  BY <1>5, <1>6, <1>7 DEF Balance

(* The loop goes on; at "retry" the poller counts the attempt it has read. *)
LEMMA LoopBalanced ==
    ASSUME TypeOK, NEW e \in Events, IsFiniteSet(Slots(e)), Balance(e),
           NextEvent \/ LeaveLoop,
           streams' = streams, finalizers' = finalizers,
           claims'[e] = claims[e],
           \/ row'[e].attempts = row[e].attempts
           \/ /\ current = e /\ at = "retry"
              /\ row'[e].attempts = snapshot[e] + 1
    PROVE  Balance(e)'
<1>1. /\ row[e].attempts \in Nat /\ claims[e] \in Nat
      /\ snapshot[e] \in Nat /\ Load(e) \in Nat
      /\ \A f \in finalizers : f.attempts \in Nat
  BY BalanceTypes
<1>2. Load(e)' = Load(e)
  BY DEF Load, Slots
<1>3. e # None
  BY WebhookAssumption
<1>4. \/ /\ at' = "claim" /\ current' \in batch /\ batch' = batch \ {current'}
         /\ snapshot' = snapshot
      \/ at' = "idle" /\ batch' = {} /\ current' = None
  BY LoopEffect
<1>5. Asked(e)' = 0 /\ Asked(e) \in {0, 1}
  BY <1>4 DEF Asked
<1>6. row'[e].attempts + Load(e)' + Asked(e)' <= claims'[e]
  <2>1. CASE row'[e].attempts = row[e].attempts
    BY <1>1, <1>2, <1>5, <2>1 DEF Balance
  <2>2. CASE /\ current = e /\ at = "retry"
             /\ row'[e].attempts = snapshot[e] + 1
    BY <1>1, <1>2, <1>5, <2>2 DEF Balance
  <2> QED  BY <2>1, <2>2
<1>7. \A f \in finalizers' : f.event = e /\ f.at = "write" =>
           f.attempts + Load(e)' + Asked(e)' <= claims'[e]
  BY <1>1, <1>2, <1>5 DEF Balance
<1>8. e \in batch' \/ (current' = e /\ at' = "claim") =>
           snapshot'[e] + Load(e)' <= claims'[e]
  BY <1>2, <1>3, <1>4 DEF Balance
<1> QED  BY <1>3, <1>4, <1>6, <1>7, <1>8 DEF Balance, Sending

(* Select copies the counts of the due events.                             *)
LEMMA SelectBalanced ==
    ASSUME TypeOK, PollerShape, NEW e \in Events, IsFiniteSet(Slots(e)),
           Balance(e), Select
    PROVE  Balance(e)'
<1>1. UNCHANGED <<row, streams, finalizers, claims>> /\ at = "select"
  BY DEF Select
<1>2. CASE DueBatch = {}
  BY <1>1, <1>2, LoopBalanced DEF Select
<1>3. CASE DueBatch # {}
  <2>1. /\ at' = "claim" /\ current' \in DueBatch
        /\ batch' = DueBatch \ {current'}
        /\ e \in DueBatch => snapshot'[e] = row[e].attempts
    BY <1>3 DEF Select, Take
  <2>2. Load(e)' = Load(e) /\ Asked(e)' = Asked(e) /\ Asked(e) = 0
    BY <1>1, <2>1 DEF Load, Slots, Asked
  <2>3. /\ row[e].attempts \in Nat /\ claims[e] \in Nat /\ Load(e) \in Nat
    BY BalanceTypes
  <2> QED  BY <1>1, <2>1, <2>2, <2>3 DEF Balance, Sending
<1> QED  BY <1>2, <1>3

(* A claim pays for the dispatch that follows.                             *)
LEMMA ClaimBalanced ==
    ASSUME TypeOK, PollerShape, NEW e \in Events, IsFiniteSet(Slots(e)),
           Balance(e), Claim,
           claims'[e] = IF current = e THEN claims[e] + 1 ELSE claims[e]
    PROVE  Balance(e)'
<1>1. /\ at = "claim" /\ at' = "lookup"
      /\ UNCHANGED <<streams, finalizers, current, batch, snapshot, stream>>
      /\ row'[e].attempts = row[e].attempts
  BY DEF Claim, TypeOK, PollerShape, Row
<1>2. /\ row[e].attempts \in Nat /\ claims[e] \in Nat
      /\ snapshot[e] \in Nat /\ Load(e) \in Nat
      /\ \A f \in finalizers : f.attempts \in Nat
  BY BalanceTypes
<1>3. /\ Load(e)' = Load(e) /\ Asked(e) = 0
      /\ Asked(e)' = IF current = e THEN 1 ELSE 0
  BY <1>1 DEF Load, Slots, Asked
<1>4. CASE current = e
  BY <1>1, <1>2, <1>3, <1>4 DEF Balance, Sending
<1>5. CASE current # e
  BY <1>1, <1>2, <1>3, <1>5 DEF Balance, Sending
<1> QED  BY <1>4, <1>5

(* The claim is spent on a stream.                                         *)
LEMMA StartBalanced ==
    ASSUME TypeOK, PollerShape, NEW e \in Events, IsFiniteSet(Slots(e)),
           Balance(e), NEW s \in Streams, StartStream(s)
    PROVE  Balance(e)'
<1>1. /\ at = "lookup" /\ at' = "insert" /\ stream' = s
      /\ streams'[s].event = current /\ current \in Events
      /\ UNCHANGED <<row, finalizers, claims, current, batch, snapshot>>
  BY DEF TypeOK, PollerShape, StartStream, Free, history
<1>2. /\ row[e].attempts \in Nat /\ claims[e] \in Nat
      /\ snapshot[e] \in Nat /\ Load(e) \in Nat
      /\ \A f \in finalizers : f.attempts \in Nat
  BY BalanceTypes
<1>3. Load(e)' = IF current = e THEN Load(e) + 1 ELSE Load(e)
  BY LoadStart
<1>4. /\ Asked(e)' = 0 /\ Asked(e) = IF current = e THEN 1 ELSE 0
      /\ Ended' = 0
  BY <1>1, WebhookAssumption DEF Asked, Ended, Open
<1>5. CASE current = e
  BY <1>1, <1>2, <1>3, <1>4, <1>5 DEF Balance, Sending
<1>6. CASE current # e
  BY <1>1, <1>2, <1>3, <1>4, <1>6 DEF Balance, Sending
<1> QED  BY <1>5, <1>6

(* A finalizer ends: its stream is paid back, or counted as an attempt.    *)
LEMMA ReturnBalanced ==
    ASSUME TypeOK, PollerShape, SlotsMatch, OneFinalizer, OwnSlot,
           NEW e \in Events, e \notin twice, IsFiniteSet(Slots(e)), Balance(e),
           NEW f \in finalizers, FinalizerReturns(f),
           \/ row'[e].attempts = row[e].attempts
           \/ /\ f.event = e /\ f.at = "write"
              /\ row'[e].attempts = f.attempts + 1
    PROVE  Balance(e)'
<1>1. /\ f.stream \in Streams
      /\ streams'[f.stream].event = None
      /\ \A t \in Streams : t # f.stream => streams'[t] = streams[t]
      /\ finalizers' = finalizers \ {f}
      /\ UNCHANGED <<batch, snapshot, current, stream, claims>>
  BY ReturnEffect DEF history
<1>2. \/ /\ at = "failing" /\ stream = f.stream /\ at' = "retry"
      \/ at' = at
  BY ReturnEffect
<1>3. /\ row[e].attempts \in Nat /\ claims[e] \in Nat
      /\ snapshot[e] \in Nat /\ Load(e) \in Nat
      /\ \A g \in finalizers : g.attempts \in Nat
  BY BalanceTypes
<1>4. Asked(e)' = Asked(e) /\ Asked(e) \in {0, 1}
  BY <1>1, <1>2 DEF Asked
<1>5. Ended \in {0, 1} /\ Ended' \in {0, 1}
  BY DEF Ended
<1>6. CASE f.event = e
  <2>1. Open(f.stream) /\ Load(e)' = Load(e) - 1
    BY <1>6, LoadReturn DEF OneFinalizer
  <2>2. row'[e].attempts + Load(e)' + Asked(e)' <= claims'[e]
    <3>1. CASE row'[e].attempts = row[e].attempts
      BY <1>1, <1>3, <1>4, <2>1, <3>1 DEF Balance
    <3>2. CASE f.at = "write" /\ row'[e].attempts = f.attempts + 1
      <4>1. f.attempts + Load(e) + Asked(e) <= claims[e]
        BY <1>6, <3>2 DEF Balance
      <4> QED  BY <1>1, <1>3, <1>4, <2>1, <3>2, <4>1
    <3> QED  BY <3>1, <3>2
  <2>3. \A g \in finalizers' : g.event = e /\ g.at = "write" =>
           g.attempts + Load(e)' + Asked(e)' <= claims'[e]
    BY <1>1, <1>3, <1>4, <2>1 DEF Balance
  <2>4. e \in batch' \/ (current' = e /\ at' = "claim") =>
           snapshot'[e] + Load(e)' <= claims'[e]
    BY <1>1, <1>2, <1>3, <2>1 DEF Balance
  <2>5. current' = e /\ at' \in Sending =>
           snapshot'[e] + Load(e)' + Ended' <= claims'[e]
    BY <1>1, <1>2, <1>3, <1>5, <2>1 DEF Balance, Sending, Ended, Open
  <2>6. current' = e /\ at' \in {"lookup", "retry"} =>
           snapshot'[e] + Load(e)' + 1 <= claims'[e]
    BY <1>1, <1>2, <1>3, <1>5, <2>1 DEF Balance, Sending
  <2> QED  BY <2>2, <2>3, <2>4, <2>5, <2>6 DEF Balance
<1>7. CASE f.event # e
  <2>1. Load(e)' = Load(e) /\ row'[e].attempts = row[e].attempts
    BY <1>7, LoadReturn
  <2>2. current = e /\ at \in Sending =>
          Ended' = Ended /\ (stream = f.stream => Ended = 1)
    BY <1>1, <1>7 DEF OwnSlot, SlotsMatch, Ended, Open, PollerShape
  <2>3. \A g \in finalizers' : g.event = e /\ g.at = "write" =>
           g.attempts + Load(e)' + Asked(e)' <= claims'[e]
    BY <1>1, <1>4, <2>1 DEF Balance
  <2>4. /\ current' = e /\ at' \in Sending =>
             snapshot'[e] + Load(e)' + Ended' <= claims'[e]
        /\ current' = e /\ at' \in {"lookup", "retry"} =>
             snapshot'[e] + Load(e)' + 1 <= claims'[e]
    BY <1>1, <1>2, <2>1, <2>2 DEF Balance, Sending
  <2> QED  BY <1>1, <1>2, <1>4, <2>1, <2>3, <2>4 DEF Balance
<1> QED  BY <1>6, <1>7

(* The poller's own stream stays its own.                                  *)
LEMMA OwnSlotStep ==
    ASSUME TypeOK, PollerShape, SlotsMatch, OwnSlot, [Next]_vars
    PROVE  OwnSlot'
<1>1. CASE at' \notin Sending
  BY <1>1 DEF OwnSlot
<1>2. ASSUME at \in Sending, UNCHANGED <<stream, current>>,
             SlotsSame \/ streams' = streams
      PROVE  OwnSlot'
  BY <1>2 DEF OwnSlot, PollerShape, SlotsSame, Open
<1>3. CASE NextEvent \/ LeaveLoop
  BY <1>1, <1>3, NextEventAt DEF Sending
<1>4. CASE UNCHANGED <<at, stream, current>> /\ (SlotsSame \/ streams' = streams)
  BY <1>1, <1>2, <1>4
<1>5. ASSUME NEW s \in Streams, StartStream(s)
      PROVE  OwnSlot'
  BY <1>5 DEF TypeOK, StartStream, Free, OwnSlot
<1>6. ASSUME NEW f \in finalizers, FinalizerReturns(f)
      PROVE  OwnSlot'
  <2>1. /\ streams'[f.stream].event = None
        /\ \A t \in Streams : t # f.stream => streams'[t] = streams[t]
        /\ UNCHANGED <<current, stream>>
        /\ at' = at \/ at' = "retry"
    BY <1>6, ReturnEffect
  <2> QED  BY <2>1 DEF OwnSlot, PollerShape, Open, Sending
<1>7. ASSUME NEW s \in Streams, NEW d, FinalizeByEvent(s, d)
      PROVE  SlotsSame
  BY <1>7, FinalizeEffect DEF FinalizeByEvent
<1>8. ASSUME NEW s \in Streams, NEW u, Rearm(s, u)
      PROVE  SlotsSame
  BY <1>8, RearmEffect
<1>9. CASE InsertFails \/ SendFails
  <2>1. at \in Sending /\ stream \in Streams /\ IngressFails
    BY <1>9 DEF InsertFails, SendFails, PollerShape, Sending
  <2>2. CASE Open(stream)
    <3>1. PICK id : Finalize(stream, id, FALSE)
      BY <2>1, <2>2 DEF IngressFails
    <3>2. SlotsSame
      BY <2>1, <3>1, FinalizeEffect
    <3> QED  BY <1>2, <2>1, <2>2, <3>2 DEF IngressFails
  <2>3. CASE ~Open(stream)
    BY <1>1, <2>1, <2>3 DEF IngressFails, Goto, Sending
  <2> QED  BY <2>2, <2>3
<1>10. CASE InsertOk
  <2>1. at \in Sending
    BY <1>10 DEF InsertOk, Sending
  <2> QED  BY <1>2, <1>10, <2>1, InsertOkEffect
<1>11. CASE Tick
  BY <1>4, <1>11, TickEffect DEF PollerSame
<1>12. CASE IngressProceeds
  <2>1. CASE ~NextEvent
    <3>1. at \in Sending /\ UNCHANGED <<stream, current, streams>>
      BY <1>12, <2>1 DEF IngressProceeds, Goto, Sending
    <3> QED  BY <1>2, <3>1
  <2> QED  BY <1>3, <2>1
<1>13. CASE Select
  BY <1>1, <1>13 DEF Select, LeaveLoop, Take, Sending
<1>14. CASE Poll \/ Claim \/ NoAgentOrBusy
  BY <1>1, <1>14 DEF Poll, Claim, NoAgentOrBusy, Goto, Sending
<1>15. ASSUME NEW f \in finalizers, RequestUpdated(f) \/ ReadsPending(f)
       PROVE  OwnSlot'
  BY <1>4, <1>15, AdvanceEffect DEF poller
<1>16. ASSUME NEW x \in Events, Enqueue(x) \/ Cascade(x)
       PROVE  OwnSlot'
  BY <1>4, <1>16 DEF Enqueue, Cascade, poller
<1>17. CASE UNCHANGED vars
  BY <1>4, <1>17 DEF vars, poller
<1>18. ASSUME NEW s \in Streams, NEW d, FinalizeByEvent(s, d) \/ Rearm(s, d)
       PROVE  OwnSlot'
  BY <1>4, <1>7, <1>8, <1>18 DEF FinalizeByEvent, Rearm, poller
<1> QED
  BY <1>3, <1>5, <1>6, <1>9, <1>10, <1>11, <1>12, <1>13, <1>14, <1>15, <1>16,
     <1>17, <1>18
  DEF Next, PollerStep, PollerFails, StreamEvent, FinalizerStep,
      ClaimRefused, LookupMissing, RetrySelected, Throws, GatewayRestart,
      OnAgentResponseStart, OnAgentResponseChunk, OnAgentResponseEnd,
      OnStreamError, SessionCloses, StreamTimeout, Delivers, ReadsSettled,
      Retries, MarkFails

(* A retry counts one attempt, or finds no row.                            *)
LEMMA RetryAttempts ==
    ASSUME TypeOK, NEW x \in Events, NEW n \in Nat, row' = MarkRetry(x, n),
           NEW e \in Events
    PROVE  \/ row'[e].attempts = row[e].attempts
           \/ x = e /\ row'[e].attempts = n + 1
<1>1. CASE x # e
  BY <1>1, RetryTyped
<1>2. CASE x = e
  BY <1>2 DEF MarkRetry, TypeOK
<1> QED  BY <1>1, <1>2

(* Every step keeps the books.                                             *)
LEMMA BalanceStep ==
    ASSUME TypeOK, PollerShape, Known, SlotsMatch, OneFinalizer, SettleInv,
           BalanceInv, [Next]_vars
    PROVE  BalanceInv'
<1>1. OwnSlot' /\ \A e \in Events : IsFiniteSet(Slots(e)')
  BY OwnSlotStep, SlotsFinite DEF BalanceInv
<1> SUFFICES ASSUME NEW e \in Events, e \notin twice', claims'[e] < MaxRetries
             PROVE  Balance(e)'
  BY <1>1 DEF BalanceInv
<1>2. \/ claims'[e] = claims[e]
      \/ claims[e] < MaxRetries /\ claims'[e] = claims[e] + 1 /\ Claim /\ current = e
  BY HistoryStep
<1>3. /\ e \notin twice /\ IsFiniteSet(Slots(e)) /\ Balance(e) /\ OwnSlot
  BY <1>2, HistoryStep DEF BalanceInv
<1>4. CASE Claim
  <2>1. claims'[e] = IF current = e THEN claims[e] + 1 ELSE claims[e]
    <3>1. claims[e] \in Nat /\ MaxRetries \in Nat
      BY WebhookAssumption DEF TypeOK
    <3>2. CASE current = e
      <4>1. claims'[e] = IF claims[e] < MaxRetries THEN claims[e] + 1 ELSE claims[e]
        BY <1>4, <3>2 DEF Claim, TypeOK
      <4> QED  BY <3>1, <3>2, <4>1
    <3>3. CASE current # e
      BY <1>2, <3>3
    <3> QED  BY <3>2, <3>3
  <2> QED  BY <1>3, <1>4, <2>1, ClaimBalanced
<1> SUFFICES ASSUME ~Claim
             PROVE  Balance(e)'
  BY <1>4
<1>5. claims'[e] = claims[e]
  BY <1>2
<1>6. CASE UNCHANGED vars
  <2>1. /\ SlotsSame /\ UNCHANGED <<batch, snapshot, current, stream, at>>
        /\ finalizers' = finalizers /\ row' = row
    BY <1>6 DEF vars, poller, SlotsSame
  <2> QED  BY <1>3, <1>5, <2>1, MoveBalanced
<1>7. ASSUME NEW x \in Events, Enqueue(x) \/ Cascade(x)
      PROVE  Balance(e)'
  <2>1. /\ SlotsSame /\ UNCHANGED <<batch, snapshot, current, stream, at>>
        /\ finalizers' = finalizers
    BY <1>7 DEF Enqueue, Cascade, poller, SlotsSame
  <2>2. row'[e].attempts = row[e].attempts \/ row'[e].attempts = 0
    <3>1. CASE Enqueue(x)
      BY <3>1 DEF TypeOK, Enqueue
    <3>2. CASE Cascade(x)
      BY <3>2 DEF TypeOK, Cascade
    <3> QED  BY <1>7, <3>1, <3>2
  <2> QED  BY <1>3, <1>5, <2>1, <2>2, MoveBalanced
<1>8. CASE Poll
  <2>1. /\ SlotsSame /\ UNCHANGED <<batch, snapshot, current, stream>>
        /\ finalizers' = finalizers /\ row' = row
        /\ current = None /\ at' # "claim"
    BY <1>8 DEF Poll, PollerShape, SlotsSame
  <2> QED  BY <1>3, <1>5, <2>1, WebhookAssumption, MoveBalanced
<1>9. CASE Select
  BY <1>3, <1>9, SelectBalanced
<1>10. CASE ClaimRefused \/ LookupMissing \/ Throws
  <2>1. /\ NextEvent \/ LeaveLoop
        /\ streams' = streams /\ finalizers' = finalizers /\ row' = row
    BY <1>10 DEF ClaimRefused, LookupMissing, Throws
  <2> QED  BY <1>3, <1>5, <2>1, LoopBalanced
<1>11. CASE NoAgentOrBusy
  <2>1. /\ SlotsSame /\ UNCHANGED <<batch, snapshot, current, stream>>
        /\ finalizers' = finalizers /\ row' = row
        /\ at = "lookup" /\ at' = "retry"
    BY <1>11 DEF NoAgentOrBusy, Goto, SlotsSame
  <2> QED  BY <1>3, <1>5, <2>1, MoveBalanced
<1>12. ASSUME NEW s \in Streams, StartStream(s)
       PROVE  Balance(e)'
  BY <1>3, <1>12, StartBalanced
<1>13. CASE RetrySelected
  <2>1. /\ NextEvent /\ at = "retry" /\ current \in Events
        /\ snapshot[current] \in Nat
        /\ row' = MarkRetry(current, snapshot[current])
        /\ streams' = streams /\ finalizers' = finalizers
    BY <1>13 DEF RetrySelected, PollerShape, TypeOK
  <2>2. \/ row'[e].attempts = row[e].attempts
        \/ current = e /\ row'[e].attempts = snapshot[e] + 1
    BY <2>1, RetryAttempts
  <2> QED  BY <1>3, <1>5, <2>1, <2>2, LoopBalanced
<1>14. ASSUME NEW s \in Streams, NEW d, FinalizeByEvent(s, d)
       PROVE  Balance(e)'
  <2>1. PICK id : Finalize(s, id, d)
    BY <1>14 DEF FinalizeByEvent
  <2>2. PICK g : finalizers' = finalizers \cup {g} /\ g.at = "update"
    BY <2>1, FinalizeEffect
  <2>3. /\ SlotsSame /\ UNCHANGED <<batch, snapshot, current, stream, at, row>>
    BY <1>14, <2>1, FinalizeEffect DEF FinalizeByEvent, poller
  <2>4. \A f \in finalizers' : f.event = e /\ f.at = "write" => f \in finalizers
    BY <2>2
  <2> QED  BY <1>3, <1>5, <2>3, <2>4, MoveBalanced
<1>15. ASSUME NEW s \in Streams, NEW u, Rearm(s, u)
       PROVE  Balance(e)'
  <2>1. /\ SlotsSame /\ PollerSame /\ UNCHANGED <<finalizers, row>>
    BY <1>15, RearmEffect
  <2> QED  BY <1>3, <1>5, <2>1, MoveBalanced DEF PollerSame
<1>16. CASE InsertFails \/ SendFails
  <2>1. /\ at \in Sending \ {"failing"} /\ IngressFails /\ row' = row
        /\ stream \in Streams
    BY <1>16 DEF InsertFails, SendFails, Sending, PollerShape
  <2>2. UNCHANGED <<batch, snapshot, current, stream>>
    BY <2>1 DEF IngressFails, Goto
  <2>3. CASE Open(stream)
    <3>1. PICK id, d : Finalize(stream, id, d)
      BY <2>1, <2>3 DEF IngressFails
    <3>2. SlotsSame /\ at' \in Sending
      BY <2>1, <2>3, <3>1, FinalizeEffect DEF IngressFails, Sending
    <3>3. PICK g : finalizers' = finalizers \cup {g} /\ g.at = "update"
      BY <2>1, <3>1, FinalizeEffect
    <3>4. \A f \in finalizers' : f.event = e /\ f.at = "write" => f \in finalizers
      BY <3>3
    <3> QED  BY <1>3, <1>5, <2>1, <2>2, <3>2, <3>4, MoveBalanced
  <2>4. CASE ~Open(stream)
    <3>1. SlotsSame /\ at' = "retry" /\ finalizers' = finalizers
      BY <2>1, <2>4 DEF IngressFails, Goto, SlotsSame
    <3> QED  BY <1>3, <1>5, <2>1, <2>2, <2>4, <3>1, MoveBalanced
  <2> QED  BY <2>3, <2>4
<1>17. CASE InsertOk
  <2>1. /\ SlotsSame /\ at \in Sending /\ at' \in Sending
        /\ UNCHANGED <<row, finalizers, batch, snapshot, current, stream>>
    BY <1>17, InsertOkEffect DEF Sending
  <2> QED  BY <1>3, <1>5, <2>1, MoveBalanced
<1>18. CASE IngressProceeds
  <2>1. UNCHANGED <<row, streams, finalizers>>
    BY <1>18 DEF IngressProceeds
  <2>2. CASE NextEvent
    BY <1>3, <1>5, <2>1, <2>2, LoopBalanced
  <2>3. CASE ~NextEvent
    <3>1. /\ at \in Sending /\ at' \in Sending /\ SlotsSame
          /\ UNCHANGED <<batch, snapshot, current, stream>>
      BY <1>18, <2>1, <2>3 DEF IngressProceeds, Goto, Sending, SlotsSame
    <3> QED  BY <1>3, <1>5, <2>1, <3>1, MoveBalanced
  <2> QED  BY <2>2, <2>3
<1>19. ASSUME NEW f \in finalizers, RequestUpdated(f) \/ ReadsPending(f)
       PROVE  Balance(e)'
  <2>1. PICK g : /\ finalizers' = (finalizers \ {f}) \cup {g}
                 /\ g.event = f.event
                 /\ g.at = "write" => g.attempts = row[f.event].attempts
    BY <1>19, AdvanceEffect
  <2>2. /\ SlotsSame
        /\ UNCHANGED <<batch, snapshot, current, stream, at, row>>
    BY <1>19, AdvanceEffect DEF poller, SlotsSame
  <2>3. \A h \in finalizers' : h.event = e /\ h.at = "write" =>
            h \in finalizers \/ h.attempts = row[e].attempts
    BY <2>1
  <2> QED  BY <1>3, <1>5, <2>2, <2>3, MoveBalanced
<1>20. ASSUME NEW f \in finalizers,
              \/ Delivers(f) \/ ReadsSettled(f) \/ Retries(f) \/ MarkFails(f)
       PROVE  Balance(e)'
  <2>1. FinalizerReturns(f) /\ f.event \in Events /\ f.attempts \in Nat
    BY <1>20
    DEF Delivers, ReadsSettled, Retries, MarkFails, TypeOK, Finalizer
  <2>2. \/ row'[e].attempts = row[e].attempts
        \/ /\ f.event = e /\ f.at = "write"
           /\ row'[e].attempts = f.attempts + 1
    <3>1. CASE ReadsSettled(f) \/ MarkFails(f)
      BY <3>1 DEF ReadsSettled, MarkFails
    <3>2. CASE Delivers(f)
      BY <2>1, <3>2 DEF Delivers, MarkDelivered, TypeOK, Row
    <3>3. CASE Retries(f)
      BY <2>1, <3>3, RetryAttempts DEF Retries
    <3> QED  BY <1>20, <3>1, <3>2, <3>3
  <2> QED  BY <1>3, <2>1, <2>2, ReturnBalanced
<1>21. CASE Tick
  <2>1. /\ SlotsSame /\ PollerSame /\ finalizers' = finalizers
        /\ row'[e].attempts = row[e].attempts
    BY <1>21, TickEffect DEF RowSame
  <2> QED  BY <1>3, <1>5, <2>1, MoveBalanced DEF PollerSame
<1>22. CASE GatewayRestart
  <2>1. /\ at' = "idle" /\ batch' = {} /\ current' = None /\ finalizers' = {}
        /\ row' = row /\ Slots(e)' = {}
    BY <1>22, WebhookAssumption DEF GatewayRestart, LeaveLoop, Free, Slots
  <2>2. Load(e)' = 0 /\ Asked(e)' = 0
    BY <2>1, FS_EmptySet DEF Load, Asked
  <2>3. /\ row[e].attempts \in Nat /\ claims[e] \in Nat /\ Load(e) \in Nat
        /\ Asked(e) \in {0, 1}
    BY <1>3, BalanceTypes DEF Asked
  <2>4. row[e].attempts <= claims[e]
    BY <1>3, <2>3 DEF Balance
  <2> QED  BY <1>5, <2>1, <2>2, <2>3, <2>4, WebhookAssumption
           DEF Balance, Sending
<1> QED
  BY <1>6, <1>7, <1>8, <1>9, <1>10, <1>11, <1>12, <1>13, <1>14, <1>15, <1>16,
     <1>17, <1>18, <1>19, <1>20, <1>21, <1>22
  DEF Next, PollerStep, PollerFails, StreamEvent, FinalizerStep,
      OnAgentResponseStart, OnAgentResponseChunk, OnAgentResponseEnd,
      OnStreamError, SessionCloses, StreamTimeout

LEMMA InitBalance == Init => BalanceInv
<1> SUFFICES ASSUME Init
             PROVE  BalanceInv
  OBVIOUS
<1>1. /\ at = "idle" /\ finalizers = {} /\ batch = {} /\ current = None
      /\ \A e \in Events : Slots(e) = {} /\ row[e].attempts = 0 /\ claims[e] = 0
  BY WebhookAssumption DEF Init, Idle, Free, Slots
<1>2. \A e \in Events : IsFiniteSet(Slots(e)) /\ Load(e) = 0 /\ Asked(e) = 0
  BY <1>1, FS_EmptySet DEF Load, Asked
<1> QED  BY <1>1, <1>2, WebhookAssumption DEF BalanceInv, OwnSlot, Balance, Sending

(* Each attempt that is counted, and each stream that may count one, has a *)
(* claim of its own, until a stream of the event is finalized twice.       *)
THEOREM BalanceInvariant == Spec => []BalanceInv
<1>1. LeaseInv /\ SettleInv /\ BalanceInv /\ [Next]_vars => BalanceInv'
  BY BalanceStep DEF LeaseInv
<1> QED  BY <1>1, InitBalance, SettleInvariant, LeaseInvariant, PTL DEF Spec

(* markLineWebhookEventRetry gives an event up only after MaxRetries       *)
(* claims: the count in a stale snapshot or in a finalizer's memory runs   *)
(* behind the claims and never ahead of them.                              *)
THEOREM GivenUpLate == Spec => []GivenUpAfterAllRetries
<1>1. LeaseInv /\ CountInv /\ BalanceInv => GivenUpAfterAllRetries
  <2> SUFFICES ASSUME LeaseInv, CountInv, BalanceInv, NEW e \in Events,
                      row[e].status = "failed", e \notin twice,
                      ~(claims[e] >= MaxRetries)
               PROVE  FALSE
    BY DEF GivenUpAfterAllRetries
  <2>1. /\ MaxRetries \in Nat /\ claims[e] \in Nat /\ row[e].attempts \in Nat
        /\ IsFiniteSet(Slots(e)) /\ Load(e) \in Nat
    BY BalanceTypes, WebhookAssumption DEF LeaseInv, TypeOK, Row, BalanceInv
  <2>2. row[e].attempts + Load(e) + Asked(e) <= claims[e] /\ Asked(e) \in {0, 1}
    BY <2>1 DEF BalanceInv, Balance, Asked
  <2>3. row[e].attempts = MaxRetries
    BY DEF CountInv, AttemptsWithinLimit
  <2> QED  BY <2>1, <2>2, <2>3
<1> QED  BY <1>1, BalanceInvariant, LeaseInvariant, PTL

-----------------------------------------------------------------------------
(* The contract of the queue.                                              *)

(* Whoever works on an event works on a claim of it, and only a stream     *)
(* that was answered is recorded as delivered.                             *)
Served ==
    /\ \A e \in Events : InFlight(e) => claims[e] > 0
    /\ at \in {"lookup", "retry"} \cup Sending => claims[current] > 0
    /\ \A f \in finalizers : f.at = "deliver" => f.delivered

ContractStep == [Contract!Next]_(Contract!vars)

(* What the contract sees of the rows, and of the streams.                 *)
SameStates  == \A e \in Events : State(e)' = State(e)
SameStreams == \A s \in Streams : /\ streams'[s].event = streams[s].event
                                  /\ streams'[s].upstream = streams[s].upstream
SameHistory == UNCHANGED <<claims, overlapped, twice, early>>

LEMMA StatesSame ==
    ASSUME SameStates
    PROVE  [e \in Events |-> State(e)]' = [e \in Events |-> State(e)]
BY DEF SameStates

LEMMA RowsSame ==
    ASSUME \A e \in Events : row'[e].status = row[e].status, createdAt' = createdAt
    PROVE  SameStates
BY DEF SameStates, State, Exists

LEMMA StreamsSame ==
    ASSUME SameStreams
    PROVE  Answered' = Answered
BY DEF SameStreams, Answered

LEMMA StutterContract ==
    ASSUME SameStates, SameHistory, Answered' = Answered, Accepted' = Accepted
    PROVE  ContractStep
BY StatesSame DEF ContractStep, Contract!vars, SameHistory

LEMMA LapseContract ==
    ASSUME SameStates, SameHistory, Answered' \subseteq Answered, Accepted' \subseteq Accepted
    PROVE  ContractStep
<1>1. Contract!Lapse
  BY StatesSame DEF Contract!Lapse, Contract!Forget, SameHistory
<1> QED  BY <1>1 DEF ContractStep, Contract!Next

(* One row is written.                                                     *)
LEMMA OneState ==
    ASSUME NEW e \in Events, \A x \in Events \ {e} : State(x)' = State(x)
    PROVE  [x \in Events |-> State(x)]' =
             [[x \in Events |-> State(x)] EXCEPT ![e] = State(e)']
OBVIOUS

LEMMA EnqueueContract ==
    ASSUME TypeOK, Known, NEW e \in Events, Enqueue(e)
    PROVE  ContractStep
<1>1. /\ State(e) = "absent" /\ State(e)' = "pending"
      /\ \A x \in Events \ {e} : State(x)' = State(x)
  BY DEF TypeOK, Known, Enqueue, State, Exists
<1>2. Contract!Store(e)
  <2>1. UNCHANGED <<streams, finalizers, history>>
    BY DEF Enqueue
  <2>2. Answered' = Answered /\ Accepted' = Accepted
    BY <2>1 DEF Answered, Accepted
  <2> QED  BY <1>1, <2>1, <2>2, OneState DEF Contract!Store, history, causes
<1> QED  BY <1>2 DEF ContractStep, Contract!Next

LEMMA CascadeContract ==
    ASSUME TypeOK, Known, NEW e \in Events, Cascade(e)
    PROVE  ContractStep
<1>1. /\ State(e) \in {"pending", "delivered", "failed"} /\ State(e)' = "deleted"
      /\ \A x \in Events \ {e} : State(x)' = State(x)
  BY DEF TypeOK, Row, Statuses, Known, Cascade, State, Exists
<1>2. Contract!Delete(e)
  <2>1. UNCHANGED <<streams, finalizers, history>>
    BY DEF Cascade
  <2>2. Answered' = Answered /\ Accepted' = Accepted
    BY <2>1 DEF Answered, Accepted
  <2> QED  BY <1>1, <2>1, <2>2, OneState
           DEF Contract!Delete, Contract!Settled, history, causes
<1> QED  BY <1>2 DEF ContractStep, Contract!Next

LEMMA SelectContract ==
    ASSUME Served, Select
    PROVE  ContractStep
<1>1. /\ UNCHANGED <<row, createdAt, streams, finalizers, claims, twice, early>>
      /\ \E S \in SUBSET Events :
            overlapped' = overlapped \cup S /\ \A e \in S : InFlight(e)
  <2>1. CASE DueBatch = {}
    <3>1. overlapped' = overlapped \cup {}
      BY <2>1 DEF Select
    <3>2. {} \in SUBSET Events /\ \A e \in {} : InFlight(e)
      OBVIOUS
    <3>3. UNCHANGED <<row, createdAt, streams, finalizers, claims, twice, early>>
      BY DEF Select
    <3> QED  BY <3>1, <3>2, <3>3, Zenon
  <2>2. CASE DueBatch # {}
    <3>1. overlapped' = overlapped \cup {e \in DueBatch : InFlight(e)}
      BY <2>2 DEF Select
    <3>2. {e \in DueBatch : InFlight(e)} \in SUBSET Events
      BY DEF DueBatch
    <3>3. UNCHANGED <<row, createdAt, streams, finalizers, claims, twice, early>>
      BY DEF Select
    <3>4. \A e \in {x \in DueBatch : InFlight(x)} : InFlight(e)
      OBVIOUS
    <3> QED  BY <3>1, <3>2, <3>3, <3>4, Zenon
  <2> QED  BY <2>1, <2>2
<1>2. PICK S \in SUBSET Events :
         overlapped' = overlapped \cup S /\ \A e \in S : InFlight(e)
  BY <1>1
<1>3. SameStates /\ SameStreams /\ Accepted' = Accepted
  BY <1>1, RowsSame DEF SameStreams, Accepted
<1>4. \A e \in S : claims[e] > 0
  BY <1>2 DEF Served
<1>5. Contract!PickUp(S)
  BY <1>1, <1>2, <1>3, <1>4, StatesSame, StreamsSame
  DEF Contract!PickUp, Contract!Dispatched
<1> QED  BY <1>5 DEF ContractStep, Contract!Next

LEMMA ClaimContract ==
    ASSUME TypeOK, PollerShape, Served, Claim
    PROVE  ContractStep
<1>1. current \in Events
  BY DEF PollerShape, Claim
<1>2. /\ \A e \in Events : row'[e].status = row[e].status
      /\ row[current].status = "pending"
  BY <1>1 DEF Claim, TypeOK, Row, Due, Pending
<1>3. UNCHANGED <<createdAt, streams, finalizers, twice, early>>
  BY DEF Claim
<1>4. SameStates /\ Answered' = Answered /\ Accepted' = Accepted
  BY <1>2, <1>3, RowsSame DEF Answered, Accepted
<1>5. State(current) = "pending"
  BY <1>2 DEF State, Exists
<1>6. \/ overlapped' = overlapped
      \/ overlapped' = overlapped \cup ({current} \cap Contract!Dispatched)
  BY <1>1 DEF Claim, Served, Contract!Dispatched
<1>7. claims' = [claims EXCEPT ![current] = IF @ < MaxRetries THEN @ + 1 ELSE @]
  BY DEF Claim
<1>8. Contract!Dispatch(current)
  BY <1>1, <1>3, <1>4, <1>5, <1>6, <1>7, StatesSame DEF Contract!Dispatch
<1> QED  BY <1>1, <1>8 DEF ContractStep, Contract!Next

LEMMA RearmContract ==
    ASSUME TypeOK, Served, NEW s \in Streams, NEW u, Rearm(s, u)
    PROVE  ContractStep
<1> DEFINE e == streams[s].event
<1>1. e \in Events /\ claims[e] > 0
  BY DEF Rearm, Open, TypeOK, Stream, Served, InFlight
<1>2. /\ streams'[s].event = e
      /\ \A t \in Streams : t # s => streams'[t] = streams[t]
      /\ UNCHANGED <<row, createdAt, finalizers, claims, overlapped, twice, early>>
  BY DEF Rearm, TypeOK, Stream
<1>3. SameStates /\ Accepted' = Accepted
  BY <1>2, RowsSame DEF Accepted
<1>4. \A x \in Events \ {e} : x \in Answered' <=> x \in Answered
  BY <1>2 DEF Answered
<1> HIDE DEF e
<1>5. Answered' \in {Answered \cup {e}, Answered \ {e}}
  <2>1. Answered' \subseteq Events /\ Answered \subseteq Events
    BY DEF Answered
  <2> QED  BY <1>1, <1>4, <2>1
<1>6. Contract!Answer(e)
  BY <1>1, <1>2, <1>3, <1>5, StatesSame DEF Contract!Answer, Contract!Dispatched
<1> QED  BY <1>1, <1>6 DEF ContractStep, Contract!Next

(* A stream is finalized; as delivered, when it was answered.              *)
LEMMA FinalizeContract ==
    ASSUME TypeOK, Served, NEW s \in Streams, NEW id, NEW d, Finalize(s, id, d),
           d = TRUE => streams[s].upstream = "2xx",
           d \in BOOLEAN,
           early' = early \/ early' = early \cup {streams[s].event},
           UNCHANGED <<row, createdAt, claims, overlapped>>
    PROVE  ContractStep
<1> DEFINE e == streams[s].event
<1>1. e \in Events /\ claims[e] > 0
  BY DEF Finalize, Open, TypeOK, Stream, Served, InFlight
<1>2. SameStreams /\ (twice' = twice \/ twice' = twice \cup {e})
  BY DEF Finalize, TypeOK, Stream, SameStreams
<1>3. SameStates
  BY RowsSame
<1>4. PICK g : finalizers' = finalizers \cup {g} /\ g.event = e /\ g.delivered = d
  BY FinalizeEffect
<1>5. d = TRUE => e \in Answered
  BY <1>1 DEF Answered
<1> HIDE DEF e
<1>6. \/ Accepted' = Accepted
      \/ Accepted' = Accepted \cup ({e} \cap Answered)
  <2>1. CASE d = TRUE
    <3>1. Accepted' = Accepted \cup {e}
      BY <1>1, <1>4, <2>1 DEF Accepted
    <3> QED  BY <1>5, <2>1, <3>1
  <2>2. CASE d = FALSE
    BY <1>4, <2>2 DEF Accepted
  <2> QED  BY <2>1, <2>2
<1> DEFINE disturbed == overlapped \cup twice \cup early
<1>7. disturbed' = disturbed \/ disturbed' = disturbed \cup {e}
  BY <1>2 DEF e
<1>8. twice' = twice \/ twice' = twice \cup ({e} \cap disturbed')
  BY <1>2
<1>9. Contract!End(e)
  BY <1>1, <1>2, <1>3, <1>6, <1>7, <1>8, StatesSame, StreamsSame
  DEF Contract!End, Contract!Dispatched
<1> QED  BY <1>1, <1>9 DEF ContractStep, Contract!Next

(* The row of e is written by somebody who may.                            *)
LEMMA RecordContract ==
    ASSUME TypeOK, NEW e \in Events, Exists(e), NEW outcome,
           outcome \in {"pending", "delivered", "failed"},
           row'[e].status = outcome,
           \A x \in Events \ {e} : row'[x] = row[x],
           outcome = "delivered" => e \in Accepted,
           outcome = "failed" => e \in twice \/ claims[e] >= MaxRetries,
           row[e].status \in {"delivered", "failed"} /\ outcome # row[e].status => ~Clean(e),
           createdAt' = createdAt, SameHistory,
           Answered' \subseteq Answered, Accepted' \subseteq Accepted
    PROVE  ContractStep
<1>1. /\ State(e) = row[e].status /\ State(e)' = outcome
      /\ State(e) \in {"pending", "delivered", "failed"}
      /\ \A x \in Events \ {e} : State(x)' = State(x)
  BY DEF TypeOK, Row, Statuses, State, Exists
<1>2. Contract!Record(e, outcome)
  BY <1>1, OneState
  DEF Contract!Record, Contract!Settled, Contract!Forget, SameHistory, Clean
<1> QED  BY <1>2 DEF ContractStep, Contract!Next, Contract!Settled

-----------------------------------------------------------------------------
(* The steps that the contract does not see.                               *)

LEMMA QuietContract ==
    ASSUME row' = row, createdAt' = createdAt, UNCHANGED history,
           streams' = streams, finalizers' = finalizers
    PROVE  ContractStep
<1>1. SameStates /\ SameHistory
  BY RowsSame DEF SameHistory, history, causes
<1>2. Answered' = Answered /\ Accepted' = Accepted
  BY DEF Answered, Accepted
<1> QED  BY <1>1, <1>2, StutterContract

LEMMA TickContract ==
    ASSUME TypeOK, Tick
    PROVE  ContractStep
<1>1. /\ SlotsSame /\ \A e \in Events : RowSame(e)
      /\ UNCHANGED <<createdAt, finalizers, claims, overlapped, twice, early>>
  BY TickEffect
<1>2. SameStates /\ SameHistory /\ Accepted' = Accepted
  BY <1>1, RowsSame DEF SameHistory, Accepted, RowSame
<1>3. \A s \in Streams : streams'[s].upstream = streams[s].upstream
  BY DEF TypeOK, Stream, Tick
<1>4. SameStreams
  BY <1>1, <1>3 DEF SameStreams, SlotsSame
<1> QED  BY <1>2, <1>4, StreamsSame, StutterContract

LEMMA StartContract ==
    ASSUME TypeOK, NEW s \in Streams, StartStream(s)
    PROVE  ContractStep
<1>1. /\ streams[s].event = None /\ streams'[s].upstream = "null"
      /\ \A t \in Streams : t # s => streams'[t] = streams[t]
      /\ UNCHANGED <<row, createdAt, finalizers, history>>
  BY DEF TypeOK, StartStream, Open, Free
<1>2. Answered' = Answered
  BY <1>1, WebhookAssumption DEF Answered
<1>3. SameStates /\ SameHistory /\ Accepted' = Accepted
  BY <1>1, RowsSame DEF SameHistory, history, causes, Accepted
<1> QED  BY <1>2, <1>3, StutterContract

LEMMA InsertOkContract ==
    ASSUME TypeOK, PollerShape, InsertOk
    PROVE  ContractStep
<1>1. SlotsSame /\ UNCHANGED <<row, createdAt, finalizers, history>>
  BY InsertOkEffect
<1>2. \A s \in Streams : streams'[s].upstream = streams[s].upstream
  BY DEF TypeOK, Stream, InsertOk
<1>3. SameStreams
  BY <1>1, <1>2 DEF SameStreams, SlotsSame
<1>4. SameStates /\ SameHistory /\ Accepted' = Accepted
  BY <1>1, RowsSame DEF SameHistory, history, causes, Accepted
<1> QED  BY <1>3, <1>4, StreamsSame, StutterContract

LEMMA AdvanceContract ==
    ASSUME TypeOK, NEW f \in finalizers, RequestUpdated(f) \/ ReadsPending(f)
    PROVE  ContractStep
<1>1. UNCHANGED <<row, createdAt, streams, history>>
  BY AdvanceEffect
<1>2. PICK g : /\ finalizers' = (finalizers \ {f}) \cup {g}
               /\ g.event = f.event /\ g.delivered = f.delivered
  BY AdvanceEffect
<1>3. Accepted' = Accepted
  BY <1>2 DEF Accepted
<1>4. SameStates /\ SameHistory /\ Answered' = Answered
  BY <1>1, RowsSame DEF SameHistory, history, causes, Answered
<1> QED  BY <1>3, <1>4, StutterContract

-----------------------------------------------------------------------------
(* Finalizers and the poller write the row.                                *)

LEMMA ReturnForgets ==
    ASSUME TypeOK, NEW f \in finalizers, FinalizerReturns(f)
    PROVE  /\ Answered' \subseteq Answered /\ Accepted' \subseteq Accepted
           /\ SameHistory /\ createdAt' = createdAt
<1>1. /\ f.stream \in Streams /\ streams'[f.stream].event = None
      /\ \A t \in Streams : t # f.stream => streams'[t] = streams[t]
      /\ finalizers' = finalizers \ {f} /\ UNCHANGED history
  BY ReturnEffect
<1>2. Answered' \subseteq Answered
  BY <1>1, WebhookAssumption DEF Answered
<1>3. Accepted' \subseteq Accepted
  BY <1>1 DEF Accepted
<1> QED  BY <1>1, <1>2, <1>3
         DEF FinalizerReturns, SameHistory, history, causes

(* What a retry makes of a row that is there.                              *)
LEMMA RetryOutcome ==
    ASSUME TypeOK, NEW e \in Events, NEW n \in Nat, Exists(e),
           row' = MarkRetry(e, n)
    PROVE  /\ row'[e].status = IF n + 1 >= MaxRetries THEN "failed" ELSE "pending"
           /\ \A x \in Events \ {e} : row'[x] = row[x]
<1>1. row'[e].status = IF n + 1 >= MaxRetries THEN "failed" ELSE "pending"
  BY DEF MarkRetry, TypeOK
<1> QED  BY <1>1, RetryTyped

LEMMA RetryContract ==
    ASSUME TypeOK, GivenUpAfterAllRetries', NEW e \in Events, NEW n \in Nat,
           row' = MarkRetry(e, n), createdAt' = createdAt, SameHistory,
           Answered' \subseteq Answered, Accepted' \subseteq Accepted,
           Clean(e) => /\ row[e].status # "delivered"
                       /\ row[e].status = "failed" => n + 1 >= MaxRetries
    PROVE  ContractStep
<1>1. CASE ~Exists(e)
  BY <1>1, RowsSame, LapseContract DEF MarkRetry
<1>2. CASE Exists(e)
  <2> DEFINE outcome == row'[e].status
  <2>1. /\ outcome = IF n + 1 >= MaxRetries THEN "failed" ELSE "pending"
        /\ \A x \in Events \ {e} : row'[x] = row[x]
    BY <1>2, RetryOutcome
  <2>2. outcome = "failed" => e \in twice \/ claims[e] >= MaxRetries
    BY DEF GivenUpAfterAllRetries, SameHistory
  <2>3. row[e].status \in {"delivered", "failed"} /\ outcome # row[e].status
          => ~Clean(e)
    BY <2>1
  <2> HIDE DEF outcome
  <2>4. outcome \in {"pending", "delivered", "failed"} /\ outcome # "delivered"
    BY <2>1
  <2>5. row'[e].status = outcome
    BY DEF outcome
  <2> QED  BY <1>2, <2>1, <2>2, <2>3, <2>4, <2>5, RecordContract
<1> QED  BY <1>1, <1>2

LEMMA RetrySelectedContract ==
    ASSUME TypeOK, PollerShape, SettleInv, GivenUpAfterAllRetries', RetrySelected
    PROVE  ContractStep
<1>1. /\ at = "retry" /\ current \in Events /\ snapshot[current] \in Nat
      /\ row' = MarkRetry(current, snapshot[current])
      /\ UNCHANGED <<createdAt, streams, finalizers, history>>
  BY DEF RetrySelected, PollerShape, TypeOK
<1>2. SameHistory /\ Answered' = Answered /\ Accepted' = Accepted
  BY <1>1 DEF SameHistory, history, causes, Answered, Accepted
<1>3. Clean(current) => Undisturbed(current)
  BY <1>1 DEF SettleInv
<1>4. Clean(current) =>
        /\ row[current].status # "delivered"
        /\ row[current].status = "failed" => snapshot[current] + 1 >= MaxRetries
  BY <1>1, <1>3 DEF Undisturbed
<1> QED  BY <1>1, <1>2, <1>4, RetryContract

LEMMA RetriesContract ==
    ASSUME TypeOK, SettleInv, GivenUpAfterAllRetries',
           NEW f \in finalizers, Retries(f)
    PROVE  ContractStep
<1>1. f.event \in Events /\ f.attempts \in Nat /\ InFlight(f.event)
  BY DEF TypeOK, Finalizer, InFlight
<1>2. /\ row' = MarkRetry(f.event, f.attempts)
      /\ Answered' \subseteq Answered /\ Accepted' \subseteq Accepted
      /\ SameHistory /\ createdAt' = createdAt
  BY ReturnForgets DEF Retries
<1>3. Clean(f.event) => row[f.event].status \in {"none", "pending"}
  BY <1>1 DEF SettleInv, Undisturbed
<1> QED  BY <1>1, <1>2, <1>3, RetryContract

LEMMA DeliversContract ==
    ASSUME TypeOK, SettleInv, Served, NEW f \in finalizers, Delivers(f)
    PROVE  ContractStep
<1> DEFINE e == f.event
<1>1. e \in Events /\ InFlight(e) /\ e \in Accepted
  BY DEF TypeOK, Finalizer, InFlight, Accepted, Served, Delivers
<1>2. /\ row' = MarkDelivered(e)
      /\ Answered' \subseteq Answered /\ Accepted' \subseteq Accepted
      /\ SameHistory /\ createdAt' = createdAt
  BY ReturnForgets DEF Delivers
<1>3. Clean(e) => row[e].status \in {"none", "pending"}
  BY <1>1 DEF SettleInv, Undisturbed
<1> HIDE DEF e
<1>4. CASE ~Exists(e)
  BY <1>2, <1>4, RowsSame, LapseContract DEF MarkDelivered
<1>5. CASE Exists(e)
  <2>1. row'[e].status = "delivered"
    BY <1>1, <1>2, <1>5 DEF MarkDelivered, TypeOK, Row
  <2>2. \A x \in Events \ {e} : row'[x] = row[x]
    BY <1>1, <1>2, DeliveredTyped
  <2> QED  BY <1>1, <1>2, <1>3, <1>5, <2>1, <2>2, RecordContract
<1> QED  BY <1>4, <1>5

LEMMA RestartContract ==
    ASSUME GatewayRestart
    PROVE  ContractStep
<1>1. Answered' = {} /\ Accepted' = {}
  BY WebhookAssumption DEF GatewayRestart, Free, Answered, Accepted
<1>2. SameStates /\ SameHistory
  BY RowsSame DEF GatewayRestart, SameHistory, history, causes
<1> QED  BY <1>1, <1>2, LapseContract

-----------------------------------------------------------------------------
(* The refinement.                                                         *)

(* A stream is finalized by an event, or by the poller.                    *)
LEMMA EventContract ==
    ASSUME TypeOK, Served, NEW s \in Streams, NEW d \in BOOLEAN,
           FinalizeByEvent(s, d), d = TRUE => streams[s].upstream = "2xx"
    PROVE  ContractStep
<1>1. PICK id : Finalize(s, id, d)
  BY DEF FinalizeByEvent
<1>2. /\ UNCHANGED <<row, createdAt, claims, overlapped>>
      /\ early' = early \/ early' = early \cup {streams[s].event}
  BY DEF FinalizeByEvent
<1> QED  BY <1>1, <1>2, FinalizeContract

LEMMA IngressContract ==
    ASSUME TypeOK, PollerShape, Served, InsertFails \/ SendFails
    PROVE  ContractStep
<1>1. /\ IngressFails /\ stream \in Streams
      /\ UNCHANGED <<row, createdAt, claims, overlapped, early>>
  BY DEF InsertFails, SendFails, PollerShape, Sending
<1>2. CASE Open(stream)
  <2>1. PICK id, d : Finalize(stream, id, d) /\ d = FALSE
    BY <1>1, <1>2 DEF IngressFails
  <2>2. d \in BOOLEAN /\ (d = TRUE => streams[stream].upstream = "2xx")
    BY <2>1
  <2> QED  BY <1>1, <2>1, <2>2, FinalizeContract
<1>3. CASE ~Open(stream)
  <2>1. UNCHANGED <<streams, finalizers, twice>>
    BY <1>1, <1>3 DEF IngressFails
  <2>2. SameStates /\ SameHistory /\ Answered' = Answered /\ Accepted' = Accepted
    BY <1>1, <2>1, RowsSame DEF SameHistory, Answered, Accepted
  <2> QED  BY <2>2, StutterContract
<1> QED  BY <1>2, <1>3

(* Every step of the gateway is one of the contract, or none.              *)
LEMMA StepContract ==
    ASSUME TypeOK, PollerShape, Known, SettleInv, Served,
           GivenUpAfterAllRetries', [Next]_vars
    PROVE  ContractStep
<1>1. CASE UNCHANGED vars
  BY <1>1, QuietContract DEF vars, history
<1>2. ASSUME NEW e \in Events, Enqueue(e) \/ Cascade(e)
      PROVE  ContractStep
  BY <1>2, EnqueueContract, CascadeContract
<1>3. CASE \/ Poll \/ ClaimRefused \/ LookupMissing \/ NoAgentOrBusy
           \/ IngressProceeds \/ Throws
  BY <1>3, QuietContract
  DEF Poll, ClaimRefused, LookupMissing, NoAgentOrBusy, IngressProceeds, Throws
<1>4. CASE Select \/ Claim \/ RetrySelected \/ InsertOk
  BY <1>4, SelectContract, ClaimContract, RetrySelectedContract, InsertOkContract
<1>5. CASE InsertFails \/ SendFails
  BY <1>5, IngressContract
<1>6. ASSUME NEW s \in Streams, StartStream(s)
      PROVE  ContractStep
  BY <1>6, StartContract
<1>7. ASSUME NEW s \in Streams, OnAgentResponseStart(s) \/ OnAgentResponseChunk(s)
      PROVE  ContractStep
  BY <1>7, RearmContract DEF OnAgentResponseStart, OnAgentResponseChunk
<1>8. ASSUME NEW s \in Streams,
             \/ OnAgentResponseEnd(s) \/ OnStreamError(s)
             \/ SessionCloses(s) \/ StreamTimeout(s)
      PROVE  ContractStep
  <2>1. PICK d \in BOOLEAN : /\ FinalizeByEvent(s, d)
                             /\ d = TRUE => streams[s].upstream = "2xx"
    <3>1. CASE OnAgentResponseEnd(s)
      BY <3>1, Zenon DEF OnAgentResponseEnd
    <3>2. CASE OnStreamError(s) \/ SessionCloses(s) \/ StreamTimeout(s)
      BY <3>2, Zenon DEF OnStreamError, SessionCloses, StreamTimeout
    <3> QED  BY <1>8, <3>1, <3>2
  <2> QED  BY <2>1, EventContract
<1>9. ASSUME NEW f \in finalizers, RequestUpdated(f) \/ ReadsPending(f)
      PROVE  ContractStep
  BY <1>9, AdvanceContract
<1>10. ASSUME NEW f \in finalizers, Delivers(f) \/ Retries(f)
       PROVE  ContractStep
  BY <1>10, DeliversContract, RetriesContract
<1>11. ASSUME NEW f \in finalizers, ReadsSettled(f) \/ MarkFails(f)
       PROVE  ContractStep
  <2>1. FinalizerReturns(f) /\ row' = row
    BY <1>11 DEF ReadsSettled, MarkFails
  <2> QED  BY <2>1, ReturnForgets, RowsSame, LapseContract
<1>12. CASE Tick \/ GatewayRestart
  BY <1>12, TickContract, RestartContract
<1> QED
  BY <1>1, <1>2, <1>3, <1>4, <1>5, <1>6, <1>7, <1>8, <1>9, <1>10, <1>11, <1>12
  DEF Next, PollerStep, PollerFails, StreamEvent, FinalizerStep

LEMMA ServedStep ==
    ASSUME TypeOK, PollerShape, Served, [Next]_vars
    PROVE  Served'
<1>1. \A e \in Events : claims[e] > 0 => claims'[e] > 0
  BY HistoryStep DEF TypeOK
<1>2. ASSUME NEW e \in Events, InFlight(e)'
      PROVE  claims'[e] > 0
  BY <1>1, <1>2, FlightStep DEF Served
<1>3. at' \in {"lookup", "retry"} \cup Sending => claims'[current'] > 0
  <2>1. CASE Claim
    <3>1. /\ current \in Events /\ claims[current] \in Nat /\ current' = current
          /\ claims'[current] = IF claims[current] < MaxRetries
                                THEN claims[current] + 1 ELSE claims[current]
      BY <2>1 DEF Claim, TypeOK, PollerShape
    <3>2. claims'[current] > 0
      BY <3>1, WebhookAssumption
    <3> QED  BY <3>1, <3>2
  <2>2. CASE at' \in {"idle", "select", "claim"}
    BY <2>2 DEF Sending
  <2>3. ASSUME at \in {"lookup", "retry"} \cup Sending, current' = current
        PROVE  claims'[current'] > 0
    BY <1>1, <2>3 DEF Served, PollerShape, Sending
  <2>4. CASE UNCHANGED <<at, current>>
    BY <2>3, <2>4
  <2>5. CASE NextEvent \/ LeaveLoop
    BY <2>2, <2>5, NextEventAt
  <2>6. CASE Select
    BY <2>2, <2>6 DEF Select, LeaveLoop, Take
  <2>7. CASE InsertFails \/ SendFails
    BY <2>3, <2>7 DEF InsertFails, SendFails, IngressFails, Goto, Sending
  <2>8. ASSUME NEW f \in finalizers, FinalizerReturns(f)
        PROVE  \/ UNCHANGED <<at, current>>
               \/ at \in Sending /\ current' = current
    BY <2>8, ReturnEffect DEF Sending
  <2>9. ASSUME NEW s \in Streams, StartStream(s)
        PROVE  at = "lookup" /\ current' = current
    BY <2>9 DEF StartStream
  <2> QED
    BY <2>1, <2>2, <2>3, <2>4, <2>5, <2>6, <2>7, <2>8, <2>9
    DEF Next, vars, poller, Enqueue, Cascade, PollerStep, PollerFails, StreamEvent,
      Poll, ClaimRefused, LookupMissing, NoAgentOrBusy, Throws, Goto,
      RetrySelected, InsertOk, IngressProceeds, Sending,
      FinalizeByEvent, StreamTimeout, OnAgentResponseStart,
      OnAgentResponseChunk, Rearm, OnAgentResponseEnd, OnStreamError,
      SessionCloses, FinalizerStep, RequestUpdated, Delivers, ReadsPending,
      ReadsSettled, Retries, MarkFails, Tick, GatewayRestart
<1>4. ASSUME NEW f \in finalizers', f.at = "deliver"
      PROVE  f.delivered
  <2>1. CASE f \in finalizers
    BY <1>4, <2>1 DEF Served
  <2>2. CASE finalizers' \subseteq finalizers
    BY <2>1, <2>2
  <2>3. ASSUME NEW s \in Streams, NEW id, NEW d, Finalize(s, id, d)
        PROVE  f.delivered
    <3>1. PICK g : finalizers' = finalizers \cup {g} /\ g.at = "update"
      BY <2>3, FinalizeEffect
    <3> QED  BY <1>4, <2>1, <3>1
  <2>4. ASSUME NEW h \in finalizers, RequestUpdated(h) \/ ReadsPending(h)
        PROVE  f.delivered
    <3>1. PICK g : /\ finalizers' = (finalizers \ {h}) \cup {g}
                   /\ g.delivered = h.delivered
                   /\ g.at = "deliver" => h.delivered
      BY <2>4, AdvanceEffect
    <3> QED  BY <1>4, <2>1, <3>1
  <2>5. CASE IngressFails /\ stream \in Streams
    <3>1. CASE Open(stream)
      <4>1. PICK id, d : Finalize(stream, id, d)
        BY <2>5, <3>1 DEF IngressFails
      <4> QED  BY <2>3, <2>5, <4>1
    <3>2. CASE ~Open(stream)
      BY <2>2, <2>5, <3>2 DEF IngressFails
    <3> QED  BY <3>1, <3>2
  <2>6. CASE InsertFails \/ SendFails
    BY <2>5, <2>6 DEF InsertFails, SendFails, PollerShape, Sending
  <2>7. ASSUME NEW s \in Streams, NEW d, FinalizeByEvent(s, d)
        PROVE  f.delivered
    BY <2>3, <2>7 DEF FinalizeByEvent
  <2>8. CASE GatewayRestart
    BY <2>2, <2>8 DEF GatewayRestart
  <2>9. ASSUME NEW h \in finalizers, FinalizerReturns(h)
        PROVE  finalizers' \subseteq finalizers
    BY <2>9 DEF FinalizerReturns
  <2> QED
    BY <2>2, <2>4, <2>6, <2>7, <2>8, <2>9
    DEF Next, vars, Enqueue, Cascade, PollerStep, PollerFails, StreamEvent,
      Poll, Select, Claim, ClaimRefused, LookupMissing, NoAgentOrBusy, Throws,
      RetrySelected, InsertOk, IngressProceeds, StartStream,
      StreamTimeout, OnAgentResponseStart, OnAgentResponseChunk, Rearm,
      OnAgentResponseEnd, OnStreamError, SessionCloses, FinalizerStep,
      Delivers, ReadsSettled, Retries, MarkFails, Tick
<1>5. /\ \A e \in Events : InFlight(e)' => claims'[e] > 0
      /\ \A f \in finalizers' : f.at = "deliver" => f.delivered
  BY <1>2, <1>4
<1> QED  BY <1>3, <1>5 DEF Served, Sending

LEMMA InitServed == Init => Served /\ Contract!Init
<1> SUFFICES ASSUME Init
             PROVE  Served /\ Contract!Init
  OBVIOUS
<1>1. /\ at = "idle" /\ finalizers = {} /\ claims = [e \in Events |-> 0]
      /\ overlapped = {} /\ twice = {} /\ early = {}
      /\ \A s \in Streams : streams[s].event = None
  BY DEF Init, Idle, Free
<1>2. [e \in Events |-> State(e)] = [e \in Events |-> "absent"]
  BY DEF Init, State, Exists
<1>3. Answered = {} /\ Accepted = {}
  BY <1>1, WebhookAssumption DEF Answered, Accepted
<1>4. Served
  BY <1>1, WebhookAssumption DEF Served, InFlight, Sending
<1> QED  BY <1>1, <1>2, <1>3, <1>4 DEF Contract!Init

LEMMA ServedInvariant == Spec => []Served
<1>1. LeaseInv /\ Served /\ [Next]_vars => Served'
  <2>1. LeaseInv => TypeOK /\ PollerShape
    BY DEF LeaseInv
  <2> QED  BY <2>1, ServedStep, Zenon
<1> QED  BY <1>1, InitServed, LeaseInvariant, PTL DEF Spec

(* The queue keeps its contract.                                           *)
THEOREM QueueRefinement == Spec => KeepsQueueContract
<1>1. LeaseInv /\ SettleInv /\ Served /\ GivenUpAfterAllRetries' /\ [Next]_vars
        => ContractStep
  <2>1. LeaseInv => TypeOK /\ PollerShape /\ Known
    BY DEF LeaseInv
  <2> QED  BY <2>1, StepContract, Zenon
<1> QED  BY <1>1, InitServed, LeaseInvariant, SettleInvariant, ServedInvariant,
            GivenUpLate, PTL
         DEF Spec, KeepsQueueContract, Contract!Spec, ContractStep
=============================================================================
