------------------------- MODULE StreamLifecycleProofs -------------------------
(* Proofs about StreamLifecycle, for every set of tunnels, sessions and     *)
(* streams, every limit and every bound.                                    *)
EXTENDS StreamLifecycle, FiniteSetTheorems, TLAPS

USE DEF AllKinds, Locations, ClientStates, ConnStates, StreamFields

--------------------------------------------------------------------------------
(* Every value the gateway's maps, counters and handlers take has its type; *)
(* in particular no capacity counter becomes negative, however often a      *)
(* stream is finalized.                                                     *)
LEMMA TypeInit == Init => TypeOK
BY ConstantsAssumption DEF Init, TypeOK

LEMMA FailTyped ==
  ASSUME TypeOK, NEW S, FailStreams(S)
  PROVE  /\ client' \in [Streams -> ClientStates]
         /\ armed' \in SUBSET Streams /\ due' \in SUBSET armed'
         /\ finalizing' \in [Streams -> Nat]
BY DEF TypeOK, FailStreams, EndClients, EndClient, FinalizeStreams, ClearStreamTimeouts

LEMMA FinalizeTyped ==
  ASSUME TypeOK, NEW S, FinalizeStreams(S)
  PROVE  /\ armed' \in SUBSET Streams /\ due' \in SUBSET armed'
         /\ finalizing' \in [Streams -> Nat]
BY DEF TypeOK, FinalizeStreams, ClearStreamTimeouts

LEMMA CountTyped ==
  ASSUME TypeOK, NEW s \in Streams, CountIfLate(s)
  PROVE  late' \in [Streams -> Nat]
BY DEF TypeOK, CountIfLate

LEMMA ProceedTyped ==
  ASSUME TypeOK, NEW s \in Streams, NEW loc \in Locations, Proceed(s, loc)
  PROVE  TypeOK'
BY DEF TypeOK, Proceed, GoTo, registry, capacity, settling, responses, agents

LEMMA FailAndReturnTyped ==
  ASSUME TypeOK, NEW s \in Streams, NEW loc \in Locations, FailAndReturn(s, loc)
  PROVE  TypeOK'
BY FailTyped DEF TypeOK, FailAndReturn, FailStream, GoTo,
                 registry, capacity, responses, agents

(* One lemma per group of actions.                                          *)
LEMMA CreateTyped ==
  ASSUME TypeOK, NEW s \in Streams, NEW t \in Tunnels, NEW k \in AllKinds,
         CreateStream(s, t, k)
  PROVE  TypeOK'
BY ConstantsAssumption
DEF TypeOK, CreateStream, GoTo, At, ReserveStreamCapacity, TrackStreamBySession,
    ArmStreamTimeout, responses, agents

LEMMA IngressTyped ==
  ASSUME TypeOK, NEW s \in Streams, IngressStep(s)
  PROVE  TypeOK'
<1>1. CASE InsertOk(s)       BY <1>1, ProceedTyped DEF InsertOk
<1>2. CASE InsertFailed(s)   BY <1>2, FailAndReturnTyped DEF InsertFailed
<1>3. CASE StartSent(s)      BY <1>3, ProceedTyped DEF StartSent
<1>4. CASE StartFailed(s)    BY <1>4, FailAndReturnTyped DEF StartFailed
<1>5. CASE ChunkSent(s)      BY <1>5, ProceedTyped DEF ChunkSent
<1>6. CASE ChunkFailed(s)    BY <1>6, FailAndReturnTyped DEF ChunkFailed
<1>7. CASE ChunkPersisted(s) BY <1>7, ProceedTyped DEF ChunkPersisted
<1>8. CASE PersistThrows(s)
  BY <1>8 DEF PersistThrows, TypeOK, GoTo, registry, capacity, responses, agents
<1>9. CASE EndSent(s)        BY <1>9, ProceedTyped DEF EndSent
<1>10. CASE EndFailed(s)     BY <1>10, FailAndReturnTyped DEF EndFailed
<1>. QED  BY <1>1, <1>2, <1>3, <1>4, <1>5, <1>6, <1>7, <1>8, <1>9, <1>10
          DEF IngressStep

LEMMA WsTyped ==
  ASSUME TypeOK, NEW s \in Streams, WsStep(s)
  PROVE  TypeOK'
<1>1. CASE WsChunkSent(s)
  BY <1>1 DEF WsChunkSent, TypeOK, registry, capacity, settling, responses, agents
<1>2. CASE WsChunkFailed(s)
  BY <1>2, FailTyped
  DEF WsChunkFailed, FailStream, TypeOK, registry, capacity, responses, agents
<1>3. CASE WsEndSettled(s)
  BY <1>3, FinalizeTyped
  DEF WsEndSettled, TypeOK, GoTo, registry, capacity, responses, agents
<1>. QED  BY <1>1, <1>2, <1>3 DEF WsStep

LEMMA PushTyped ==
  ASSUME TypeOK, NEW s \in Streams, PushStep(s)
  PROVE  TypeOK'
<1>1. CASE ChunkPushed(s)
  BY <1>1 DEF ChunkPushed, TypeOK, registry, capacity, settling, requests, agents
<1>2. CASE PushFailed(s)
  BY <1>2, FailTyped
  DEF PushFailed, FailStream, TypeOK, registry, capacity, requests, agents
<1>. QED  BY <1>1, <1>2 DEF PushStep

LEMMA ClientClosedTyped ==
  ASSUME TypeOK, NEW s \in Streams, ClientClosed(s)
  PROVE  TypeOK'
BY DEF ClientClosed, At, GoTo, TypeOK, registry, capacity, responses, agents

LEMMA ClientTyped ==
  ASSUME TypeOK, NEW s \in Streams, ClientStep(s)
  PROVE  TypeOK'
<1>1. CASE BodyChunk(s)
  BY <1>1, CountTyped DEF BodyChunk, ArmStreamTimeout, GoTo, TypeOK, registry,
                          capacity, agents
<1>2. CASE BodyEnd(s)      BY <1>2, ProceedTyped DEF BodyEnd
<1>3. CASE BodyAborted(s)  BY <1>3, ProceedTyped DEF BodyAborted
<1>4. CASE ClientLeaves(s) BY <1>4, ClientClosedTyped DEF ClientLeaves
<1>5. CASE WsMessage(s)
  BY <1>5, CountTyped DEF WsMessage, ArmStreamTimeout, TypeOK, registry,
                          capacity, agents
<1>. QED  BY <1>1, <1>2, <1>3, <1>4, <1>5 DEF ClientStep

LEMMA AgentTyped ==
  ASSUME TypeOK, NEW c \in Sessions, NEW s \in Streams, AgentStep(c, s)
  PROVE  TypeOK'
<1>1. CASE OnAgentResponseStart(c, s)
  BY <1>1, CountTyped DEF OnAgentResponseStart, Receive, ArmStreamTimeout, TypeOK,
                          registry, capacity, requests, agents
<1>2. CASE OnAgentResponseChunk(c, s)
  BY <1>2, CountTyped DEF OnAgentResponseChunk, Receive, ArmStreamTimeout, TypeOK,
                          registry, capacity, requests, agents
<1>3. CASE OnAgentResponseEnd(c, s)
  <2>1. client' \in [Streams -> ClientStates]
    BY <1>3 DEF OnAgentResponseEnd, EndClients, EndClient, TypeOK
  <2>2. /\ armed' \in SUBSET Streams /\ due' \in SUBSET armed'
        /\ finalizing' \in [Streams -> Nat]
    BY <1>3, FinalizeTyped DEF OnAgentResponseEnd
  <2>3. /\ late' \in [Streams -> Nat]
        /\ UNCHANGED <<state, registry, requests, agents, pushing>>
    BY <1>3, CountTyped DEF OnAgentResponseEnd, Receive
  <2>. QED  BY <2>1, <2>2, <2>3 DEF TypeOK, registry, capacity, requests, agents
<1>4. CASE OnStreamError(c, s)
  BY <1>4, FailTyped, CountTyped DEF OnStreamError, FailStream, Receive, TypeOK,
                                     registry, capacity, requests, agents
<1>. QED  BY <1>1, <1>2, <1>3, <1>4 DEF AgentStep

LEMMA PassesTyped ==
  ASSUME TypeOK, NEW s \in Streams, TimeoutPasses(s)
  PROVE  TypeOK'
BY DEF TimeoutPasses, TypeOK, registry, capacity, requests, responses, agents

LEMMA TimeoutTyped ==
  ASSUME TypeOK, NEW s \in Streams, StreamTimeout(s)
  PROVE  TypeOK'
<1>1. client' \in [Streams -> ClientStates]
  BY DEF StreamTimeout, EndClients, EndClient, TypeOK
<1>2. finalizing' \in [Streams -> Nat]
  <2>1. (IF s \in streams THEN finalizing[s] + 1 ELSE finalizing[s]) \in Nat
    BY DEF TypeOK
  <2>. QED  BY <2>1 DEF StreamTimeout, TypeOK
<1>3. armed' \in SUBSET Streams /\ due' \in SUBSET armed'
  BY DEF StreamTimeout, ClearStreamTimeouts, TypeOK
<1>. QED  BY <1>1, <1>2, <1>3 DEF StreamTimeout, TypeOK, registry, capacity, requests,
                      responses, agents

LEMMA ReturnTyped ==
  ASSUME TypeOK, NEW s \in Streams, FinalizeStreamReturns(s)
  PROVE  TypeOK'
<1>1. finalizing' \in [Streams -> Nat]
  <2>1. finalizing[s] - 1 \in Nat
    BY DEF FinalizeStreamReturns, TypeOK
  <2>. QED  BY <2>1 DEF FinalizeStreamReturns, TypeOK
<1>4. releases' \in [Streams -> Nat] /\ streams' \in SUBSET Streams
  BY DEF FinalizeStreamReturns, TypeOK
<1>2. streamsBySession' \in [Sessions -> SUBSET Streams]
  BY DEF FinalizeStreamReturns, UntrackStreamBySession, TypeOK
<1>3. /\ activeStreamsGlobal' \in Nat
      /\ activeStreamsByTunnel' \in [Tunnels -> Nat]
  <2>1. \A n \in Nat : Decrement(n) \in Nat
    BY DEF Decrement
  <2>2. activeStreamsGlobal' \in Nat
    BY <2>1 DEF FinalizeStreamReturns, ReleaseStreamCapacity, TypeOK
  <2>3. \A t \in Tunnels :
           [activeStreamsByTunnel EXCEPT ![state[s].tunnelId] = Decrement(@)][t] \in Nat
    BY <2>1 DEF TypeOK
  <2>. QED  BY <2>2, <2>3 DEF FinalizeStreamReturns, ReleaseStreamCapacity, TypeOK
<1>. QED  BY <1>1, <1>2, <1>3, <1>4 DEF FinalizeStreamReturns, TypeOK, requests,
                                  responses, agents

LEMMA ConnTyped ==
  ASSUME TypeOK, NEW c \in Sessions, ConnStep(c)
  PROVE  TypeOK'
<1>1. CASE RegisterAgent(c)
  BY <1>1, ConstantsAssumption DEF RegisterAgent, TypeOK, registry, capacity,
     settling, requests, responses
<1>2. CASE AgentSocketCloses(c)
  BY <1>2 DEF AgentSocketCloses, TypeOK, registry, capacity, settling, requests, responses
<1>3. CASE AgentCloseEvent(c)
  <2>1. /\ client' \in [Streams -> ClientStates]
        /\ armed' \in SUBSET Streams /\ due' \in SUBSET armed'
        /\ finalizing' \in [Streams -> Nat]
        /\ agentsByTunnel' \in [Tunnels -> Sessions \cup {None}]
    BY <1>3, FailTyped DEF AgentCloseEvent, settling, TypeOK
  <2>. QED  BY <1>3, <2>1 DEF AgentCloseEvent, TypeOK, registry, capacity, requests, responses
<1>. QED  BY <1>1, <1>2, <1>3 DEF ConnStep

LEMMA TypeNext == TypeOK /\ [Next]_vars => TypeOK'
<1>. SUFFICES ASSUME TypeOK, [Next]_vars PROVE TypeOK'
  OBVIOUS
<1>1. CASE UNCHANGED vars
  BY <1>1 DEF TypeOK, vars, registry, capacity, agents, settling, requests, responses
<1>2. ASSUME NEW s \in Streams, CloseEvent(s) PROVE TypeOK'
  BY <1>2, ClientClosedTyped DEF CloseEvent
<1>3. ASSUME NEW s \in Streams, NEW t \in Tunnels,
             HandleHttpIngress(s, t) \/ StartBufferedHttpIngress(s, t)
               \/ HandlePublicWebsocket(s, t)
      PROVE  TypeOK'
  BY <1>3, CreateTyped
  DEF HandleHttpIngress, StartBufferedHttpIngress, HandlePublicWebsocket
<1>. QED
  BY <1>1, <1>2, <1>3, IngressTyped, WsTyped, PushTyped, ClientTyped,
     AgentTyped, PassesTyped, TimeoutTyped, ReturnTyped, ConnTyped DEF Next

THEOREM TypeCorrect == Spec => []TypeOK
BY TypeInit, TypeNext, PTL DEF Spec

--------------------------------------------------------------------------------
(* The inductive invariant.  Only CreateStream and FinalizeStreamReturns    *)
(* change the maps and counters.  Every other step is quiet: it leaves them *)
(* alone, never takes a finalizer away, starts one only for a client that   *)
(* is over, and disarms a timer only in exchange for a finalizer.           *)
Over(p) == p \in {"none", "ending", "closed"}

QuietFor(s) ==
  /\ At(s, "none")' <=> At(s, "none")
  /\ At(s, "none") => /\ s \notin armed' /\ finalizing'[s] = 0
                      /\ sending'[s] = 0 /\ pushing'[s] = 0
                      /\ client'[s] = "none"
  /\ finalizing'[s] >= finalizing[s]
  /\ s \in streams /\ s \in armed => s \in armed' \/ finalizing'[s] > 0
  /\ finalizing'[s] > finalizing[s] \/ Over(client[s]) => Over(client'[s])
  /\ client[s] = "closed" => client'[s] = "closed"
  /\ At(s, "wsEnd")' => At(s, "wsEnd") \/ client'[s] = "closed"

Quiet == UNCHANGED <<state, registry>> /\ \A s \in Streams : QuietFor(s)

LEMMA InvInit == Init => IInv
<1>. SUFFICES ASSUME Init PROVE IInv
  OBVIOUS
<1>1. TypeOK
  BY TypeInit
<1>2. Bookkeeping
  BY ConstantsAssumption DEF Init, Bookkeeping, At, OwnerOf
<1>3. Accounting
  <2>1. IsFiniteSet({}) /\ Cardinality({}) = 0
    BY FS_EmptySet
  <2>2. \A t \in Tunnels : StreamsOf(t) = {}
    BY DEF Init, StreamsOf
  <2>3. \A t \in Tunnels :
           activeStreamsByTunnel[t] = 0 /\ Cardinality(StreamsOf(t)) = 0
    BY <2>1, <2>2 DEF Init
  <2>4. streams = {} /\ activeStreamsGlobal = 0
    BY DEF Init
  <2>. QED  BY <2>1, <2>3, <2>4, ConstantsAssumption DEF Accounting, CapacityNeverLeaks
<1>4. Settling
  BY DEF Init, Settling, NoOrphanStream, ClosedSessionDrained, NoHungClient, At
<1>. QED  BY <1>1, <1>2, <1>3, <1>4 DEF IInv

(* A quiet step of anybody but the connections preserves the invariant.     *)
LEMMA QuietAccounting ==
  ASSUME Accounting, UNCHANGED <<state, registry>>
  PROVE  Accounting'
BY DEF Accounting, CapacityNeverLeaks, StreamsOf, registry, capacity

LEMMA QuietInv ==
  ASSUME IInv, TypeOK', Quiet, UNCHANGED agents
  PROVE  IInv'
<1>. USE DEF IInv, Quiet, QuietFor
<1>1. Bookkeeping'
  BY DEF Bookkeeping, OwnerOf, agents, registry, capacity
<1>2. Settling'
  <2>1. NoOrphanStream'
    BY DEF TypeOK, Settling, NoOrphanStream, registry
  <2>2. ClosedSessionDrained'
    BY DEF TypeOK, Settling, ClosedSessionDrained, OwnerOf, registry, agents
  <2>3. NoHungClient'
    BY DEF TypeOK, Settling, NoHungClient, Over, registry
  <2>4. (\A s \in Streams : At(s, "wsEnd") => client[s] = "closed")'
    BY DEF Settling, At
  <2>. QED  BY <2>1, <2>2, <2>3, <2>4 DEF Settling
<1>. QED  BY <1>1, <1>2, QuietAccounting

(* What finalizeStream and failStream do up to their first await.           *)
LEMMA FailQuiet ==
  ASSUME TypeOK, Bookkeeping, NEW S, NEW s \in Streams, FailStreams(S),
         sending'[s] <= sending[s], pushing'[s] <= pushing[s],
         sending'[s] \in Nat, pushing'[s] \in Nat,
         At(s, "none")' <=> At(s, "none"), At(s, "wsEnd")' => At(s, "wsEnd")
  PROVE  QuietFor(s)
BY DEF TypeOK, Bookkeeping, FailStreams, EndClients, EndClient, FinalizeStreams,
       ClearStreamTimeouts, QuietFor, Over

LEMMA ProceedQuiet ==
  ASSUME TypeOK, Bookkeeping, NEW s \in Streams, ~At(s, "none"),
         NEW loc \in Locations \ {"none", "wsEnd"}, Proceed(s, loc)
  PROVE  Quiet /\ UNCHANGED agents
BY DEF TypeOK, Bookkeeping, Proceed, GoTo, At, Quiet, QuietFor, settling, responses

LEMMA FailAndReturnQuiet ==
  ASSUME TypeOK, Bookkeeping, NEW s \in Streams, ~At(s, "none"),
         NEW loc \in Locations \ {"none", "wsEnd"}, FailAndReturn(s, loc)
  PROVE  Quiet /\ UNCHANGED agents
<1>1. /\ FailStreams({s}) /\ UNCHANGED <<sending, pushing>>
      /\ ingress' = [ingress EXCEPT ![s] = loc]
  BY DEF FailAndReturn, FailStream, GoTo, responses
<1>2. ASSUME NEW r \in Streams PROVE QuietFor(r)
  <2>1. /\ sending[r] \in Nat /\ sending'[r] = sending[r]
        /\ pushing[r] \in Nat /\ pushing'[r] = pushing[r]
    BY <1>1, <1>2 DEF TypeOK
  <2>2. At(r, "none")' <=> At(r, "none")
    BY <1>1, <1>2 DEF TypeOK, At
  <2>3. At(r, "wsEnd")' => At(r, "wsEnd")
    BY <1>1, <1>2 DEF TypeOK, At
  <2>. QED  BY <1>1, <1>2, <2>1, <2>2, <2>3, FailQuiet
<1>. QED  BY <1>2 DEF FailAndReturn, Quiet

LEMMA IngressQuiet ==
  ASSUME TypeOK, Bookkeeping, NEW s \in Streams, IngressStep(s)
  PROVE  Quiet /\ UNCHANGED agents
<1>1. CASE InsertOk(s)       BY <1>1, ProceedQuiet DEF InsertOk, At
<1>2. CASE InsertFailed(s)   BY <1>2, FailAndReturnQuiet DEF InsertFailed, At
<1>3. CASE StartSent(s)      BY <1>3, ProceedQuiet DEF StartSent, At
<1>4. CASE StartFailed(s)    BY <1>4, FailAndReturnQuiet DEF StartFailed, At
<1>5. CASE ChunkSent(s)      BY <1>5, ProceedQuiet DEF ChunkSent, At
<1>6. CASE ChunkFailed(s)    BY <1>6, FailAndReturnQuiet DEF ChunkFailed, At
<1>7. CASE ChunkPersisted(s) BY <1>7, ProceedQuiet DEF ChunkPersisted, At
<1>8. CASE PersistThrows(s)
  BY <1>8 DEF PersistThrows, TypeOK, Bookkeeping, GoTo, At, Quiet, QuietFor, Over,
              responses
<1>9. CASE EndSent(s)        BY <1>9, ProceedQuiet DEF EndSent, At
<1>10. CASE EndFailed(s)     BY <1>10, FailAndReturnQuiet DEF EndFailed, At
<1>. QED  BY <1>1, <1>2, <1>3, <1>4, <1>5, <1>6, <1>7, <1>8, <1>9, <1>10
          DEF IngressStep

LEMMA WsQuiet ==
  ASSUME TypeOK, Bookkeeping, Settling, NEW s \in Streams, WsStep(s)
  PROVE  Quiet /\ UNCHANGED agents
<1>1. CASE WsChunkSent(s)
  BY <1>1 DEF WsChunkSent, TypeOK, Bookkeeping, At, Quiet, QuietFor, settling, responses
<1>2. CASE WsChunkFailed(s)
  <2>1. ASSUME NEW r \in Streams PROVE QuietFor(r)
    BY <1>2, FailQuiet, <2>1 DEF WsChunkFailed, FailStream, TypeOK, At, responses
  <2>. QED  BY <1>2, <2>1 DEF WsChunkFailed, Quiet
<1>3. CASE WsEndSettled(s)
  BY <1>3 DEF WsEndSettled, FinalizeStreams, ClearStreamTimeouts, TypeOK, Bookkeeping, Settling, GoTo, At,
              Quiet, QuietFor, Over, responses
<1>. QED  BY <1>1, <1>2, <1>3 DEF WsStep

LEMMA PushQuiet ==
  ASSUME TypeOK, Bookkeeping, NEW s \in Streams, PushStep(s)
  PROVE  Quiet /\ UNCHANGED agents
<1>1. CASE ChunkPushed(s)
  BY <1>1 DEF ChunkPushed, TypeOK, Bookkeeping, At, Quiet, QuietFor, settling, requests
<1>2. CASE PushFailed(s)
  <2>1. ASSUME NEW r \in Streams PROVE QuietFor(r)
    <3>1. /\ pushing'[r] \in Nat /\ pushing'[r] <= pushing[r]
          /\ sending' = sending /\ ingress' = ingress
      BY <1>2, <2>1 DEF PushFailed, TypeOK, requests
    <3>2. FailStreams({s})
      BY <1>2 DEF PushFailed, FailStream
    <3>. QED  BY <3>1, <3>2, <2>1, FailQuiet DEF TypeOK, At
  <2>. QED  BY <1>2, <2>1 DEF PushFailed, Quiet
<1>. QED  BY <1>1, <1>2 DEF PushStep

LEMMA ClientClosedQuiet ==
  ASSUME TypeOK, Bookkeeping, NEW s \in Streams, client[s] # "none", ClientClosed(s)
  PROVE  Quiet /\ UNCHANGED agents
BY DEF ClientClosed, TypeOK, Bookkeeping, GoTo, At, Quiet, QuietFor, Over, responses

LEMMA ClientQuiet ==
  ASSUME TypeOK, Bookkeeping, NEW s \in Streams, ClientStep(s)
  PROVE  Quiet /\ UNCHANGED agents
<1>1. CASE BodyChunk(s)
  BY <1>1 DEF BodyChunk, ArmStreamTimeout, TypeOK, Bookkeeping, GoTo, At, Quiet,
              QuietFor
<1>2. CASE BodyEnd(s)      BY <1>2, ProceedQuiet DEF BodyEnd, At
<1>3. CASE BodyAborted(s)  BY <1>3, ProceedQuiet DEF BodyAborted, At
<1>4. CASE ClientLeaves(s) BY <1>4, ClientClosedQuiet DEF ClientLeaves
<1>5. CASE WsMessage(s)
  BY <1>5 DEF WsMessage, ArmStreamTimeout, TypeOK, Bookkeeping, At, Quiet,
              QuietFor
<1>. QED  BY <1>1, <1>2, <1>3, <1>4, <1>5 DEF ClientStep

LEMMA AgentQuiet ==
  ASSUME TypeOK, Bookkeeping, NEW c \in Sessions, NEW s \in Streams, AgentStep(c, s)
  PROVE  Quiet /\ UNCHANGED agents
<1>. USE DEF Receive, TypeOK, Bookkeeping, AgentKnows, At, Quiet, QuietFor, Over, requests
<1>1. CASE OnAgentResponseStart(c, s)
  BY <1>1 DEF OnAgentResponseStart, ArmStreamTimeout
<1>2. CASE OnAgentResponseChunk(c, s)
  BY <1>2 DEF OnAgentResponseChunk, ArmStreamTimeout
<1>3. CASE OnAgentResponseEnd(c, s)
  BY <1>3 DEF OnAgentResponseEnd, EndClients, EndClient, FinalizeStreams,
              ClearStreamTimeouts
<1>4. CASE OnStreamError(c, s)
  BY <1>4 DEF OnStreamError, FailStream, FailStreams, EndClients, EndClient,
              FinalizeStreams, ClearStreamTimeouts
<1>. QED  BY <1>1, <1>2, <1>3, <1>4 DEF AgentStep

LEMMA PassesQuiet ==
  ASSUME TypeOK, Bookkeeping, NEW s \in Streams, TimeoutPasses(s)
  PROVE  Quiet /\ UNCHANGED agents
BY DEF TimeoutPasses, TypeOK, Bookkeeping, At, Quiet, QuietFor, requests, responses

LEMMA TimeoutQuiet ==
  ASSUME TypeOK, Bookkeeping, NEW s \in Streams, StreamTimeout(s)
  PROVE  Quiet /\ UNCHANGED agents
BY DEF StreamTimeout, EndClients, EndClient, ClearStreamTimeouts, TypeOK, Bookkeeping,
       At, Quiet, QuietFor, Over, requests, responses

--------------------------------------------------------------------------------
(* The steps of the connections.                                            *)
LEMMA RegisterInv ==
  ASSUME IInv, TypeOK', NEW c \in Sessions, RegisterAgent(c)
  PROVE  IInv'
<1>. USE DEF IInv, TypeOK, RegisterAgent, At, OwnerOf
<1>1. Bookkeeping'
  BY ConstantsAssumption DEF Bookkeeping, registry, capacity, settling, requests, responses
<1>2. Accounting'
  BY QuietAccounting
<1>3. Settling'
  BY DEF Bookkeeping, Settling, NoOrphanStream, ClosedSessionDrained, NoHungClient,
         registry, settling, requests
<1>. QED  BY <1>1, <1>2, <1>3

LEMMA SocketClosesInv ==
  ASSUME IInv, TypeOK', NEW c \in Sessions, AgentSocketCloses(c)
  PROVE  IInv'
<1>. USE DEF IInv, TypeOK, AgentSocketCloses, At, OwnerOf
<1>1. Bookkeeping'
  BY ConstantsAssumption DEF Bookkeeping, registry, capacity, settling, requests, responses
<1>2. Accounting'
  BY QuietAccounting
<1>3. Settling'
  BY DEF Bookkeeping, Settling, NoOrphanStream, ClosedSessionDrained, NoHungClient,
         registry, settling, requests
<1>. QED  BY <1>1, <1>2, <1>3

(* Every stream of the session is failed, so none is left undrained.        *)
LEMMA CloseEventInv ==
  ASSUME IInv, TypeOK', NEW c \in Sessions, AgentCloseEvent(c)
  PROVE  IInv'
<1>. USE DEF IInv
<1>1. Accounting'
  <2>1. UNCHANGED <<state, registry>>
    BY DEF AgentCloseEvent
  <2>. QED  BY <2>1, QuietAccounting
<1>2. Quiet
  <2>1. CASE conn[c] = "new"
    BY <2>1 DEF AgentCloseEvent, TypeOK, Bookkeeping, At, Quiet, QuietFor, settling,
                requests, responses
  <2>2. CASE conn[c] # "new"
    <3>1. ASSUME NEW r \in Streams PROVE QuietFor(r)
      <4>1. FailStreams(streamsBySession[c])
        BY <2>2 DEF AgentCloseEvent
      <4>2. sending' = sending /\ pushing' = pushing /\ ingress' = ingress
        BY DEF AgentCloseEvent, requests, responses
      <4>3. /\ sending'[r] <= sending[r] /\ sending'[r] \in Nat
            /\ pushing'[r] <= pushing[r] /\ pushing'[r] \in Nat
        BY <3>1, <4>2 DEF TypeOK
      <4>4. (At(r, "none")' <=> At(r, "none")) /\ (At(r, "wsEnd")' => At(r, "wsEnd"))
        BY <4>2 DEF At
      <4>. QED  BY <3>1, <4>1, <4>3, <4>4, FailQuiet
    <3>. QED  BY <3>1 DEF AgentCloseEvent, Quiet
  <2>. QED  BY <2>1, <2>2
<1>3. Bookkeeping'
  BY <1>2, ConstantsAssumption
  DEF Quiet, QuietFor, AgentCloseEvent, TypeOK, Bookkeeping, OwnerOf, registry, capacity
<1>4. NoOrphanStream'
  BY <1>2 DEF Quiet, QuietFor, TypeOK, Settling, NoOrphanStream, registry
<1>5. NoHungClient'
  BY <1>2 DEF Quiet, QuietFor, TypeOK, Settling, NoHungClient, Over, registry
<1>6. ClosedSessionDrained'
  <2>. SUFFICES ASSUME NEW s \in streams, conn'[OwnerOf(s)] = "closed"
                PROVE  finalizing'[s] > 0
    BY DEF ClosedSessionDrained, OwnerOf, AgentCloseEvent, registry
  <2>1. s \in Streams /\ finalizing'[s] >= finalizing[s] /\ OwnerOf(s) \in Sessions
        /\ conn[OwnerOf(s)] # "new"
    BY <1>2 DEF TypeOK, Quiet, QuietFor, Bookkeeping
  <2>2. CASE OwnerOf(s) # c
    <3>1. conn[OwnerOf(s)] = "closed"
      BY <2>1, <2>2 DEF AgentCloseEvent, TypeOK
    <3>2. finalizing[s] > 0
      BY <3>1 DEF Settling, ClosedSessionDrained
    <3>. QED  BY <3>2, <2>1 DEF TypeOK
  <2>3. CASE OwnerOf(s) = c
    <3>1. s \in streamsBySession[c]
      BY <2>3 DEF Bookkeeping
    <3>2. FinalizeStreams(streamsBySession[c])
      BY <2>1, <2>3 DEF AgentCloseEvent, FailStreams
    <3>. QED  BY <2>1, <3>1, <3>2 DEF FinalizeStreams, TypeOK
  <2>. QED  BY <2>2, <2>3
<1>7. (\A s \in Streams : At(s, "wsEnd") => client[s] = "closed")'
  BY <1>2 DEF Quiet, QuietFor, Settling, At
<1>. QED  BY <1>1, <1>3, <1>4, <1>5, <1>6, <1>7 DEF Settling

--------------------------------------------------------------------------------
(* The two steps that change the maps and the counters.                     *)
LEMMA StreamsOfFinite ==
  ASSUME IsFiniteSet(streams), NEW t
  PROVE  /\ IsFiniteSet(StreamsOf(t))
         /\ Cardinality(StreamsOf(t)) \in Nat /\ Cardinality(streams) \in Nat
<1>1. StreamsOf(t) \subseteq streams
  BY DEF StreamsOf
<1>. QED  BY <1>1, FS_Subset, FS_CardinalityType

LEMMA CreateAccounting ==
  ASSUME IInv, NEW s \in Streams, NEW t \in Tunnels, NEW k \in AllKinds,
         CreateStream(s, t, k)
  PROVE  Accounting'
<1>. USE DEF IInv
<1>1. /\ s \notin streams /\ streams' = streams \cup {s}
      /\ releases' = releases
      /\ activeStreamsGlobal' = activeStreamsGlobal + 1
      /\ activeStreamsGlobal < MaxGlobal
      /\ activeStreamsByTunnel' = [activeStreamsByTunnel EXCEPT ![t] = @ + 1]
      /\ activeStreamsByTunnel[t] < MaxPerTunnel
  BY DEF CreateStream, ReserveStreamCapacity, HasCapacity, Bookkeeping
<1>2. /\ activeStreamsGlobal \in Nat
      /\ \A u \in Tunnels : activeStreamsByTunnel[u] \in Nat
      /\ MaxGlobal \in Nat /\ MaxPerTunnel \in Nat
      /\ \A u \in Tunnels : activeStreamsByTunnel'[u] =
            IF u = t THEN activeStreamsByTunnel[u] + 1 ELSE activeStreamsByTunnel[u]
  BY <1>1, ConstantsAssumption DEF TypeOK
<1>3. \A u \in Tunnels : StreamsOf(u)' = IF u = t THEN StreamsOf(u) \cup {s} ELSE StreamsOf(u)
  <2>1. \A r \in streams : state'[r] = state[r]
    BY <1>1 DEF CreateStream, TypeOK
  <2>2. state'[s].tunnelId = t
    BY DEF CreateStream, TypeOK
  <2>. QED  BY <1>1, <2>1, <2>2 DEF StreamsOf
<1>4. /\ IsFiniteSet(streams') /\ Cardinality(streams') = Cardinality(streams) + 1
      /\ Cardinality(streams) \in Nat
  BY <1>1, FS_AddElement, FS_CardinalityType DEF Accounting
<1>5. ASSUME NEW u \in Tunnels
      PROVE  /\ Cardinality(StreamsOf(u)) \in Nat
             /\ Cardinality(StreamsOf(u)') =
                  IF u = t THEN Cardinality(StreamsOf(u)) + 1 ELSE Cardinality(StreamsOf(u))
  <2>1. IsFiniteSet(StreamsOf(u)) /\ Cardinality(StreamsOf(u)) \in Nat
    BY StreamsOfFinite DEF Accounting
  <2>2. s \notin StreamsOf(u)
    BY <1>1 DEF StreamsOf
  <2>. QED  BY <1>3, <2>1, <2>2, FS_AddElement
<1>6. /\ activeStreamsGlobal' <= MaxGlobal
      /\ \A u \in Tunnels : activeStreamsByTunnel'[u] <= MaxPerTunnel
  BY <1>1, <1>2 DEF Accounting
<1>7. CapacityNeverLeaks'
  BY <1>1, <1>2, <1>4, <1>5 DEF Accounting, CapacityNeverLeaks
<1>8. ASSUME \A r \in Streams : releases'[r] <= 1
      PROVE  /\ activeStreamsGlobal' = Cardinality(streams')
             /\ \A u \in Tunnels : activeStreamsByTunnel'[u] = Cardinality(StreamsOf(u)')
  BY <1>1, <1>2, <1>4, <1>5, <1>8 DEF Accounting
<1>. QED  BY <1>4, <1>6, <1>7, <1>8 DEF Accounting

LEMMA CreateInv ==
  ASSUME IInv, TypeOK', NEW s \in Streams, NEW t \in Tunnels, NEW k \in AllKinds,
         CreateStream(s, t, k)
  PROVE  IInv'
<1>. USE DEF IInv
<1>1. /\ \A r \in Streams \ {s} : state'[r] = state[r] /\ ingress'[r] = ingress[r]
                                  /\ client'[r] = client[r]
      /\ ingress[s] = "none" /\ ingress'[s] = "insert" /\ s \notin streams
      /\ state'[s].tunnelId = t /\ state'[s].agentSessionId = agentsByTunnel[t]
      /\ agentsByTunnel[t] \in Sessions
      /\ conn[agentsByTunnel[t]] \in {"active", "closing"}
      /\ streams' = streams \cup {s} /\ armed' = armed \cup {s}
      /\ streamsBySession' =
           [streamsBySession EXCEPT ![agentsByTunnel[t]] = @ \cup {s}]
      /\ UNCHANGED <<finalizing, releases, sending, pushing, agentsByTunnel, conn>>
  BY DEF CreateStream, TypeOK, Bookkeeping, GoTo, At, TrackStreamBySession,
         ArmStreamTimeout, responses, agents
<1>2. Bookkeeping'
  BY <1>1 DEF TypeOK, Bookkeeping, At, OwnerOf
<1>3. Settling'
  BY <1>1 DEF TypeOK, Bookkeeping, Settling, NoOrphanStream, ClosedSessionDrained,
              NoHungClient, At, OwnerOf
<1>. QED  BY <1>2, <1>3, CreateAccounting

(* A returning finalizer removes the stream if it is the first one, and     *)
(* releases capacity in any case; only then the counters fall behind.       *)
LEMMA ReturnAccounting ==
  ASSUME IInv, NEW s \in Streams, FinalizeStreamReturns(s)
  PROVE  Accounting'
<1>. USE DEF IInv
<1>. DEFINE t == state[s].tunnelId
<1>1. /\ streams' = streams \ {s} /\ state' = state
      /\ releases' = [releases EXCEPT ![s] = @ + 1]
      /\ activeStreamsGlobal' = Decrement(activeStreamsGlobal)
      /\ activeStreamsByTunnel' = [activeStreamsByTunnel EXCEPT ![t] = Decrement(@)]
  BY DEF FinalizeStreamReturns, ReleaseStreamCapacity
<1>2. t \in Tunnels /\ (s \in streams \/ releases[s] > 0)
  BY DEF FinalizeStreamReturns, Bookkeeping
<1>3. /\ activeStreamsGlobal \in Nat
      /\ \A u \in Tunnels : activeStreamsByTunnel[u] \in Nat
      /\ MaxGlobal \in Nat /\ MaxPerTunnel \in Nat
      /\ \A u \in Tunnels : activeStreamsByTunnel'[u] =
            IF u = t THEN Decrement(activeStreamsByTunnel[u]) ELSE activeStreamsByTunnel[u]
  BY <1>1, ConstantsAssumption DEF TypeOK
<1>4. \A u \in Tunnels : StreamsOf(u)' = StreamsOf(u) \ (IF u = t THEN {s} ELSE {})
  BY <1>1 DEF StreamsOf
<1>5. /\ IsFiniteSet(streams') /\ Cardinality(streams) \in Nat
      /\ Cardinality(streams') = IF s \in streams THEN Cardinality(streams) - 1
                                                  ELSE Cardinality(streams)
  BY <1>1, FS_RemoveElement, FS_CardinalityType DEF Accounting
<1>6. ASSUME NEW u \in Tunnels
      PROVE  /\ Cardinality(StreamsOf(u)) \in Nat
             /\ Cardinality(StreamsOf(u)') =
                  IF u = t /\ s \in streams THEN Cardinality(StreamsOf(u)) - 1
                                            ELSE Cardinality(StreamsOf(u))
             /\ u = t /\ s \in streams => Cardinality(StreamsOf(u)) > 0
  <2>1. IsFiniteSet(StreamsOf(u)) /\ Cardinality(StreamsOf(u)) \in Nat
    BY StreamsOfFinite DEF Accounting
  <2>2. CASE u = t /\ s \in streams
    <3>1. s \in StreamsOf(u) /\ StreamsOf(u)' = StreamsOf(u) \ {s}
      BY <1>4, <2>2 DEF StreamsOf
    <3>. QED  BY <2>1, <2>2, <3>1, FS_RemoveElement, FS_EmptySet
  <2>3. CASE ~(u = t /\ s \in streams)
    <3>1. StreamsOf(u)' = StreamsOf(u)
      BY <1>4, <2>3 DEF StreamsOf
    <3>. QED  BY <2>1, <2>3, <3>1
  <2>. QED  BY <2>2, <2>3
<1>7. s \in streams => Cardinality(streams) > 0
  BY <1>5, FS_EmptySet DEF Accounting
<1>8. /\ activeStreamsGlobal' <= MaxGlobal
      /\ \A u \in Tunnels : activeStreamsByTunnel'[u] <= MaxPerTunnel
  BY <1>1, <1>3 DEF Accounting, Decrement
<1>9. CapacityNeverLeaks'
  <2>1. activeStreamsGlobal' <= Cardinality(streams')
    BY <1>1, <1>3, <1>5, <1>7 DEF Accounting, CapacityNeverLeaks, Decrement
  <2>2. ASSUME NEW u \in Tunnels
        PROVE  activeStreamsByTunnel'[u] <= Cardinality(StreamsOf(u)')
    <3>1. activeStreamsByTunnel[u] <= Cardinality(StreamsOf(u))
      BY DEF Accounting, CapacityNeverLeaks
    <3>. QED  BY <3>1, <1>3, <1>6 DEF Decrement
  <2>. QED  BY <2>1, <2>2 DEF CapacityNeverLeaks
<1>10. ASSUME \A r \in Streams : releases'[r] <= 1
       PROVE  /\ activeStreamsGlobal' = Cardinality(streams')
              /\ \A u \in Tunnels : activeStreamsByTunnel'[u] = Cardinality(StreamsOf(u)')
  <2>1. releases[s] = 0 /\ \A r \in Streams : releases[r] <= 1
    BY <1>1, <1>10 DEF TypeOK
  <2>2. s \in streams
    BY <1>2, <2>1
  <2>3. /\ activeStreamsGlobal = Cardinality(streams)
        /\ \A u \in Tunnels : activeStreamsByTunnel[u] = Cardinality(StreamsOf(u))
    BY <2>1 DEF Accounting
  <2>4. activeStreamsGlobal' = Cardinality(streams')
    BY <1>1, <1>5, <1>7, <2>2, <2>3 DEF Decrement
  <2>5. ASSUME NEW u \in Tunnels
        PROVE  activeStreamsByTunnel'[u] = Cardinality(StreamsOf(u)')
    BY <1>3, <1>6, <2>2, <2>3 DEF Decrement
  <2>. QED  BY <2>4, <2>5
<1>. QED  BY <1>5, <1>8, <1>9, <1>10 DEF Accounting

LEMMA ReturnInv ==
  ASSUME IInv, TypeOK', NEW s \in Streams, FinalizeStreamReturns(s)
  PROVE  IInv'
<1>. USE DEF IInv
<1>1. /\ ~At(s, "none") /\ streams' = streams \ {s}
      /\ releases'[s] > 0
      /\ \A r \in Streams \ {s} : finalizing'[r] = finalizing[r] /\ releases'[r] = releases[r]
      /\ streamsBySession' = [streamsBySession EXCEPT ![OwnerOf(s)] = @ \ {s}]
      /\ UNCHANGED <<state, ingress, client, armed, sending, pushing, agentsByTunnel, conn>>
  BY DEF FinalizeStreamReturns, UntrackStreamBySession, TypeOK, Bookkeeping, At,
         requests, responses, agents
<1>2. finalizing[s] > 0 /\ client[s] \in {"none", "ending", "closed"}
  BY DEF FinalizeStreamReturns, Settling, NoHungClient
<1>3. Bookkeeping'
  BY <1>1 DEF TypeOK, Bookkeeping, At, OwnerOf
<1>4. Settling'
  BY <1>1, <1>2 DEF TypeOK, Settling, NoOrphanStream, ClosedSessionDrained,
                    NoHungClient, At, OwnerOf
<1>. QED  BY <1>3, <1>4, ReturnAccounting

LEMMA InvNext == IInv /\ [Next]_vars => IInv'
<1>. SUFFICES ASSUME IInv, [Next]_vars PROVE IInv'
  OBVIOUS
<1>0. TypeOK'
  BY TypeNext DEF IInv
<1>. USE <1>0 DEF IInv
<1>1. CASE UNCHANGED vars
  BY <1>1 DEF TypeOK, Bookkeeping, Accounting, CapacityNeverLeaks, StreamsOf, Settling,
     NoOrphanStream, ClosedSessionDrained, NoHungClient, At, OwnerOf, vars, registry,
     capacity, agents, settling, requests, responses
<1>2. ASSUME NEW s \in Streams, NEW t \in Tunnels,
             HandleHttpIngress(s, t) \/ StartBufferedHttpIngress(s, t)
               \/ HandlePublicWebsocket(s, t)
      PROVE  IInv'
  <2>1. PICK k \in AllKinds : CreateStream(s, t, k)
    BY <1>2 DEF HandleHttpIngress, StartBufferedHttpIngress, HandlePublicWebsocket
  <2>. QED  BY <2>1, CreateInv
<1>3. ASSUME NEW s \in Streams,
             IngressStep(s) \/ WsStep(s) \/ PushStep(s) \/ ClientStep(s)
               \/ CloseEvent(s) \/ TimeoutPasses(s) \/ StreamTimeout(s)
      PROVE  IInv'
  <2>1. CASE CloseEvent(s)
    BY <2>1, ClientClosedQuiet, QuietInv DEF CloseEvent
  <2>2. CASE \/ IngressStep(s) \/ WsStep(s) \/ PushStep(s) \/ ClientStep(s)
             \/ TimeoutPasses(s) \/ StreamTimeout(s)
    BY <2>2, IngressQuiet, WsQuiet, PushQuiet, ClientQuiet, PassesQuiet, TimeoutQuiet,
       QuietInv
  <2>. QED  BY <1>3, <2>1, <2>2
<1>4. ASSUME NEW s \in Streams, FinalizeStreamReturns(s) PROVE IInv'
  BY <1>4, ReturnInv
<1>5. ASSUME NEW c \in Sessions, NEW s \in Streams, AgentStep(c, s) PROVE IInv'
  BY <1>5, AgentQuiet, QuietInv
<1>6. ASSUME NEW c \in Sessions, ConnStep(c) PROVE IInv'
  BY <1>6, RegisterInv, SocketClosesInv, CloseEventInv DEF ConnStep
<1>. QED  BY <1>1, <1>2, <1>3, <1>4, <1>5, <1>6 DEF Next

(* The gateway's maps, capacity counters, timers, finalizers and clients    *)
(* stay consistent with each other in every reachable state.                *)
THEOREM Invariant == Spec => []IInv
BY InvInit, InvNext, PTL DEF Spec

(* Capacity is never lost: reserveStreamCapacity and releaseStreamCapacity  *)
(* never count more streams than the map holds.                             *)
THEOREM NoCapacityLeak == Spec => []CapacityNeverLeaks
<1>1. IInv => CapacityNeverLeaks
  BY DEF IInv, Accounting
<1>. QED  BY <1>1, Invariant, PTL

(* Every stream in the map has a live timer or a running finalizer.         *)
THEOREM NoOrphan == Spec => []NoOrphanStream
<1>1. IInv => NoOrphanStream
  BY DEF IInv, Settling
<1>. QED  BY <1>1, Invariant, PTL

(* A closed agent session leaves no stream behind that nobody finalizes,    *)
(* and gets no new one, whether or not it was superseded.                   *)
THEOREM Drained == Spec => []ClosedSessionDrained
<1>1. IInv => ClosedSessionDrained
  BY DEF IInv, Settling
<1>. QED  BY <1>1, Invariant, PTL

(* No reply or public socket is still open once its stream is finalized.    *)
THEOREM NoClientHangs == Spec => []NoHungClient
<1>1. IInv => NoHungClient
  BY DEF IInv, Settling
<1>. QED  BY <1>1, Invariant, PTL

(* Both configured limits hold in every behaviour in which no stream is     *)
(* finalized twice: the second release is the only way to exceed them.      *)
THEOREM Limits == Spec => []LimitsUnlessFinalizedTwice
<1>1. ASSUME IInv, \A s \in Streams : releases[s] <= 1
      PROVE  /\ Cardinality(streams) <= MaxGlobal
             /\ \A t \in Tunnels : Cardinality(StreamsOf(t)) <= MaxPerTunnel
  <2>1. /\ activeStreamsGlobal <= MaxGlobal
        /\ \A t \in Tunnels : activeStreamsByTunnel[t] <= MaxPerTunnel
    BY <1>1 DEF IInv, Accounting
  <2>2. /\ activeStreamsGlobal = Cardinality(streams)
        /\ \A t \in Tunnels : activeStreamsByTunnel[t] = Cardinality(StreamsOf(t))
    BY <1>1 DEF IInv, Accounting
  <2>. QED  BY <2>1, <2>2
<1>2. IInv => LimitsUnlessFinalizedTwice
  BY <1>1 DEF LimitsUnlessFinalizedTwice
<1>. QED  BY <1>2, Invariant, PTL

================================================================================
