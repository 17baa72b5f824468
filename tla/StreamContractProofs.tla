------------------------- MODULE StreamContractProofs -------------------------
(***************************************************************************)
(* StreamLifecycle implements StreamContract: every step of the gateway is *)
(* a step of the contract, or changes neither the phase of a stream nor    *)
(* what its client has got.                                                *)
(***************************************************************************)
EXTENDS StreamLifecycleProofs

USE DEF AllKinds, Locations, ClientStates, ConnStates, StreamFields

ContractStep == [Contract!Next]_(Contract!vars)

(* The streams in use stay in use.                                         *)
SameUse == \A s \in Streams : At(s, "none")' <=> At(s, "none")

(* No phase changes, and at most one client gets something.                *)
LEMMA SamePhases ==
  ASSUME SameUse, streams' = streams, finalizing' = finalizing
  PROVE  [s \in Streams |-> Phase(s)]' = [s \in Streams |-> Phase(s)]
BY DEF SameUse, Phase

LEMMA Stutter ==
  ASSUME SameUse, streams' = streams, finalizing' = finalizing, client' = client
  PROVE  ContractStep
BY SamePhases DEF ContractStep, Contract!vars

LEMMA ClientStepOf ==
  ASSUME TypeOK, SameUse, streams' = streams, finalizing' = finalizing,
         NEW s \in Streams, NEW a,
         client' = [client EXCEPT ![s] = a],
         \/ a = client[s]
         \/ a = "headers" /\ client[s] = "open" /\ Phase(s) \in {"running", "settling"}
         \/ a = "ending" /\ client[s] \in {"open", "headers"}
         \/ a = "closed" /\ client[s] \in {"open", "headers", "ending"}
  PROVE  ContractStep
<1>1. [r \in Streams |-> Phase(r)]' = [r \in Streams |-> Phase(r)]
  BY SamePhases
<1>2. CASE a = client[s]
  <2>1. client' = client
    BY <1>2 DEF TypeOK
  <2>. QED  BY <2>1, Stutter
<1>3. CASE a = "headers" /\ client[s] = "open" /\ Phase(s) \in {"running", "settling"}
  <2>1. Contract!Begin(s)
    BY <1>1, <1>3 DEF Contract!Begin
  <2>. QED  BY <2>1 DEF ContractStep, Contract!Next
<1>4. CASE a = "ending" /\ client[s] \in {"open", "headers"}
  <2>1. Contract!End(s)
    BY <1>1, <1>4 DEF Contract!End
  <2>. QED  BY <2>1 DEF ContractStep, Contract!Next
<1>5. CASE a = "closed" /\ client[s] \in {"open", "headers", "ending"}
  <2>1. Contract!Close(s)
    BY <1>1, <1>5 DEF Contract!Close
  <2>. QED  BY <2>1 DEF ContractStep, Contract!Next
<1>. QED  BY <1>2, <1>3, <1>4, <1>5

(* A finalizer starts for each stream of S, and its client is answered.    *)
Settles(S) ==
  /\ finalizing' = [s \in Streams |-> IF s \in S THEN finalizing[s] + 1 ELSE finalizing[s]]
  /\ client' = [s \in Streams |-> IF s \in S THEN EndClient(client[s]) ELSE client[s]]

LEMMA SettleStep ==
  ASSUME IInv, SameUse, streams' = streams, NEW S \in SUBSET streams, Settles(S)
  PROVE  ContractStep
<1>. DEFINE T == {s \in S : finalizing[s] = 0}
<1>0. /\ streams \subseteq Streams
      /\ \A s \in Streams : finalizing[s] \in Nat
      /\ client \in [Streams -> ClientStates]
  BY DEF IInv, TypeOK
<1>1. \A s \in streams : ~At(s, "none")
  BY <1>0 DEF IInv, Bookkeeping
<1>2. ASSUME NEW s \in Streams
      PROVE  /\ s \in T => Phase(s) = "running"
             /\ Phase(s)' = IF s \in T THEN "settling" ELSE Phase(s)
  <2>1. finalizing'[s] = IF s \in S THEN finalizing[s] + 1 ELSE finalizing[s]
    BY DEF Settles
  <2>2. At(s, "none")' <=> At(s, "none")
    BY DEF SameUse
  <2>3. CASE s \in T
    <3>1. ~At(s, "none") /\ s \in streams /\ finalizing[s] = 0 /\ finalizing'[s] = 1
      BY <2>1, <2>3, <1>1
    <3>. QED  BY <3>1, <2>2, <2>3 DEF Phase
  <2>4. CASE s \notin T
    <3>1. s \in streams => (finalizing'[s] > 0 <=> finalizing[s] > 0)
      BY <2>1, <2>4, <1>0
    <3>. QED  BY <3>1, <2>2, <2>4 DEF Phase
  <2>. QED  BY <2>3, <2>4
<1>3. ASSUME NEW s \in Streams
      PROVE  client'[s] = IF s \in T THEN Contract!Ended(client[s]) ELSE client[s]
  <2>1. s \in S /\ s \notin T => client[s] \in {"none", "ending", "closed"}
    BY <1>0 DEF IInv, Settling, NoHungClient
  <2>. QED  BY <2>1 DEF Settles, EndClient, Contract!Ended
<1>4. /\ [s \in Streams |-> Phase(s)]'
           = [s \in Streams |-> IF s \in T THEN "settling" ELSE [r \in Streams |-> Phase(r)][s]]
      /\ client' = [s \in Streams |-> IF s \in T THEN Contract!Ended(client[s]) ELSE client[s]]
  <2>1. [s \in Streams |-> Phase(s)]' = [s \in Streams |-> Phase(s)']
    OBVIOUS
  <2>2. client' = [s \in Streams |-> client'[s]]
    BY DEF Settles
  <2>. QED  BY <2>1, <2>2, <1>2, <1>3
<1>5. CASE T = {}
  <2>1. [s \in Streams |-> Phase(s)]' = [s \in Streams |-> Phase(s)] /\ client' = client
    BY <1>4, <1>5, <1>0
  <2>. QED  BY <2>1 DEF ContractStep, Contract!vars
<1>6. CASE T # {}
  <2>1. T \in SUBSET Streams
    BY <1>0
  <2>2. \A s \in T : [r \in Streams |-> Phase(r)][s] = "running"
    BY <2>1, <1>2
  <2>3. Contract!Settle(T)
    BY <1>4, <1>6, <2>2 DEF Contract!Settle
  <2>. QED  BY <2>1, <2>3 DEF ContractStep, Contract!Next
<1>. QED  BY <1>5, <1>6

LEMMA FailStep ==
  ASSUME IInv, SameUse, streams' = streams, NEW S, FailStreams(S)
  PROVE  ContractStep
<1>1. Settles(S \cap streams)
  BY DEF FailStreams, EndClients, FinalizeStreams, Settles
<1>. QED  BY <1>1, SettleStep

(* One lemma per group of actions.                                         *)
LEMMA AdmitStep ==
  ASSUME IInv, NEW s \in Streams, NEW t \in Tunnels, NEW k \in AllKinds,
         CreateStream(s, t, k)
  PROVE  ContractStep
<1>0. /\ ingress \in [Streams -> Locations] /\ client \in [Streams -> ClientStates]
      /\ At(s, "none") /\ s \notin streams /\ finalizing[s] = 0
  BY DEF IInv, TypeOK, Bookkeeping, CreateStream
<1>1. Phase(s) = "new"
  BY <1>0 DEF Phase
<1>2. ASSUME NEW r \in Streams
      PROVE  Phase(r)' = IF r = s THEN "running" ELSE Phase(r)
  <2>1. CASE r = s
    BY <1>0, <2>1 DEF CreateStream, Phase, GoTo, At
  <2>2. CASE r # s
    <3>1. /\ At(r, "none")' <=> At(r, "none")
          /\ r \in streams' <=> r \in streams
          /\ finalizing'[r] = finalizing[r]
      BY <1>0, <2>2 DEF CreateStream, GoTo, At
    <3>. QED  BY <2>2, <3>1 DEF Phase
  <2>. QED  BY <2>1, <2>2
<1>3. [r \in Streams |-> Phase(r)]'
        = [[r \in Streams |-> Phase(r)] EXCEPT ![s] = "running"]
  BY <1>2
<1>4. \E a \in {"none", "open"} : client' = [client EXCEPT ![s] = a]
  BY DEF CreateStream
<1>5. Contract!Admit(s)
  BY <1>1, <1>3, <1>4 DEF Contract!Admit
<1>. QED  BY <1>5 DEF ContractStep, Contract!Next

LEMMA ReturnStep ==
  ASSUME IInv, NEW s \in Streams, FinalizeStreamReturns(s)
  PROVE  ContractStep
<1>0. /\ \A r \in Streams : finalizing[r] \in Nat
      /\ finalizing \in [Streams -> Nat]
      /\ ~At(s, "none") /\ finalizing[s] > 0 /\ client' = client
      /\ client[s] \notin {"open", "headers"}
      /\ \A r \in Streams : At(r, "none")' <=> At(r, "none")
  <2>1. finalizing[s] > 0 /\ UNCHANGED <<client, ingress>>
    BY DEF FinalizeStreamReturns, requests
  <2>2. ~At(s, "none") /\ client[s] \notin {"open", "headers"}
    BY <2>1 DEF IInv, Bookkeeping, Settling, NoHungClient
  <2>. QED  BY <2>1, <2>2 DEF IInv, TypeOK, At
<1>1. ASSUME NEW r \in Streams PROVE Phase(r)' = IF r = s THEN "gone" ELSE Phase(r)
  <2>1. CASE r = s
    <3>1. s \notin streams' /\ ~At(s, "none")'
      BY <1>0 DEF FinalizeStreamReturns
    <3>. QED  BY <2>1, <3>1 DEF Phase
  <2>2. CASE r # s
    <3>1. /\ At(r, "none")' <=> At(r, "none")
          /\ r \in streams' <=> r \in streams
          /\ finalizing'[r] = finalizing[r]
      BY <1>0, <2>2 DEF FinalizeStreamReturns
    <3>. QED  BY <2>2, <3>1 DEF Phase
  <2>. QED  BY <2>1, <2>2
<1>2. CASE s \in streams
  <2>1. Phase(s) = "settling"
    BY <1>0, <1>2 DEF Phase
  <2>2. [r \in Streams |-> Phase(r)]'
          = [[r \in Streams |-> Phase(r)] EXCEPT ![s] = "gone"]
    BY <1>1
  <2>3. Contract!Leave(s)
    BY <1>0, <2>1, <2>2 DEF Contract!Leave
  <2>. QED  BY <2>3 DEF ContractStep, Contract!Next
<1>3. CASE s \notin streams
  <2>1. Phase(s) = "gone"
    BY <1>0, <1>3 DEF Phase
  <2>2. [r \in Streams |-> Phase(r)]' = [r \in Streams |-> Phase(r)]
    BY <1>1, <2>1
  <2>. QED  BY <1>0, <2>2 DEF ContractStep, Contract!vars
<1>. QED  BY <1>2, <1>3

LEMMA GoToSameUse ==
  ASSUME TypeOK, NEW s \in Streams, ~At(s, "none"),
         NEW loc \in Locations \ {"none"}, GoTo(s, loc)
  PROVE  SameUse
BY DEF TypeOK, GoTo, At, SameUse

LEMMA ProceedStep ==
  ASSUME IInv, NEW s \in Streams, ~At(s, "none"),
         NEW loc \in Locations \ {"none"}, Proceed(s, loc)
  PROVE  ContractStep
<1>1. SameUse
  BY GoToSameUse DEF IInv, Proceed
<1>. QED  BY <1>1, Stutter DEF Proceed, registry, settling

LEMMA FailAndReturnStep ==
  ASSUME IInv, NEW s \in Streams, ~At(s, "none"),
         NEW loc \in Locations \ {"none"}, FailAndReturn(s, loc)
  PROVE  ContractStep
<1>1. SameUse
  BY GoToSameUse DEF IInv, FailAndReturn
<1>. QED  BY <1>1, FailStep DEF FailAndReturn, FailStream, registry

LEMMA IngressContract ==
  ASSUME IInv, NEW s \in Streams, IngressStep(s)
  PROVE  ContractStep
<1>1. CASE InsertOk(s)       BY <1>1, ProceedStep DEF InsertOk, At
<1>2. CASE InsertFailed(s)   BY <1>2, FailAndReturnStep DEF InsertFailed, At
<1>3. CASE StartSent(s)      BY <1>3, ProceedStep DEF StartSent, At
<1>4. CASE StartFailed(s)    BY <1>4, FailAndReturnStep DEF StartFailed, At
<1>5. CASE ChunkSent(s)      BY <1>5, ProceedStep DEF ChunkSent, At
<1>6. CASE ChunkFailed(s)    BY <1>6, FailAndReturnStep DEF ChunkFailed, At
<1>7. CASE ChunkPersisted(s) BY <1>7, ProceedStep DEF ChunkPersisted, At
<1>8. CASE PersistThrows(s)
  <2>1. SameUse
    BY <1>8, GoToSameUse DEF IInv, PersistThrows, At
  <2>2. PICK a : /\ client' = [client EXCEPT ![s] = a]
                 /\ a = client[s] \/ (a = "ending" /\ client[s] = "open")
    BY <1>8 DEF PersistThrows
  <2>. QED  BY <1>8, <2>1, <2>2, ClientStepOf DEF IInv, PersistThrows, registry
<1>9. CASE EndSent(s)        BY <1>9, ProceedStep DEF EndSent, At
<1>10. CASE EndFailed(s)     BY <1>10, FailAndReturnStep DEF EndFailed, At
<1>. QED  BY <1>1, <1>2, <1>3, <1>4, <1>5, <1>6, <1>7, <1>8, <1>9, <1>10
          DEF IngressStep

LEMMA UnchangedSameUse == ASSUME ingress' = ingress PROVE SameUse
BY DEF SameUse, At

LEMMA WsContract ==
  ASSUME IInv, NEW s \in Streams, WsStep(s) \/ PushStep(s)
  PROVE  ContractStep
<1>1. CASE WsChunkSent(s) \/ ChunkPushed(s)
  BY <1>1, UnchangedSameUse, Stutter
  DEF WsChunkSent, ChunkPushed, registry, settling, requests
<1>2. CASE WsChunkFailed(s) \/ PushFailed(s)
  BY <1>2, UnchangedSameUse, FailStep
  DEF WsChunkFailed, PushFailed, FailStream, registry, requests
<1>3. CASE WsEndSettled(s)
  <2>1. SameUse
    BY <1>3, GoToSameUse DEF IInv, WsEndSettled, At
  <2>2. client[s] = "closed" /\ client \in [Streams -> ClientStates]
    BY <1>3 DEF IInv, TypeOK, Settling, WsEndSettled
  <2>3. Settles({s} \cap streams)
    BY <1>3, <2>2 DEF WsEndSettled, FinalizeStreams, Settles, EndClient
  <2>. QED  BY <1>3, <2>1, <2>3, SettleStep DEF WsEndSettled, registry
<1>. QED  BY <1>1, <1>2, <1>3 DEF WsStep, PushStep

LEMMA ClosedContract ==
  ASSUME IInv, NEW s \in Streams, ClientClosed(s),
         client[s] \in {"open", "headers", "ending"}
  PROVE  ContractStep
<1>1. SameUse
  <2>1. CASE ingress' = ingress
    BY <2>1, UnchangedSameUse
  <2>2. CASE At(s, "reply") /\ GoTo(s, "done")
    BY <2>2, GoToSameUse DEF IInv, At
  <2>3. CASE At(s, "listening") /\ GoTo(s, "wsEnd")
    BY <2>3, GoToSameUse DEF IInv, At
  <2>. QED  BY <2>1, <2>2, <2>3 DEF ClientClosed
<1>. QED  BY <1>1, ClientStepOf DEF IInv, ClientClosed, registry

LEMMA ClientContract ==
  ASSUME IInv, NEW s \in Streams, ClientStep(s) \/ CloseEvent(s)
  PROVE  ContractStep
<1>1. CASE BodyChunk(s)
  <2>1. SameUse
    BY <1>1, GoToSameUse DEF IInv, BodyChunk, At
  <2>. QED  BY <1>1, <2>1, Stutter DEF BodyChunk, registry
<1>2. CASE BodyEnd(s) \/ BodyAborted(s)
  BY <1>2, ProceedStep DEF BodyEnd, BodyAborted, At
<1>3. CASE ClientLeaves(s) \/ CloseEvent(s)
  BY <1>3, ClosedContract DEF ClientLeaves, CloseEvent
<1>4. CASE WsMessage(s)
  BY <1>4, UnchangedSameUse, Stutter DEF WsMessage, registry
<1>. QED  BY <1>1, <1>2, <1>3, <1>4 DEF ClientStep

(* A head is written only while the answer is open, which it is not once a *)
(* finalizer runs.                                                         *)
LEMMA HeadContract ==
  ASSUME IInv, NEW c \in Sessions, NEW s \in Streams,
         OnAgentResponseStart(c, s) \/ OnAgentResponseChunk(c, s)
  PROVE  ContractStep
<1>1. SameUse /\ streams' = streams /\ finalizing' = finalizing /\ s \in streams
  BY UnchangedSameUse
  DEF OnAgentResponseStart, OnAgentResponseChunk, Receive, ResolveStreamForSession,
      registry, requests
<1>2. Phase(s) \in {"running", "settling"}
  BY <1>1 DEF IInv, Bookkeeping, Phase
<1>3. PICK a : /\ client' = [client EXCEPT ![s] = a]
               /\ a = client[s] \/ (a = "headers" /\ client[s] = "open")
  BY DEF OnAgentResponseStart, OnAgentResponseChunk
<1>. QED  BY <1>1, <1>2, <1>3, ClientStepOf DEF IInv

LEMMA AgentContract ==
  ASSUME IInv, NEW c \in Sessions, NEW s \in Streams, AgentStep(c, s)
  PROVE  ContractStep
<1>1. CASE OnAgentResponseEnd(c, s)
  <2>1. SameUse /\ streams' = streams /\ s \in streams
    BY <1>1, UnchangedSameUse
    DEF OnAgentResponseEnd, Receive, ResolveStreamForSession, registry, requests
  <2>2. Settles({s})
    BY <1>1, <2>1 DEF OnAgentResponseEnd, EndClients, FinalizeStreams, Settles
  <2>. QED  BY <2>1, <2>2, SettleStep
<1>2. CASE OnStreamError(c, s)
  <2>1. SameUse /\ streams' = streams
    BY <1>2, UnchangedSameUse DEF OnStreamError, Receive, registry, requests
  <2>. QED  BY <1>2, <2>1, FailStep DEF OnStreamError, FailStream
<1>. QED  BY <1>1, <1>2, HeadContract DEF AgentStep

LEMMA TimeoutContract ==
  ASSUME IInv, NEW s \in Streams, StreamTimeout(s)
  PROVE  ContractStep
<1>1. SameUse /\ streams' = streams
  BY UnchangedSameUse DEF StreamTimeout, registry, requests
<1>2. Settles({s} \cap streams)
  BY DEF IInv, TypeOK, StreamTimeout, EndClients, Settles
<1>. QED  BY <1>1, <1>2, SettleStep

LEMMA ConnContract ==
  ASSUME IInv, NEW c \in Sessions, ConnStep(c)
  PROVE  ContractStep
<1>1. SameUse /\ streams' = streams
  BY UnchangedSameUse
  DEF ConnStep, RegisterAgent, AgentSocketCloses, AgentCloseEvent, registry, requests
<1>2. CASE UNCHANGED settling
  BY <1>1, <1>2, Stutter DEF settling
<1>3. CASE FailStreams(streamsBySession[c])
  BY <1>1, <1>3, FailStep
<1>. QED  BY <1>2, <1>3 DEF ConnStep, RegisterAgent, AgentSocketCloses, AgentCloseEvent

LEMMA EveryStep ==
  ASSUME IInv, [Next]_vars
  PROVE  ContractStep
<1>1. CASE UNCHANGED vars
  BY <1>1, UnchangedSameUse, Stutter DEF vars, registry, settling, requests
<1>2. ASSUME NEW s \in Streams, NEW t \in Tunnels,
             HandleHttpIngress(s, t) \/ StartBufferedHttpIngress(s, t)
               \/ HandlePublicWebsocket(s, t)
      PROVE  ContractStep
  BY <1>2, AdmitStep
  DEF HandleHttpIngress, StartBufferedHttpIngress, HandlePublicWebsocket
<1>3. ASSUME NEW s \in Streams, TimeoutPasses(s) PROVE ContractStep
  BY <1>3, UnchangedSameUse, Stutter DEF TimeoutPasses, registry, requests
<1>. QED
  BY <1>1, <1>2, <1>3, IngressContract, WsContract, ClientContract, TimeoutContract,
     ReturnStep, AgentContract, ConnContract DEF Next

(* Whatever clients, agents, timers and the database do, every stream is   *)
(* admitted once, settled in the step in which its client is answered, and *)
(* then gone; an answer has a head before its end, and nothing after it.   *)
THEOREM Refinement == Spec => KeepsContract
<1>1. Init => Contract!Init
  BY DEF Init, Contract!Init, Phase, At
<1>2. IInv /\ [Next]_vars => [Contract!Next]_(Contract!vars)
  BY EveryStep DEF ContractStep
<1>. QED  BY <1>1, <1>2, Invariant, PTL DEF Spec, KeepsContract, Contract!Spec

===============================================================================
