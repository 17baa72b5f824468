---------------------------- MODULE StreamLifecycle ----------------------------
(***************************************************************************)
(* The life of a proxied stream in the tunnel gateway                      *)
(* (src/apps/tunnel-gateway/src/index.ts): an ingress handler reserves     *)
(* capacity and creates a StreamState, forwards the request to the agent   *)
(* of the tunnel, the agent answers, and failStream / finalizeStream take  *)
(* the stream out of the gateway's maps.                                   *)
(*                                                                         *)
(* The gateway is one Node process: code between two awaits runs alone, so *)
(* an action is the run of a handler from one await (or event) to the next *)
(* await.  Everything that is awaited (PostgreSQL, a queued WebSocket      *)
(* send) takes one step of its own, which may come at any later time.      *)
(*                                                                         *)
(* A stream has a kind, the handler that created it:                       *)
(*   "http"     handleHttpIngress, the body is forwarded as it arrives     *)
(*   "relay"    handleHttpIngress for a LINE channel in relay mode: the    *)
(*              body is read first (startBufferedHttpIngress with a reply) *)
(*   "managed"  processSingleLineWebhookEvent: startBufferedHttpIngress    *)
(*              without a reply, nobody waits for the answer               *)
(*   "ws"       handlePublicWebsocket                                      *)
(*                                                                         *)
(* Left out: what is logged to the database (the request row, the chunks,  *)
(* the LINE event), host lookup, headers and byte counts.  A refused       *)
(* request (no tunnel, no agent, no capacity) changes none of this state   *)
(* and is a stuttering step.                                               *)
(***************************************************************************)
EXTENDS Integers, FiniteSets

CONSTANTS
    Tunnels,                \* rows of the tunnels table
    Sessions,               \* agent WebSocket connections, one session id each
    Streams,                \* stream ids (randomUUID: never used twice)
    None,                   \* no session, no tunnel
    TunnelOfSession,        \* the tunnelId of the session's connect token
    Kinds,                  \* the kinds of stream that are created
    MaxPerTunnel,           \* AGENTJ_MAX_ACTIVE_STREAMS_PER_TUNNEL
    MaxGlobal,              \* AGENTJ_MAX_ACTIVE_STREAMS_GLOBAL
    MaxPending,             \* bound: chunks of a stream in flight, each way
    MaxLate                 \* bound: messages about a stream being finalized

AllKinds == {"http", "relay", "managed", "ws"}

ASSUME ConstantsAssumption ==
    /\ None \notin Tunnels \cup Sessions
    /\ TunnelOfSession \in [Sessions -> Tunnels]
    /\ Kinds \subseteq AllKinds
    /\ MaxPerTunnel \in Nat \ {0} /\ MaxGlobal \in Nat \ {0}
    /\ MaxPending \in Nat /\ MaxLate \in Nat

VARIABLES
    state,                  \* the immutable fields of each StreamState
    streams,                \* keys of the map `streams`
    streamsBySession,       \* stream ids of each session
    activeStreamsByTunnel,  \* reserved capacity of a tunnel (absent key: 0)
    activeStreamsGlobal,    \* reserved capacity of the gateway
    armed,                  \* streams whose timeoutHandle is a live timer
    due,                    \* those whose timer has run out but not fired yet
    finalizing,             \* finalizeStream calls suspended on the database
    releases,               \* history: finalizeStream calls that have returned
    ingress,                \* where the ingress handler of the stream waits
    sending,                \* ws: request chunks whose send is pending
    pushing,                \* ws: response chunks whose send is pending
    client,                 \* the public reply or WebSocket of the stream
    late,                   \* messages handled while it was being finalized
    agentsByTunnel,         \* the registered agent session of each tunnel
    conn                    \* each agent connection

capacity  == <<activeStreamsByTunnel, activeStreamsGlobal, releases>>
registry  == <<streams, streamsBySession, capacity>>
agents    == <<agentsByTunnel, conn>>
settling  == <<client, armed, due, finalizing>>
requests  == <<ingress, sending>>
responses == <<late, pushing>>

vars == <<state, registry, agents, settling, requests, responses>>

(* Ingress locations: each names what the handler is waiting for.          *)
Locations ==
    {"none",       \* the id is not in use yet
     "insert",     \* the INSERT of the request row
     "start",      \* the send of ingress_request_start
     "body",       \* http: the next piece of the request body
     "chunk",      \* the send of ingress_request_chunk
     "persist",    \* persistChunk
     "end",        \* the send of ingress_request_end
     "reply",      \* the 'close' or 'finish' event of the reply
     "listening",  \* ws: its listeners are attached, events drive it
     "wsEnd",      \* ws: the send of ingress_request_end after 'close'
     "unsent",     \* returned before anything was sent to the agent
     "done"}       \* returned or thrown later

(* The client side: an open reply or socket, a reply whose headers are     *)
(* sent, one that end(), destroy() or close() was called on, and one whose *)
(* 'finish' or 'close' event has been emitted.  A managed event has none.  *)
ClientStates == {"none", "open", "headers", "ending", "closed"}

(* An agent connection: no activeConnection yet; activeConnection set and  *)
(* readyState 1; set and readyState not 1; its 'close' event handled.      *)
ConnStates == {"new", "active", "closing", "closed"}

StreamFields == [tunnelId       : Tunnels \cup {None},
                 agentSessionId : Sessions \cup {None},
                 kind           : AllKinds \cup {"none"}]

TypeOK ==
    /\ state \in [Streams -> StreamFields]
    /\ streams \in SUBSET Streams
    /\ streamsBySession \in [Sessions -> SUBSET Streams]
    /\ activeStreamsByTunnel \in [Tunnels -> Nat]
    /\ activeStreamsGlobal \in Nat
    /\ armed \in SUBSET Streams
    /\ due \in SUBSET armed
    /\ finalizing \in [Streams -> Nat]
    /\ releases \in [Streams -> Nat]
    /\ ingress \in [Streams -> Locations]
    /\ sending \in [Streams -> Nat]
    /\ pushing \in [Streams -> Nat]
    /\ client \in [Streams -> ClientStates]
    /\ late \in [Streams -> Nat]
    /\ agentsByTunnel \in [Tunnels -> Sessions \cup {None}]
    /\ conn \in [Sessions -> ConnStates]

Init ==
    /\ state = [s \in Streams |->
                  [tunnelId |-> None, agentSessionId |-> None, kind |-> "none"]]
    /\ streams = {}
    /\ streamsBySession = [c \in Sessions |-> {}]
    /\ activeStreamsByTunnel = [t \in Tunnels |-> 0]
    /\ activeStreamsGlobal = 0
    /\ armed = {} /\ due = {}
    /\ finalizing = [s \in Streams |-> 0]
    /\ releases = [s \in Streams |-> 0]
    /\ ingress = [s \in Streams |-> "none"]
    /\ sending = [s \in Streams |-> 0]
    /\ pushing = [s \in Streams |-> 0]
    /\ client = [s \in Streams |-> "none"]
    /\ late = [s \in Streams |-> 0]
    /\ agentsByTunnel = [t \in Tunnels |-> None]
    /\ conn = [c \in Sessions |-> "new"]

Kind(s)    == state[s].kind
OwnerOf(s) == state[s].agentSessionId
StreamsOf(t) == {s \in streams : state[s].tunnelId = t}

At(s, loc)   == ingress[s] = loc
GoTo(s, loc) == ingress' = [ingress EXCEPT ![s] = loc]

--------------------------------------------------------------------------------
(* Helpers of index.ts *)

HasCapacity_OffByOne(t) ==              \* mutant: <= instead of <
    /\ activeStreamsGlobal <= MaxGlobal
    /\ activeStreamsByTunnel[t] <= MaxPerTunnel

HasCapacity(t) ==
    /\ activeStreamsGlobal < MaxGlobal
    /\ activeStreamsByTunnel[t] < MaxPerTunnel

ReserveStreamCapacity(t) ==
    /\ HasCapacity(t)
    /\ activeStreamsGlobal' = activeStreamsGlobal + 1
    /\ activeStreamsByTunnel' = [activeStreamsByTunnel EXCEPT ![t] = @ + 1]

Decrement_Unguarded(n) == n - 1         \* mutant: no floor

(* Both counters are floored at zero: the global one by its guard, the     *)
(* tunnel's by deleting the key when at most one stream is left.           *)
Decrement(n) == IF n > 0 THEN n - 1 ELSE 0

ReleaseStreamCapacity(t) ==
    /\ activeStreamsGlobal' = Decrement(activeStreamsGlobal)
    /\ activeStreamsByTunnel' =
         [activeStreamsByTunnel EXCEPT ![t] = Decrement(@)]

TrackStreamBySession(s, c) ==
    streamsBySession' = [streamsBySession EXCEPT ![c] = @ \cup {s}]

UntrackStreamBySession(s) ==
    streamsBySession' = [streamsBySession EXCEPT ![OwnerOf(s)] = @ \ {s}]

(* The old timer is cleared and a new one set.                             *)
ArmStreamTimeout(s) == armed' = armed \cup {s} /\ due' = due \ {s}

(* clearStreamTimeout, for each stream of S.                               *)
ClearStreamTimeouts(S) == armed' = armed \ S /\ due' = due \ S

(* A stream may be talked about for ever; once it is being finalized, which *)
(* the database ends, at most MaxLate times (bound).                       *)
CountIfLate(s) ==
    /\ finalizing[s] > 0 => late[s] < MaxLate
    /\ late' = [late EXCEPT ![s] = IF finalizing[s] > 0 THEN @ + 1 ELSE @]

EndClient_BeforeHeaders(p) ==           \* mutant: no destroy() after headers
    IF p = "open" THEN "ending" ELSE p

(* end(), destroy() and close() do nothing to what is already ending.      *)
EndClient(p) == IF p \in {"open", "headers"} THEN "ending" ELSE p

EndClients(S) ==
    client' = [s \in Streams |->
                 IF s \in S THEN EndClient(client[s]) ELSE client[s]]

(* finalizeStream up to its first await, called for each stream of S: a    *)
(* stream that has left the map is ignored.                                *)
FinalizeStreams(S) ==
    /\ ClearStreamTimeouts(S \cap streams)
    /\ finalizing' = [s \in Streams |-> IF s \in S \cap streams
                                        THEN finalizing[s] + 1
                                        ELSE finalizing[s]]

(* failStream up to its first await: an error reply, destroy() when the    *)
(* headers are out, close(1011) on a WebSocket, then finalizeStream.       *)
FailStreams(S) ==
    /\ EndClients(S \cap streams)
    /\ FinalizeStreams(S)

FailStream(s) == FailStreams({s})

(* resolveStreamForSession: a message about a stream that is gone, or from *)
(* a session that does not own it, is dropped.                             *)
ResolveStreamForSession(c, s) == s \in streams /\ OwnerOf(s) = c

--------------------------------------------------------------------------------
(* Ingress handlers *)

(* From the lookup of the tunnel's agent to the INSERT, without an await:  *)
(* handleHttpIngress, startBufferedHttpIngress, handlePublicWebsocket.     *)
CreateStream(s, t, k) ==
    /\ At(s, "none") /\ k \in Kinds
    /\ agentsByTunnel[t] # None
    /\ ReserveStreamCapacity(t)
    /\ state' = [state EXCEPT ![s] = [tunnelId       |-> t,
                                      agentSessionId |-> agentsByTunnel[t],
                                      kind           |-> k]]
    /\ streams' = streams \cup {s}
    /\ TrackStreamBySession(s, agentsByTunnel[t])
    /\ ArmStreamTimeout(s)
    /\ client' = [client EXCEPT ![s] = IF k = "managed" THEN "none" ELSE "open"]
    /\ GoTo(s, "insert")
    /\ UNCHANGED <<finalizing, releases, sending, responses, agents>>

HandleHttpIngress(s, t)     == CreateStream(s, t, "http")
HandlePublicWebsocket(s, t) == CreateStream(s, t, "ws")

(* With the client's reply, or for a queued LINE event, without one.       *)
StartBufferedHttpIngress(s, t) == CreateStream(s, t, "relay") \/ CreateStream(s, t, "managed")

(* The catch blocks of the handlers: failStream, then return.              *)
FailAndReturn(s, loc) ==
    /\ GoTo(s, loc)
    /\ FailStream(s)
    /\ UNCHANGED <<state, registry, sending, responses, agents>>

(* A step of the handler that touches no other state.                      *)
Proceed(s, loc) ==
    /\ GoTo(s, loc)
    /\ UNCHANGED <<state, registry, sending, settling, responses, agents>>

InsertOk(s)     == At(s, "insert") /\ Proceed(s, "start")
InsertFailed(s) == At(s, "insert") /\ FailAndReturn(s, "unsent")

(* sendToAgent can only succeed while the agent's socket is still there;   *)
(* it fails when the socket is not open or stays over the high watermark.  *)
CanSend(s) == conn[OwnerOf(s)] # "closed"

(* Sending the start message is followed at once by the first chunk or the *)
(* end when the body was read before, by the body loop or the listeners    *)
(* otherwise.                                                              *)
StartSent(s) ==
    /\ At(s, "start") /\ CanSend(s)
    /\ CASE Kind(s) = "http" -> Proceed(s, "body")
         [] Kind(s) = "ws"   -> Proceed(s, "listening")
         [] OTHER            -> \/ Proceed(s, "end")
                                \/ MaxPending > 0 /\ Proceed(s, "chunk")

StartFailed(s) == At(s, "start") /\ FailAndReturn(s, "done")

(* for await (const chunk of request.raw): the timer is re-armed and the   *)
(* chunk sent, also when the stream has been removed in the meantime.      *)
BodyChunk(s) ==
    /\ At(s, "body") /\ MaxPending > 0
    /\ ArmStreamTimeout(s) /\ CountIfLate(s)
    /\ GoTo(s, "chunk")
    /\ UNCHANGED <<state, registry, client, finalizing, sending, pushing, agents>>

ChunkSent(s)   == At(s, "chunk") /\ CanSend(s) /\ Proceed(s, "persist")
ChunkFailed(s) == At(s, "chunk") /\ FailAndReturn(s, "done")

ChunkPersisted(s) ==
    /\ At(s, "persist")
    /\ Proceed(s, IF Kind(s) = "http" THEN "body" ELSE "end")

(* persistChunk is not in a try block: the handler throws, the web server  *)
(* answers 500 unless the headers are out, and the stream stays.           *)
PersistThrows(s) ==
    /\ At(s, "persist")
    /\ GoTo(s, "done")
    /\ client' = [client EXCEPT ![s] = IF @ = "open" THEN "ending" ELSE @]
    /\ UNCHANGED <<state, registry, armed, due, finalizing, sending,
                   responses, agents>>

BodyEnd(s) == At(s, "body") /\ Proceed(s, "end")

(* The body iterator throws when the client has gone.                      *)
BodyAborted(s) == At(s, "body") /\ client[s] = "closed" /\ Proceed(s, "done")

EndSent(s) ==
    /\ At(s, "end") /\ CanSend(s)
    /\ Proceed(s, IF Kind(s) = "managed" THEN "done" ELSE "reply")

EndFailed(s) == At(s, "end") /\ FailAndReturn(s, "done")

--------------------------------------------------------------------------------
(* The public client *)

ClientClosed_FinishOnly(s) ==           \* mutant: waits for 'finish' only
    /\ client' = [client EXCEPT ![s] = "closed"]
    /\ CASE At(s, "reply") /\ client[s] = "ending" -> GoTo(s, "done")
         [] At(s, "listening")                     -> GoTo(s, "wsEnd")
         [] OTHER                                  -> UNCHANGED ingress
    /\ UNCHANGED <<state, registry, armed, due, finalizing, sending,
                   responses, agents>>

(* The 'close' (or 'finish') event.  A handler that waits for it returns;  *)
(* a listening WebSocket handler sends the end.  An event that comes       *)
(* before the listeners are attached is lost.                              *)
ClientClosed(s) ==
    /\ client' = [client EXCEPT ![s] = "closed"]
    /\ CASE At(s, "reply")     -> GoTo(s, "done")
         [] At(s, "listening") -> GoTo(s, "wsEnd")
         [] OTHER              -> UNCHANGED ingress
    /\ UNCHANGED <<state, registry, armed, due, finalizing, sending,
                   responses, agents>>

CloseEvent(s)   == client[s] = "ending" /\ ClientClosed(s)
ClientLeaves(s) == client[s] \in {"open", "headers"} /\ ClientClosed(s)

(* handlePublicWebsocket, on 'message': one task per message.              *)
WsMessage(s) ==
    /\ At(s, "listening") /\ client[s] \in {"open", "ending"}
    /\ sending[s] < MaxPending
    /\ ArmStreamTimeout(s) /\ CountIfLate(s)
    /\ sending' = [sending EXCEPT ![s] = @ + 1]
    /\ UNCHANGED <<state, registry, ingress, client, finalizing, pushing, agents>>

WsChunkSent(s) ==
    /\ sending[s] > 0 /\ CanSend(s)
    /\ sending' = [sending EXCEPT ![s] = @ - 1]
    /\ UNCHANGED <<state, registry, ingress, settling, responses, agents>>

WsChunkFailed(s) ==
    /\ sending[s] > 0
    /\ sending' = [sending EXCEPT ![s] = @ - 1]
    /\ FailStream(s)
    /\ UNCHANGED <<state, registry, ingress, responses, agents>>

WsEndSettled_NoFinalize(s) ==           \* mutant: clears the timer, then returns
    /\ At(s, "wsEnd")
    /\ GoTo(s, "done")
    /\ ClearStreamTimeouts({s})
    /\ UNCHANGED <<state, registry, client, finalizing, sending,
                   responses, agents>>

(* on 'close': the end was sent, or could not be (only logged); finalize.  *)
WsEndSettled(s) ==
    /\ At(s, "wsEnd")
    /\ GoTo(s, "done")
    /\ FinalizeStreams({s})
    /\ UNCHANGED <<state, registry, client, sending, responses, agents>>

--------------------------------------------------------------------------------
(* Messages from an agent *)

(* An agent answers streams it was told of; the start message may reach it *)
(* before the gateway learns that the send succeeded.                      *)
AgentKnows(s) == ingress[s] \notin {"none", "insert", "unsent"}

(* A message of session c about stream s that resolveStreamForSession      *)
(* accepts.  A socket that is closing still delivers what it received.     *)
Receive(c, s) ==
    /\ conn[c] \in {"active", "closing"}
    /\ AgentKnows(s)
    /\ ResolveStreamForSession(c, s)
    /\ CountIfLate(s)
    /\ UNCHANGED <<state, registry, requests, agents>>

OnAgentResponseStart_HeadAgain(c, s) == \* mutant: headersSent is not checked
    /\ Receive(c, s)
    /\ ArmStreamTimeout(s)
    /\ client' = [client EXCEPT ![s] =
                    IF Kind(s) \notin {"ws", "managed"} /\ @ # "closed" THEN "headers" ELSE @]
    /\ UNCHANGED <<finalizing, pushing>>

OnAgentResponseStart(c, s) ==
    /\ Receive(c, s)
    /\ ArmStreamTimeout(s)
    /\ client' = [client EXCEPT ![s] =
                    IF Kind(s) # "ws" /\ @ = "open" THEN "headers" ELSE @]
    /\ UNCHANGED <<finalizing, pushing>>

(* Writing to a reply sends its headers; a WebSocket send is queued.  A    *)
(* chunk for a reply already ended changes nothing of what is kept here.   *)
OnAgentResponseChunk(c, s) ==
    /\ Receive(c, s)
    /\ ArmStreamTimeout(s)
    /\ client' = [client EXCEPT ![s] =
                    IF Kind(s) # "ws" /\ @ = "open" THEN "headers" ELSE @]
    /\ Kind(s) = "ws" => pushing[s] < MaxPending
    /\ pushing' = [pushing EXCEPT ![s] = IF Kind(s) = "ws" THEN @ + 1 ELSE @]
    /\ UNCHANGED finalizing

OnAgentResponseEnd(c, s) ==
    /\ Receive(c, s)
    /\ EndClients({s})
    /\ FinalizeStreams({s})
    /\ UNCHANGED pushing

OnStreamError_NoReply(c, s) ==          \* mutant: finalizes without a reply
    /\ Receive(c, s)
    /\ FinalizeStreams({s})
    /\ UNCHANGED <<client, pushing>>

OnStreamError(c, s) ==
    /\ Receive(c, s)
    /\ FailStream(s)
    /\ UNCHANGED pushing

ChunkPushed(s) ==
    /\ pushing[s] > 0 /\ client[s] # "closed"
    /\ pushing' = [pushing EXCEPT ![s] = @ - 1]
    /\ UNCHANGED <<state, registry, requests, settling, late, agents>>

PushFailed(s) ==
    /\ pushing[s] > 0
    /\ pushing' = [pushing EXCEPT ![s] = @ - 1]
    /\ FailStream(s)
    /\ UNCHANGED <<state, registry, requests, late, agents>>

--------------------------------------------------------------------------------
(* Timers and finalizers *)

(* The time set by the last armStreamTimeout has passed; the callback is   *)
(* the next thing that happens to the timer, unless it is armed again.     *)
TimeoutPasses(s) ==
    /\ s \in armed \ due
    /\ due' = due \cup {s}
    /\ UNCHANGED <<state, registry, client, armed, finalizing, requests,
                   responses, agents>>

StreamTimeout_OpenOnly(s) ==            \* mutant: ignores streams without client
    /\ s \in due
    /\ EndClients({s} \cap streams)
    /\ ClearStreamTimeouts({s})
    /\ finalizing' = [finalizing EXCEPT ![s] =
                        IF s \in streams /\ client[s] # "closed" THEN @ + 1 ELSE @]
    /\ UNCHANGED <<state, registry, requests, responses, agents>>

(* The callback of armStreamTimeout.                                       *)
StreamTimeout(s) ==
    /\ s \in due
    /\ EndClients({s} \cap streams)
    /\ ClearStreamTimeouts({s})
    /\ finalizing' = [finalizing EXCEPT ![s] = IF s \in streams THEN @ + 1 ELSE @]
    /\ UNCHANGED <<state, registry, requests, responses, agents>>

FinalizeStreamReturns_LostRelease(s) == \* mutant: no release after a disconnect
    /\ finalizing[s] > 0
    /\ finalizing' = [finalizing EXCEPT ![s] = @ - 1]
    /\ UntrackStreamBySession(s)
    /\ IF conn[OwnerOf(s)] = "closed"
       THEN UNCHANGED <<activeStreamsByTunnel, activeStreamsGlobal>>
       ELSE ReleaseStreamCapacity(state[s].tunnelId)
    /\ streams' = streams \ {s}
    /\ releases' = [releases EXCEPT ![s] = @ + 1]
    /\ UNCHANGED <<state, client, armed, due, requests, responses, agents>>

(* finalizeStream after its awaits.  Nothing checks that the stream is     *)
(* still in the map: a second finalizer releases capacity again.           *)
FinalizeStreamReturns(s) ==
    /\ finalizing[s] > 0
    /\ finalizing' = [finalizing EXCEPT ![s] = @ - 1]
    /\ UntrackStreamBySession(s)
    /\ ReleaseStreamCapacity(state[s].tunnelId)
    /\ streams' = streams \ {s}
    /\ releases' = [releases EXCEPT ![s] = @ + 1]
    /\ UNCHANGED <<state, client, armed, due, requests, responses, agents>>

--------------------------------------------------------------------------------
(* Agent connections, as far as streams depend on them *)

RegisterAgent_AnyReadyState(c) ==       \* mutant: no readyState check
    LET t == TunnelOfSession[c] IN
    /\ conn[c] \in {"new", "closed"} /\ agentsByTunnel[t] # c
    /\ agentsByTunnel' = [agentsByTunnel EXCEPT ![t] = c]
    /\ conn' = [conn EXCEPT ![c] = IF @ = "new" THEN "active" ELSE @]
    /\ UNCHANGED <<state, registry, settling, requests, responses>>

(* The end of the agent_hello handler: the socket is still open, an older  *)
(* session of the tunnel is closed (4001) and replaced.                    *)
RegisterAgent(c) ==
    LET t == TunnelOfSession[c]
        existing == agentsByTunnel[t]
    IN  /\ conn[c] = "new"
        /\ agentsByTunnel' = [agentsByTunnel EXCEPT ![t] = c]
        /\ conn' = [d \in Sessions |->
                      IF d = c THEN "active"
                      ELSE IF d = existing /\ conn[d] = "active" THEN "closing"
                      ELSE conn[d]]
        /\ UNCHANGED <<state, registry, settling, requests, responses>>

(* The peer or the gateway starts to close the socket.                     *)
AgentSocketCloses(c) ==
    /\ conn[c] = "active"
    /\ conn' = [conn EXCEPT ![c] = "closing"]
    /\ UNCHANGED <<state, registry, settling, requests, responses, agentsByTunnel>>

(* on 'close': failActiveStreamsForSession, then the session is removed if *)
(* it is still the registered one.                                         *)
AgentCloseEvent(c) ==
    /\ conn[c] \in {"new", "closing"}
    /\ conn' = [conn EXCEPT ![c] = "closed"]
    /\ IF conn[c] = "new"
       THEN UNCHANGED <<settling, agentsByTunnel>>
       ELSE /\ FailStreams(streamsBySession[c])
            /\ agentsByTunnel' =
                 [t \in Tunnels |-> IF t = TunnelOfSession[c] /\ agentsByTunnel[t] = c
                                    THEN None ELSE agentsByTunnel[t]]
    /\ UNCHANGED <<state, registry, requests, responses>>

--------------------------------------------------------------------------------
IngressStep(s) ==
    \/ InsertOk(s) \/ InsertFailed(s)
    \/ StartSent(s) \/ StartFailed(s)
    \/ ChunkSent(s) \/ ChunkFailed(s)
    \/ ChunkPersisted(s) \/ PersistThrows(s)
    \/ EndSent(s) \/ EndFailed(s)

WsStep(s) == WsChunkSent(s) \/ WsChunkFailed(s) \/ WsEndSettled(s)

PushStep(s) == ChunkPushed(s) \/ PushFailed(s)

ClientStep(s) ==
    BodyChunk(s) \/ BodyEnd(s) \/ BodyAborted(s) \/ ClientLeaves(s) \/ WsMessage(s)

AgentStep(c, s) ==
    \/ OnAgentResponseStart(c, s) \/ OnAgentResponseChunk(c, s)
    \/ OnAgentResponseEnd(c, s) \/ OnStreamError(c, s)

ConnStep(c) == RegisterAgent(c) \/ AgentSocketCloses(c) \/ AgentCloseEvent(c)

Next ==
    \/ \E s \in Streams, t \in Tunnels :
          HandleHttpIngress(s, t) \/ StartBufferedHttpIngress(s, t)
            \/ HandlePublicWebsocket(s, t)
    \/ \E s \in Streams :
          IngressStep(s) \/ WsStep(s) \/ PushStep(s) \/ ClientStep(s)
            \/ CloseEvent(s) \/ FinalizeStreamReturns(s)
            \/ TimeoutPasses(s) \/ StreamTimeout(s)
    \/ \E c \in Sessions, s \in Streams : AgentStep(c, s)
    \/ \E c \in Sessions : ConnStep(c)

Spec == Init /\ [][Next]_vars

(* What is awaited comes back: PostgreSQL answers or fails, a queued send  *)
(* succeeds or times out (the backpressure limit), a timer that is not     *)
(* armed again fires, a socket that was closed emits 'close'.  Nothing is  *)
(* assumed of clients, of agents or of requests that arrive; no bound ends *)
(* their messages while a stream is running, and each one that re-arms the *)
(* timer puts its end off.                                                 *)
Fairness ==
    /\ \A s \in Streams :
         /\ WF_vars(IngressStep(s))
         /\ WF_vars(WsStep(s))
         /\ WF_vars(PushStep(s))
         /\ WF_vars(CloseEvent(s))
         /\ WF_vars(TimeoutPasses(s)) /\ WF_vars(StreamTimeout(s))
         /\ WF_vars(FinalizeStreamReturns(s))
    /\ \A c \in Sessions : WF_vars(AgentCloseEvent(c))

FairSpec == Spec /\ Fairness

--------------------------------------------------------------------------------
(* Safety *)

(* Capacity never leaks: a counter never exceeds the streams it stands     *)
(* for, so a tunnel without streams has its whole capacity, whatever path  *)
(* its streams took out of the map.                                        *)
CapacityNeverLeaks ==
    /\ activeStreamsGlobal <= Cardinality(streams)
    /\ \A t \in Tunnels : activeStreamsByTunnel[t] <= Cardinality(StreamsOf(t))

(* A stream in the map always has something that will take it out: a live  *)
(* timer or a finalizer waiting for the database.  The timer is cleared,   *)
(* re-armed and fired by five different handlers.                          *)
NoOrphanStream == \A s \in streams : s \in armed \/ finalizing[s] > 0

(* After the 'close' event of an agent session every stream it owned is    *)
(* being finalized, and no new stream is ever bound to it, although it may *)
(* have been superseded before and handlers hold references to it.         *)
ClosedSessionDrained ==
    \A s \in streams : conn[OwnerOf(s)] = "closed" => finalizing[s] > 0

(* No client is left hanging: once a finalizer runs, and after the stream  *)
(* has left the map, the reply or socket has been ended.                   *)
NoHungClient ==
    \A s \in Streams :
        finalizing[s] > 0 \/ (s \notin streams /\ ~At(s, "none"))
            => client[s] \in {"none", "ending", "closed"}

(* The configured limits hold as long as no stream is finalized twice.     *)
LimitsUnlessFinalizedTwice ==
    (\A s \in Streams : releases[s] <= 1) =>
        /\ Cardinality(streams) <= MaxGlobal
        /\ \A t \in Tunnels : Cardinality(StreamsOf(t)) <= MaxPerTunnel

(* What makes these inductive.  An unused id left no trace; a used one     *)
(* names a tunnel and a session that was registered, and is in the map     *)
(* until its first finalizer returns; the session index is exact.          *)
Bookkeeping ==
    /\ \A s \in Streams :
         IF At(s, "none")
         THEN /\ s \notin streams /\ s \notin armed
              /\ finalizing[s] = 0 /\ releases[s] = 0
              /\ sending[s] = 0 /\ pushing[s] = 0
              /\ client[s] = "none"
         ELSE /\ state[s].tunnelId \in Tunnels
              /\ OwnerOf(s) \in Sessions /\ conn[OwnerOf(s)] # "new"
              /\ s \in streams \/ releases[s] > 0
    /\ \A c \in Sessions :
         streamsBySession[c] = {s \in streams : OwnerOf(s) = c}
    /\ \A t \in Tunnels : agentsByTunnel[t] # None =>
         /\ TunnelOfSession[agentsByTunnel[t]] = t
         /\ conn[agentsByTunnel[t]] \in {"active", "closing"}

(* The counters respect the limits and never exceed the streams; they are  *)
(* exact until some stream is finalized twice.                             *)
Accounting ==
    /\ IsFiniteSet(streams)
    /\ activeStreamsGlobal <= MaxGlobal
    /\ \A t \in Tunnels : activeStreamsByTunnel[t] <= MaxPerTunnel
    /\ CapacityNeverLeaks
    /\ (\A s \in Streams : releases[s] <= 1) =>
         /\ activeStreamsGlobal = Cardinality(streams)
         /\ \A t \in Tunnels :
              activeStreamsByTunnel[t] = Cardinality(StreamsOf(t))

Settling ==
    /\ NoOrphanStream /\ ClosedSessionDrained /\ NoHungClient
    /\ \A s \in Streams : At(s, "wsEnd") => client[s] = "closed"

IInv == TypeOK /\ Bookkeeping /\ Accounting /\ Settling

(* AGENTJ_MAX_ACTIVE_STREAMS_PER_TUNNEL bounds the streams of a tunnel.    *)
TunnelLimit == \A t \in Tunnels : Cardinality(StreamsOf(t)) <= MaxPerTunnel

(* The gateway keeps the contract of StreamContract: a stream is settled   *)
(* from its first finalizer on and gone when it has left the map, and the  *)
(* first finalizer runs in the step in which its client is answered.       *)
Phase(s) == CASE At(s, "none")     -> "new"
              [] s \in streams     -> IF finalizing[s] > 0 THEN "settling" ELSE "running"
              [] OTHER             -> "gone"

Contract == INSTANCE StreamContract
                WITH phase <- [s \in Streams |-> Phase(s)], answer <- client

KeepsContract == Contract!Spec

(* Liveness *)

(* Client and agent exchange chunks: each re-arms the timer of the stream. *)
Chats(s) ==
    \/ BodyChunk(s) \/ WsMessage(s)
    \/ \E c \in Sessions : OnAgentResponseStart(c, s) \/ OnAgentResponseChunk(c, s)

FallsSilent(s) == <>[][~Chats(s)]_vars

(* A stream on which the messages stop leaves the map: one whose client    *)
(* and agent go on for ever keeps its timer from firing, and stays.        *)
StreamsEnd == \A s \in Streams : FallsSilent(s) => (s \in streams ~> s \notin streams)

(* Once the messages stop, every client gets an end: an answer, an error   *)
(* or a closed socket.                                                     *)
ClientsAnswered ==
    \A s \in Streams :
        FallsSilent(s) => (client[s] \in {"open", "headers"} ~> client[s] = "closed")

(* Then too a handler that starts waiting for the reply before the reply   *)
(* is over returns.  (One that starts later has missed the event and never *)
(* does.)                                                                  *)
WaitingHandlerReturns ==
    \A s \in Streams :
        FallsSilent(s) => (At(s, "reply") /\ client[s] # "closed" ~> At(s, "done"))

================================================================================
