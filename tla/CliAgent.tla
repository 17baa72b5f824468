------------------------------- MODULE CliAgent -------------------------------
(***************************************************************************)
(* The CLI's side of a tunnel (src/packages/cli/src): the reconnect loop   *)
(* of `tunnel http` and `line connect` around runAgent, the agent's        *)
(* exchanges with the local service (lib/gateway-agent.ts) and the queue   *)
(* it sends to the gateway through (lib/ws-send.ts).                       *)
(*                                                                         *)
(* The CLI is one Node process: an action is what runs from one event (a   *)
(* message, a socket event, a settled promise) to the next await.  The     *)
(* gateway and the local service are the environment: they may do          *)
(* anything their protocols allow, at any time.                            *)
(*                                                                         *)
(* Left out: headers, bodies and paths, what is logged, the lookup of the  *)
(* tunnel before the loop, and ids used twice (the gateway's are UUIDs).   *)
(***************************************************************************)
EXTENDS Integers, Sequences

CONSTANTS
    Streams,            \* stream ids
    Codes,              \* close codes the gateway uses
    None,               \* no close code: the socket failed
    Randoms,            \* what Math.random() returns, in hundredths
    StableMs,           \* STABLE_CONNECTION_RESET_MS
    Durations,          \* how long connections last, in ms
    MaxChunks,          \* bound: response chunks of one stream
    MaxIngress,         \* bound: request chunks of one stream
    MaxAttempts,        \* bound: retryAttempt is not counted beyond
    MaxConnections      \* bound: connections; only the last one is not broken

ASSUME AgentAssumption ==
    /\ Codes \subseteq Nat /\ None \notin Codes /\ None \notin Streams
    /\ Randoms \subseteq 0 .. 100
    /\ Durations \subseteq Nat /\ StableMs \in Nat
    /\ MaxChunks \in Nat /\ MaxIngress \in Nat
    /\ MaxAttempts \in Nat \ {0} /\ MaxConnections \in Nat \ {0}

VARIABLES
    loop,           \* where the command's loop waits
    retryAttempt,   \* failures in a row
    delayMs,        \* the delay it is waiting for
    exitCode,       \* process.exitCode
    ws,             \* readyState of the gateway socket
    closeCode,      \* the code it is closed with
    connections,    \* gateway sockets opened so far
    outbox,         \* gatewaySendQueue: the sends that are not settled
    heard,          \* history: the messages sent about each stream, in order
    exchange,       \* where the exchange with the local service is
    born,           \* the connection a stream came in on
    pendingHttp,    \* keys of the map pendingHttp
    pendingWs,      \* keys of the map pendingWs
    ended,          \* pendingHttp streams whose request body has ended
    chunkIndex,     \* the next chunkIndex of each stream
    arrived,        \* request chunks that came in
    written         \* request chunks passed on to the local service

reconnect == <<loop, retryAttempt, delayMs, exitCode>>
gateway   == <<ws, closeCode, connections>>
requests  == <<ended, arrived, written>>
local     == <<exchange, born, pendingHttp, pendingWs, chunkIndex>>

vars == <<reconnect, gateway, outbox, heard, local, requests>>

(* token: createConnectToken; opening: onceOpen; hello: the send of        *)
(* agent_hello; running: the close or error event; sleeping: the delay.    *)
LoopLocations == {"token", "opening", "hello", "running", "sleeping", "exited"}

(* An HTTP exchange waits for the response, then reads it; it is "cut"     *)
(* when the response was aborted.  A WebSocket is opening until its 'open' *)
(* event, starting until the start message is sent, then piped; "deaf" if  *)
(* it closed before its listeners were attached; "failed" between 'error'  *)
(* and 'close'; "closing" when the gateway ended it; "orphaned" if it is   *)
(* open and in no map.                                                     *)
Locations ==
    {"none", "waiting", "responding", "cut",
     "opening", "starting", "lost", "piped", "deaf", "failed", "closing",
     "orphaned", "over"}

BaseMs == 1000          \* RECONNECT_BASE_DELAY_MS
CapMs  == 15000         \* RECONNECT_MAX_DELAY_MS

Message ==
    [type : {"start", "chunk", "end", "error"}, stream : Streams, index : Nat]
    \cup [type : {"pong"}, stream : {None}, index : {0}]

TypeOK ==
    /\ loop \in LoopLocations
    /\ retryAttempt \in 0 .. MaxAttempts
    /\ delayMs \in 0 .. CapMs
    /\ exitCode \in {0, 1}
    /\ ws \in {"none", "connecting", "open", "closing", "closed"}
    /\ closeCode \in Codes \cup {None, 1011}
    /\ connections \in 0 .. MaxConnections
    /\ outbox \in Seq(Message)
    /\ heard \in [Streams -> Seq(Message)]
    /\ exchange \in [Streams -> Locations]
    /\ born \in [Streams -> Nat]
    /\ pendingHttp \in SUBSET Streams
    /\ pendingWs \in SUBSET Streams
    /\ ended \in SUBSET Streams
    /\ chunkIndex \in [Streams -> Nat]
    /\ arrived \in [Streams -> Nat]
    /\ written \in [Streams -> Nat]

Init ==
    /\ loop = "token" /\ retryAttempt = 0 /\ delayMs = 0 /\ exitCode = 0
    /\ ws = "none" /\ closeCode = None /\ connections = 0
    /\ outbox = <<>>
    /\ heard = [s \in Streams |-> <<>>]
    /\ exchange = [s \in Streams |-> "none"]
    /\ born = [s \in Streams |-> 0]
    /\ pendingHttp = {} /\ pendingWs = {} /\ ended = {}
    /\ chunkIndex = [s \in Streams |-> 0]
    /\ arrived = [s \in Streams |-> 0]
    /\ written = [s \in Streams |-> 0]

At(s, loc)   == exchange[s] = loc
GoTo(s, loc) == exchange' = [exchange EXCEPT ![s] = loc]

Msg(s, type)    == [type |-> type, stream |-> s, index |-> 0]
ChunkOf(s)      == [type |-> "chunk", stream |-> s, index |-> chunkIndex[s]]

Smaller(a, b) == IF a < b THEN a ELSE b
Larger(a, b)  == IF a > b THEN a ELSE b

-------------------------------------------------------------------------------
(* The reconnect loop *)

NonRetryableCloseCodes == {4001, 4400, 4401, 4404, 4410}

IsRetryableGatewayCloseCode(code) == code \notin NonRetryableCloseCodes \cup {1000}

(* The codes with shouldExitNonZero.                                       *)
ExitsNonZero(code) == code \in {4400, 4401, 4404, 4408, 4410, 4411}

ReconnectDelay_JitterUncapped(attempt, random) ==   \* mutant: no cap on the jitter
    LET exponential == Smaller(CapMs, BaseMs * 2 ^ (Larger(1, attempt) - 1))
        span == exponential \div 5
    IN  exponential + ((2 * random - 100) * span) \div 100

ReconnectDelay_OffByOne(attempt, random) ==         \* mutant: one doubling too many
    LET exponential == Smaller(CapMs, BaseMs * 2 ^ Larger(1, attempt))
        span == exponential \div 5
    IN  Larger(0, Smaller(CapMs, exponential + ((2 * random - 100) * span) \div 100))

(* computeReconnectDelayMs: doubling from 1 s up to 15 s, then 20 % either *)
(* way, but never above 15 s.                                              *)
ReconnectDelay(attempt, random) ==
    LET exponential == Smaller(CapMs, BaseMs * 2 ^ (Larger(1, attempt) - 1))
        span == exponential \div 5
    IN  Larger(0, Smaller(CapMs, exponential + ((2 * random - 100) * span) \div 100))

(* One more failure after the given number of them: wait and try again.    *)
RetryLater(failures) ==
    /\ loop' = "sleeping"
    /\ retryAttempt' = Smaller(MaxAttempts, failures + 1)
    /\ \E random \in Randoms : delayMs' = ReconnectDelay(retryAttempt', random)
    /\ UNCHANGED exitCode

TokenFetched ==
    /\ loop = "token"
    /\ loop' = "opening" /\ ws' = "connecting"
    /\ UNCHANGED <<retryAttempt, delayMs, exitCode, closeCode, connections,
                   outbox, heard, local, requests>>

TokenFailed_GivesUp ==                  \* mutant: the error leaves the loop
    /\ loop = "token"
    /\ loop' = "exited" /\ exitCode' = 1
    /\ UNCHANGED <<retryAttempt, delayMs, gateway, outbox, heard, local, requests>>

(* Any error of createConnectToken, a deleted tunnel's 404 included.       *)
TokenFailed ==
    /\ loop = "token"
    /\ RetryLater(retryAttempt)
    /\ UNCHANGED <<gateway, outbox, heard, local, requests>>

SocketOpened ==
    /\ loop = "opening" /\ connections < MaxConnections
    /\ loop' = "hello" /\ ws' = "open"
    /\ connections' = connections + 1
    /\ closeCode' = None /\ outbox' = <<>>
    /\ UNCHANGED <<retryAttempt, delayMs, exitCode, heard, local, requests>>

(* onceOpen or the send of agent_hello rejects: runAgent throws.  A code   *)
(* the gateway closed with in the meantime is not looked at.               *)
SetupFailed ==
    /\ \/ loop = "opening"
       \/ loop = "hello" /\ ws # "open"
    /\ ws' = "closed"
    /\ RetryLater(retryAttempt)
    /\ UNCHANGED <<closeCode, connections, outbox, heard, local, requests>>

HelloSent ==
    /\ loop = "hello" /\ ws = "open"
    /\ loop' = "running"
    /\ UNCHANGED <<retryAttempt, delayMs, exitCode, gateway, outbox, heard,
                   local, requests>>

Woken ==
    /\ loop = "sleeping"
    /\ loop' = "token" /\ delayMs' = 0
    /\ UNCHANGED <<retryAttempt, exitCode, gateway, outbox, heard,
                   local, requests>>

CleanupStreams_HttpOnly ==              \* mutant: the WebSockets are forgotten
    /\ exchange' = [s \in Streams |-> IF s \in pendingHttp THEN "over" ELSE exchange[s]]
    /\ pendingHttp' = {}
    /\ UNCHANGED pendingWs

(* cleanupStreams: local requests are destroyed, local sockets closed, and *)
(* what they still emit is sent to a queue that refuses it.  A WebSocket   *)
(* whose start was not sent yet is in no map and stays open.               *)
CleanupStreams ==
    /\ exchange' = [s \in Streams |->
                      CASE s \in pendingHttp \cup pendingWs -> "over"
                        [] At(s, "starting")                -> "orphaned"
                        [] exchange[s] \in {"closing", "failed", "lost", "deaf"} -> "over"
                        [] OTHER -> exchange[s]]
    /\ pendingHttp' = {}
    /\ pendingWs' = {}

(* 'close', or 'error' without a code: the streams are cleaned up, runAgent *)
(* returns and the loop exits or waits.                                    *)
ConnectionEnds(code, durationMs) ==
    /\ loop = "running"
    /\ ws' = "closed" /\ outbox' = <<>>
    /\ CleanupStreams
    /\ IF code = None \/ IsRetryableGatewayCloseCode(code)
       THEN RetryLater(IF durationMs >= StableMs THEN 0 ELSE retryAttempt)
       ELSE /\ loop' = "exited"
            /\ exitCode' = IF ExitsNonZero(code) THEN 1 ELSE exitCode
            /\ UNCHANGED <<retryAttempt, delayMs>>
    /\ UNCHANGED <<closeCode, connections, heard, born, chunkIndex, requests>>

CloseEvent ==
    /\ ws = "closing"
    /\ \E durationMs \in Durations : ConnectionEnds(closeCode, durationMs)

ErrorEvent ==
    /\ ws \in {"open", "closing"} /\ connections < MaxConnections
    /\ \E durationMs \in Durations : ConnectionEnds(None, durationMs)

(* The gateway closes the socket; runAgent may still be sending its hello. *)
GatewayCloses ==
    /\ ws = "open" /\ connections < MaxConnections
    /\ ws' = "closing"
    /\ \E code \in Codes : closeCode' = code
    /\ UNCHANGED <<reconnect, connections, outbox, heard, local, requests>>

-------------------------------------------------------------------------------
(* gatewaySendQueue: sends are attempted one after the other *)

Send(m) == outbox' = Append(outbox, m)

CloseGateway ==
    /\ ws' = IF ws = "open" THEN "closing" ELSE ws
    /\ closeCode' = IF ws = "open" THEN 1011 ELSE closeCode

Head1 == Head(outbox)

WsStart(m) == m.type = "start" /\ exchange[m.stream] \in {"starting", "lost"}

(* The oldest send succeeds.  handleWsStart, which waited for its start    *)
(* message, enters the socket into pendingWs and attaches its listeners.   *)
HeadSent ==
    /\ outbox # <<>> /\ ws = "open"
    /\ outbox' = Tail(outbox)
    /\ heard' = IF Head1.stream = None THEN heard
                ELSE [heard EXCEPT ![Head1.stream] = Append(@, Head1)]
    /\ IF WsStart(Head1)
       THEN /\ pendingWs' = pendingWs \cup {Head1.stream}
            /\ GoTo(Head1.stream,
                    IF At(Head1.stream, "lost") THEN "deaf" ELSE "piped")
       ELSE UNCHANGED <<pendingWs, exchange>>
    /\ UNCHANGED <<reconnect, gateway, born, pendingHttp, chunkIndex, requests>>

SendRejected_LogOnly ==                 \* mutant: the connection stays open
    /\ outbox' = Tail(outbox)
    /\ IF WsStart(Head1)
       THEN /\ GoTo(Head1.stream, IF At(Head1.stream, "lost") THEN "over" ELSE "orphaned")
       ELSE UNCHANGED exchange
    /\ UNCHANGED <<ws, closeCode>>

(* The oldest send is rejected: a failed start is answered by a            *)
(* stream_error; every other failure closes the gateway socket (1011)      *)
(* before the next send is tried.                                          *)
SendRejected ==
    IF WsStart(Head1)
    THEN /\ outbox' = Append(Tail(outbox), Msg(Head1.stream, "error"))
         /\ GoTo(Head1.stream, IF At(Head1.stream, "lost") THEN "over" ELSE "orphaned")
         /\ UNCHANGED <<ws, closeCode>>
    ELSE /\ outbox' = Tail(outbox)
         /\ CloseGateway
         /\ UNCHANGED exchange

(* The socket is not open, or over its high watermark for too long.        *)
HeadFailed ==
    /\ outbox # <<>>
    /\ ws # "open" \/ connections < MaxConnections
    /\ SendRejected
    /\ UNCHANGED <<reconnect, connections, heard, born, pendingHttp, pendingWs,
                   chunkIndex, requests>>

-------------------------------------------------------------------------------
(* handleMessage *)

Listening == loop = "running" /\ ws \in {"open", "closing"}

Ping ==
    /\ Listening
    /\ \A i \in DOMAIN outbox : outbox[i].type # "pong"    \* bound
    /\ Send(Msg(None, "pong"))
    /\ UNCHANGED <<reconnect, gateway, heard, local, requests>>

StartExchange(s, loc) ==
    /\ Listening /\ At(s, "none")
    /\ GoTo(s, loc)
    /\ born' = [born EXCEPT ![s] = connections]
    /\ UNCHANGED <<reconnect, gateway, outbox, heard, pendingWs, chunkIndex, requests>>

StartHttpExchange_LateEntry(s) ==       \* mutant: entered when the response comes
    /\ StartExchange(s, "waiting")
    /\ UNCHANGED pendingHttp

StartHttpExchange(s) ==
    /\ StartExchange(s, "waiting")
    /\ pendingHttp' = pendingHttp \cup {s}

HandleWsStart(s) ==
    /\ StartExchange(s, "opening")
    /\ UNCHANGED pendingHttp

Known(s) == Listening /\ born[s] = connections /\ ~At(s, "none")

Arrives(s) ==
    /\ Known(s) /\ arrived[s] < MaxIngress
    /\ arrived' = [arrived EXCEPT ![s] = @ + 1]

(* A chunk for a stream in neither map is dropped.                         *)
IngressChunk(s) ==
    /\ Arrives(s)
    /\ written' = [written EXCEPT ![s] =
                     IF s \in pendingWs \/ s \in pendingHttp \ ended THEN @ + 1 ELSE @]
    /\ UNCHANGED <<reconnect, gateway, outbox, heard, local, ended>>

(* The local socket refuses a chunk: the whole connection is given up.     *)
IngressChunkRefused(s) ==
    /\ Arrives(s) /\ s \in pendingWs /\ connections < MaxConnections
    /\ CloseGateway
    /\ UNCHANGED <<reconnect, connections, outbox, heard, local, ended, written>>

IngressEnd(s) ==
    /\ Known(s) /\ s \in pendingWs \cup (pendingHttp \ ended)
    /\ IF s \in pendingWs
       THEN /\ pendingWs' = pendingWs \ {s}
            /\ GoTo(s, IF At(s, "deaf") THEN "deaf" ELSE "closing")
            /\ UNCHANGED ended
       ELSE /\ ended' = ended \cup {s}
            /\ UNCHANGED <<pendingWs, exchange>>
    /\ UNCHANGED <<reconnect, gateway, outbox, heard, born, pendingHttp,
                   chunkIndex, arrived, written>>

-------------------------------------------------------------------------------
(* Events of the local HTTP exchange *)

LocalEvent(s, loc) ==
    /\ GoTo(s, loc)
    /\ UNCHANGED <<reconnect, gateway, heard, born, requests>>

ResponseStarts(s) ==
    /\ At(s, "waiting")
    /\ Send(Msg(s, "start"))
    /\ LocalEvent(s, "responding")
    /\ UNCHANGED <<pendingHttp, pendingWs, chunkIndex>>

ResponseData(s) ==
    /\ At(s, "responding") /\ chunkIndex[s] < MaxChunks
    /\ Send(ChunkOf(s))
    /\ chunkIndex' = [chunkIndex EXCEPT ![s] = @ + 1]
    /\ LocalEvent(s, "responding")
    /\ UNCHANGED <<pendingHttp, pendingWs>>

HttpOver(s, type) ==
    /\ Send(Msg(s, type))
    /\ pendingHttp' = pendingHttp \ {s}
    /\ LocalEvent(s, "over")
    /\ UNCHANGED <<pendingWs, chunkIndex>>

ResponseEnds(s) == At(s, "responding") /\ HttpOver(s, "end")
RequestError(s) == exchange[s] \in {"waiting", "responding"} /\ HttpOver(s, "error")

(* A response cut short emits 'aborted' and 'close' on res, which has no   *)
(* listener for them: nothing is sent and the entry stays.                 *)
ResponseAborted(s) ==
    /\ At(s, "responding")
    /\ LocalEvent(s, "cut")
    /\ UNCHANGED <<outbox, pendingHttp, pendingWs, chunkIndex>>

(* Events of the local WebSocket *)

Current(s) == born[s] = connections /\ loop = "running"

(* 'open': the start message is queued.  When the connection has ended in  *)
(* the meantime it is refused, and the socket stays open.                  *)
LocalOpened(s) ==
    /\ At(s, "opening")
    /\ IF Current(s) THEN Send(Msg(s, "start")) ELSE UNCHANGED outbox
    /\ LocalEvent(s, IF Current(s) THEN "starting" ELSE "orphaned")
    /\ UNCHANGED <<pendingHttp, pendingWs, chunkIndex>>

LocalOpenFailed_Silent(s) ==            \* mutant: no stream_error
    /\ At(s, "opening")
    /\ LocalEvent(s, "over")
    /\ UNCHANGED <<outbox, pendingHttp, pendingWs, chunkIndex>>

LocalOpenFailed(s) ==
    /\ At(s, "opening")
    /\ IF Current(s) THEN Send(Msg(s, "error")) ELSE UNCHANGED outbox
    /\ LocalEvent(s, "over")
    /\ UNCHANGED <<pendingHttp, pendingWs, chunkIndex>>

(* 'message': dropped once the stream has left pendingWs.                  *)
LocalMessage(s) ==
    /\ At(s, "piped") /\ s \in pendingWs /\ chunkIndex[s] < MaxChunks
    /\ Send(ChunkOf(s))
    /\ chunkIndex' = [chunkIndex EXCEPT ![s] = @ + 1]
    /\ LocalEvent(s, "piped")
    /\ UNCHANGED <<pendingHttp, pendingWs>>

(* 'close': the end is sent, after a stream_error and after the gateway's  *)
(* own end too.                                                            *)
LocalClosed(s) ==
    /\ exchange[s] \in {"piped", "failed", "closing"}
    /\ Send(Msg(s, "end"))
    /\ pendingWs' = pendingWs \ {s}
    /\ LocalEvent(s, "over")
    /\ UNCHANGED <<pendingHttp, chunkIndex>>

LocalError(s) ==
    /\ exchange[s] \in {"piped", "closing"}
    /\ Send(Msg(s, "error"))
    /\ pendingWs' = pendingWs \ {s}
    /\ LocalEvent(s, "failed")
    /\ UNCHANGED <<pendingHttp, chunkIndex>>

(* 'close' before the listeners are attached.                              *)
LocalClosedUnheard(s) ==
    /\ exchange[s] \in {"starting", "orphaned"}
    /\ LocalEvent(s, IF At(s, "starting") THEN "lost" ELSE "over")
    /\ UNCHANGED <<outbox, pendingHttp, pendingWs, chunkIndex>>

-------------------------------------------------------------------------------
LoopStep ==
    \/ TokenFetched \/ TokenFailed \/ SocketOpened \/ SetupFailed
    \/ HelloSent \/ Woken \/ CloseEvent \/ ErrorEvent

GatewayStep(s) ==
    \/ StartHttpExchange(s) \/ HandleWsStart(s)
    \/ IngressChunk(s) \/ IngressChunkRefused(s) \/ IngressEnd(s)

LocalStep(s) ==
    \/ ResponseStarts(s) \/ ResponseData(s) \/ ResponseEnds(s)
    \/ RequestError(s) \/ ResponseAborted(s)
    \/ LocalOpened(s) \/ LocalOpenFailed(s) \/ LocalMessage(s)
    \/ LocalClosed(s) \/ LocalError(s) \/ LocalClosedUnheard(s)

Next ==
    \/ LoopStep
    \/ GatewayCloses \/ Ping
    \/ HeadSent \/ HeadFailed
    \/ \E s \in Streams : GatewayStep(s) \/ LocalStep(s)

Spec == Init /\ [][Next]_vars

(* Queued sends settle, a closing socket emits 'close', a delay ends.  The *)
(* API and the gateway may fail any number of times, but not for ever.     *)
(* Nothing is assumed of the local service or of what the gateway sends.   *)
Fairness ==
    /\ WF_vars(HeadSent \/ HeadFailed)
    /\ WF_vars(CloseEvent) /\ WF_vars(Woken)
    /\ WF_vars(HelloSent) /\ WF_vars(SetupFailed)
    /\ SF_vars(TokenFetched) /\ SF_vars(SocketOpened)

FairSpec == Spec /\ Fairness

-------------------------------------------------------------------------------
(* Safety *)

(* What the gateway hears about a stream is a response: the start comes    *)
(* first and once, the chunks are numbered without a gap, and no chunk     *)
(* follows an end or an error -- also when sends in between are refused or *)
(* time out, and when the local peer and the gateway end it at once.       *)
ResponsesWellFormed ==
    \A s \in Streams :
        LET said == heard[s]
        IN  \A i \in DOMAIN said :
              /\ said[i].type = "start" => i = 1
              /\ said[i].type = "chunk" =>
                   /\ said[i].index = i - 2
                   /\ \A j \in 1 .. i - 1 : said[j].type \in {"start", "chunk"}
              /\ said[i].type \in {"chunk", "end"} => said[1].type = "start"

(* After a connection has ended nothing of it is left: both maps are empty *)
(* and no local exchange goes on, except a WebSocket that was still being  *)
(* opened (it is in neither map, and nobody closes it).                    *)
CleanupLeavesNothing ==
    /\ loop # "running" => pendingHttp = {} /\ pendingWs = {}
    /\ \A s \in Streams :
         loop # "running" \/ born[s] # connections =>
            exchange[s] \in {"none", "over", "opening", "orphaned"}

(* No part of a request body is lost while its exchange is open.           *)
BodyIntact ==
    \A s \in Streams \ ended :
        exchange[s] \in {"waiting", "responding"} => written[s] = arrived[s]

DelayInBounds(attempt, ms) ==
    /\ 5 * ms >= 4 * BaseMs /\ ms <= CapMs
    /\ attempt = 1 => 5 * ms <= 6 * BaseMs

(* Every delay is between 0.8 s and 15 s, however often the agent has      *)
(* failed; the first one after a stable connection, at most 1.2 s, leaves  *)
(* most of the gateway's grace period (5 s by default, after which the     *)
(* tunnel is deleted).                                                     *)
BackoffWithinBounds ==
    /\ loop = "sleeping" => DelayInBounds(retryAttempt, delayMs)
    /\ \A attempt \in 1 .. 8, random \in Randoms :
          DelayInBounds(attempt, ReconnectDelay(attempt, random))

(* Liveness *)

Reported(s) == \E i \in DOMAIN heard[s] : heard[s][i].type \in {"end", "error"}

(* An exchange that is over is reported to the gateway, or the connection  *)
(* it came in on ends (which ends the stream at the gateway).              *)
FinishedReported ==
    \A s \in Streams : At(s, "over") ~> Reported(s) \/ ~Current(s)

(* The agent comes back after every failure: it is connected again, or has *)
(* exited for a close code that is final.                                  *)
AgentComesBack ==
    []<>(\/ loop = "running"
         \/ loop = "exited" /\ closeCode # None /\ ~IsRetryableGatewayCloseCode(closeCode))
===============================================================================
