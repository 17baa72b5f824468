---------------------------- MODULE CliAgentProofs ----------------------------
(***************************************************************************)
(* The invariants of CliAgent for any number of streams and connections,   *)
(* any close codes and any bounds: the types, the backoff, the clean-up of *)
(* a connection that has ended, the bodies of local requests, and what the *)
(* gateway hears of every exchange.                                        *)
(***************************************************************************)
EXTENDS CliAgent, FiniteSets, FiniteSetTheorems, TLAPS

(* A power of two is the number of subsets of some set, so it is positive. *)
LEMMA PowerPositive == \A n \in Nat : 2 ^ n \in Nat \ {0}
<1>. TAKE n \in Nat
<1>1. IsFiniteSet(1 .. n) /\ Cardinality(1 .. n) = n
  BY FS_Interval
<1>2. IsFiniteSet(SUBSET (1 .. n)) /\ Cardinality(SUBSET (1 .. n)) = 2 ^ n
  BY <1>1, FS_SUBSET
<1>3. Cardinality(SUBSET (1 .. n)) \in Nat /\ SUBSET (1 .. n) # {}
  BY <1>2, FS_CardinalityType
<1>. QED  BY <1>2, <1>3, FS_EmptySet

LEMMA PowerOfZero == 2 ^ 0 = 1
<1>1. Cardinality(SUBSET {}) = 2 ^ Cardinality({}) /\ Cardinality({}) = 0
  BY FS_SUBSET, FS_EmptySet
<1>2. SUBSET {} = {{}}
  OBVIOUS
<1>. QED  BY <1>1, <1>2, FS_Singleton

(* The jitter is at most a fifth of the delay, either way.                 *)
LEMMA JitterBounded ==
  ASSUME NEW span \in Nat, NEW random \in 0 .. 100
  PROVE  /\ ((2 * random - 100) * span) \div 100 \in Int
         /\ -span <= ((2 * random - 100) * span) \div 100
         /\ ((2 * random - 100) * span) \div 100 <= span
<1>1. PICK x : x = (2 * random - 100) * span
  OBVIOUS
<1>2. x \in Int /\ -100 * span <= x /\ x <= 100 * span
  BY <1>1
<1>. QED  BY <1>1, <1>2

LEMMA DelayBounded ==
  ASSUME NEW attempt \in Nat, NEW random \in 0 .. 100
  PROVE  /\ ReconnectDelay(attempt, random) \in 0 .. CapMs
         /\ DelayInBounds(attempt, ReconnectDelay(attempt, random))
<1>. DEFINE power == 2 ^ (Larger(1, attempt) - 1)
            exponential == Smaller(CapMs, BaseMs * power)
            span == exponential \div 5
            jitter == ((2 * random - 100) * span) \div 100
<1>1. Larger(1, attempt) - 1 \in Nat /\ (attempt = 1 => Larger(1, attempt) - 1 = 0)
  BY DEF Larger
<1>2. power \in Nat \ {0} /\ (attempt = 1 => power = 1)
  BY <1>1, PowerPositive, PowerOfZero
<1>3. /\ exponential \in 1000 .. 15000
      /\ attempt = 1 => exponential = 1000
  <2>1. PICK product : product = BaseMs * power
    OBVIOUS
  <2>2. exponential = Smaller(CapMs, product)
    BY <2>1
  <2>. HIDE DEF power, exponential
  <2>3. product \in Nat /\ product >= 1000 /\ (attempt = 1 => product = 1000)
    BY <1>2, <2>1 DEF BaseMs
  <2>. QED  BY <2>2, <2>3 DEF Smaller, CapMs
<1>. HIDE DEF exponential
<1>4. span \in Nat /\ 5 * span <= exponential
  BY <1>3
<1>. HIDE DEF span
<1>5. jitter \in Int /\ -span <= jitter /\ jitter <= span
  BY <1>4, JitterBounded
<1>. HIDE DEF jitter
<1>6. ReconnectDelay(attempt, random) = Larger(0, Smaller(CapMs, exponential + jitter))
  BY DEF ReconnectDelay, exponential, span, jitter
<1>7. PICK sum : sum = exponential + jitter
  OBVIOUS
<1>8. sum \in Int /\ 5 * sum >= 4000 /\ (attempt = 1 => 5 * sum <= 6000)
  BY <1>3, <1>4, <1>5, <1>7
<1>9. ReconnectDelay(attempt, random) = Larger(0, Smaller(15000, sum))
  BY <1>6, <1>7 DEF CapMs
<1>. QED  BY <1>8, <1>9 DEF Larger, Smaller, DelayInBounds, BaseMs, CapMs

LEMMA RetryTyped ==
  ASSUME NEW failures \in Nat, RetryLater(failures)
  PROVE  /\ loop' = "sleeping" /\ exitCode' = exitCode
         /\ retryAttempt' \in 1 .. MaxAttempts
         /\ delayMs' \in 0 .. CapMs /\ DelayInBounds(retryAttempt', delayMs')
<1>1. loop' = "sleeping" /\ exitCode' = exitCode
  BY DEF RetryLater
<1>2. retryAttempt' \in 1 .. MaxAttempts
  BY AgentAssumption DEF RetryLater, Smaller
<1>3. PICK random \in 0 .. 100 : delayMs' = ReconnectDelay(retryAttempt', random)
  BY AgentAssumption DEF RetryLater
<1>4. /\ ReconnectDelay(retryAttempt', random) \in 0 .. CapMs
      /\ DelayInBounds(retryAttempt', ReconnectDelay(retryAttempt', random))
  <2>1. retryAttempt' \in Nat
    BY <1>2, AgentAssumption
  <2>. QED  BY <2>1, DelayBounded
<1>. QED  BY <1>1, <1>2, <1>3, <1>4

--------------------------------------------------------------------------------
(* Types                                                                   *)

LoopTyped ==
  /\ loop \in LoopLocations
  /\ retryAttempt \in 0 .. MaxAttempts
  /\ delayMs \in 0 .. CapMs
  /\ exitCode \in {0, 1}
  /\ ws \in {"none", "connecting", "open", "closing", "closed"}
  /\ closeCode \in Codes \cup {None, 1011}
  /\ connections \in 0 .. MaxConnections

SentTyped == outbox \in Seq(Message) /\ heard \in [Streams -> Seq(Message)]

MapsTyped ==
  /\ exchange \in [Streams -> Locations]
  /\ born \in [Streams -> Nat]
  /\ pendingHttp \in SUBSET Streams
  /\ pendingWs \in SUBSET Streams
  /\ chunkIndex \in [Streams -> Nat]

BodiesTyped ==
  /\ ended \in SUBSET Streams
  /\ arrived \in [Streams -> Nat]
  /\ written \in [Streams -> Nat]

LEMMA TypeParts == TypeOK => LoopTyped /\ SentTyped /\ MapsTyped /\ BodiesTyped
BY DEF TypeOK, LoopTyped, SentTyped, MapsTyped, BodiesTyped

LEMMA TypePartsNext ==
  ASSUME LoopTyped', SentTyped', MapsTyped', BodiesTyped'
  PROVE  TypeOK'
BY DEF TypeOK, LoopTyped, SentTyped, MapsTyped, BodiesTyped

LEMMA TypeInit == Init => TypeOK
<1>. SUFFICES ASSUME Init PROVE TypeOK
  OBVIOUS
<1>. USE AgentAssumption
<1>1. LoopTyped
  BY DEF Init, LoopTyped, LoopLocations, CapMs
<1>2. SentTyped
  BY DEF Init, SentTyped
<1>3. MapsTyped
  BY DEF Init, MapsTyped, Locations
<1>4. BodiesTyped
  BY DEF Init, BodiesTyped
<1>. QED  BY <1>1, <1>2, <1>3, <1>4 DEF TypeOK, LoopTyped, SentTyped, MapsTyped, BodiesTyped

(* The loop and the gateway socket.                                        *)
LEMMA LoopStepTyped ==
  ASSUME LoopTyped, LoopStep
  PROVE  LoopTyped'
<1>. USE AgentAssumption DEF LoopTyped, LoopLocations, gateway
<1>1. CASE TokenFetched
  BY <1>1 DEF TokenFetched
<1>2. CASE TokenFailed
  BY <1>2, RetryTyped DEF TokenFailed
<1>3. CASE SocketOpened
  BY <1>3 DEF SocketOpened
<1>4. CASE SetupFailed
  BY <1>4, RetryTyped DEF SetupFailed
<1>5. CASE HelloSent
  BY <1>5 DEF HelloSent
<1>6. CASE Woken
  BY <1>6 DEF Woken, CapMs
<1>7. ASSUME NEW code, NEW durationMs, ConnectionEnds(code, durationMs) PROVE LoopTyped'
  <2>1. ws' = "closed" /\ UNCHANGED <<closeCode, connections>>
    BY <1>7 DEF ConnectionEnds
  <2>2. CASE RetryLater(IF durationMs >= StableMs THEN 0 ELSE retryAttempt)
    BY <2>1, <2>2, RetryTyped
  <2>3. CASE /\ loop' = "exited"
             /\ exitCode' = IF ExitsNonZero(code) THEN 1 ELSE exitCode
             /\ UNCHANGED <<retryAttempt, delayMs>>
    BY <2>1, <2>3
  <2>. QED  BY <1>7, <2>2, <2>3 DEF ConnectionEnds
<1>. QED
  BY <1>1, <1>2, <1>3, <1>4, <1>5, <1>6, <1>7 DEF LoopStep, CloseEvent, ErrorEvent

LEMMA LoopTypedNext ==
  ASSUME LoopTyped, [Next]_vars
  PROVE  LoopTyped'
<1>1. CASE LoopStep
  BY <1>1, LoopStepTyped
<1>2. CASE GatewayCloses
  BY <1>2 DEF GatewayCloses, LoopTyped, reconnect
<1>3. ASSUME UNCHANGED <<reconnect, connections>>, CloseGateway PROVE LoopTyped'
  BY <1>3 DEF CloseGateway, LoopTyped, reconnect
<1>4. ASSUME UNCHANGED <<reconnect, gateway>> PROVE LoopTyped'
  BY <1>4 DEF LoopTyped, reconnect, gateway
<1>5. CASE HeadFailed
  BY <1>3, <1>4, <1>5 DEF HeadFailed, SendRejected, gateway
<1>6. CASE UNCHANGED vars \/ HeadSent \/ Ping
  BY <1>4, <1>6 DEF vars, HeadSent, Ping
<1>7. ASSUME NEW s \in Streams, GatewayStep(s) PROVE LoopTyped'
  BY <1>3, <1>4, <1>7 DEF GatewayStep, StartHttpExchange, HandleWsStart, StartExchange,
     IngressChunk, IngressChunkRefused, IngressEnd
<1>8. ASSUME NEW s \in Streams, LocalStep(s) PROVE LoopTyped'
  BY <1>4, <1>8 DEF LocalStep, ResponseStarts, ResponseData, ResponseEnds, RequestError,
     ResponseAborted, LocalOpened, LocalOpenFailed, LocalMessage, LocalClosed, LocalError,
     LocalClosedUnheard, HttpOver, LocalEvent
<1>. QED  BY <1>1, <1>2, <1>5, <1>6, <1>7, <1>8 DEF Next

(* Messages.                                                               *)
LEMMA MessageTyped ==
  ASSUME MapsTyped, NEW s \in Streams
  PROVE  /\ \A type \in {"start", "end", "error"} : Msg(s, type) \in Message
         /\ ChunkOf(s) \in Message
         /\ Msg(None, "pong") \in Message
BY DEF MapsTyped, Msg, ChunkOf, Message

LEMMA HeadTyped ==
  ASSUME SentTyped, outbox # <<>>
  PROVE  /\ Head1 \in Message /\ Tail(outbox) \in Seq(Message)
         /\ Head1.stream # None => Head1.stream \in Streams
         /\ WsStart(Head1) => /\ Head1.stream \in Streams
                             /\ exchange[Head1.stream] \in {"starting", "lost"}
<1>1. Head1 \in Message /\ Tail(outbox) \in Seq(Message)
  BY DEF SentTyped, Head1
<1>. QED  BY <1>1 DEF Message, WsStart

LEMMA SentTypedNext ==
  ASSUME SentTyped, MapsTyped, [Next]_vars
  PROVE  SentTyped'
<1>1. ASSUME UNCHANGED heard, outbox' \in Seq(Message) PROVE SentTyped'
  BY <1>1 DEF SentTyped
<1>2. ASSUME UNCHANGED <<outbox, heard>> PROVE SentTyped'
  BY <1>2 DEF SentTyped
<1>3. ASSUME NEW m \in Message, Send(m), UNCHANGED heard PROVE SentTyped'
  BY <1>3 DEF SentTyped, Send
<1>4. CASE UNCHANGED vars
  BY <1>2, <1>4 DEF vars
<1>5. CASE LoopStep
  <2>1. UNCHANGED heard /\ (UNCHANGED outbox \/ outbox' = <<>>)
    BY <1>5 DEF LoopStep, TokenFetched, TokenFailed, SocketOpened, SetupFailed, HelloSent,
       Woken, CloseEvent, ErrorEvent, ConnectionEnds
  <2>2. CASE UNCHANGED outbox
    BY <1>2, <2>1, <2>2
  <2>3. CASE outbox' = <<>>
    BY <1>1, <2>1, <2>3
  <2>. QED  BY <2>1, <2>2, <2>3
<1>6. CASE GatewayCloses
  BY <1>2, <1>6 DEF GatewayCloses
<1>7. CASE Ping
  <2>1. Msg(None, "pong") \in Message
    BY DEF Msg, Message
  <2>. QED  BY <1>3, <1>7, <2>1 DEF Ping
<1>8. CASE HeadSent
  <2>1. outbox' \in Seq(Message) /\ Head1 \in Message
    BY <1>8, HeadTyped DEF HeadSent
  <2>2. CASE Head1.stream = None
    BY <1>1, <1>8, <2>1, <2>2 DEF HeadSent
  <2>3. CASE Head1.stream # None
    <3>1. Head1.stream \in Streams
      BY <1>8, <2>3, HeadTyped DEF HeadSent
    <3>2. heard' = [heard EXCEPT ![Head1.stream] = Append(@, Head1)]
      BY <1>8, <2>3 DEF HeadSent
    <3>3. Append(heard[Head1.stream], Head1) \in Seq(Message)
      BY <2>1, <3>1 DEF SentTyped
    <3>. QED  BY <2>1, <3>1, <3>2, <3>3 DEF SentTyped
  <2>. QED  BY <2>2, <2>3
<1>9. CASE HeadFailed
  <2>1. outbox # <<>> /\ UNCHANGED heard /\ SendRejected
    BY <1>9 DEF HeadFailed
  <2>2. Tail(outbox) \in Seq(Message)
    BY <2>1, HeadTyped
  <2>3. CASE WsStart(Head1)
    <3>1. Msg(Head1.stream, "error") \in Message
      BY <2>1, <2>3, HeadTyped, MessageTyped
    <3>2. outbox' = Append(Tail(outbox), Msg(Head1.stream, "error"))
      BY <2>1, <2>3 DEF SendRejected
    <3>. QED  BY <1>1, <2>1, <2>2, <3>1, <3>2
  <2>4. CASE ~WsStart(Head1)
    BY <1>1, <2>1, <2>2, <2>4 DEF SendRejected
  <2>. QED  BY <2>3, <2>4
<1>10. ASSUME NEW s \in Streams, GatewayStep(s) PROVE SentTyped'
  BY <1>2, <1>10 DEF GatewayStep, StartHttpExchange, HandleWsStart, StartExchange,
     IngressChunk, IngressChunkRefused, IngressEnd
<1>11. ASSUME NEW s \in Streams, LocalStep(s) PROVE SentTyped'
  <2>1. UNCHANGED heard
    BY <1>11 DEF LocalStep, ResponseStarts, ResponseData, ResponseEnds, RequestError,
       ResponseAborted, LocalOpened, LocalOpenFailed, LocalMessage, LocalClosed, LocalError,
       LocalClosedUnheard, HttpOver, LocalEvent
  <2>2. \/ UNCHANGED outbox \/ Send(ChunkOf(s))
        \/ \E type \in {"start", "end", "error"} : Send(Msg(s, type))
    BY <1>11 DEF LocalStep, ResponseStarts, ResponseData, ResponseEnds, RequestError,
       ResponseAborted, LocalOpened, LocalOpenFailed, LocalMessage, LocalClosed, LocalError,
       LocalClosedUnheard, HttpOver
  <2>. QED  BY <1>2, <1>3, <2>1, <2>2, MessageTyped
<1>. QED  BY <1>4, <1>5, <1>6, <1>7, <1>8, <1>9, <1>10, <1>11 DEF Next

(* Exchanges and maps.                                                     *)
LEMMA MapsTypedNext ==
  ASSUME SentTyped, MapsTyped, connections \in Nat, [Next]_vars
  PROVE  MapsTyped'
<1>. USE DEF MapsTyped, Locations, GoTo
<1>1. ASSUME UNCHANGED local PROVE MapsTyped'
  BY <1>1 DEF local
<1>2. CASE UNCHANGED vars
  BY <1>1, <1>2 DEF vars
<1>3. CASE LoopStep
  <2>1. CASE CleanupStreams /\ UNCHANGED <<born, chunkIndex>>
    BY <2>1 DEF CleanupStreams, At
  <2>. QED
    BY <1>1, <1>3, <2>1 DEF LoopStep, TokenFetched, TokenFailed, SocketOpened, SetupFailed,
       HelloSent, Woken, CloseEvent, ErrorEvent, ConnectionEnds
<1>4. CASE GatewayCloses \/ Ping
  BY <1>1, <1>4 DEF GatewayCloses, Ping
<1>5. CASE HeadSent
  <2>1. UNCHANGED <<born, pendingHttp, chunkIndex>>
    BY <1>5 DEF HeadSent
  <2>2. CASE WsStart(Head1)
    <3>1. /\ pendingWs' = pendingWs \cup {Head1.stream}
          /\ exchange' = [exchange EXCEPT ![Head1.stream] =
                            IF At(Head1.stream, "lost") THEN "deaf" ELSE "piped"]
      BY <1>5, <2>2 DEF HeadSent
    <3>2. Head1.stream \in Streams
      BY <1>5, <2>2, HeadTyped DEF HeadSent
    <3>. QED  BY <2>1, <3>1, <3>2
  <2>3. CASE ~WsStart(Head1)
    BY <1>1, <1>5, <2>3 DEF HeadSent, local
  <2>. QED  BY <2>2, <2>3
<1>6. CASE HeadFailed
  <2>1. UNCHANGED <<born, pendingHttp, pendingWs, chunkIndex>>
    BY <1>6 DEF HeadFailed
  <2>2. UNCHANGED exchange \/ \E s, loc : GoTo(s, loc) /\ loc \in {"over", "orphaned"}
    BY <1>6 DEF HeadFailed, SendRejected
  <2>. QED  BY <2>1, <2>2
<1>7. ASSUME NEW s \in Streams, StartHttpExchange(s) \/ HandleWsStart(s) PROVE MapsTyped'
  BY <1>7 DEF StartHttpExchange, HandleWsStart, StartExchange
<1>8. ASSUME NEW s \in Streams, IngressChunk(s) \/ IngressChunkRefused(s) PROVE MapsTyped'
  BY <1>1, <1>8 DEF IngressChunk, IngressChunkRefused
<1>9. ASSUME NEW s \in Streams, IngressEnd(s) PROVE MapsTyped'
  BY <1>9 DEF IngressEnd
<1>10. ASSUME NEW s \in Streams, LocalStep(s) PROVE MapsTyped'
  <2>1. PICK loc \in Locations : LocalEvent(s, loc)
    BY <1>10 DEF LocalStep, ResponseStarts, ResponseData, ResponseEnds, RequestError,
       ResponseAborted, LocalOpened, LocalOpenFailed, LocalMessage, LocalClosed, LocalError,
       LocalClosedUnheard, HttpOver
  <2>2. exchange' \in [Streams -> Locations] /\ born' = born
    BY <2>1 DEF LocalEvent
  <2>3. pendingHttp' \subseteq pendingHttp /\ pendingWs' \subseteq pendingWs
    BY <1>10 DEF LocalStep, ResponseStarts, ResponseData, ResponseEnds, RequestError,
       ResponseAborted, LocalOpened, LocalOpenFailed, LocalMessage, LocalClosed, LocalError,
       LocalClosedUnheard, HttpOver
  <2>4. chunkIndex' = chunkIndex \/ chunkIndex' = [chunkIndex EXCEPT ![s] = @ + 1]
    BY <1>10 DEF LocalStep, ResponseStarts, ResponseData, ResponseEnds, RequestError,
       ResponseAborted, LocalOpened, LocalOpenFailed, LocalMessage, LocalClosed, LocalError,
       LocalClosedUnheard, HttpOver
  <2>. QED  BY <2>2, <2>3, <2>4
<1>. QED  BY <1>2, <1>3, <1>4, <1>5, <1>6, <1>7, <1>8, <1>9, <1>10 DEF Next, GatewayStep

LEMMA BodiesTypedNext ==
  ASSUME BodiesTyped, [Next]_vars
  PROVE  BodiesTyped'
<1>1. ASSUME UNCHANGED requests PROVE BodiesTyped'
  BY <1>1 DEF requests, BodiesTyped
<1>2. CASE UNCHANGED vars
  BY <1>1, <1>2 DEF vars
<1>3. CASE LoopStep \/ GatewayCloses \/ Ping \/ HeadSent \/ HeadFailed
  BY <1>1, <1>3 DEF LoopStep, TokenFetched, TokenFailed, SocketOpened, SetupFailed, HelloSent,
     Woken, CloseEvent, ErrorEvent, ConnectionEnds, GatewayCloses, Ping, HeadSent, HeadFailed
<1>4. ASSUME NEW s \in Streams, StartHttpExchange(s) \/ HandleWsStart(s) PROVE BodiesTyped'
  BY <1>1, <1>4 DEF StartHttpExchange, HandleWsStart, StartExchange
<1>5. ASSUME NEW s \in Streams, IngressChunk(s) \/ IngressChunkRefused(s) \/ IngressEnd(s)
      PROVE  BodiesTyped'
  BY <1>5 DEF IngressChunk, IngressChunkRefused, IngressEnd, Arrives, BodiesTyped
<1>6. ASSUME NEW s \in Streams, LocalStep(s) PROVE BodiesTyped'
  BY <1>1, <1>6 DEF LocalStep, ResponseStarts, ResponseData, ResponseEnds, RequestError,
     ResponseAborted, LocalOpened, LocalOpenFailed, LocalMessage, LocalClosed, LocalError,
     LocalClosedUnheard, HttpOver, LocalEvent
<1>. QED  BY <1>2, <1>3, <1>4, <1>5, <1>6 DEF Next, GatewayStep

LEMMA TypeNext == TypeOK /\ [Next]_vars => TypeOK'
<1>. SUFFICES ASSUME TypeOK, [Next]_vars PROVE TypeOK'
  OBVIOUS
<1>1. LoopTyped /\ SentTyped /\ MapsTyped /\ BodiesTyped
  BY TypeParts
<1>2. connections \in Nat
  BY <1>1, AgentAssumption DEF LoopTyped
<1>3. LoopTyped' /\ SentTyped' /\ MapsTyped' /\ BodiesTyped'
  BY <1>1, <1>2, LoopTypedNext, SentTypedNext, MapsTypedNext, BodiesTypedNext
<1>. QED  BY <1>3, TypePartsNext

(* The loop, the queue, the maps and the counters keep their types: a      *)
(* delay is never negative nor longer than 15 s.                           *)
THEOREM TypeCorrect == Spec => []TypeOK
BY TypeInit, TypeNext, PTL DEF Spec

--------------------------------------------------------------------------------
(* Where an exchange is and which maps know it.  An exchange in between    *)
(* belongs to the connection that is up.                                   *)
AtRest == {"none", "over", "opening", "orphaned"}

Placed(s) ==
  /\ s \in pendingHttp <=> exchange[s] \in {"waiting", "responding", "cut"}
  /\ s \in pendingWs => exchange[s] \in {"piped", "deaf"}
  /\ exchange[s] = "piped" => s \in pendingWs
  /\ exchange[s] \notin AtRest => loop = "running" /\ born[s] = connections

Exchanges == \A s \in Streams : Placed(s)

(* A step moves one exchange and its entries; the others are where they    *)
(* were.                                                                   *)
OthersPlaced(s) ==
  \A q \in Streams \ {s} :
    /\ exchange'[q] = exchange[q] /\ born'[q] = born[q]
    /\ q \in pendingHttp' <=> q \in pendingHttp
    /\ q \in pendingWs' <=> q \in pendingWs

LEMMA OnePlaced ==
  ASSUME Exchanges, NEW s \in Streams, OthersPlaced(s), Placed(s)',
         UNCHANGED <<loop, connections>>
  PROVE  Exchanges'
BY DEF Exchanges, OthersPlaced, Placed

LEMMA NonePlaced ==
  ASSUME Exchanges, UNCHANGED local, UNCHANGED <<loop, connections>>
  PROVE  Exchanges'
BY DEF Exchanges, Placed, local

(* Without a connection no exchange is in between.                         *)
LEMMA LoopPlaced ==
  ASSUME Exchanges, UNCHANGED local, loop # "running",
         loop' # "running" \/ UNCHANGED connections
  PROVE  Exchanges'
BY DEF Exchanges, Placed, AtRest, local

LEMMA ExchangesLoop ==
  ASSUME TypeOK, Exchanges, LoopStep
  PROVE  Exchanges'
<1>1. CASE \/ TokenFetched \/ TokenFailed \/ SocketOpened \/ SetupFailed \/ HelloSent \/ Woken
  BY <1>1, LoopPlaced DEF TokenFetched, TokenFailed, SocketOpened, SetupFailed, HelloSent,
     Woken, RetryLater, gateway
<1>2. ASSUME NEW code, NEW durationMs, ConnectionEnds(code, durationMs) PROVE Exchanges'
  <2>1. /\ CleanupStreams
        /\ UNCHANGED <<born, connections>>
    BY <1>2 DEF ConnectionEnds
  <2>2. \A s \in Streams : exchange'[s] \in AtRest
    <3>. SUFFICES ASSUME NEW s \in Streams PROVE exchange'[s] \in AtRest
      OBVIOUS
    <3>1. exchange[s] \in Locations /\ Placed(s)
      BY DEF TypeOK, Exchanges
    <3>. QED  BY <2>1, <3>1 DEF CleanupStreams, At, AtRest, Locations, Placed
  <2>3. pendingHttp' = {} /\ pendingWs' = {}
    BY <2>1 DEF CleanupStreams
  <2>. QED  BY <2>2, <2>3 DEF Exchanges, Placed, AtRest
<1>. QED  BY <1>1, <1>2 DEF LoopStep, CloseEvent, ErrorEvent

LEMMA ExchangesSent ==
  ASSUME TypeOK, Exchanges, HeadSent \/ HeadFailed
  PROVE  Exchanges'
<1>0. SentTyped /\ MapsTyped /\ outbox # <<>>
  BY TypeParts DEF HeadSent, HeadFailed
<1>1. UNCHANGED <<loop, connections, born, pendingHttp>>
  BY DEF HeadSent, HeadFailed, reconnect, gateway
<1>2. CASE ~WsStart(Head1)
  BY <1>1, <1>2, NonePlaced DEF HeadSent, HeadFailed, SendRejected, local, Exchanges, Placed
<1>3. CASE WsStart(Head1)
  <2>1. PICK s \in Streams : s = Head1.stream /\ exchange[s] \in {"starting", "lost"}
    BY <1>0, <1>3, HeadTyped
  <2>2. Placed(s) /\ loop = "running" /\ born[s] = connections
    BY <2>1 DEF Exchanges, Placed, AtRest
  <2>3. CASE HeadSent
    <3>1. /\ pendingWs' = pendingWs \cup {s}
          /\ exchange' = [exchange EXCEPT ![s] = IF At(s, "lost") THEN "deaf" ELSE "piped"]
      BY <1>3, <2>1, <2>3 DEF HeadSent, GoTo
    <3>2. exchange'[s] \in {"deaf", "piped"} /\ s \notin pendingHttp
      BY <1>0, <2>1, <2>2, <3>1 DEF MapsTyped, Placed
    <3>3. Placed(s)'
      BY <1>1, <2>2, <3>1, <3>2 DEF Placed
    <3>4. OthersPlaced(s)
      BY <1>0, <1>1, <3>1 DEF OthersPlaced, MapsTyped
    <3>. QED  BY <1>1, <3>3, <3>4, OnePlaced
  <2>4. CASE HeadFailed
    <3>1. /\ pendingWs' = pendingWs
          /\ exchange' = [exchange EXCEPT ![s] = IF At(s, "lost") THEN "over" ELSE "orphaned"]
      BY <1>3, <2>1, <2>4 DEF HeadFailed, SendRejected, GoTo
    <3>2. exchange'[s] \in {"over", "orphaned"} /\ s \notin pendingHttp /\ s \notin pendingWs
      BY <1>0, <2>1, <2>2, <3>1 DEF MapsTyped, Placed
    <3>3. Placed(s)'
      BY <1>1, <3>1, <3>2 DEF Placed, AtRest
    <3>4. OthersPlaced(s)
      BY <1>0, <1>1, <3>1 DEF OthersPlaced, MapsTyped
    <3>. QED  BY <1>1, <3>3, <3>4, OnePlaced
  <2>. QED  BY <2>3, <2>4
<1>. QED  BY <1>2, <1>3

LEMMA ExchangesGateway ==
  ASSUME TypeOK, Exchanges, NEW s \in Streams, GatewayStep(s)
  PROVE  Exchanges'
<1>0. MapsTyped /\ Placed(s)
  BY TypeParts DEF Exchanges
<1>1. UNCHANGED <<loop, connections>>
  BY DEF GatewayStep, StartHttpExchange, HandleWsStart, StartExchange, IngressChunk,
     IngressChunkRefused, IngressEnd, reconnect, gateway
<1>2. CASE StartHttpExchange(s)
  <2>1. /\ exchange' = [exchange EXCEPT ![s] = "waiting"]
        /\ born' = [born EXCEPT ![s] = connections]
        /\ pendingHttp' = pendingHttp \cup {s} /\ pendingWs' = pendingWs
        /\ loop = "running" /\ exchange[s] = "none"
    BY <1>2 DEF StartHttpExchange, StartExchange, GoTo, Listening, At
  <2>2. Placed(s)' /\ OthersPlaced(s)
    BY <1>0, <1>1, <2>1 DEF MapsTyped, Placed, OthersPlaced
  <2>. QED  BY <1>1, <2>2, OnePlaced
<1>3. CASE HandleWsStart(s)
  <2>1. /\ exchange' = [exchange EXCEPT ![s] = "opening"]
        /\ born' = [born EXCEPT ![s] = connections]
        /\ pendingHttp' = pendingHttp /\ pendingWs' = pendingWs /\ exchange[s] = "none"
    BY <1>3 DEF HandleWsStart, StartExchange, GoTo, At
  <2>2. Placed(s)' /\ OthersPlaced(s)
    BY <1>0, <1>1, <2>1 DEF MapsTyped, Placed, OthersPlaced, AtRest
  <2>. QED  BY <1>1, <2>2, OnePlaced
<1>4. CASE IngressChunk(s) \/ IngressChunkRefused(s)
  BY <1>1, <1>4, NonePlaced DEF IngressChunk, IngressChunkRefused
<1>5. CASE IngressEnd(s)
  <2>1. CASE s \in pendingWs
    <3>1. /\ exchange' = [exchange EXCEPT ![s] = IF At(s, "deaf") THEN "deaf" ELSE "closing"]
          /\ pendingWs' = pendingWs \ {s} /\ UNCHANGED <<born, pendingHttp>>
      BY <1>5, <2>1 DEF IngressEnd, GoTo
    <3>2. Placed(s)' /\ OthersPlaced(s)
      BY <1>0, <1>1, <2>1, <3>1 DEF MapsTyped, Placed, OthersPlaced, At, AtRest
    <3>. QED  BY <1>1, <3>2, OnePlaced
  <2>2. CASE s \notin pendingWs
    BY <1>1, <1>5, <2>2, NonePlaced DEF IngressEnd, local
  <2>. QED  BY <2>1, <2>2
<1>. QED  BY <1>2, <1>3, <1>4, <1>5 DEF GatewayStep

LEMMA ExchangesLocal ==
  ASSUME TypeOK, Exchanges, NEW s \in Streams, LocalStep(s)
  PROVE  Exchanges'
<1>0. MapsTyped /\ Placed(s)
  BY TypeParts DEF Exchanges
<1>. DEFINE Moves(loc) ==
       /\ exchange' = [exchange EXCEPT ![s] = loc]
       /\ UNCHANGED <<born, loop, connections>>
<1>1. ASSUME NEW loc, Moves(loc), loc \in {"waiting", "responding", "cut"},
             exchange[s] \in {"waiting", "responding", "cut"},
             UNCHANGED <<pendingHttp, pendingWs>>
      PROVE  Exchanges'
  <2>1. Placed(s)' /\ OthersPlaced(s)
    BY <1>0, <1>1 DEF MapsTyped, Placed, OthersPlaced, AtRest
  <2>. QED  BY <1>1, <2>1, OnePlaced
<1>2. ASSUME NEW loc, Moves(loc), loc \in AtRest \cup {"starting", "lost", "failed"},
             loc \in AtRest \/ (loop = "running" /\ born[s] = connections),
             pendingHttp' = pendingHttp \ {s}, pendingWs' = pendingWs \ {s}
      PROVE  Exchanges'
  <2>1. Placed(s)' /\ OthersPlaced(s)
    BY <1>0, <1>2 DEF MapsTyped, Placed, OthersPlaced, AtRest
  <2>. QED  BY <1>2, <2>1, OnePlaced
<1>. USE DEF LocalEvent, GoTo, reconnect, gateway, At
<1>3. CASE ResponseStarts(s) \/ ResponseData(s) \/ ResponseAborted(s)
  BY <1>1, <1>3 DEF ResponseStarts, ResponseData, ResponseAborted
<1>4. CASE ResponseEnds(s) \/ RequestError(s)
  <2>1. /\ Moves("over") /\ exchange[s] \in {"waiting", "responding"}
        /\ pendingHttp' = pendingHttp \ {s} /\ pendingWs' = pendingWs
    BY <1>4 DEF ResponseEnds, RequestError, HttpOver
  <2>2. pendingWs \ {s} = pendingWs
    BY <1>0, <2>1 DEF Placed
  <2>. QED  BY <1>2, <2>1, <2>2 DEF AtRest
<1>5. CASE LocalOpened(s) \/ LocalOpenFailed(s) \/ LocalClosedUnheard(s)
  <2>1. PICK loc \in {"starting", "orphaned", "over", "lost"} :
          /\ Moves(loc) /\ exchange[s] \in {"opening", "starting", "orphaned"}
          /\ loc = "starting" => Current(s)
          /\ loc = "lost" => exchange[s] = "starting"
          /\ pendingHttp' = pendingHttp /\ pendingWs' = pendingWs
    BY <1>5 DEF LocalOpened, LocalOpenFailed, LocalClosedUnheard
  <2>2. pendingHttp \ {s} = pendingHttp /\ pendingWs \ {s} = pendingWs
    BY <1>0, <2>1 DEF Placed
  <2>3. loc \in AtRest \/ (loop = "running" /\ born[s] = connections)
    BY <1>0, <2>1 DEF Placed, AtRest, Current
  <2>. QED  BY <1>2, <2>1, <2>2, <2>3 DEF AtRest
<1>6. CASE LocalMessage(s)
  <2>1. exchange' = exchange /\ UNCHANGED <<born, pendingHttp, pendingWs, loop, connections>>
    BY <1>0, <1>6 DEF LocalMessage, MapsTyped
  <2>. QED  BY <2>1 DEF Exchanges, Placed
<1>7. CASE LocalClosed(s) \/ LocalError(s)
  <2>1. PICK loc \in {"over", "failed"} :
          /\ Moves(loc) /\ exchange[s] \in {"piped", "failed", "closing"}
          /\ pendingHttp' = pendingHttp /\ pendingWs' = pendingWs \ {s}
    BY <1>7 DEF LocalClosed, LocalError
  <2>2. pendingHttp \ {s} = pendingHttp /\ loop = "running" /\ born[s] = connections
    BY <1>0, <2>1 DEF Placed, AtRest
  <2>. QED  BY <1>2, <2>1, <2>2 DEF AtRest
<1>. QED  BY <1>3, <1>4, <1>5, <1>6, <1>7 DEF LocalStep

LEMMA ExchangesNext ==
  ASSUME TypeOK, Exchanges, [Next]_vars
  PROVE  Exchanges'
<1>1. CASE UNCHANGED vars
  BY <1>1, NonePlaced DEF vars, reconnect, gateway
<1>2. CASE GatewayCloses \/ Ping
  BY <1>2, NonePlaced DEF GatewayCloses, Ping, reconnect, gateway
<1>. QED
  BY <1>1, <1>2, ExchangesLoop, ExchangesSent, ExchangesGateway, ExchangesLocal DEF Next

(* After a connection has ended, whatever it was in the middle of, no map  *)
(* holds an entry and no local exchange goes on, except a WebSocket still  *)
(* being opened.                                                           *)
THEOREM CleanedUp == Spec => []CleanupLeavesNothing
<1>1. Init => TypeOK /\ Exchanges
  BY TypeInit DEF Init, Exchanges, Placed, AtRest
<1>2. TypeOK /\ Exchanges /\ [Next]_vars => TypeOK' /\ Exchanges'
  BY TypeNext, ExchangesNext
<1>3. TypeOK /\ Exchanges => CleanupLeavesNothing
  <2>. SUFFICES ASSUME TypeOK, Exchanges PROVE CleanupLeavesNothing
    OBVIOUS
  <2>1. pendingHttp \subseteq Streams /\ pendingWs \subseteq Streams
    BY DEF TypeOK
  <2>2. \A s \in Streams : loop # "running" \/ born[s] # connections =>
          exchange[s] \in AtRest
    BY DEF Exchanges, Placed
  <2>3. \A s \in Streams : loop # "running" => s \notin pendingHttp /\ s \notin pendingWs
    BY <2>2 DEF Exchanges, Placed, AtRest
  <2>. QED  BY <2>1, <2>2, <2>3 DEF AtRest, CleanupLeavesNothing
<1>. QED  BY <1>1, <1>2, <1>3, PTL DEF Spec

--------------------------------------------------------------------------------
(* Request bodies: nothing has arrived before the exchange starts, and     *)
(* while it is open every chunk that arrives is passed on.                 *)
Passed(s) ==
  /\ exchange[s] = "none" => written[s] = arrived[s]
  /\ s \notin ended /\ exchange[s] \in {"waiting", "responding"} => written[s] = arrived[s]

LEMMA PassedKept ==
  ASSUME NEW s \in Streams, Passed(s), UNCHANGED requests,
         exchange'[s] = "none" => exchange[s] = "none",
         exchange'[s] \in {"waiting", "responding"} =>
            exchange[s] \in {"none", "waiting", "responding"}
  PROVE  Passed(s)'
BY DEF Passed, requests

LEMMA PassedNext ==
  ASSUME TypeOK, Exchanges, [Next]_vars, NEW s \in Streams, Passed(s)
  PROVE  Passed(s)'
<1>0. MapsTyped /\ SentTyped /\ BodiesTyped /\ Placed(s)
  BY TypeParts DEF Exchanges
<1>1. ASSUME UNCHANGED requests, UNCHANGED exchange PROVE Passed(s)'
  BY <1>1, PassedKept
<1>2. ASSUME UNCHANGED requests, NEW q \in Streams, NEW loc, GoTo(q, loc),
             loc \notin {"none", "waiting"}, loc = "responding" => exchange[q] \in {"waiting", "responding"}
      PROVE  Passed(s)'
  BY <1>0, <1>2, PassedKept DEF GoTo, MapsTyped
<1>3. CASE UNCHANGED vars \/ GatewayCloses \/ Ping
  BY <1>1, <1>3 DEF vars, local, GatewayCloses, Ping
<1>4. CASE LoopStep
  <2>1. UNCHANGED requests /\ (UNCHANGED exchange \/ CleanupStreams)
    BY <1>4 DEF LoopStep, TokenFetched, TokenFailed, SocketOpened, SetupFailed, HelloSent,
       Woken, CloseEvent, ErrorEvent, ConnectionEnds, local
  <2>2. CleanupStreams => exchange'[s] \in {exchange[s], "over", "orphaned"}
    BY DEF CleanupStreams
  <2>. QED  BY <2>1, <2>2, PassedKept
<1>5. CASE HeadSent \/ HeadFailed
  <2>1. UNCHANGED requests
    BY <1>5 DEF HeadSent, HeadFailed
  <2>2. \/ UNCHANGED exchange
        \/ /\ WsStart(Head1)
           /\ \E loc \in {"deaf", "piped", "over", "orphaned"} : GoTo(Head1.stream, loc)
    BY <1>5 DEF HeadSent, HeadFailed, SendRejected
  <2>3. WsStart(Head1) => Head1.stream \in Streams
    BY <1>0, <1>5, HeadTyped DEF HeadSent, HeadFailed
  <2>. QED  BY <1>1, <1>2, <2>1, <2>2, <2>3
<1>6. ASSUME NEW q \in Streams, StartHttpExchange(q) \/ HandleWsStart(q) PROVE Passed(s)'
  <2>1. PICK loc \in {"waiting", "opening"} :
          UNCHANGED requests /\ exchange[q] = "none" /\ exchange' = [exchange EXCEPT ![q] = loc]
    BY <1>6 DEF StartHttpExchange, HandleWsStart, StartExchange, GoTo, At
  <2>. QED  BY <1>0, <2>1, PassedKept DEF MapsTyped
<1>7. ASSUME NEW q \in Streams, IngressChunk(q) PROVE Passed(s)'
  <2>1. /\ exchange' = exchange /\ ended' = ended /\ exchange[q] # "none"
        /\ arrived' = [arrived EXCEPT ![q] = @ + 1]
        /\ written' = [written EXCEPT ![q] =
                          IF q \in pendingWs \/ q \in pendingHttp \ ended THEN @ + 1 ELSE @]
    BY <1>7 DEF IngressChunk, Arrives, Known, At, local
  <2>. QED  BY <1>0, <2>1 DEF Passed, Placed, BodiesTyped
<1>8. ASSUME NEW q \in Streams, IngressChunkRefused(q) PROVE Passed(s)'
  <2>1. /\ exchange' = exchange /\ ended' = ended /\ written' = written /\ q \in pendingWs
        /\ arrived' = [arrived EXCEPT ![q] = @ + 1]
    BY <1>8 DEF IngressChunkRefused, Arrives, local
  <2>. QED  BY <1>0, <2>1 DEF Passed, Placed, BodiesTyped
<1>9. ASSUME NEW q \in Streams, IngressEnd(q) PROVE Passed(s)'
  <2>1. CASE q \in pendingWs
    BY <1>2, <1>9, <2>1 DEF IngressEnd, requests
  <2>2. CASE q \notin pendingWs
    <3>1. exchange' = exchange /\ ended' = ended \cup {q} /\ UNCHANGED <<arrived, written>>
      BY <1>9, <2>2 DEF IngressEnd
    <3>. QED  BY <3>1 DEF Passed
  <2>. QED  BY <2>1, <2>2
<1>10. ASSUME NEW q \in Streams, LocalStep(q) PROVE Passed(s)'
  <2>1. UNCHANGED requests
    BY <1>10 DEF LocalStep, ResponseStarts, ResponseData, ResponseEnds, RequestError,
       ResponseAborted, LocalOpened, LocalOpenFailed, LocalMessage, LocalClosed, LocalError,
       LocalClosedUnheard, HttpOver, LocalEvent
  <2>2. \E loc \in Locations \ {"none", "waiting"} :
          GoTo(q, loc) /\ (loc = "responding" => exchange[q] \in {"waiting", "responding"})
    BY <1>10 DEF LocalStep, ResponseStarts, ResponseData, ResponseEnds, RequestError,
       ResponseAborted, LocalOpened, LocalOpenFailed, LocalMessage, LocalClosed, LocalError,
       LocalClosedUnheard, HttpOver, LocalEvent, Locations, At
  <2>. QED  BY <1>2, <2>1, <2>2
<1>. QED
  BY <1>3, <1>4, <1>5, <1>6, <1>7, <1>8, <1>9, <1>10 DEF Next, GatewayStep

(* No part of a request body is lost while its exchange is open.           *)
THEOREM BodiesIntact == Spec => []BodyIntact
<1>. DEFINE AllPassed == \A s \in Streams : Passed(s)
<1>1. Init => TypeOK /\ Exchanges /\ AllPassed
  BY TypeInit DEF Init, Exchanges, Placed, AtRest, Passed
<1>2. TypeOK /\ Exchanges /\ AllPassed /\ [Next]_vars => TypeOK' /\ Exchanges' /\ AllPassed'
  BY TypeNext, ExchangesNext, PassedNext
<1>3. AllPassed => BodyIntact
  BY DEF Passed, BodyIntact
<1>. HIDE DEF AllPassed
<1>. QED  BY <1>1, <1>2, <1>3, PTL DEF Spec

--------------------------------------------------------------------------------
(* The backoff                                                             *)

SleepBounded == loop = "sleeping" => DelayInBounds(retryAttempt, delayMs)

LEMMA SleepBoundedNext ==
  ASSUME TypeOK, SleepBounded, [Next]_vars
  PROVE  SleepBounded'
<1>0. retryAttempt \in Nat
  BY AgentAssumption DEF TypeOK
<1>1. ASSUME NEW failures \in Nat, RetryLater(failures) PROVE SleepBounded'
  BY <1>1, RetryTyped DEF SleepBounded
<1>2. ASSUME loop' # "sleeping" \/ UNCHANGED reconnect PROVE SleepBounded'
  BY <1>2 DEF SleepBounded, reconnect, DelayInBounds
<1>3. ASSUME NEW code, NEW durationMs, ConnectionEnds(code, durationMs) PROVE SleepBounded'
  <2>1. \/ loop' = "exited"
        \/ RetryLater(IF durationMs >= StableMs THEN 0 ELSE retryAttempt)
    BY <1>3 DEF ConnectionEnds
  <2>. QED  BY <1>0, <1>1, <1>2, <2>1
<1>4. CASE LoopStep
  BY <1>0, <1>1, <1>2, <1>3, <1>4 DEF LoopStep, TokenFetched, TokenFailed, SocketOpened,
     SetupFailed, HelloSent, Woken, CloseEvent, ErrorEvent
<1>5. CASE UNCHANGED vars \/ GatewayCloses \/ Ping \/ HeadSent \/ HeadFailed
  BY <1>2, <1>5 DEF vars, GatewayCloses, Ping, HeadSent, HeadFailed
<1>6. ASSUME NEW s \in Streams, GatewayStep(s) \/ LocalStep(s) PROVE SleepBounded'
  BY <1>2, <1>6 DEF GatewayStep, StartHttpExchange, HandleWsStart, StartExchange, IngressChunk,
     IngressChunkRefused, IngressEnd, LocalStep, ResponseStarts, ResponseData, ResponseEnds,
     RequestError, ResponseAborted, LocalOpened, LocalOpenFailed, LocalMessage, LocalClosed,
     LocalError, LocalClosedUnheard, HttpOver, LocalEvent
<1>. QED  BY <1>4, <1>5, <1>6 DEF Next

(* Every delay is between 0.8 s and 15 s, after any number of failures.    *)
THEOREM BackoffBounded == Spec => []BackoffWithinBounds
<1>1. Init => TypeOK /\ SleepBounded
  BY TypeInit DEF Init, SleepBounded
<1>2. TypeOK /\ SleepBounded /\ [Next]_vars => TypeOK' /\ SleepBounded'
  BY TypeNext, SleepBoundedNext
<1>3. \A attempt \in 1 .. 8, random \in Randoms :
         DelayInBounds(attempt, ReconnectDelay(attempt, random))
  <2>. SUFFICES ASSUME NEW attempt \in 1 .. 8, NEW random \in Randoms
                PROVE  DelayInBounds(attempt, ReconnectDelay(attempt, random))
    OBVIOUS
  <2>1. attempt \in Nat /\ random \in 0 .. 100
    BY AgentAssumption
  <2>. QED  BY <2>1, DelayBounded
<1>4. SleepBounded => BackoffWithinBounds
  BY <1>3 DEF SleepBounded, BackoffWithinBounds
<1>. QED  BY <1>1, <1>2, <1>4, PTL DEF Spec

--------------------------------------------------------------------------------
(* What the gateway hears.  The queue holds, for each stream, what comes   *)
(* next: an invariant of the message history alone is not inductive, since *)
(* the next message heard is the one at the head of the queue.             *)

(* The start and the chunks of a response have places 0, 1, 2, ...         *)
Body(m)  == m.type \in {"start", "chunk"}
Place(m) == IF m.type = "start" THEN 0 ELSE m.index + 1

Queued(s) == {i \in DOMAIN outbox : outbox[i].stream = s}

HeardStart(s) == heard[s] # <<>> /\ heard[s][1].type = "start"

HeardInOrder(s) ==
  \A i \in DOMAIN heard[s] :
    /\ Body(heard[s][i]) =>
         Place(heard[s][i]) = i - 1 /\ \A j \in 1 .. i - 1 : Body(heard[s][j])
    /\ heard[s][i].type \in {"chunk", "end"} => HeardStart(s)

Final(s) ==
  \/ \E i \in DOMAIN heard[s] : ~Body(heard[s][i])
  \/ \E i \in Queued(s) : ~Body(outbox[i])

Started(s) == HeardStart(s) \/ \E i \in Queued(s) : outbox[i].type = "start"

(* A queued part of a body follows what has been heard without a gap, and  *)
(* nothing final is in front of it; a queued end has its start in front.   *)
BodyQueued(s, i) ==
  /\ Place(outbox[i]) >= Len(heard[s])
  /\ Place(outbox[i]) > Len(heard[s]) =>
       \E j \in Queued(s) :
         j < i /\ Body(outbox[j]) /\ Place(outbox[j]) = Place(outbox[i]) - 1
  /\ \A j \in DOMAIN heard[s] : Body(heard[s][j])
  /\ \A j \in Queued(s) :
       j < i => Body(outbox[j]) /\ Place(outbox[j]) < Place(outbox[i])

EndQueued(s, i) ==
  HeardStart(s) \/ \E j \in Queued(s) : j < i /\ outbox[j].type = "start"

QueueInOrder(s) ==
  \A i \in Queued(s) :
    /\ Body(outbox[i]) => BodyQueued(s, i)
    /\ outbox[i].type = "end" => EndQueued(s, i)

(* Nothing has been sent about the stream yet.                             *)
Untold(s) == heard[s] = <<>> /\ Queued(s) = {} /\ chunkIndex[s] = 0

(* An exchange that can still send a chunk has sent its start and all the  *)
(* chunks up to chunkIndex, and nothing final.                             *)
Midway(s) ==
  /\ Started(s) /\ ~Final(s)
  /\ \A i \in Queued(s) : Place(outbox[i]) <= chunkIndex[s]
  /\ \/ Len(heard[s]) = chunkIndex[s] + 1
     \/ \E i \in Queued(s) : Place(outbox[i]) = chunkIndex[s]

(* Only the start of the stream is on its way.                             *)
Starting(s) ==
  /\ heard[s] = <<>> /\ chunkIndex[s] = 0
  /\ \A i \in Queued(s) : outbox[i].type = "start"
  /\ \A i, j \in Queued(s) : i = j

Fits(s) ==
  /\ exchange[s] \in {"responding", "piped"} => Midway(s)
  /\ exchange[s] \in {"failed", "closing"} => Started(s)
  /\ exchange[s] \in {"starting", "lost"} => Starting(s)

Wired(s) ==
  /\ HeardInOrder(s)
  /\ exchange[s] \in {"none", "waiting", "opening"} => Untold(s)
  /\ ws = "open" => QueueInOrder(s) /\ Fits(s)

LEMMA MessageShape ==
  ASSUME NEW m \in Message
  PROVE  /\ m.type \in {"start", "chunk", "end", "error", "pong"}
         /\ m.stream \in Streams \cup {None}
         /\ m.index \in Nat
         /\ Place(m) \in Nat
         /\ Body(m) /\ Place(m) = 0 => m.type = "start"
<1>1. /\ m.type \in {"start", "chunk", "end", "error", "pong"}
      /\ m.stream \in Streams \cup {None}
      /\ m.index \in Nat
  BY DEF Message
<1>. QED  BY <1>1 DEF Place, Body

LEMMA QueueShape ==
  ASSUME SentTyped, NEW s \in Streams
  PROVE  /\ \A i \in Queued(s) : /\ i \in 1 .. Len(outbox) /\ outbox[i] \in Message
                                 /\ Place(outbox[i]) \in Nat
                                 /\ Body(outbox[i]) /\ Place(outbox[i]) = 0 =>
                                      outbox[i].type = "start"
         /\ \A i \in DOMAIN heard[s] : /\ i \in 1 .. Len(heard[s])
                                       /\ heard[s][i] \in Message
                                       /\ Body(heard[s][i]) /\ Place(heard[s][i]) = 0 =>
                                            heard[s][i].type = "start"
         /\ heard[s] \in Seq(Message) /\ Len(heard[s]) \in Nat
         /\ outbox \in Seq(Message) /\ Len(outbox) \in Nat
<1>1. /\ outbox \in Seq(Message) /\ Len(outbox) \in Nat
      /\ heard[s] \in Seq(Message) /\ Len(heard[s]) \in Nat
  BY DEF SentTyped
<1>2. \A i \in Queued(s) : i \in 1 .. Len(outbox) /\ outbox[i] \in Message
  BY <1>1 DEF Queued
<1>3. \A i \in DOMAIN heard[s] : i \in 1 .. Len(heard[s]) /\ heard[s][i] \in Message
  BY <1>1
<1>. QED  BY <1>1, <1>2, <1>3, MessageShape

(* The queue holds for s what it held, k places further back.              *)
Shifted(s, k) ==
  /\ \A i \in Queued(s) : i - k \in Queued(s)' /\ outbox'[i - k] = outbox[i]
  /\ \A i \in Queued(s)' : i + k \in Queued(s) /\ outbox[i + k] = outbox'[i]

LEMMA ShiftedInOrder ==
  ASSUME SentTyped, SentTyped', NEW s \in Streams, NEW k \in {0, 1}, Shifted(s, k),
         heard'[s] = heard[s], QueueInOrder(s)
  PROVE  QueueInOrder(s)'
<1>. SUFFICES ASSUME NEW i \in Queued(s)'
              PROVE  /\ Body(outbox'[i]) => BodyQueued(s, i)'
                     /\ outbox'[i].type = "end" => EndQueued(s, i)'
  BY DEF QueueInOrder
<1>0. i \in Int /\ \A j \in Queued(s)' : j \in Int
  BY DEF Queued, SentTyped
<1>1. i + k \in Queued(s) /\ outbox'[i] = outbox[i + k]
  BY DEF Shifted
<1>2. \A j \in Queued(s)' : j + k \in Queued(s) /\ outbox'[j] = outbox[j + k]
  BY DEF Shifted
<1>3. \A j \in Queued(s) : j \in Int /\ j - k \in Queued(s)' /\ outbox'[j - k] = outbox[j]
  BY QueueShape DEF Shifted
<1>4. ASSUME Body(outbox'[i]) PROVE BodyQueued(s, i)'
  <2>1. BodyQueued(s, i + k)
    BY <1>1, <1>4 DEF QueueInOrder
  <2>2. /\ Place(outbox'[i]) >= Len(heard'[s])
        /\ \A j \in DOMAIN heard'[s] : Body(heard'[s][j])
    BY <1>1, <2>1 DEF BodyQueued
  <2>3. ASSUME Place(outbox'[i]) > Len(heard'[s])
        PROVE  \E j \in Queued(s)' :
                 j < i /\ Body(outbox'[j]) /\ Place(outbox'[j]) = Place(outbox'[i]) - 1
    <3>1. PICK j \in Queued(s) :
            j < i + k /\ Body(outbox[j]) /\ Place(outbox[j]) = Place(outbox[i + k]) - 1
      BY <1>1, <2>1, <2>3 DEF BodyQueued
    <3>2. j - k \in Queued(s)' /\ outbox'[j - k] = outbox[j] /\ j - k < i
      BY <1>0, <1>3, <3>1
    <3>. QED  BY <1>1, <3>1, <3>2
  <2>4. ASSUME NEW j \in Queued(s)', j < i
        PROVE  Body(outbox'[j]) /\ Place(outbox'[j]) < Place(outbox'[i])
    <3>0. j + k < i + k
      <4>1. i \in Int /\ j \in Int /\ k \in Int
        BY <1>0
      <4>. QED  BY <2>4, <4>1
    <3>1. j + k \in Queued(s) /\ outbox'[j] = outbox[j + k] /\ j + k < i + k
      BY <1>2, <3>0
    <3>2. Body(outbox[j + k]) /\ Place(outbox[j + k]) < Place(outbox[i + k])
      BY <2>1, <3>1 DEF BodyQueued
    <3>. QED  BY <1>1, <3>1, <3>2
  <2>. QED  BY <2>2, <2>3, <2>4 DEF BodyQueued
<1>5. ASSUME outbox'[i].type = "end" PROVE EndQueued(s, i)'
  <2>1. EndQueued(s, i + k)
    BY <1>1, <1>5 DEF QueueInOrder
  <2>2. CASE HeardStart(s)
    BY <2>2 DEF EndQueued, HeardStart
  <2>3. ASSUME NEW j \in Queued(s), j < i + k, outbox[j].type = "start"
        PROVE  EndQueued(s, i)'
    <3>1. j - k \in Queued(s)' /\ outbox'[j - k] = outbox[j] /\ j - k < i
      BY <1>0, <1>3, <2>3
    <3>. QED  BY <2>3, <3>1 DEF EndQueued
  <2>. QED  BY <2>1, <2>2, <2>3 DEF EndQueued
<1>. QED  BY <1>4, <1>5

LEMMA ShiftedFits ==
  ASSUME SentTyped, SentTyped', NEW s \in Streams, NEW k \in {0, 1}, Shifted(s, k),
         heard'[s] = heard[s], chunkIndex'[s] = chunkIndex[s]
  PROVE  /\ Started(s) => Started(s)'
         /\ Untold(s) => Untold(s)'
         /\ Midway(s) => Midway(s)'
         /\ Starting(s) => Starting(s)'
<1>1. \A i \in Queued(s)' : i \in Int /\ i + k \in Queued(s) /\ outbox'[i] = outbox[i + k]
  BY DEF Shifted, Queued, SentTyped
<1>2. \A i \in Queued(s) : i \in Int /\ i - k \in Queued(s)' /\ outbox'[i - k] = outbox[i]
  BY QueueShape DEF Shifted
<1>3. Started(s) => Started(s)'
  BY <1>2 DEF Started, HeardStart
<1>4. Untold(s) => Untold(s)'
  <2>1. Queued(s) = {} => Queued(s)' = {}
    BY <1>1
  <2>. QED  BY <2>1 DEF Untold
<1>5. Midway(s) => Midway(s)'
  <2>. SUFFICES ASSUME Midway(s) PROVE Midway(s)'
    OBVIOUS
  <2>1. ~Final(s)'
    BY <1>1 DEF Midway, Final
  <2>2. \A i \in Queued(s)' : Place(outbox'[i]) <= chunkIndex'[s]
    BY <1>1 DEF Midway
  <2>3. \/ Len(heard'[s]) = chunkIndex'[s] + 1
        \/ \E i \in Queued(s)' : Place(outbox'[i]) = chunkIndex'[s]
    BY <1>2 DEF Midway
  <2>. QED  BY <1>3, <2>1, <2>2, <2>3 DEF Midway
<1>6. Starting(s) => Starting(s)'
  <2>. SUFFICES ASSUME Starting(s) PROVE Starting(s)'
    OBVIOUS
  <2>1. \A i \in Queued(s)' : outbox'[i].type = "start"
    BY <1>1 DEF Starting
  <2>2. ASSUME NEW i \in Queued(s)', NEW j \in Queued(s)' PROVE i = j
    <3>1. i \in Int /\ j \in Int /\ i + k = j + k
      BY <1>1 DEF Starting
    <3>. QED  BY <3>1
  <2>. QED  BY <2>1, <2>2 DEF Starting
<1>. QED  BY <1>3, <1>4, <1>5, <1>6

(* A step that sends nothing about s and moves its exchange nowhere where  *)
(* more would have to be known.                                            *)
Calm(s) ==
  \/ exchange'[s] = exchange[s]
  \/ exchange'[s] \in {"over", "orphaned", "cut", "deaf"}
  \/ exchange[s] = "none" /\ exchange'[s] \in {"waiting", "opening"}
  \/ exchange[s] = "starting" /\ exchange'[s] = "lost"
  \/ exchange[s] = "piped" /\ exchange'[s] = "closing"

LEMMA CalmWired ==
  ASSUME SentTyped, SentTyped', NEW s \in Streams, Wired(s), Calm(s),
         NEW k \in {0, 1}, Shifted(s, k),
         heard'[s] = heard[s], chunkIndex'[s] = chunkIndex[s],
         ws' = "open" => ws = "open"
  PROVE  Wired(s)'
<1>1. HeardInOrder(s)'
  BY DEF Wired, HeardInOrder, HeardStart
<1>2. /\ Started(s) => Started(s)'
      /\ Untold(s) => Untold(s)'
      /\ Midway(s) => Midway(s)'
      /\ Starting(s) => Starting(s)'
  BY ShiftedFits
<1>3. exchange'[s] \in {"none", "waiting", "opening"} => Untold(s)'
  BY <1>2 DEF Wired, Calm
<1>4. ASSUME ws' = "open" PROVE QueueInOrder(s)' /\ Fits(s)'
  <2>1. QueueInOrder(s) /\ Fits(s)
    BY <1>4 DEF Wired
  <2>2. QueueInOrder(s)'
    BY <2>1, ShiftedInOrder
  <2>3. Fits(s)'
    BY <1>2, <2>1 DEF Fits, Calm, Midway
  <2>. QED  BY <2>2, <2>3
<1>. QED  BY <1>1, <1>3, <1>4 DEF Wired

(* A step after which the socket is not open.                              *)
LEMMA ClosedWired ==
  ASSUME NEW s \in Streams, Wired(s), ws' # "open",
         heard'[s] = heard[s], chunkIndex'[s] = chunkIndex[s],
         exchange'[s] \in {"none", "waiting", "opening"} =>
            exchange[s] \in {"none", "waiting", "opening"},
         Queued(s) = {} => Queued(s)' = {}
  PROVE  Wired(s)'
BY DEF Wired, HeardInOrder, HeardStart, Untold

(* The message at the head of the queue is what the gateway has to hear    *)
(* next.                                                                   *)
LEMMA HeadInOrder ==
  ASSUME SentTyped, NEW s \in Streams, QueueInOrder(s), outbox # <<>>, Head1.stream = s
  PROVE  /\ 1 \in Queued(s) /\ outbox[1] = Head1 /\ Head1 \in Message
         /\ Body(Head1) => /\ Place(Head1) = Len(heard[s])
                           /\ \A j \in DOMAIN heard[s] : Body(heard[s][j])
         /\ Head1.type = "start" => heard[s] = <<>>
         /\ Head1.type = "end" => HeardStart(s)
<1>1. 1 \in Queued(s) /\ outbox[1] = Head1 /\ Head1 \in Message
  BY HeadTyped DEF SentTyped, Queued, Head1
<1>2. \A j \in Queued(s) : ~(j < 1)
  BY QueueShape
<1>3. Place(Head1) \in Nat /\ Len(heard[s]) \in Nat
  BY <1>1, MessageShape DEF SentTyped
<1>4. ASSUME Body(Head1)
      PROVE  Place(Head1) = Len(heard[s]) /\ \A j \in DOMAIN heard[s] : Body(heard[s][j])
  <2>1. BodyQueued(s, 1)
    BY <1>1, <1>4 DEF QueueInOrder
  <2>2. Place(Head1) >= Len(heard[s]) /\ ~(Place(Head1) > Len(heard[s]))
    BY <1>1, <1>2, <2>1 DEF BodyQueued
  <2>. QED  BY <1>3, <2>1, <2>2 DEF BodyQueued
<1>5. Head1.type = "start" => heard[s] = <<>>
  <2>1. Head1.type = "start" => Len(heard[s]) = 0
    BY <1>4 DEF Body, Place
  <2>. QED  BY <2>1 DEF SentTyped
<1>6. Head1.type = "end" => HeardStart(s)
  BY <1>1, <1>2 DEF QueueInOrder, EndQueued
<1>. QED  BY <1>1, <1>4, <1>5, <1>6

(* When it is heard, the order goes on.                                    *)
LEMMA HeardNext ==
  ASSUME SentTyped, NEW s \in Streams, QueueInOrder(s), HeardInOrder(s),
         outbox # <<>>, Head1.stream = s, heard'[s] = Append(heard[s], Head1)
  PROVE  /\ HeardInOrder(s)' /\ (HeardStart(s) => HeardStart(s)')
         /\ Head1.type = "start" => HeardStart(s)'
<1>. DEFINE n == Len(heard[s])
<1>0. heard[s] \in Seq(Message) /\ n \in Nat
  BY DEF SentTyped
<1>1. /\ DOMAIN heard'[s] = 1 .. n + 1
      /\ DOMAIN heard[s] = 1 .. n
      /\ \A i \in 1 .. n : heard'[s][i] = heard[s][i]
      /\ heard'[s][n + 1] = Head1
      /\ heard'[s] # <<>>
  BY <1>0
<1>2. /\ Head1 \in Message
      /\ Body(Head1) => Place(Head1) = n /\ \A j \in DOMAIN heard[s] : Body(heard[s][j])
      /\ Head1.type = "start" => heard[s] = <<>>
      /\ Head1.type = "end" => HeardStart(s)
  BY HeadInOrder
<1>3. HeardStart(s) => HeardStart(s)'
  <2>. SUFFICES ASSUME HeardStart(s) PROVE HeardStart(s)'
    OBVIOUS
  <2>1. 1 \in 1 .. n
    BY <1>0 DEF HeardStart
  <2>. QED  BY <1>1, <2>1 DEF HeardStart
<1>4. Head1.type = "start" => HeardStart(s)'
  <2>1. heard[s] = <<>> => n = 0
    BY <1>0
  <2>. QED  BY <1>1, <1>2, <2>1 DEF HeardStart
<1>. HIDE DEF n
<1>5. Head1.type = "chunk" => HeardStart(s)'
  <2>. SUFFICES ASSUME Head1.type = "chunk" PROVE HeardStart(s)'
    OBVIOUS
  <2>1. n >= 1 /\ Body(heard[s][1])
    <3>1. Body(Head1) /\ Place(Head1) = n /\ Head1.index \in Nat /\ Place(Head1) = Head1.index + 1
      BY <1>2, MessageShape DEF Body, Place
    <3>2. n >= 1
      BY <3>1
    <3>3. 1 \in DOMAIN heard[s]
      BY <1>0, <1>1, <3>2
    <3>. QED  BY <1>2, <3>1, <3>2, <3>3
  <2>2. 1 \in DOMAIN heard[s] /\ heard[s] # <<>>
    BY <1>0, <1>1, <2>1 DEF n
  <2>3. Place(heard[s][1]) = 0
    BY <2>1, <2>2 DEF HeardInOrder
  <2>4. heard[s][1].type = "start"
    BY <2>1, <2>2, <2>3, QueueShape
  <2>. QED  BY <1>3, <2>2, <2>4 DEF HeardStart
<1>6. ASSUME NEW i \in 1 .. n + 1
      PROVE  /\ Body(heard'[s][i]) =>
                   Place(heard'[s][i]) = i - 1 /\ \A j \in 1 .. i - 1 : Body(heard'[s][j])
             /\ heard'[s][i].type \in {"chunk", "end"} => HeardStart(s)'
  <2>1. CASE i = n + 1
    <3>1. \A j \in 1 .. i - 1 : j \in DOMAIN heard[s] /\ heard'[s][j] = heard[s][j]
      BY <1>0, <1>1, <2>1
    <3>2. heard'[s][i] = Head1 /\ i - 1 = n
      BY <1>0, <1>1, <2>1
    <3>3. Body(Head1) => Place(Head1) = i - 1 /\ \A j \in 1 .. i - 1 : Body(heard'[s][j])
      BY <1>2, <3>1, <3>2
    <3>. QED  BY <1>2, <1>3, <1>5, <3>2, <3>3
  <2>2. CASE i # n + 1
    <3>1. i \in 1 .. n
      BY <1>0, <2>2
    <3>2. i \in DOMAIN heard[s] /\ heard'[s][i] = heard[s][i]
      BY <1>1, <3>1
    <3>3. \A j \in 1 .. i - 1 : j \in 1 .. n
      BY <1>0, <3>1
    <3>4. \A j \in 1 .. i - 1 : heard'[s][j] = heard[s][j]
      BY <1>1, <3>3
    <3>. QED  BY <1>3, <3>2, <3>4 DEF HeardInOrder
  <2>. QED  BY <2>1, <2>2
<1>. QED  BY <1>1, <1>3, <1>4, <1>6 DEF HeardInOrder

(* And what is queued behind it is still in order.                         *)
LEMMA QueueNext ==
  ASSUME SentTyped, SentTyped', NEW s \in Streams, QueueInOrder(s), HeardInOrder(s),
         outbox # <<>>, Head1.stream = s, heard'[s] = Append(heard[s], Head1),
         outbox' = Tail(outbox)
  PROVE  /\ QueueInOrder(s)'
         /\ \A i \in Queued(s)' : /\ i \in 1 .. Len(outbox') /\ i + 1 \in Queued(s)
                                  /\ outbox'[i] = outbox[i + 1]
         /\ \A i \in Queued(s) : i # 1 => i - 1 \in Queued(s)' /\ outbox'[i - 1] = outbox[i]
<1>. DEFINE n == Len(heard[s])
<1>0. n \in Nat /\ Len(heard'[s]) = n + 1
  BY DEF SentTyped
<1>1. /\ DOMAIN heard'[s] = 1 .. n + 1
      /\ DOMAIN heard[s] = 1 .. n
      /\ \A i \in 1 .. n : heard'[s][i] = heard[s][i]
      /\ heard'[s][n + 1] = Head1
  BY DEF SentTyped
<1>2. /\ 1 \in Queued(s) /\ outbox[1] = Head1 /\ Head1 \in Message
      /\ Body(Head1) => Place(Head1) = n /\ \A j \in DOMAIN heard[s] : Body(heard[s][j])
  BY HeadInOrder
<1>3. HeardStart(s) \/ Head1.type = "start" => HeardStart(s)'
  BY HeardNext
<1>4. ASSUME NEW i \in Queued(s)'
      PROVE  /\ i \in 1 .. Len(outbox') /\ i + 1 \in Queued(s)
             /\ outbox'[i] = outbox[i + 1]
  BY DEF SentTyped, Queued
<1>5. ASSUME NEW i \in Queued(s), i # 1
      PROVE  i - 1 \in Queued(s)' /\ outbox'[i - 1] = outbox[i]
  BY <1>5 DEF SentTyped, Queued
<1>. HIDE DEF n
<1>6. ASSUME NEW i \in Queued(s)', Body(outbox'[i]) PROVE BodyQueued(s, i)'
  <2>1. /\ i \in Int /\ 1 < i + 1 /\ i + 1 \in Queued(s) /\ outbox'[i] = outbox[i + 1]
        /\ Place(outbox'[i]) \in Nat
    <3>1. i \in 1 .. Len(outbox') /\ i + 1 \in Queued(s) /\ outbox'[i] = outbox[i + 1]
      BY <1>4
    <3>2. Place(outbox[i + 1]) \in Nat
      BY <3>1, QueueShape
    <3>. QED  BY <3>1, <3>2 DEF SentTyped
  <2>2. BodyQueued(s, i + 1)
    BY <1>6, <2>1 DEF QueueInOrder
  <2>3. Body(Head1) /\ Place(Head1) < Place(outbox'[i])
    BY <1>2, <2>1, <2>2 DEF BodyQueued
  <2>4. Place(Head1) = n /\ \A j \in DOMAIN heard[s] : Body(heard[s][j])
    BY <1>2, <2>3
  <2>5. Place(outbox'[i]) >= Len(heard'[s])
    <3>1. PICK p : p = Place(outbox'[i])
      OBVIOUS
    <3>2. p \in Nat /\ n < p
      BY <2>1, <2>3, <2>4, <3>1
    <3>3. p >= n + 1
      BY <1>0, <3>2
    <3>. QED  BY <1>0, <3>1, <3>3
  <2>6. ASSUME NEW j \in DOMAIN heard'[s] PROVE Body(heard'[s][j])
    BY <1>0, <1>1, <2>3, <2>4
  <2>7. ASSUME NEW j \in Queued(s)', j < i
        PROVE  Body(outbox'[j]) /\ Place(outbox'[j]) < Place(outbox'[i])
    <3>1. j \in 1 .. Len(outbox') /\ j + 1 \in Queued(s) /\ outbox'[j] = outbox[j + 1]
      BY <1>4
    <3>2. j + 1 < i + 1
      BY <2>1, <2>7, <3>1
    <3>3. Body(outbox[j + 1]) /\ Place(outbox[j + 1]) < Place(outbox[i + 1])
      BY <2>2, <3>1, <3>2 DEF BodyQueued
    <3>. QED  BY <2>1, <3>1, <3>3
  <2>8. ASSUME Place(outbox'[i]) > Len(heard'[s])
        PROVE  \E j \in Queued(s)' :
                 j < i /\ Body(outbox'[j]) /\ Place(outbox'[j]) = Place(outbox'[i]) - 1
    <3>0. PICK p : p = Place(outbox'[i])
      OBVIOUS
    <3>1. p \in Nat /\ p > n /\ p - 1 # n /\ Place(outbox[i + 1]) = p
      <4>1. p \in Nat /\ p > n + 1
        BY <1>0, <2>1, <2>8, <3>0
      <4>. QED  BY <1>0, <2>1, <3>0, <4>1
    <3>2. PICK j \in Queued(s) :
            j < i + 1 /\ Body(outbox[j]) /\ Place(outbox[j]) = Place(outbox[i + 1]) - 1
      BY <2>2, <3>1 DEF BodyQueued, n
    <3>3. j # 1 /\ j \in Int
      BY <1>2, <2>1, <2>4, <3>1, <3>2, QueueShape
    <3>4. j - 1 \in Queued(s)' /\ outbox'[j - 1] = outbox[j]
      BY <1>5, <3>3
    <3>5. j - 1 < i
      BY <2>1, <3>2, <3>3
    <3>. QED  BY <2>1, <3>2, <3>4, <3>5
  <2>. QED  BY <2>5, <2>6, <2>7, <2>8 DEF BodyQueued
<1>7. ASSUME NEW i \in Queued(s)', outbox'[i].type = "end" PROVE EndQueued(s, i)'
  <2>1. i \in 1 .. Len(outbox') /\ i + 1 \in Queued(s) /\ outbox'[i] = outbox[i + 1]
    BY <1>4
  <2>2. EndQueued(s, i + 1)
    BY <1>7, <2>1 DEF QueueInOrder
  <2>3. CASE HeardStart(s)
    BY <1>3, <2>3 DEF EndQueued
  <2>4. ASSUME NEW j \in Queued(s), j < i + 1, outbox[j].type = "start"
        PROVE  EndQueued(s, i)'
    <3>1. CASE j = 1
      BY <1>2, <1>3, <2>4, <3>1 DEF EndQueued
    <3>2. CASE j # 1
      <4>1. j - 1 \in Queued(s)' /\ outbox'[j - 1] = outbox[j]
        BY <1>5, <3>2
      <4>2. i \in Int /\ j \in Int
        BY <2>1, QueueShape
      <4>3. j - 1 < i
        BY <2>4, <4>2
      <4>. QED  BY <2>4, <4>1, <4>3 DEF EndQueued
    <3>. QED  BY <3>1, <3>2
  <2>. QED  BY <2>2, <2>3, <2>4 DEF EndQueued
<1>. QED  BY <1>4, <1>5, <1>6, <1>7 DEF QueueInOrder

LEMMA HeadSentWired ==
  ASSUME SentTyped, SentTyped', MapsTyped, NEW s \in Streams, Wired(s), HeadSent,
         Head1.stream = s
  PROVE  Wired(s)'
<1>0. /\ outbox # <<>> /\ ws = "open" /\ outbox' = Tail(outbox)
      /\ chunkIndex' = chunkIndex
  BY DEF HeadSent
<1>1. heard'[s] = Append(heard[s], Head1)
  BY AgentAssumption DEF HeadSent, SentTyped
<1>2. HeardInOrder(s) /\ QueueInOrder(s) /\ Fits(s)
  BY <1>0 DEF Wired
<1>3. /\ HeardInOrder(s)'
      /\ HeardStart(s) \/ Head1.type = "start" => HeardStart(s)'
  BY <1>0, <1>1, <1>2, HeardNext
<1>4. /\ QueueInOrder(s)'
      /\ \A i \in Queued(s)' : i + 1 \in Queued(s) /\ outbox'[i] = outbox[i + 1]
      /\ \A i \in Queued(s) : i # 1 => i - 1 \in Queued(s)' /\ outbox'[i - 1] = outbox[i]
      /\ \A i \in Queued(s)' : i \in 1 .. Len(outbox')
  BY <1>0, <1>1, <1>2, QueueNext
<1>5. /\ 1 \in Queued(s) /\ outbox[1] = Head1 /\ Head1 \in Message
      /\ Body(Head1) => Place(Head1) = Len(heard[s])
  BY <1>0, <1>2, HeadInOrder
<1>6. exchange[s] \notin {"none", "waiting", "opening"}
  BY <1>5 DEF Wired, Untold
<1>7. Len(heard[s]) \in Nat /\ Len(heard'[s]) = Len(heard[s]) + 1 /\ chunkIndex[s] \in Nat
  BY <1>1 DEF SentTyped, MapsTyped
<1>8. \A i \in DOMAIN heard'[s] :
        \/ i \in DOMAIN heard[s] /\ heard'[s][i] = heard[s][i]
        \/ heard'[s][i] = Head1
  BY <1>1 DEF SentTyped
<1>9. Started(s) => Started(s)'
  BY <1>3, <1>4, <1>5 DEF Started
<1>10. CASE WsStart(Head1)
  <2>1. exchange'[s] \in {"piped", "deaf"}
    BY <1>10 DEF HeadSent, GoTo, MapsTyped
  <2>2. Starting(s) /\ Head1.type = "start"
    BY <1>2, <1>10 DEF Fits, WsStart
  <2>3. Queued(s)' = {}
    <3>. SUFFICES ASSUME NEW i \in Queued(s)' PROVE FALSE
      OBVIOUS
    <3>1. i + 1 = 1 /\ i \in 1 .. Len(outbox')
      BY <1>4, <1>5, <2>2 DEF Starting
    <3>. QED  BY <3>1 DEF SentTyped
  <2>4. heard'[s] = <<Head1>>
    BY <1>1, <2>2 DEF Starting
  <2>5. Midway(s)'
    <3>1. Started(s)'
      BY <1>3, <2>2 DEF Started
    <3>2. ~Final(s)'
      BY <2>2, <2>3, <2>4 DEF Final, Body
    <3>3. Len(heard'[s]) = chunkIndex'[s] + 1
      BY <1>0, <2>2, <2>4 DEF Starting
    <3>. QED  BY <2>3, <3>1, <3>2, <3>3 DEF Midway
  <2>. QED  BY <1>3, <1>4, <2>1, <2>5 DEF Wired, Fits
<1>11. CASE ~WsStart(Head1)
  <2>1. exchange' = exchange
    BY <1>11 DEF HeadSent
  <2>2. exchange[s] \notin {"starting", "lost"}
    BY <1>2, <1>5, <1>11 DEF Fits, Starting, WsStart
  <2>3. Midway(s) => Midway(s)'
    <3>. SUFFICES ASSUME Midway(s) PROVE Midway(s)'
      OBVIOUS
    <3>1. Body(Head1) /\ Place(Head1) <= chunkIndex[s]
      BY <1>5 DEF Midway, Final
    <3>2. ~Final(s)'
      BY <1>4, <1>8, <3>1 DEF Midway, Final
    <3>3. \A i \in Queued(s)' : Place(outbox'[i]) <= chunkIndex'[s]
      BY <1>0, <1>4 DEF Midway
    <3>4. \/ Len(heard'[s]) = chunkIndex'[s] + 1
          \/ \E i \in Queued(s)' : Place(outbox'[i]) = chunkIndex'[s]
      <4>1. Len(heard[s]) # chunkIndex[s] + 1
        BY <1>5, <1>7, <3>1
      <4>2. PICK i \in Queued(s) : Place(outbox[i]) = chunkIndex[s]
        BY <4>1 DEF Midway
      <4>3. CASE i = 1
        BY <1>0, <1>5, <1>7, <3>1, <4>2, <4>3
      <4>4. CASE i # 1
        BY <1>0, <1>4, <4>2, <4>4
      <4>. QED  BY <4>3, <4>4
    <3>. QED  BY <1>9, <3>2, <3>3, <3>4 DEF Midway
  <2>4. Fits(s)'
    BY <1>2, <1>9, <2>1, <2>2, <2>3 DEF Fits
  <2>. QED  BY <1>3, <1>4, <1>6, <2>1, <2>4 DEF Wired
<1>. QED  BY <1>10, <1>11

(* A step that queues a message m of s.                                    *)
Appended(s, m) ==
  /\ Queued(s)' = Queued(s) \cup {Len(outbox) + 1}
  /\ outbox'[Len(outbox) + 1] = m
  /\ \A i \in Queued(s) : outbox'[i] = outbox[i] /\ i < Len(outbox) + 1

LEMMA SendAppends ==
  ASSUME SentTyped, NEW s \in Streams, NEW m \in Message, Send(m)
  PROVE  /\ m.stream = s => Appended(s, m)
         /\ m.stream # s => Shifted(s, 0)
<1>1. /\ DOMAIN outbox' = 1 .. Len(outbox) + 1 /\ DOMAIN outbox = 1 .. Len(outbox)
      /\ Len(outbox) \in Nat
      /\ outbox'[Len(outbox) + 1] = m
      /\ \A i \in 1 .. Len(outbox) : outbox'[i] = outbox[i]
  BY DEF SentTyped, Send
<1>2. m.stream = s => Appended(s, m)
  BY <1>1 DEF Appended, Queued
<1>3. ASSUME m.stream # s PROVE Shifted(s, 0)
  <2>1. Queued(s)' = Queued(s) /\ \A i \in Queued(s) : i \in Int /\ outbox'[i] = outbox[i]
    BY <1>1, <1>3 DEF Queued
  <2>. QED  BY <2>1 DEF Shifted
<1>. QED  BY <1>2, <1>3

LEMMA AppendedInOrder ==
  ASSUME SentTyped, NEW s \in Streams, NEW m \in Message, Appended(s, m),
         heard'[s] = heard[s], QueueInOrder(s),
         Body(m) =>
            /\ ~Final(s) /\ Place(m) >= Len(heard[s])
            /\ Place(m) > Len(heard[s]) =>
                 \E i \in Queued(s) : Place(outbox[i]) = Place(m) - 1
            /\ \A i \in Queued(s) : Place(outbox[i]) < Place(m),
         m.type = "end" => Started(s)
  PROVE  QueueInOrder(s)'
<1>. DEFINE last == Len(outbox) + 1
<1>0. /\ Queued(s)' = Queued(s) \cup {last} /\ outbox'[last] = m
      /\ \A i \in Queued(s) : i \in Int /\ outbox'[i] = outbox[i] /\ i < last
      /\ last \in Int
  BY QueueShape DEF Appended, SentTyped
<1>. HIDE DEF last
<1>1. HeardStart(s)' <=> HeardStart(s)
  BY DEF HeardStart
<1>. SUFFICES ASSUME NEW i \in Queued(s)'
              PROVE  /\ Body(outbox'[i]) => BodyQueued(s, i)'
                     /\ outbox'[i].type = "end" => EndQueued(s, i)'
  BY DEF QueueInOrder
<1>2. CASE i = last
  <2>1. \A j \in Queued(s)' : j < i => j \in Queued(s)
    BY <1>0, <1>2
  <2>2. ASSUME Body(m) PROVE BodyQueued(s, i)'
    <3>1. /\ \A j \in DOMAIN heard[s] : Body(heard[s][j])
          /\ \A j \in Queued(s) : Body(outbox[j]) /\ Place(outbox[j]) < Place(m)
      BY <2>2 DEF Final
    <3>2. Place(m) > Len(heard[s]) =>
            \E j \in Queued(s)' :
              j < i /\ Body(outbox'[j]) /\ Place(outbox'[j]) = Place(m) - 1
      BY <1>0, <1>2, <2>2, <3>1
    <3>3. \A j \in Queued(s)' : j < i => Body(outbox'[j]) /\ Place(outbox'[j]) < Place(m)
      BY <1>0, <2>1, <3>1
    <3>. QED  BY <1>0, <1>2, <2>2, <3>1, <3>2, <3>3 DEF BodyQueued
  <2>3. ASSUME m.type = "end" PROVE EndQueued(s, i)'
    BY <1>0, <1>1, <1>2, <2>3 DEF Started, EndQueued
  <2>. QED  BY <1>0, <1>2, <2>2, <2>3
<1>3. CASE i # last
  <2>1. i \in Queued(s) /\ outbox'[i] = outbox[i]
    BY <1>0, <1>3
  <2>2. \A j \in Queued(s)' : j < i => j \in Queued(s) /\ outbox'[j] = outbox[j]
    BY <1>0, <2>1
  <2>3. \A j \in Queued(s) : j \in Queued(s)' /\ outbox'[j] = outbox[j]
    BY <1>0
  <2>4. ASSUME Body(outbox'[i]) PROVE BodyQueued(s, i)'
    <3>1. BodyQueued(s, i)
      BY <2>1, <2>4 DEF QueueInOrder
    <3>. QED  BY <2>1, <2>2, <2>3, <3>1 DEF BodyQueued
  <2>5. ASSUME outbox'[i].type = "end" PROVE EndQueued(s, i)'
    <3>1. EndQueued(s, i)
      BY <2>1, <2>5 DEF QueueInOrder
    <3>. QED  BY <1>1, <2>3, <3>1 DEF EndQueued
  <2>. QED  BY <2>4, <2>5
<1>. QED  BY <1>2, <1>3

(* Wherever the step leaves the exchange, given what it sends.             *)
LEMMA AppendedWired ==
  ASSUME SentTyped, NEW s \in Streams, NEW m \in Message, Appended(s, m), Wired(s),
         heard'[s] = heard[s], ws' = ws,
         exchange'[s] \notin {"none", "waiting", "opening"},
         ws = "open" => QueueInOrder(s)' /\ Fits(s)'
  PROVE  Wired(s)'
BY DEF Wired, HeardInOrder, HeardStart

(* The start of a stream of which nothing has been said.                   *)
LEMMA StartAppended ==
  ASSUME SentTyped, MapsTyped, NEW s \in Streams, Send(Msg(s, "start")), Wired(s),
         exchange[s] \in {"waiting", "opening"}, exchange'[s] \in {"responding", "starting"},
         UNCHANGED <<heard, chunkIndex, ws>>
  PROVE  Wired(s)'
<1>. DEFINE m == Msg(s, "start")
<1>1. /\ m \in Message /\ m.type = "start" /\ m.stream = s /\ Body(m) /\ Place(m) = 0
  BY MessageTyped DEF Msg, Body, Place
<1>2. Appended(s, m)
  BY <1>1, SendAppends
<1>3. Untold(s)
  BY DEF Wired
<1>. HIDE DEF m
<1>4. Queued(s)' = {Len(outbox) + 1} /\ outbox'[Len(outbox) + 1] = m
  BY <1>2, <1>3 DEF Appended, Untold
<1>5. QueueInOrder(s)'
  <2>1. QueueInOrder(s) /\ ~Final(s) /\ Len(heard[s]) = 0 /\ DOMAIN heard[s] = {}
    BY <1>3 DEF Untold, QueueInOrder, Final
  <2>. QED  BY <1>1, <1>2, <1>3, <2>1, AppendedInOrder DEF Untold
<1>6. Starting(s)'
  BY <1>1, <1>3, <1>4 DEF Untold, Starting
<1>7. Midway(s)'
  BY <1>1, <1>3, <1>4 DEF Untold, Midway, Started, Final
<1>. QED  BY <1>1, <1>2, <1>5, <1>6, <1>7, AppendedWired DEF Fits

(* The next chunk of a stream that is midway.                              *)
LEMMA ChunkAppended ==
  ASSUME SentTyped, MapsTyped, NEW s \in Streams, Send(ChunkOf(s)), Wired(s),
         exchange[s] \in {"responding", "piped"}, exchange'[s] = exchange[s],
         chunkIndex'[s] = chunkIndex[s] + 1, UNCHANGED <<heard, ws>>
  PROVE  Wired(s)'
<1>. DEFINE m == ChunkOf(s)
            c == chunkIndex[s]
<1>1. /\ m \in Message /\ m.type = "chunk" /\ m.stream = s /\ Body(m) /\ Place(m) = c + 1
      /\ c \in Nat
  BY MessageTyped DEF ChunkOf, Body, Place, MapsTyped
<1>2. Appended(s, m)
  BY <1>1, SendAppends
<1>. HIDE DEF m
<1>3. ASSUME ws = "open" PROVE QueueInOrder(s)' /\ Fits(s)'
  <2>1. QueueInOrder(s) /\ Midway(s)
    BY <1>3 DEF Wired, Fits
  <2>2. /\ \A i \in Queued(s) : Place(outbox[i]) \in Nat /\ Place(outbox[i]) <= c
        /\ Started(s) /\ ~Final(s)
        /\ \A i \in Queued(s) : Body(outbox[i])
        /\ Len(heard[s]) \in Nat
        /\ Len(heard[s]) = c + 1 \/ \E i \in Queued(s) : Place(outbox[i]) = c
    BY <2>1, QueueShape DEF Midway, Final
  <2>3. Place(m) >= Len(heard[s])
    <3>1. ASSUME NEW i \in Queued(s), Place(outbox[i]) = c PROVE c >= Len(heard[s])
      BY <2>1, <2>2, <3>1 DEF QueueInOrder, BodyQueued
    <3>2. c + 1 >= Len(heard[s])
      BY <1>1, <2>2, <3>1
    <3>. QED  BY <1>1, <3>2
  <2>4. Place(m) > Len(heard[s]) => \E i \in Queued(s) : Place(outbox[i]) = Place(m) - 1
    BY <1>1, <2>2
  <2>5. \A i \in Queued(s) : Place(outbox[i]) < Place(m)
    BY <1>1, <2>2
  <2>6. QueueInOrder(s)'
    BY <1>1, <1>2, <2>1, <2>2, <2>3, <2>4, <2>5, AppendedInOrder
  <2>7. /\ Queued(s)' = Queued(s) \cup {Len(outbox) + 1} /\ outbox'[Len(outbox) + 1] = m
        /\ \A i \in Queued(s) : outbox'[i] = outbox[i]
    BY <1>2 DEF Appended
  <2>8. Started(s)' /\ ~Final(s)'
    BY <1>1, <2>2, <2>7 DEF Started, Final, HeardStart
  <2>9. /\ \A i \in Queued(s)' : Place(outbox'[i]) <= chunkIndex'[s]
        /\ \E i \in Queued(s)' : Place(outbox'[i]) = chunkIndex'[s]
    BY <1>1, <2>2, <2>7
  <2>. QED  BY <2>6, <2>8, <2>9 DEF Fits, Midway
<1>. QED  BY <1>1, <1>2, <1>3, AppendedWired

(* An end or an error.                                                     *)
LEMMA LastAppended ==
  ASSUME SentTyped, MapsTyped, NEW s \in Streams, NEW type \in {"end", "error"},
         Send(Msg(s, type)), Wired(s),
         exchange'[s] \in {"over", "failed"},
         exchange'[s] = "failed" => exchange[s] \in {"piped", "closing"},
         type = "end" => exchange[s] \in {"responding", "piped", "failed", "closing"},
         UNCHANGED <<heard, chunkIndex, ws>>
  PROVE  Wired(s)'
<1>. DEFINE m == Msg(s, type)
<1>1. m \in Message /\ m.type = type /\ m.stream = s /\ ~Body(m)
  BY MessageTyped DEF Msg, Body
<1>2. Appended(s, m)
  BY <1>1, SendAppends
<1>. HIDE DEF m
<1>3. ASSUME ws = "open" PROVE QueueInOrder(s)' /\ Fits(s)'
  <2>1. /\ QueueInOrder(s)
        /\ type = "end" \/ exchange'[s] = "failed" => Started(s)
    BY <1>3 DEF Wired, Fits, Midway
  <2>2. QueueInOrder(s)'
    BY <1>1, <1>2, <2>1, AppendedInOrder
  <2>3. Started(s) => Started(s)'
    BY <1>2 DEF Appended, Started, HeardStart
  <2>. QED  BY <2>1, <2>2, <2>3 DEF Fits
<1>. QED  BY <1>1, <1>2, <1>3, AppendedWired

LEMMA SameQueue ==
  ASSUME SentTyped, NEW s \in Streams, UNCHANGED outbox
  PROVE  Shifted(s, 0)
BY QueueShape DEF Shifted, Queued

LEMMA TailShifts ==
  ASSUME SentTyped, NEW s \in Streams, outbox # <<>>, outbox' = Tail(outbox),
         Head1.stream # s
  PROVE  Shifted(s, 1)
<1>1. outbox[1].stream # s
  BY DEF Head1
<1>2. ASSUME NEW i \in Queued(s) PROVE i - 1 \in Queued(s)' /\ outbox'[i - 1] = outbox[i]
  <2>1. i \in 1 .. Len(outbox) /\ outbox[i].stream = s /\ Len(outbox) \in Nat
    BY DEF SentTyped, Queued
  <2>2. i - 1 \in 1 .. Len(outbox) - 1
    BY <1>1, <2>1
  <2>. QED  BY <2>1, <2>2 DEF SentTyped, Queued
<1>3. ASSUME NEW i \in Queued(s)' PROVE i + 1 \in Queued(s) /\ outbox[i + 1] = outbox'[i]
  BY DEF SentTyped, Queued
<1>. QED  BY <1>2, <1>3 DEF Shifted

LEMMA WiredLoop ==
  ASSUME TypeOK, SentTyped', Exchanges, NEW s \in Streams, Wired(s), LoopStep
  PROVE  Wired(s)'
<1>0. /\ SentTyped /\ SentTyped' /\ MapsTyped
      /\ UNCHANGED <<heard, chunkIndex>>
  <2>1. UNCHANGED <<heard, chunkIndex>>
    BY DEF LoopStep, TokenFetched, TokenFailed, SocketOpened, SetupFailed, HelloSent, Woken,
       CloseEvent, ErrorEvent, ConnectionEnds, local
  <2>. QED  BY <2>1, TypeParts
<1>1. CASE TokenFetched \/ TokenFailed \/ SetupFailed \/ HelloSent \/ Woken
  <2>1. UNCHANGED <<outbox, exchange>> /\ (ws' = "open" => ws = "open")
    BY <1>1 DEF TokenFetched, TokenFailed, SetupFailed, HelloSent, Woken, local, gateway
  <2>2. Shifted(s, 0) /\ Calm(s)
    BY <1>0, <2>1, SameQueue DEF Calm
  <2>. QED  BY <1>0, <2>1, <2>2, CalmWired
<1>2. CASE SocketOpened
  <2>1. outbox' = <<>> /\ exchange' = exchange /\ loop # "running"
    BY <1>2 DEF SocketOpened, local
  <2>2. Queued(s)' = {}
    BY <2>1 DEF Queued
  <2>3. exchange[s] \in AtRest
    BY <2>1 DEF Exchanges, Placed
  <2>4. HeardInOrder(s)' /\ (exchange'[s] \in {"none", "waiting", "opening"} => Untold(s)')
    BY <1>0, <2>1, <2>2 DEF Wired, HeardInOrder, HeardStart, Untold
  <2>5. QueueInOrder(s)' /\ Fits(s)'
    BY <2>1, <2>2, <2>3 DEF QueueInOrder, Fits, AtRest
  <2>. QED  BY <2>4, <2>5 DEF Wired
<1>3. ASSUME NEW code, NEW durationMs, ConnectionEnds(code, durationMs) PROVE Wired(s)'
  <2>1. ws' = "closed" /\ outbox' = <<>> /\ CleanupStreams
    BY <1>3 DEF ConnectionEnds
  <2>2. exchange'[s] \in {exchange[s], "over", "orphaned"}
    BY <2>1 DEF CleanupStreams
  <2>3. Queued(s)' = {}
    BY <2>1 DEF Queued
  <2>. QED  BY <1>0, <2>1, <2>2, <2>3, ClosedWired
<1>. QED  BY <1>1, <1>2, <1>3 DEF LoopStep, CloseEvent, ErrorEvent

LEMMA WiredQueue ==
  ASSUME TypeOK, SentTyped', NEW s \in Streams, Wired(s), HeadSent \/ HeadFailed
  PROVE  Wired(s)'
<1>0. /\ SentTyped /\ SentTyped' /\ MapsTyped /\ outbox # <<>> /\ s # None
      /\ UNCHANGED chunkIndex
  BY TypeParts, AgentAssumption DEF HeadSent, HeadFailed
<1>1. Len(outbox) \in Nat /\ Queued(s) \subseteq 1 .. Len(outbox)
  BY <1>0 DEF Queued, SentTyped
<1>2. CASE HeadSent /\ Head1.stream = s
  BY <1>0, <1>2, HeadSentWired
<1>3. CASE HeadSent /\ Head1.stream # s
  <2>1. outbox' = Tail(outbox) /\ ws' = ws
    BY <1>3 DEF HeadSent, gateway
  <2>2. heard'[s] = heard[s]
    BY <1>0, <1>3 DEF HeadSent, SentTyped
  <2>3. exchange'[s] = exchange[s]
    BY <1>0, <1>3 DEF HeadSent, GoTo, MapsTyped
  <2>. QED  BY <1>0, <1>3, <2>1, <2>2, <2>3, TailShifts, CalmWired DEF Calm
<1>4. CASE HeadFailed /\ ~WsStart(Head1)
  <2>1. outbox' = Tail(outbox) /\ ws' # "open" /\ UNCHANGED <<exchange, heard>>
    BY <1>4 DEF HeadFailed, SendRejected, CloseGateway
  <2>2. Queued(s) = {} => Head1.stream # s
    BY <1>0 DEF Queued, SentTyped, Head1
  <2>3. Queued(s) = {} => Queued(s)' = {}
    BY <1>0, <2>1, <2>2, TailShifts DEF Shifted
  <2>. QED  BY <1>0, <2>1, <2>3, ClosedWired
<1>5. CASE HeadFailed /\ WsStart(Head1)
  <2>1. /\ outbox' = Append(Tail(outbox), Msg(Head1.stream, "error"))
        /\ exchange' = [exchange EXCEPT ![Head1.stream] =
                          IF At(Head1.stream, "lost") THEN "over" ELSE "orphaned"]
        /\ UNCHANGED <<ws, heard>>
    BY <1>5 DEF HeadFailed, SendRejected, GoTo
  <2>2. Head1.stream \in Streams /\ exchange[Head1.stream] \in {"starting", "lost"}
    BY <1>0, <1>5, HeadTyped
  <2>3. Tail(outbox) \in Seq(Message) /\ Len(Tail(outbox)) = Len(outbox) - 1
        /\ \A i \in 1 .. Len(outbox) - 1 : Tail(outbox)[i] = outbox[i + 1]
    BY <1>0 DEF SentTyped
  <2>4. /\ DOMAIN outbox' = 1 .. Len(outbox)
        /\ outbox'[Len(outbox)] = Msg(Head1.stream, "error")
        /\ \A i \in 1 .. Len(outbox) - 1 : outbox'[i] = outbox[i + 1]
    BY <1>1, <2>1, <2>3
  <2>5. Msg(Head1.stream, "error").stream = Head1.stream
        /\ Msg(Head1.stream, "error").type = "error"
    BY DEF Msg
  <2>6. CASE Head1.stream # s
    <3>1. exchange'[s] = exchange[s]
      BY <1>0, <2>1, <2>6 DEF MapsTyped
    <3>2. ASSUME NEW i \in Queued(s) PROVE i - 1 \in Queued(s)' /\ outbox'[i - 1] = outbox[i]
      <4>1. i \in 1 .. Len(outbox) /\ i # 1
        BY <1>1, <2>6 DEF Queued, Head1
      <4>. QED  BY <1>1, <2>4, <4>1 DEF Queued
    <3>3. ASSUME NEW i \in Queued(s)' PROVE i + 1 \in Queued(s) /\ outbox[i + 1] = outbox'[i]
      <4>1. i \in 1 .. Len(outbox) /\ i # Len(outbox)
        BY <2>4, <2>5, <2>6 DEF Queued
      <4>2. i \in 1 .. Len(outbox) - 1 /\ i + 1 \in 1 .. Len(outbox)
        BY <1>1, <4>1
      <4>3. outbox'[i].stream = s /\ outbox'[i] = outbox[i + 1] /\ i + 1 \in DOMAIN outbox
        BY <1>0, <2>4, <4>2 DEF Queued, SentTyped
      <4>. QED  BY <4>3 DEF Queued
    <3>. QED  BY <1>0, <2>1, <3>1, <3>2, <3>3, CalmWired DEF Calm, Shifted
  <2>7. CASE Head1.stream = s
    <3>1. exchange'[s] \in {"over", "orphaned"}
      BY <1>0, <2>1, <2>7 DEF MapsTyped
    <3>2. HeardInOrder(s)'
      BY <2>1 DEF Wired, HeardInOrder, HeardStart
    <3>3. ASSUME ws' = "open" PROVE QueueInOrder(s)'
      <4>1. Starting(s) /\ 1 \in Queued(s)
        BY <1>0, <1>1, <2>1, <2>2, <2>7, <3>3 DEF Wired, Fits, Queued, Head1, SentTyped
      <4>2. ASSUME NEW i \in Queued(s)' PROVE outbox'[i].type = "error"
        <5>1. i \in 1 .. Len(outbox)
          BY <2>4 DEF Queued
        <5>2. CASE i # Len(outbox)
          <6>1. i + 1 \in 1 .. Len(outbox) /\ i \in 1 .. Len(outbox) - 1 /\ i + 1 # 1
            BY <1>1, <5>1, <5>2
          <6>2. i + 1 \in Queued(s)
            BY <1>0, <2>4, <6>1 DEF Queued, SentTyped
          <6>. QED  BY <4>1, <6>1, <6>2 DEF Starting
        <5>. QED  BY <2>4, <2>5, <5>2
      <4>. QED  BY <4>2 DEF QueueInOrder, Body
    <3>. QED  BY <3>1, <3>2, <3>3 DEF Wired, Fits
  <2>. QED  BY <2>6, <2>7
<1>. QED  BY <1>2, <1>3, <1>4, <1>5

LEMMA WiredGateway ==
  ASSUME TypeOK, SentTyped', Exchanges, NEW s \in Streams, Wired(s), NEW q \in Streams,
         GatewayStep(q)
  PROVE  Wired(s)'
<1>0. SentTyped /\ SentTyped' /\ MapsTyped
  BY TypeParts
<1>1. UNCHANGED <<outbox, heard, chunkIndex>> /\ (ws' = "open" => ws = "open")
  BY DEF GatewayStep, StartHttpExchange, HandleWsStart, StartExchange, IngressChunk,
     IngressChunkRefused, IngressEnd, CloseGateway, gateway, local
<1>2. Calm(s)
  <2>1. CASE StartHttpExchange(q) \/ HandleWsStart(q)
    <3>1. PICK loc \in {"waiting", "opening"} :
            exchange[q] = "none" /\ exchange' = [exchange EXCEPT ![q] = loc]
      BY <2>1 DEF StartHttpExchange, HandleWsStart, StartExchange, GoTo, At
    <3>. QED  BY <1>0, <3>1 DEF Calm, MapsTyped
  <2>2. CASE IngressChunk(q) \/ IngressChunkRefused(q)
    BY <2>2 DEF IngressChunk, IngressChunkRefused, local, Calm
  <2>3. CASE IngressEnd(q)
    <3>1. \/ exchange' = exchange
          \/ exchange' = [exchange EXCEPT ![q] = "deaf"]
          \/ /\ exchange' = [exchange EXCEPT ![q] = "closing"]
             /\ q \in pendingWs /\ exchange[q] # "deaf"
      BY <2>3 DEF IngressEnd, GoTo, At
    <3>. QED  BY <1>0, <3>1 DEF Calm, MapsTyped, Exchanges, Placed
  <2>. QED  BY <2>1, <2>2, <2>3 DEF GatewayStep
<1>. QED  BY <1>0, <1>1, <1>2, SameQueue, CalmWired

LEMMA WiredLocal ==
  ASSUME TypeOK, SentTyped', NEW s \in Streams, Wired(s), NEW q \in Streams, LocalStep(q)
  PROVE  Wired(s)'
<1>0. SentTyped /\ SentTyped' /\ MapsTyped
  BY TypeParts
<1>. USE DEF LocalEvent, GoTo, At
<1>1. /\ UNCHANGED <<heard, ws>>
      /\ \E loc : exchange' = [exchange EXCEPT ![q] = loc]
      /\ chunkIndex' = chunkIndex \/ chunkIndex' = [chunkIndex EXCEPT ![q] = @ + 1]
      /\ UNCHANGED outbox \/ \E m \in Message : m.stream = q /\ Send(m)
  <2>1. /\ UNCHANGED <<heard, ws>>
        /\ \E loc : exchange' = [exchange EXCEPT ![q] = loc]
        /\ chunkIndex' = chunkIndex \/ chunkIndex' = [chunkIndex EXCEPT ![q] = @ + 1]
        /\ \/ UNCHANGED outbox \/ Send(ChunkOf(q))
           \/ \E type \in {"start", "end", "error"} : Send(Msg(q, type))
    BY DEF LocalStep, ResponseStarts, ResponseData, ResponseEnds, RequestError,
       ResponseAborted, LocalOpened, LocalOpenFailed, LocalMessage, LocalClosed, LocalError,
       LocalClosedUnheard, HttpOver, gateway
  <2>2. /\ ChunkOf(q) \in Message /\ ChunkOf(q).stream = q
        /\ \A type \in {"start", "end", "error"} :
             Msg(q, type) \in Message /\ Msg(q, type).stream = q
    BY <1>0, MessageTyped DEF ChunkOf, Msg
  <2>. QED  BY <2>1, <2>2
<1>2. CASE q # s
  <2>1. exchange'[s] = exchange[s] /\ chunkIndex'[s] = chunkIndex[s]
    BY <1>0, <1>1, <1>2 DEF MapsTyped
  <2>2. Shifted(s, 0)
    BY <1>0, <1>1, <1>2, SameQueue, SendAppends
  <2>. QED  BY <1>0, <1>1, <2>1, <2>2, CalmWired DEF Calm
<1>3. CASE q = s
  <2>. USE <1>3
  <2>1. ASSUME UNCHANGED <<outbox, chunkIndex>>, Calm(s) PROVE Wired(s)'
    BY <1>0, <1>1, <2>1, SameQueue, CalmWired
  <2>2. CASE ResponseStarts(q)
    <3>1. /\ Send(Msg(s, "start")) /\ exchange[s] = "waiting"
          /\ exchange'[s] = "responding" /\ chunkIndex' = chunkIndex
      BY <1>0, <2>2 DEF ResponseStarts, MapsTyped
    <3>. QED  BY <1>0, <1>1, <3>1, StartAppended
  <2>3. CASE ResponseData(q) \/ LocalMessage(q)
    <3>1. /\ Send(ChunkOf(s)) /\ exchange[s] \in {"responding", "piped"}
          /\ exchange'[s] = exchange[s] /\ chunkIndex'[s] = chunkIndex[s] + 1
      BY <1>0, <2>3 DEF ResponseData, LocalMessage, MapsTyped
    <3>. QED  BY <1>0, <1>1, <3>1, ChunkAppended
  <2>4. CASE ResponseEnds(q) \/ RequestError(q)
    <3>1. PICK type \in {"end", "error"} :
            /\ Send(Msg(s, type)) /\ exchange' = [exchange EXCEPT ![s] = "over"]
            /\ chunkIndex' = chunkIndex /\ (type = "end" => exchange[s] = "responding")
      BY <2>4 DEF ResponseEnds, RequestError, HttpOver
    <3>2. exchange'[s] = "over"
      BY <1>0, <3>1 DEF MapsTyped
    <3>. QED  BY <1>0, <1>1, <3>1, <3>2, LastAppended
  <2>5. CASE LocalClosed(q) \/ LocalError(q)
    <3>1. PICK type \in {"end", "error"}, loc \in {"over", "failed"} :
            /\ Send(Msg(s, type)) /\ exchange' = [exchange EXCEPT ![s] = loc]
            /\ chunkIndex' = chunkIndex /\ exchange[s] \in {"piped", "failed", "closing"}
            /\ loc = "failed" => exchange[s] \in {"piped", "closing"}
      BY <2>5 DEF LocalClosed, LocalError
    <3>2. exchange'[s] = loc
      BY <1>0, <3>1 DEF MapsTyped
    <3>. QED  BY <1>0, <1>1, <3>1, <3>2, LastAppended
  <2>6. CASE LocalOpened(q)
    <3>1. CASE Current(s)
      <4>1. /\ Send(Msg(s, "start")) /\ exchange[s] = "opening"
            /\ exchange'[s] = "starting" /\ chunkIndex' = chunkIndex
        BY <1>0, <2>6, <3>1 DEF LocalOpened, MapsTyped
      <4>. QED  BY <1>0, <1>1, <4>1, StartAppended
    <3>2. CASE ~Current(s)
      BY <1>0, <2>1, <2>6, <3>2 DEF LocalOpened, MapsTyped, Calm
    <3>. QED  BY <3>1, <3>2
  <2>7. CASE LocalOpenFailed(q)
    <3>0. exchange'[s] = "over" /\ chunkIndex' = chunkIndex
      BY <1>0, <2>7 DEF LocalOpenFailed, MapsTyped
    <3>1. CASE Current(s)
      <4>1. Send(Msg(s, "error"))
        BY <2>7, <3>1 DEF LocalOpenFailed
      <4>. QED  BY <1>0, <1>1, <3>0, <4>1, LastAppended
    <3>2. CASE ~Current(s)
      BY <2>1, <2>7, <3>0, <3>2 DEF LocalOpenFailed, Calm
    <3>. QED  BY <3>1, <3>2
  <2>8. CASE ResponseAborted(q) \/ LocalClosedUnheard(q)
    BY <1>0, <2>1, <2>8 DEF ResponseAborted, LocalClosedUnheard, MapsTyped, Calm
  <2>. QED  BY <2>2, <2>3, <2>4, <2>5, <2>6, <2>7, <2>8 DEF LocalStep
<1>. QED  BY <1>2, <1>3

LEMMA WiredNext ==
  ASSUME TypeOK, Exchanges, [Next]_vars, NEW s \in Streams, Wired(s)
  PROVE  Wired(s)'
<1>0. SentTyped /\ MapsTyped /\ SentTyped' /\ s # None
  BY TypeParts, SentTypedNext, AgentAssumption
<1>1. CASE UNCHANGED vars \/ GatewayCloses
  <2>1. UNCHANGED <<outbox, heard, exchange, chunkIndex>> /\ (ws' = "open" => ws = "open")
    BY <1>1 DEF vars, local, gateway, GatewayCloses
  <2>. QED  BY <1>0, <2>1, SameQueue, CalmWired DEF Calm
<1>2. CASE Ping
  <2>1. /\ Msg(None, "pong") \in Message /\ Msg(None, "pong").stream # s
        /\ Send(Msg(None, "pong")) /\ UNCHANGED <<heard, exchange, chunkIndex, ws>>
    BY <1>0, <1>2, MessageTyped DEF Ping, Msg, local, gateway
  <2>2. Shifted(s, 0)
    BY <1>0, <2>1, SendAppends
  <2>. QED  BY <1>0, <2>1, <2>2, CalmWired DEF Calm
<1>. QED  BY <1>0, <1>1, <1>2, WiredLoop, WiredQueue, WiredGateway, WiredLocal DEF Next

(* Whatever is refused, times out or is ended from both sides at once, what *)
(* the gateway hears about a stream is the beginning of a response: its     *)
(* start, then its chunks without a gap, and no chunk after an end.         *)
THEOREM ResponsesInOrder == Spec => []ResponsesWellFormed
<1>. DEFINE AllWired == \A s \in Streams : Wired(s)
<1>1. Init => TypeOK /\ Exchanges /\ AllWired
  <2>. SUFFICES ASSUME Init PROVE TypeOK /\ Exchanges /\ AllWired
    OBVIOUS
  <2>1. TypeOK /\ Exchanges
    BY TypeInit DEF Init, Exchanges, Placed, AtRest
  <2>2. ASSUME NEW s \in Streams PROVE Wired(s)
    <3>1. heard[s] = <<>> /\ Queued(s) = {} /\ chunkIndex[s] = 0 /\ ws # "open"
      BY DEF Init, Queued
    <3>. QED  BY <3>1 DEF Wired, HeardInOrder, Untold
  <2>. QED  BY <2>1, <2>2
<1>2. TypeOK /\ Exchanges /\ AllWired /\ [Next]_vars => TypeOK' /\ Exchanges' /\ AllWired'
  BY TypeNext, ExchangesNext, WiredNext
<1>3. TypeOK /\ AllWired => ResponsesWellFormed
  <2>. SUFFICES ASSUME TypeOK, AllWired, NEW s \in Streams, NEW i \in DOMAIN heard[s]
                PROVE  /\ heard[s][i].type = "start" => i = 1
                       /\ heard[s][i].type = "chunk" =>
                            /\ heard[s][i].index = i - 2
                            /\ \A j \in 1 .. i - 1 : heard[s][j].type \in {"start", "chunk"}
                       /\ heard[s][i].type \in {"chunk", "end"} => heard[s][1].type = "start"
    BY DEF ResponsesWellFormed
  <2>1. HeardInOrder(s) /\ i \in Int /\ heard[s][i].index \in Int
    <3>1. heard[s][i] \in Message /\ i \in Int
      BY DEF TypeOK
    <3>. QED  BY <3>1, MessageShape DEF Wired
  <2>. QED  BY <2>1 DEF HeardInOrder, HeardStart, Body, Place
<1>. HIDE DEF AllWired
<1>. QED  BY <1>1, <1>2, <1>3, PTL DEF Spec

===============================================================================
