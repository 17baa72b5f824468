-------------------------- MODULE AgentSessionsProofs --------------------------
(* Proofs about AgentSessions, for every set of tunnels and sessions, every *)
(* number of missed pongs allowed and every number of restarts, with a      *)
(* database that may fail.                                                  *)
EXTENDS AgentSessions, TLAPS

USE DEF Codes, Writes, socket, heartbeat, registry, timers, database

--------------------------------------------------------------------------------
(* Sockets, heartbeats, registry, timers and rows keep their types.         *)
LEMMA TypeInit == Init => TypeOK
BY SessionsAssumption DEF Init, TypeOK

LEMMA CloseTyped ==
  ASSUME TypeOK, NEW C, NEW code \in Codes, CloseSockets(C, code)
  PROVE  /\ sock' \in [Sessions -> {"idle", "open", "closing", "closed"}]
         /\ closeCode' \in [Sessions -> Codes]
BY DEF TypeOK, CloseSockets

LEMMA HelloTyped ==
  ASSUME TypeOK, NEW c \in Sessions,
         HelloStep(c) \/ Hello(c) \/ HelloTimeout(c)
  PROVE  TypeOK'
<1>1. CASE Hello(c)          BY <1>1 DEF Hello, TypeOK
<1>2. CASE HelloTimeout(c)   BY <1>2, CloseTyped DEF HelloTimeout, TypeOK
<1>3. CASE HelloRead(c)      BY <1>3 DEF HelloRead, TypeOK
<1>4. CASE HelloReadFails(c) BY <1>4 DEF HelloReadFails, TypeOK
<1>5. CASE HelloRejected(c)  BY <1>5, CloseTyped DEF HelloRejected, TypeOK
<1>6. CASE HelloTooLate(c)   BY <1>6 DEF HelloTooLate, TypeOK
<1>7. CASE Register(c)
  <2>1. TunnelOfSession[c] \in Tunnels
    BY SessionsAssumption
  <2>2. /\ sock' \in [Sessions -> {"idle", "open", "closing", "closed"}]
        /\ closeCode' \in [Sessions -> Codes]
    BY <1>7, CloseTyped DEF Register
  <2>3. writes' \in SUBSET Writes
    BY <1>7, <2>1 DEF Register, TypeOK
  <2>4. /\ active' \in SUBSET Sessions /\ offlineTimer' \in SUBSET Tunnels
        /\ hello' \in [Sessions -> {"none", "lookup", "found", "missing", "done"}]
        /\ agentsByTunnel' \in [Tunnels -> Sessions \cup {None}]
    BY <1>7, <2>1 DEF Register, TypeOK
  <2>5. UNCHANGED <<heartbeat, grace, database, restarts>>
    BY <1>7 DEF Register
  <2>. QED  BY <2>2, <2>3, <2>4, <2>5 DEF TypeOK
<1>. QED  BY <1>1, <1>2, <1>3, <1>4, <1>5, <1>6, <1>7 DEF HelloStep

LEMMA PingTyped ==
  ASSUME TypeOK, NEW c \in Sessions, PingTick(c) \/ PingStep(c) \/ Pong(c)
  PROVE  TypeOK'
<1>1. CASE PingTick(c)  BY <1>1 DEF PingTick, TypeOK
<1>2. CASE PingRead(c)  BY <1>2, CloseTyped DEF PingRead, TypeOK
<1>3. CASE PingSent(c)  BY <1>3, CloseTyped DEF PingSent, MarkMissed, TypeOK
<1>4. CASE PingFails(c) BY <1>4, CloseTyped DEF PingFails, MarkMissed, TypeOK
<1>5. CASE Pong(c)      BY <1>5 DEF Pong, TypeOK
<1>. QED  BY <1>1, <1>2, <1>3, <1>4, <1>5 DEF PingStep

LEMMA CloseEventTyped ==
  ASSUME TypeOK, NEW c \in Sessions, CloseEvent(c)
  PROVE  TypeOK'
<1>1. /\ agentsByTunnel' \in [Tunnels -> Sessions \cup {None}]
      /\ offlineTimer' \in SUBSET Tunnels
  <2>1. /\ TunnelOfSession[c] \in Tunnels
        /\ agentsByTunnel \in [Tunnels -> Sessions \cup {None}]
        /\ offlineTimer \subseteq Tunnels
    BY SessionsAssumption DEF TypeOK
  <2>2. CASE c \in active /\ Registered(c)
    BY <2>1, <2>2 DEF CloseEvent
  <2>3. CASE ~(c \in active /\ Registered(c))
    BY <2>1, <2>3 DEF CloseEvent
  <2>. QED  BY <2>2, <2>3
<1>2. /\ sock' \in [Sessions -> {"idle", "open", "closing", "closed"}]
      /\ closeCode' \in [Sessions -> Codes]
      /\ missed' \in [Sessions -> Nat] /\ pinged' \in SUBSET Sessions
  BY DEF CloseEvent, TypeOK
<1>3. UNCHANGED <<hello, ping, active, grace, writes, database, restarts>>
  BY DEF CloseEvent
<1>. QED  BY <1>1, <1>2, <1>3 DEF TypeOK

LEMMA SocketTyped ==
  ASSUME TypeOK, NEW c \in Sessions, Connect(c) \/ BadMessage(c) \/ PeerCloses(c)
  PROVE  TypeOK'
<1>1. CASE Connect(c)    BY <1>1 DEF Connect, TypeOK
<1>2. CASE BadMessage(c) BY <1>2, CloseTyped DEF BadMessage, TypeOK
<1>3. CASE PeerCloses(c) BY <1>3 DEF PeerCloses, TypeOK
<1>. QED  BY <1>1, <1>2, <1>3

LEMMA RestartTyped ==
  ASSUME TypeOK, Restart
  PROVE  TypeOK'
BY DEF Restart, TypeOK

LEMMA GraceTyped ==
  ASSUME TypeOK, NEW t \in Tunnels, GraceExpires(t) \/ GraceRead(t) \/ TunnelStep(t)
  PROVE  TypeOK'
<1>1. CASE GraceExpires(t) BY <1>1 DEF GraceExpires, TypeOK
<1>2. CASE GraceRead(t)
  <2>1. writes' \in SUBSET Writes
    BY <1>2 DEF GraceRead, TypeOK
  <2>. QED  BY <1>2, <2>1 DEF GraceRead, TypeOK
<1>3. CASE ApiDelete(t)    BY <1>3 DEF ApiDelete, TypeOK
<1>4. CASE ApiLink(t)      BY <1>4 DEF ApiLink, TypeOK
<1>. QED  BY <1>1, <1>2, <1>3, <1>4 DEF TunnelStep

LEMMA WriteTyped ==
  ASSUME TypeOK, NEW w \in Writes, Apply(w) \/ WriteFails(w)
  PROVE  TypeOK'
<1>1. CASE Apply(w)
  <2>1. row' \in [Tunnels -> {"offline", "online", "deleted"}]
    BY <1>1 DEF Apply, TypeOK
  <2>2. deletedBy' \in [Tunnels -> {"nobody", "api", "gateway"}]
    BY <1>1 DEF Apply, TypeOK
  <2>. QED  BY <1>1, <2>1, <2>2 DEF Apply, TypeOK
<1>2. CASE WriteFails(w) BY <1>2 DEF WriteFails, TypeOK
<1>. QED  BY <1>1, <1>2

LEMMA TypeNext == TypeOK /\ [Next]_vars => TypeOK'
<1>. SUFFICES ASSUME TypeOK, [Next]_vars PROVE TypeOK'
  OBVIOUS
<1>1. CASE UNCHANGED vars
  BY <1>1 DEF vars, TypeOK
<1>2. CASE Next
  BY <1>2, HelloTyped, PingTyped, CloseEventTyped, SocketTyped, RestartTyped,
     GraceTyped, WriteTyped
  DEF Next, AgentStep, GatewayRestart, GraceReadFails
<1>. QED  BY <1>1, <1>2

(* Every variable of the session model has its type in every state.         *)
THEOREM TypeCorrect == Spec => []TypeOK
BY TypeInit, TypeNext, PTL DEF Spec

--------------------------------------------------------------------------------
(* Takeover, close events and the grace timer                               *)
LEMMA RegistryInit == Init => RegistryInv
BY TypeInit DEF Init, RegistryInv, LatestAgentWins, GraceOnlyWithoutAgent

(* A step that only closes sockets, with whatever code, disturbs nothing.   *)
LEMMA SocketsClosing ==
  ASSUME RegistryInv, TypeOK', UNCHANGED <<registry, offlineTimer>>,
         \A c \in Sessions :
           sock'[c] = sock[c] \/ (sock[c] = "open" /\ sock'[c] = "closing")
  PROVE  RegistryInv'
<1>1. LatestAgentWins'
  BY DEF RegistryInv, LatestAgentWins, Registered, TypeOK
<1>. QED  BY <1>1 DEF RegistryInv, GraceOnlyWithoutAgent, TypeOK

LEMMA CloseSocketsClosing ==
  ASSUME TypeOK, NEW C, NEW code, CloseSockets(C, code)
  PROVE  \A c \in Sessions :
           sock'[c] = sock[c] \/ (sock[c] = "open" /\ sock'[c] = "closing")
BY DEF TypeOK, CloseSockets

LEMMA RegisterInv ==
  ASSUME RegistryInv, TypeOK', NEW c \in Sessions, Register(c)
  PROVE  RegistryInv'
<1>. DEFINE t == TunnelOfSession[c]
<1>. /\ TypeOK /\ LatestAgentWins /\ GraceOnlyWithoutAgent
     /\ t \in Tunnels /\ c # None
  BY SessionsAssumption DEF RegistryInv
<1>1. /\ agentsByTunnel' = [agentsByTunnel EXCEPT ![t] = c]
      /\ active' = active \cup {c}
      /\ offlineTimer' = offlineTimer \ {t}
      /\ sock[c] = "open"
      /\ CloseSockets({agentsByTunnel[t]} \ {c}, 4001)
  BY DEF Register
<1>2. /\ sock'[c] = "open"
      /\ \A d \in Sessions : d = agentsByTunnel[t] /\ d # c => sock'[d] # "open"
      /\ \A d \in Sessions : d # agentsByTunnel[t] => sock'[d] = sock[d]
      /\ \A d \in Sessions :
           sock'[d] = sock[d] \/ (sock[d] = "open" /\ sock'[d] = "closing")
  BY <1>1 DEF CloseSockets, TypeOK
<1>3. ASSUME NEW d \in active', sock'[d] = "open" PROVE Registered(d)'
  <2>1. CASE d = c
    BY <2>1, <1>1 DEF Registered, TypeOK
  <2>2. CASE d # c
    <3>1. d \in Sessions /\ d \in active /\ sock[d] = "open"
      BY <2>2, <1>1, <1>2, <1>3 DEF TypeOK
    <3>2. Registered(d) /\ TunnelOfSession[d] \in Tunnels
      BY <3>1, SessionsAssumption DEF LatestAgentWins
    <3>3. TunnelOfSession[d] # t
      BY <3>1, <3>2, <2>2, <1>2, <1>3 DEF Registered
    <3>. QED  BY <3>2, <3>3, <1>1 DEF Registered, TypeOK
  <2>. QED  BY <2>1, <2>2
<1>4. ASSUME NEW u \in Tunnels, agentsByTunnel'[u] # None
      PROVE  LET d == agentsByTunnel'[u] IN
             d \in active' /\ sock'[d] \in {"open", "closing"}
               /\ TunnelOfSession[d] = u
  <2>1. CASE u = t
    BY <2>1, <1>1, <1>2 DEF TypeOK
  <2>2. CASE u # t
    <3>1. agentsByTunnel'[u] = agentsByTunnel[u] /\ agentsByTunnel[u] \in Sessions
      BY <2>2, <1>1, <1>4 DEF TypeOK
    <3>. QED  BY <3>1, <1>1, <1>2, <1>4 DEF LatestAgentWins
  <2>. QED  BY <2>1, <2>2
<1>5. LatestAgentWins'
  BY <1>3, <1>4 DEF LatestAgentWins
<1>6. GraceOnlyWithoutAgent'
  BY <1>1 DEF GraceOnlyWithoutAgent, TypeOK
<1>7. \A d \in active' : sock'[d] # "idle"
  BY <1>1, <1>2 DEF RegistryInv, TypeOK
<1>. QED  BY <1>5, <1>6, <1>7 DEF RegistryInv

LEMMA CloseEventInv ==
  ASSUME RegistryInv, TypeOK', NEW c \in Sessions, CloseEvent(c)
  PROVE  RegistryInv'
<1>. DEFINE t == TunnelOfSession[c]
<1>. /\ TypeOK /\ LatestAgentWins /\ GraceOnlyWithoutAgent /\ t \in Tunnels
  BY SessionsAssumption DEF RegistryInv
<1>1. /\ sock' = [sock EXCEPT ![c] = "closed"]
      /\ active' = active
  BY DEF CloseEvent
<1>2. CASE c \in active /\ Registered(c)
  <2>1. /\ agentsByTunnel' = [agentsByTunnel EXCEPT ![t] = None]
        /\ offlineTimer' = offlineTimer \cup {t}
    BY <1>2 DEF CloseEvent
  <2>2. ASSUME NEW d \in active', sock'[d] = "open" PROVE Registered(d)'
    <3>1. d \in Sessions /\ d # c /\ sock[d] = "open" /\ Registered(d)
      BY <1>1, <2>2 DEF LatestAgentWins, TypeOK
    <3>2. TunnelOfSession[d] # t
      BY <3>1, <1>2 DEF Registered
    <3>. QED  BY <2>1, <3>1, <3>2, SessionsAssumption DEF Registered, TypeOK
  <2>3. ASSUME NEW u \in Tunnels, agentsByTunnel'[u] # None
        PROVE  LET d == agentsByTunnel'[u] IN
               d \in active' /\ sock'[d] \in {"open", "closing"}
                 /\ TunnelOfSession[d] = u
    <3>1. u # t /\ agentsByTunnel'[u] = agentsByTunnel[u]
          /\ agentsByTunnel[u] \in Sessions
      BY <2>1, <2>3 DEF TypeOK
    <3>2. agentsByTunnel[u] # c
      BY <3>1, <2>3 DEF LatestAgentWins
    <3>. QED  BY <3>1, <3>2, <1>1, <2>3 DEF LatestAgentWins, TypeOK
  <2>4. LatestAgentWins'
    BY <2>2, <2>3 DEF LatestAgentWins
  <2>5. GraceOnlyWithoutAgent'
    BY <2>1 DEF GraceOnlyWithoutAgent, TypeOK
  <2>. QED  BY <2>4, <2>5, <1>1 DEF RegistryInv, TypeOK
<1>3. CASE ~(c \in active /\ Registered(c))
  <2>1. UNCHANGED <<agentsByTunnel, offlineTimer>>
    BY <1>3 DEF CloseEvent
  <2>2. \A u \in Tunnels : agentsByTunnel[u] # c
    BY <1>3, SessionsAssumption DEF LatestAgentWins, Registered
  <2>3. LatestAgentWins'
    BY <2>1, <2>2, <1>1 DEF LatestAgentWins, Registered, TypeOK
  <2>. QED  BY <2>1, <2>3, <1>1 DEF RegistryInv, GraceOnlyWithoutAgent, TypeOK
<1>. QED  BY <1>2, <1>3

LEMMA RestartInv ==
  ASSUME RegistryInv, TypeOK', Restart
  PROVE  RegistryInv'
BY DEF Restart, RegistryInv, LatestAgentWins, GraceOnlyWithoutAgent, TypeOK

LEMMA RegistryNext == RegistryInv /\ [Next]_vars => RegistryInv'
<1>. SUFFICES ASSUME RegistryInv, [Next]_vars PROVE RegistryInv'
  OBVIOUS
<1>. TypeOK /\ TypeOK'
  BY TypeNext DEF RegistryInv
<1>1. CASE UNCHANGED vars
  BY <1>1, SocketsClosing DEF vars
<1>2. ASSUME NEW c \in Sessions, AgentStep(c) PROVE RegistryInv'
  <2>1. CASE Connect(c)
    <3>1. c \notin active
      BY <2>1 DEF Connect, RegistryInv
    <3>2. LatestAgentWins'
      BY <2>1, <3>1 DEF Connect, RegistryInv, LatestAgentWins, Registered, TypeOK
    <3>. QED  BY <2>1, <3>2 DEF Connect, RegistryInv, GraceOnlyWithoutAgent, TypeOK
  <2>2. CASE BadMessage(c)
    BY <2>2, CloseSocketsClosing, SocketsClosing DEF BadMessage
  <2>3. CASE PeerCloses(c)
    BY <2>3, SocketsClosing DEF PeerCloses, TypeOK
  <2>4. CASE Hello(c)  BY <2>4, SocketsClosing DEF Hello
  <2>5. CASE Pong(c)   BY <2>5, SocketsClosing DEF Pong
  <2>. QED  BY <1>2, <2>1, <2>2, <2>3, <2>4, <2>5 DEF AgentStep
<1>3. ASSUME NEW c \in Sessions, HelloStep(c) \/ HelloTimeout(c) PROVE RegistryInv'
  <2>1. CASE HelloRead(c)      BY <2>1, SocketsClosing DEF HelloRead
  <2>2. CASE HelloReadFails(c) BY <2>2, SocketsClosing DEF HelloReadFails
  <2>3. CASE HelloRejected(c)
    BY <2>3, CloseSocketsClosing, SocketsClosing DEF HelloRejected
  <2>4. CASE HelloTooLate(c)   BY <2>4, SocketsClosing DEF HelloTooLate
  <2>5. CASE Register(c)       BY <2>5, RegisterInv
  <2>6. CASE HelloTimeout(c)
    BY <2>6, CloseSocketsClosing, SocketsClosing DEF HelloTimeout
  <2>. QED  BY <1>3, <2>1, <2>2, <2>3, <2>4, <2>5, <2>6 DEF HelloStep
<1>4. ASSUME NEW c \in Sessions, PingTick(c) \/ PingStep(c) PROVE RegistryInv'
  <2>1. CASE PingTick(c)  BY <2>1, SocketsClosing DEF PingTick
  <2>2. CASE PingRead(c)
    BY <2>2, CloseSocketsClosing, SocketsClosing DEF PingRead
  <2>3. CASE PingSent(c) \/ PingFails(c)
    BY <2>3, CloseSocketsClosing, SocketsClosing DEF PingSent, PingFails, MarkMissed
  <2>. QED  BY <1>4, <2>1, <2>2, <2>3 DEF PingStep
<1>5. ASSUME NEW c \in Sessions, CloseEvent(c) PROVE RegistryInv'
  BY <1>5, CloseEventInv
<1>6. ASSUME NEW t \in Tunnels, GraceExpires(t) \/ GraceRead(t) \/ TunnelStep(t)
      PROVE  RegistryInv'
  <2>1. CASE GraceExpires(t)
    <3>1. /\ UNCHANGED <<socket, registry>>
          /\ offlineTimer' \subseteq offlineTimer
      BY <2>1 DEF GraceExpires
    <3>2. LatestAgentWins'
      BY <3>1 DEF RegistryInv, LatestAgentWins, Registered
    <3>. QED  BY <3>1, <3>2 DEF RegistryInv, GraceOnlyWithoutAgent
  <2>2. CASE GraceRead(t)  BY <2>2, SocketsClosing DEF GraceRead
  <2>3. CASE ApiDelete(t)  BY <2>3, SocketsClosing DEF ApiDelete
  <2>4. CASE ApiLink(t)    BY <2>4, SocketsClosing DEF ApiLink
  <2>. QED  BY <1>6, <2>1, <2>2, <2>3, <2>4 DEF TunnelStep
<1>7. ASSUME NEW w \in Writes, Apply(w) \/ WriteFails(w) PROVE RegistryInv'
  BY <1>7, SocketsClosing DEF Apply, WriteFails
<1>8. CASE Restart
  BY <1>8, RestartInv
<1>. QED
  BY <1>1, <1>2, <1>3, <1>4, <1>5, <1>6, <1>7, <1>8
  DEF Next, GatewayRestart, GraceReadFails

(* Sockets, registry and grace timers stay consistent with each other.      *)
THEOREM RegistryInvariant == Spec => []RegistryInv
BY RegistryInit, RegistryNext, PTL DEF Spec

(* The newest registration wins and stays until its own close event, and no *)
(* closed session is ever registered.                                       *)
THEOREM LatestWins == Spec => []LatestAgentWins
<1>1. RegistryInv => LatestAgentWins
  BY DEF RegistryInv
<1>. QED  BY <1>1, RegistryInvariant, PTL

(* A pending offline timer means that the tunnel has no agent.              *)
THEOREM GraceWithoutAgent == Spec => []GraceOnlyWithoutAgent
<1>1. RegistryInv => GraceOnlyWithoutAgent
  BY DEF RegistryInv
<1>. QED  BY <1>1, RegistryInvariant, PTL

(* One step at a time: only Register, CloseEvent and Restart write to       *)
(* agentsByTunnel.                                                          *)
LEMMA DisplacedStep ==
  ASSUME RegistryInv, [Next]_vars, NEW t \in Tunnels,
         agentsByTunnel[t] # None, agentsByTunnel'[t] = None
  PROVE  sock'[agentsByTunnel[t]] = "closed"
<1>. /\ TypeOK
     /\ agentsByTunnel[t] \in Sessions
     /\ sock[agentsByTunnel[t]] \in {"open", "closing"}
     /\ TunnelOfSession[agentsByTunnel[t]] = t
  BY DEF RegistryInv, LatestAgentWins, TypeOK
<1>1. ASSUME NEW c \in Sessions, Register(c) PROVE FALSE
  <2>1. TunnelOfSession[c] \in Tunnels /\ c # None
    BY SessionsAssumption
  <2>. QED  BY <1>1, <2>1 DEF Register, TypeOK
<1>2. ASSUME NEW c \in Sessions, CloseEvent(c)
      PROVE  sock'[agentsByTunnel[t]] = "closed"
  <2>1. c = agentsByTunnel[t]
    BY <1>2, SessionsAssumption DEF CloseEvent, Registered, TypeOK
  <2>. QED  BY <1>2, <2>1 DEF CloseEvent, TypeOK
<1>3. CASE Restart
  BY <1>3 DEF Restart
<1>4. CASE UNCHANGED agentsByTunnel
  BY <1>4
<1>5. ASSUME NEW c \in Sessions, AgentStep(c) \/ HelloTimeout(c)
      PROVE  UNCHANGED agentsByTunnel
  BY <1>5 DEF AgentStep, Connect, Hello, BadMessage, Pong, PeerCloses, HelloTimeout
<1>6. ASSUME NEW c \in Sessions, HelloStep(c)
      PROVE  UNCHANGED agentsByTunnel \/ Register(c)
  BY <1>6 DEF HelloStep, HelloRead, HelloReadFails, HelloRejected, HelloTooLate
<1>7. ASSUME NEW c \in Sessions, PingTick(c) \/ PingStep(c)
      PROVE  UNCHANGED agentsByTunnel
  BY <1>7 DEF PingTick, PingStep, PingRead, PingSent, PingFails, MarkMissed
<1>8. ASSUME NEW u \in Tunnels, GraceExpires(u) \/ GraceRead(u) \/ TunnelStep(u)
      PROVE  UNCHANGED agentsByTunnel
  BY <1>8 DEF GraceExpires, GraceRead, TunnelStep, ApiDelete, ApiLink
<1>9. ASSUME NEW w \in Writes, Apply(w) \/ WriteFails(w)
      PROVE  UNCHANGED agentsByTunnel
  BY <1>9 DEF Apply, WriteFails
<1>10. CASE Next
  BY <1>10, <1>1, <1>2, <1>3, <1>4, <1>5, <1>6, <1>7, <1>8, <1>9
  DEF Next, GatewayRestart, GraceReadFails
<1>11. CASE UNCHANGED vars
  BY <1>11, <1>4 DEF vars
<1>. QED  BY <1>10, <1>11

(* Only an agent's own close event (or the end of the process) removes it   *)
(* from the registry without a successor.                                   *)
THEOREM Displaced == Spec => DisplacedOnlyWithCause
<1>1. RegistryInv /\ [Next]_vars =>
        [\A t \in Tunnels :
           agentsByTunnel[t] # None /\ agentsByTunnel'[t] = None
             => sock'[agentsByTunnel[t]] = "closed"]_vars
  BY DisplacedStep
<1>. QED  BY <1>1, RegistryInvariant, PTL DEF Spec, DisplacedOnlyWithCause

================================================================================
