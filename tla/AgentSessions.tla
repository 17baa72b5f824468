----------------------------- MODULE AgentSessions -----------------------------
(***************************************************************************)
(* Agent connections of the tunnel gateway                                 *)
(* (src/apps/tunnel-gateway/src/index.ts, handleAgentConnection and the    *)
(* offline grace timer): the hello handshake, registration and takeover,   *)
(* the heartbeat, the close event, the grace period after which a tunnel   *)
(* is marked offline or deleted, and the tunnel's row in PostgreSQL.       *)
(*                                                                         *)
(* As in StreamLifecycle an action runs from one await or event to the     *)
(* next.  A query takes a step when the database answers; a write that is  *)
(* not awaited (runSafely) waits in `writes` and is applied in any order.  *)
(* The streams of a session are the subject of StreamLifecycle, whose      *)
(* actions RegisterAgent, AgentSocketCloses and AgentCloseEvent are what   *)
(* it sees of this module.                                                 *)
(***************************************************************************)
EXTENDS Integers, FiniteSets

CONSTANTS
    Tunnels,            \* tunnel ids
    Sessions,           \* agent connections, one session id each
    None,               \* no session
    TunnelOfSession,    \* the tunnelId of the session's connect token
    Silent,             \* agents that never answer a ping
    MaxMissedPongs,     \* AGENTJ_AGENT_MAX_MISSED_PONGS
    DatabaseFails,      \* whether a query or write may fail
    MaxRestarts         \* bound: restarts of the gateway process

ASSUME SessionsAssumption ==
    /\ None \notin Tunnels \cup Sessions
    /\ TunnelOfSession \in [Sessions -> Tunnels]
    /\ Silent \subseteq Sessions
    /\ MaxMissedPongs \in Nat /\ MaxRestarts \in Nat
    /\ DatabaseFails \in BOOLEAN

VARIABLES
    sock,               \* the agent's WebSocket, as the gateway sees it
    closeCode,          \* code the gateway is closing the socket with, or 0
    active,             \* sessions whose activeConnection is set
    hello,              \* progress of agent_hello
    ping,               \* progress of a ping; not "idle": pingSendInFlight
    missed,             \* heartbeatState.missedPongs
    pinged,             \* environment: sessions that owe a pong
    agentsByTunnel,     \* the registered session of each tunnel
    offlineTimer,       \* keys of pendingOfflineTimersByTunnel
    grace,              \* grace callbacks suspended in the channel lookup
    writes,             \* writes to the tunnels table not yet applied
    row,                \* status of each tunnel's row, or "deleted"
    deletedBy,          \* history: who deleted the row
    linked,             \* tunnels a LINE channel is linked to
    restarts            \* restarts so far

socket    == <<sock, closeCode>>
heartbeat == <<ping, missed, pinged>>
registry  == <<active, agentsByTunnel>>
timers    == <<offlineTimer, grace>>
database  == <<row, deletedBy, linked>>

vars == <<socket, hello, heartbeat, registry, timers, writes, database, restarts>>

Codes == {0, 4001, 4400, 4404, 4408, 4410, 4411}
Writes == [op : {"online", "offline", "delete"}, tunnel : Tunnels]

TypeOK ==
    /\ sock \in [Sessions -> {"idle", "open", "closing", "closed"}]
    /\ closeCode \in [Sessions -> Codes]
    /\ active \in SUBSET Sessions
    /\ hello \in [Sessions -> {"none", "lookup", "found", "missing", "done"}]
    /\ ping \in [Sessions -> {"idle", "lookup", "sending"}]
    /\ missed \in [Sessions -> Nat]
    /\ pinged \in SUBSET Sessions
    /\ agentsByTunnel \in [Tunnels -> Sessions \cup {None}]
    /\ offlineTimer \in SUBSET Tunnels
    /\ grace \in [Tunnels -> Nat]
    /\ writes \in SUBSET Writes
    /\ row \in [Tunnels -> {"offline", "online", "deleted"}]
    /\ deletedBy \in [Tunnels -> {"nobody", "api", "gateway"}]
    /\ linked \in SUBSET Tunnels
    /\ restarts \in Nat

(* A tunnel row is created offline by the web API before any agent comes.  *)
Init ==
    /\ sock = [c \in Sessions |-> "idle"]
    /\ closeCode = [c \in Sessions |-> 0]
    /\ active = {}
    /\ hello = [c \in Sessions |-> "none"]
    /\ ping = [c \in Sessions |-> "idle"]
    /\ missed = [c \in Sessions |-> 0]
    /\ pinged = {}
    /\ agentsByTunnel = [t \in Tunnels |-> None]
    /\ offlineTimer = {}
    /\ grace = [t \in Tunnels |-> 0]
    /\ writes = {}
    /\ row = [t \in Tunnels |-> "offline"]
    /\ deletedBy = [t \in Tunnels |-> "nobody"]
    /\ linked = {}
    /\ restarts = 0

Registered(c) == agentsByTunnel[TunnelOfSession[c]] = c

--------------------------------------------------------------------------------
(* close(code) on the sockets of C: nothing happens to one already closing. *)
CloseSockets(C, code) ==
    LET open == {c \in C \cap Sessions : sock[c] = "open"} IN
    /\ sock' = [c \in Sessions |-> IF c \in open THEN "closing" ELSE sock[c]]
    /\ closeCode' = [c \in Sessions |-> IF c \in open THEN code ELSE closeCode[c]]

(* The token verified; the socket is up and the ping interval runs.  The   *)
(* token may outlive the tunnel it was issued for.                         *)
Connect(c) ==
    /\ sock[c] = "idle"
    /\ sock' = [sock EXCEPT ![c] = "open"]
    /\ UNCHANGED <<closeCode, hello, heartbeat, registry, timers, writes,
                   database, restarts>>

(* The first agent_hello clears the hello timer and looks the tunnel up.   *)
Hello(c) ==
    /\ sock[c] = "open" /\ hello[c] = "none"
    /\ hello' = [hello EXCEPT ![c] = "lookup"]
    /\ UNCHANGED <<socket, heartbeat, registry, timers, writes, database, restarts>>

(* A message that does not parse, or a second agent_hello.                 *)
BadMessage(c) ==
    /\ sock[c] = "open"
    /\ CloseSockets({c}, 4400)
    /\ UNCHANGED <<hello, heartbeat, registry, timers, writes, database, restarts>>

(* The hello timer is armed until the first hello or the close event.      *)
HelloTimeout(c) ==
    /\ sock[c] = "open" /\ hello[c] = "none"
    /\ CloseSockets({c}, 4408)
    /\ UNCHANGED <<hello, heartbeat, registry, timers, writes, database, restarts>>

(* The database answers the tunnel query.                                  *)
HelloRead(c) ==
    /\ hello[c] = "lookup"
    /\ hello' = [hello EXCEPT ![c] =
                   IF row[TunnelOfSession[c]] = "deleted" THEN "missing" ELSE "found"]
    /\ UNCHANGED <<socket, heartbeat, registry, timers, writes, database, restarts>>

(* The query failed: only logged, the hello timer is already cleared.      *)
HelloReadFails(c) ==
    /\ DatabaseFails /\ hello[c] = "lookup"
    /\ hello' = [hello EXCEPT ![c] = "done"]
    /\ UNCHANGED <<socket, heartbeat, registry, timers, writes, database, restarts>>

HelloRejected_NoClose(c) ==     \* mutant: the reply to an unknown tunnel is lost
    /\ hello[c] = "missing"
    /\ hello' = [hello EXCEPT ![c] = "done"]
    /\ UNCHANGED <<socket, heartbeat, registry, timers, writes, database, restarts>>

HelloRejected(c) ==
    /\ hello[c] = "missing"
    /\ hello' = [hello EXCEPT ![c] = "done"]
    /\ CloseSockets({c}, 4404)
    /\ UNCHANGED <<heartbeat, registry, timers, writes, database, restarts>>

HelloTooLate(c) ==
    /\ hello[c] = "found" /\ sock[c] # "open"
    /\ hello' = [hello EXCEPT ![c] = "done"]
    /\ UNCHANGED <<socket, heartbeat, registry, timers, writes, database, restarts>>

Register_KeepsOlder(c) ==       \* mutant: the existing session is not closed
    LET t == TunnelOfSession[c] IN
    /\ hello[c] = "found" /\ sock[c] = "open"
    /\ hello' = [hello EXCEPT ![c] = "done"]
    /\ offlineTimer' = offlineTimer \ {t}
    /\ active' = active \cup {c}
    /\ agentsByTunnel' = [agentsByTunnel EXCEPT ![t] = c]
    /\ writes' = writes \cup {[op |-> "online", tunnel |-> t]}
    /\ UNCHANGED <<socket, heartbeat, grace, database, restarts>>

Register_KeepsTimer(c) ==       \* mutant: no clearPendingOfflineTimer
    LET t == TunnelOfSession[c] IN
    /\ hello[c] = "found" /\ sock[c] = "open"
    /\ hello' = [hello EXCEPT ![c] = "done"]
    /\ CloseSockets({agentsByTunnel[t]} \ {c}, 4001)
    /\ active' = active \cup {c}
    /\ agentsByTunnel' = [agentsByTunnel EXCEPT ![t] = c]
    /\ writes' = writes \cup {[op |-> "online", tunnel |-> t]}
    /\ UNCHANGED <<heartbeat, timers, database, restarts>>

(* The tail of the hello handler: supersede, cancel the grace timer,       *)
(* register, mark the tunnel online.                                       *)
Register(c) ==
    LET t == TunnelOfSession[c] IN
    /\ hello[c] = "found" /\ sock[c] = "open"
    /\ hello' = [hello EXCEPT ![c] = "done"]
    /\ CloseSockets({agentsByTunnel[t]} \ {c}, 4001)
    /\ offlineTimer' = offlineTimer \ {t}
    /\ active' = active \cup {c}
    /\ agentsByTunnel' = [agentsByTunnel EXCEPT ![t] = c]
    /\ writes' = writes \cup {[op |-> "online", tunnel |-> t]}
    /\ UNCHANGED <<heartbeat, grace, database, restarts>>

--------------------------------------------------------------------------------
(* Heartbeat *)

(* The ping interval of an active connection.  The counter stands still    *)
(* once it has passed the limit: the socket is closing then.               *)
PingTick(c) ==
    /\ c \in active /\ sock[c] \in {"open", "closing"}
    /\ ping[c] = "idle" /\ missed[c] <= MaxMissedPongs
    /\ ping' = [ping EXCEPT ![c] = "lookup"]
    /\ UNCHANGED <<socket, hello, missed, pinged, registry, timers, writes,
                   database, restarts>>

PingRead(c) ==
    /\ ping[c] = "lookup"
    /\ IF row[TunnelOfSession[c]] = "deleted"
       THEN ping' = [ping EXCEPT ![c] = "idle"] /\ CloseSockets({c}, 4410)
       ELSE ping' = [ping EXCEPT ![c] = "sending"] /\ UNCHANGED socket
    /\ UNCHANGED <<hello, missed, pinged, registry, timers, writes, database, restarts>>

MarkMissed_NotCounted(c) ==     \* mutant: the counter is set, not incremented
    /\ ping' = [ping EXCEPT ![c] = "idle"]
    /\ missed' = [missed EXCEPT ![c] = 1]
    /\ IF 1 > MaxMissedPongs THEN CloseSockets({c}, 4411) ELSE UNCHANGED socket
    /\ UNCHANGED <<hello, registry, timers, writes, database, restarts>>

(* markMissedHeartbeatAndMaybeClose, after pingSendInFlight is reset.      *)
MarkMissed(c) ==
    /\ ping' = [ping EXCEPT ![c] = "idle"]
    /\ missed' = [missed EXCEPT ![c] = IF sock[c] = "closed" THEN @ ELSE @ + 1]
    /\ IF missed[c] + 1 > MaxMissedPongs
       THEN CloseSockets({c}, 4411)
       ELSE UNCHANGED socket
    /\ UNCHANGED <<hello, registry, timers, writes, database, restarts>>

PingSent(c) ==
    /\ ping[c] = "sending" /\ sock[c] # "closed"
    /\ pinged' = pinged \cup {c}
    /\ MarkMissed(c)

(* The catch block: the send failed (socket not open, backpressure), or    *)
(* the query for the tunnel did.                                           *)
PingFails(c) ==
    /\ ping[c] = "sending" \/ (DatabaseFails /\ ping[c] = "lookup")
    /\ MarkMissed(c)
    /\ UNCHANGED pinged

Pong(c) ==
    /\ c \in pinged \ Silent /\ sock[c] \in {"open", "closing"}
    /\ missed' = [missed EXCEPT ![c] = 0]
    /\ pinged' = pinged \ {c}
    /\ UNCHANGED <<socket, hello, ping, registry, timers, writes, database, restarts>>

--------------------------------------------------------------------------------
(* Disconnection and grace *)

PeerCloses(c) ==
    /\ sock[c] = "open"
    /\ sock' = [sock EXCEPT ![c] = "closing"]
    /\ UNCHANGED <<closeCode, hello, heartbeat, registry, timers, writes,
                   database, restarts>>

CloseEvent_AnySession(c) ==     \* mutant: the session id is not compared
    LET t == TunnelOfSession[c] IN
    /\ sock[c] = "closing"
    /\ sock' = [sock EXCEPT ![c] = "closed"]
    /\ closeCode' = [closeCode EXCEPT ![c] = 0]
    /\ missed' = [missed EXCEPT ![c] = 0]
    /\ pinged' = pinged \ {c}
    /\ IF c \in active
       THEN /\ agentsByTunnel' = [agentsByTunnel EXCEPT ![t] = None]
            /\ offlineTimer' = offlineTimer \cup {t}
       ELSE UNCHANGED <<agentsByTunnel, offlineTimer>>
    /\ UNCHANGED <<hello, ping, active, grace, writes, database, restarts>>

(* on 'close': only the registered session starts the grace period.  The   *)
(* ping timer stops: the heartbeat state is not looked at any more, it and *)
(* the close code are reset to keep the state space small.                 *)
CloseEvent(c) ==
    LET t == TunnelOfSession[c] IN
    /\ sock[c] = "closing"
    /\ sock' = [sock EXCEPT ![c] = "closed"]
    /\ closeCode' = [closeCode EXCEPT ![c] = 0]
    /\ missed' = [missed EXCEPT ![c] = 0]
    /\ pinged' = pinged \ {c}
    /\ IF c \in active /\ Registered(c)
       THEN /\ agentsByTunnel' = [agentsByTunnel EXCEPT ![t] = None]
            /\ offlineTimer' = offlineTimer \cup {t}
       ELSE UNCHANGED <<agentsByTunnel, offlineTimer>>
    /\ UNCHANGED <<hello, ping, active, grace, writes, database, restarts>>

GraceExpires_DeletesOnly(t) ==  \* mutant: a linked tunnel is left as it is
    /\ t \in offlineTimer
    /\ offlineTimer' = offlineTimer \ {t}
    /\ grace' = [grace EXCEPT ![t] = IF agentsByTunnel[t] = None /\ t \notin linked
                                    THEN @ + 1 ELSE @]
    /\ UNCHANGED <<socket, hello, heartbeat, registry, writes, database, restarts>>

(* The callback of scheduleTunnelOfflineAfterGrace up to its await.        *)
GraceExpires(t) ==
    /\ t \in offlineTimer
    /\ offlineTimer' = offlineTimer \ {t}
    /\ grace' = [grace EXCEPT ![t] = IF agentsByTunnel[t] = None THEN @ + 1 ELSE @]
    /\ UNCHANGED <<socket, hello, heartbeat, registry, writes, database, restarts>>

(* The rest of it: whether an agent has registered since is not looked at. *)
GraceRead(t) ==
    /\ grace[t] > 0
    /\ grace' = [grace EXCEPT ![t] = @ - 1]
    /\ writes' = writes \cup
         {[op |-> IF t \in linked THEN "offline" ELSE "delete", tunnel |-> t]}
    /\ UNCHANGED <<socket, hello, heartbeat, registry, offlineTimer, database, restarts>>

--------------------------------------------------------------------------------
(* The tunnels table *)

Apply_StatusOnly(w) ==          \* mutant: a delete is written as a status
    /\ w \in writes
    /\ writes' = writes \ {w}
    /\ row' = [row EXCEPT ![w.tunnel] = IF @ = "deleted" THEN @ ELSE w.op]
    /\ UNCHANGED <<socket, hello, heartbeat, registry, timers, linked, deletedBy, restarts>>

(* An UPDATE of a deleted row changes nothing; a DELETE takes the LINE     *)
(* channel of the tunnel with it (ON DELETE CASCADE).                      *)
Apply(w) ==
    /\ w \in writes
    /\ writes' = writes \ {w}
    /\ row' = [row EXCEPT ![w.tunnel] =
                 IF @ = "deleted" \/ w.op = "delete" THEN "deleted" ELSE w.op]
    /\ deletedBy' = [deletedBy EXCEPT ![w.tunnel] =
                 IF w.op = "delete" /\ @ = "nobody" THEN "gateway" ELSE @]
    /\ linked' = IF w.op = "delete" THEN linked \ {w.tunnel} ELSE linked
    /\ UNCHANGED <<socket, hello, heartbeat, registry, timers, restarts>>

WriteFails(w) ==
    /\ DatabaseFails /\ w \in writes
    /\ writes' = writes \ {w}
    /\ UNCHANGED <<socket, hello, heartbeat, registry, timers, database, restarts>>

(* The web application deletes a tunnel, or creates a LINE channel for it  *)
(* (its tunnel_id is unique, and nothing but a cascade deletes it).        *)
ApiDelete(t) ==
    /\ row[t] # "deleted"
    /\ row' = [row EXCEPT ![t] = "deleted"]
    /\ deletedBy' = [deletedBy EXCEPT ![t] = "api"]
    /\ linked' = linked \ {t}
    /\ UNCHANGED <<socket, hello, heartbeat, registry, timers, writes, restarts>>

ApiLink(t) ==
    /\ row[t] # "deleted" /\ t \notin linked
    /\ linked' = linked \cup {t}
    /\ UNCHANGED <<socket, hello, heartbeat, registry, timers, writes, row,
                   deletedBy, restarts>>

--------------------------------------------------------------------------------
(* The process ends (deployment, crash, or the rejection of a grace        *)
(* callback that nobody handles) and starts again: sockets, maps, timers   *)
(* and writes in flight are gone, the rows stay as they are.               *)
Restart ==
    /\ restarts' = restarts + 1
    /\ sock' = [c \in Sessions |-> IF sock[c] = "idle" THEN "idle" ELSE "closed"]
    /\ hello' = [c \in Sessions |-> IF sock[c] = "idle" THEN "none" ELSE "done"]
    /\ ping' = [c \in Sessions |-> "idle"]
    /\ active' = {}
    /\ agentsByTunnel' = [t \in Tunnels |-> None]
    /\ offlineTimer' = {}
    /\ grace' = [t \in Tunnels |-> 0]
    /\ writes' = {}
    /\ closeCode' = [c \in Sessions |-> 0]
    /\ missed' = [c \in Sessions |-> 0]
    /\ pinged' = {}
    /\ UNCHANGED database

GatewayRestart == restarts < MaxRestarts /\ Restart

GraceReadFails(t) == DatabaseFails /\ grace[t] > 0 /\ GatewayRestart

--------------------------------------------------------------------------------
HelloStep(c) ==
    \/ HelloRead(c) \/ HelloReadFails(c)
    \/ HelloRejected(c) \/ HelloTooLate(c) \/ Register(c)

PingStep(c) == PingRead(c) \/ PingSent(c) \/ PingFails(c)

AgentStep(c) ==
    Connect(c) \/ Hello(c) \/ BadMessage(c) \/ Pong(c) \/ PeerCloses(c)

TunnelStep(t) == ApiDelete(t) \/ ApiLink(t)

Next ==
    \/ \E c \in Sessions :
         \/ AgentStep(c) \/ HelloStep(c) \/ HelloTimeout(c)
         \/ PingTick(c) \/ PingStep(c) \/ CloseEvent(c)
    \/ \E t \in Tunnels :
         GraceExpires(t) \/ GraceRead(t) \/ GraceReadFails(t) \/ TunnelStep(t)
    \/ \E w \in Writes : Apply(w) \/ WriteFails(w)
    \/ GatewayRestart

Spec == Init /\ [][Next]_vars

(* Timers fire, queries and sends come back, a closing socket closes.      *)
(* Agents, the web application and restarts are free.                      *)
Fairness ==
    /\ \A c \in Sessions :
         /\ WF_vars(HelloStep(c)) /\ WF_vars(HelloTimeout(c))
         /\ WF_vars(PingTick(c)) /\ WF_vars(PingStep(c))
         /\ WF_vars(CloseEvent(c))
    /\ \A t \in Tunnels : WF_vars(GraceExpires(t)) /\ WF_vars(GraceRead(t))
    /\ \A w \in Writes : WF_vars(Apply(w))

FairSpec == Spec /\ Fairness

--------------------------------------------------------------------------------
(* Safety *)

(* The newest registration wins and stays: an agent whose socket is open   *)
(* is the registered one, however the hello, takeover and close events of  *)
(* several sessions interleave; and no session is registered after its     *)
(* socket's close event.                                                   *)
LatestAgentWins ==
    /\ \A c \in active : sock[c] = "open" => Registered(c)
    /\ \A t \in Tunnels : agentsByTunnel[t] # None =>
         LET c == agentsByTunnel[t] IN
         c \in active /\ sock[c] \in {"open", "closing"} /\ TunnelOfSession[c] = t

(* A grace timer runs only while its tunnel has no agent, so that          *)
(* isTunnelReconnecting tells a reconnecting tunnel from a served one.     *)
GraceOnlyWithoutAgent == \A t \in offlineTimer : agentsByTunnel[t] = None

(* What makes these inductive: a session never opens its socket again, so  *)
(* one that is active has left the initial state for good.                 *)
RegistryInv ==
    /\ TypeOK /\ LatestAgentWins /\ GraceOnlyWithoutAgent
    /\ \A c \in active : sock[c] # "idle"

(* A registered agent is displaced only by a newer agent, its own close    *)
(* event, or the end of the process; never by an older session's end.      *)
DisplacedOnlyWithCause ==
    [][\A t \in Tunnels :
         agentsByTunnel[t] # None /\ agentsByTunnel'[t] = None
           => sock'[agentsByTunnel[t]] = "closed"]_vars

(* index.ts says of close code 4410 "tunnel deleted externally": it is     *)
(* used only for tunnels that were deleted through the web API.            *)
DeletedExternally ==
    \A c \in Sessions :
        closeCode[c] = 4410 => deletedBy[TunnelOfSession[c]] = "api"

(* The CLI explains close code 4411 as "missed pongs": a session that owes *)
(* no pong is never closed with it.                                        *)
HeartbeatTimeoutMeansMissedPong ==
    [][\A c \in Sessions :
         closeCode'[c] = 4411 /\ closeCode[c] # 4411 => c \in pinged']_vars

(* Liveness *)

(* A connected agent is registered or closed, whatever it sends or omits.  *)
ConnectionResolves ==
    \A c \in Sessions : sock[c] = "open" ~> c \in active \/ sock[c] = "closed"

(* An agent that answers no ping is dropped.                               *)
SilentAgentDropped ==
    \A c \in Silent : c \in active ~> sock[c] = "closed"

(* A grace period ends: with an agent, or with the row offline or deleted. *)
(* (A restart forgets the timer: after the last one.)                      *)
GraceResolves ==
    \A t \in Tunnels :
        t \in offlineTimer /\ restarts = MaxRestarts
          ~> agentsByTunnel[t] # None \/ row[t] # "online"

================================================================================
