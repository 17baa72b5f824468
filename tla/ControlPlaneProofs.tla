-------------------------- MODULE ControlPlaneProofs --------------------------
(***************************************************************************)
(* The invariants of ControlPlane for any number of requests, sessions,    *)
(* tokens and tunnels, and any time to live and size of the cache.         *)
(***************************************************************************)
EXTENDS ControlPlane, TLAPS

USE DEF Modes, SessionOps, TunnelOps, PatOps, Locations

LEMMA IdleRequest == Idle \in Request /\ Idle.at = "idle" /\ WellFormed(Idle)
BY DEF Idle, Request, WellFormed

(* A request goes on to another location, or is answered; the others wait. *)
LEMMA AwaitStep ==
  ASSUME TypeOK, NEW r \in Requests, NEW loc \in Locations, Await(r, loc)
  PROVE  /\ req' \in [Requests -> Request]
         /\ \A q \in Requests \ {r} : req'[q] = req[q]
         /\ req'[r].at = loc
         /\ loc = "idle" => req'[r] = Idle
         /\ loc # "idle" => /\ req'[r].op = req[r].op /\ req'[r].cred = req[r].cred
                            /\ req'[r].arg = req[r].arg /\ req'[r].want = req[r].want
                            /\ req'[r].copy = req[r].copy
<1>0. req \in [Requests -> Request] /\ req[r] \in Request
  BY DEF TypeOK
<1>1. CASE loc = "idle"
  <2>1. req' = [req EXCEPT ![r] = Idle]
    BY <1>1 DEF Await, Proceed
  <2>. QED  BY <1>0, <1>1, <2>1, IdleRequest
<1>2. CASE loc # "idle"
  <2>1. req' = [req EXCEPT ![r] = [req[r] EXCEPT !.at = loc]]
    BY <1>0, <1>2 DEF Await, Proceed
  <2>2. [req[r] EXCEPT !.at = loc] \in Request
    BY <1>0 DEF Request
  <2>3. req' \in [Requests -> Request] /\ req'[r] = [req[r] EXCEPT !.at = loc]
    BY <1>0, <2>1, <2>2
  <2>4. \A q \in Requests \ {r} : req'[q] = req[q]
    BY <1>0, <2>1
  <2>. QED  BY <1>0, <1>2, <2>3, <2>4 DEF Request
<1>. QED  BY <1>1, <1>2

LEMMA AnswerStep ==
  ASSUME TypeOK, NEW r \in Requests, Answer(r)
  PROVE  /\ req' \in [Requests -> Request]
         /\ \A q \in Requests \ {r} : req'[q] = req[q]
         /\ req'[r] = Idle
BY AwaitStep DEF Answer

Moves(r, sent, loc) == req' = [req EXCEPT ![r] = Proceed(sent, loc)]

LEMMA ProceedStep ==
  ASSUME TypeOK, NEW r \in Requests, NEW sent \in Request, NEW loc \in Locations,
         Moves(r, sent, loc)
  PROVE  /\ req' \in [Requests -> Request]
         /\ \A q \in Requests \ {r} : req'[q] = req[q]
         /\ req'[r].at = loc
         /\ loc = "idle" => req'[r] = Idle
         /\ loc # "idle" => /\ req'[r].op = sent.op /\ req'[r].cred = sent.cred
                            /\ req'[r].arg = sent.arg /\ req'[r].want = sent.want
                            /\ req'[r].copy = sent.copy
<1>0. req \in [Requests -> Request]
  BY DEF TypeOK
<1>1. CASE loc = "idle"
  <2>1. req' = [req EXCEPT ![r] = Idle]
    BY <1>1 DEF Moves, Proceed
  <2>. QED  BY <1>0, <1>1, <2>1, IdleRequest
<1>2. CASE loc # "idle"
  <2>1. req' = [req EXCEPT ![r] = [sent EXCEPT !.at = loc]]
    BY <1>2 DEF Moves, Proceed
  <2>2. [sent EXCEPT !.at = loc] \in Request
    BY DEF Request
  <2>3. req' \in [Requests -> Request] /\ req'[r] = [sent EXCEPT !.at = loc]
    BY <1>0, <2>1, <2>2
  <2>4. \A q \in Requests \ {r} : req'[q] = req[q]
    BY <1>0, <2>1
  <2>. QED  BY <1>2, <2>3, <2>4 DEF Request
<1>. QED  BY <1>1, <1>2

LEMMA StartStep ==
  ASSUME TypeOK, NEW r \in Requests, NEW sent \in Request, NEW loc \in Locations,
         Start(r, sent, loc)
  PROVE  /\ req' \in [Requests -> Request]
         /\ \A q \in Requests \ {r} : req'[q] = req[q]
         /\ req'[r].at = loc
         /\ loc = "idle" => req'[r] = Idle
         /\ loc # "idle" => /\ req'[r].op = sent.op /\ req'[r].cred = sent.cred
                            /\ req'[r].arg = sent.arg /\ req'[r].want = sent.want
                            /\ req'[r].copy = sent.copy
<1>1. Moves(r, sent, loc)
  BY DEF Start, Moves
<1>. QED  BY <1>1, ProceedStep

LEMMA SentIs ==
  ASSUME NEW op, NEW cred, NEW arg
  PROVE  Sent(op, cred, arg) = [at |-> "idle", op |-> op, cred |-> cred, arg |-> arg,
                                want |-> "none", copy |-> "none"]
<1>1. PICK a : a = [Idle EXCEPT !.op = op]
  OBVIOUS
<1>2. a = [at |-> "idle", op |-> op, cred |-> None, arg |-> None,
           want |-> "none", copy |-> "none"]
  BY <1>1 DEF Idle
<1>3. PICK b : b = [a EXCEPT !.cred = cred]
  OBVIOUS
<1>4. b = [at |-> "idle", op |-> op, cred |-> cred, arg |-> None,
           want |-> "none", copy |-> "none"]
  BY <1>2, <1>3
<1>5. Sent(op, cred, arg) = [b EXCEPT !.arg = arg]
  BY <1>1, <1>3 DEF Sent
<1>. QED  BY <1>4, <1>5

LEMMA SentRequest ==
  ASSUME NEW op \in SessionOps \cup PatOps \cup {"register", "login", "logout", "provision", "none"},
         NEW cred \in Sessions \cup Tokens \cup {None},
         NEW arg \in Tunnels \cup Pats \cup {None}
  PROVE  /\ Sent(op, cred, arg) \in Request
         /\ Sent(op, cred, arg).op = op /\ Sent(op, cred, arg).cred = cred
         /\ Sent(op, cred, arg).arg = arg /\ Sent(op, cred, arg).want = "none"
         /\ Sent(op, cred, arg).copy = "none"
<1>1. Sent(op, cred, arg) = [at |-> "idle", op |-> op, cred |-> cred, arg |-> arg,
                             want |-> "none", copy |-> "none"]
  BY SentIs
<1>2. [at |-> "idle", op |-> op, cred |-> cred, arg |-> arg,
       want |-> "none", copy |-> "none"] \in Request
  BY DEF Request, Locations
<1>. QED  BY <1>1, <1>2

--------------------------------------------------------------------------------
(* The request that moves is well formed again.                            *)
Others(r) == \A q \in Requests \ {r} : req'[q] = req[q]

RequestsOK == req \in [Requests -> Request] /\ \A r \in Requests : WellFormed(req[r])

LEMMA OneMoves ==
  ASSUME RequestsOK, NEW r \in Requests, Others(r), req' \in [Requests -> Request],
         WellFormed(req'[r])
  PROVE  RequestsOK'
BY DEF RequestsOK, Others, WellFormed

LEMMA Answered ==
  ASSUME TypeOK, RequestsOK, NEW r \in Requests, Answer(r)
  PROVE  RequestsOK' /\ Others(r) /\ req'[r] = Idle
BY AnswerStep, OneMoves, IdleRequest DEF Others

LEMMA SessionRequestsOK ==
  ASSUME TypeOK, RequestsOK, NEW r \in Requests,
         \/ Register(r) \/ Login(r) \/ Provision(r) \/ AccountRead(r) \/ InsertAccount(r)
         \/ SessionRead(r) \/ MemberRead(r) \/ RevokePat(r)
  PROVE  RequestsOK' /\ Others(r) /\ req'[r].at \notin {"count", "insert", "revokeSession",
                                                  "delete", "insertChannel", "update"}
<1>. USE DEF Others
<1>0. WellFormed(req[r]) /\ req[r] \in Request
  BY DEF RequestsOK
<1>1. CASE Register(r)
  <2>1. Sent("register", None, None) \in Request
    BY SentRequest
  <2>. QED  BY <1>1, <2>1, StartStep, OneMoves DEF Register, WellFormed
<1>2. CASE Login(r)
  <2>1. Sent("login", None, None) \in Request
    BY SentRequest
  <2>. QED  BY <1>2, <2>1, StartStep, OneMoves DEF Login, WellFormed
<1>3. CASE Provision(r)
  <2>1. Sent("provision", None, None) \in Request
    BY SentRequest
  <2>. QED  BY <1>3, <2>1, StartStep, OneMoves DEF Provision, WellFormed
<1>4. CASE AccountRead(r)
  <2>1. PICK loc \in {"idle", "insertAccount", "insertSession"} : Await(r, loc)
    BY <1>4 DEF AccountRead
  <2>. QED  BY <2>1, AwaitStep, OneMoves DEF WellFormed
<1>5. CASE InsertAccount(r)
  <2>1. PICK loc \in {"idle", "insertSession"} : Await(r, loc)
    BY <1>5 DEF InsertAccount
  <2>. QED  BY <2>1, AwaitStep, OneMoves DEF WellFormed
<1>6. CASE SessionRead(r)
  <2>1. PICK loc \in {"idle", "memberRow"} : Await(r, loc)
    BY <1>6 DEF SessionRead
  <2>2. At(r, "sessionRow")
    BY <1>6 DEF SessionRead
  <2>. QED  BY <1>0, <2>1, <2>2, AwaitStep, OneMoves DEF WellFormed, At
<1>7. CASE MemberRead(r)
  <2>1. PICK loc \in {"idle", "insertPat", "revokePat"} :
           Await(r, loc) /\ (loc = "revokePat" => req[r].op = "revokePat")
    BY <1>7 DEF MemberRead, Authorised
  <2>2. At(r, "memberRow")
    BY <1>7 DEF MemberRead
  <2>. QED  BY <1>0, <2>1, <2>2, AwaitStep, OneMoves DEF WellFormed, At
<1>8. CASE RevokePat(r)
  <2>1. PICK loc \in {"idle", "cleanup"} : Await(r, loc)
    BY <1>8 DEF RevokePat
  <2>2. At(r, "revokePat")
    BY <1>8 DEF RevokePat
  <2>. QED  BY <1>0, <2>1, <2>2, AwaitStep, OneMoves DEF WellFormed, At
<1>. QED  BY <1>1, <1>2, <1>3, <1>4, <1>5, <1>6, <1>7, <1>8

LEMMA LogoutOK ==
  ASSUME TypeOK, RequestsOK, NEW r \in Requests, NEW k \in Sessions, Logout(r, k)
  PROVE  RequestsOK' /\ Others(r) /\ req'[r].at = "revokeSession" /\ req'[r].cred = k
<1>1. Sent("logout", k, None) \in Request /\ Sent("logout", k, None).cred = k
  BY SentRequest
<1>2. /\ req' \in [Requests -> Request] /\ Others(r)
      /\ req'[r].at = "revokeSession" /\ req'[r].cred = k
  BY <1>1, StartStep DEF Logout, Others
<1>. QED  BY <1>2, OneMoves DEF WellFormed

LEMMA SessionRequestOK ==
  ASSUME TypeOK, RequestsOK, NEW r \in Requests, NEW k \in Sessions,
         NEW op \in SessionOps, NEW p \in Pats \cup {None}, SessionRequest(r, op, k, p)
  PROVE  RequestsOK' /\ Others(r) /\ req'[r].at \in {"idle", "sessionRow", "insertPat", "revokePat"}
<1>1. /\ Sent(op, k, p) \in Request /\ Sent(op, k, p).cred = k
      /\ Sent(op, k, p).arg = p /\ Sent(op, k, p).op = op
  BY SentRequest
<1>2. op = "revokePat" => p \in Pats
  BY DEF SessionRequest
<1>3. PICK loc \in {"idle", "sessionRow", "insertPat", "revokePat"} :
         /\ Start(r, Sent(op, k, p), loc)
         /\ loc = "revokePat" => op = "revokePat"
  BY DEF SessionRequest, Authorised
<1>4. /\ req' \in [Requests -> Request] /\ Others(r) /\ req'[r].at = loc
      /\ loc = "idle" => req'[r] = Idle
      /\ loc # "idle" => /\ req'[r].op = op /\ req'[r].cred = k /\ req'[r].arg = p
  BY <1>1, <1>3, StartStep DEF Others
<1>5. WellFormed(req'[r])
  BY <1>2, <1>3, <1>4 DEF WellFormed
<1>. QED  BY <1>3, <1>4, <1>5, OneMoves

LEMMA PatRequestOK ==
  ASSUME TypeOK, RequestsOK, NEW r \in Requests, NEW op \in PatOps, NEW p \in Tokens,
         NEW t \in Tunnels \cup {None}, PatRequest(r, op, p, t)
  PROVE  RequestsOK' /\ Others(r) /\ req'[r].at = "patRow"
<1>1. /\ Sent(op, p, t) \in Request /\ Sent(op, p, t).op = op
      /\ Sent(op, p, t).cred = p /\ Sent(op, p, t).arg = t
  BY SentRequest
<1>2. Start(r, Sent(op, p, t), "patRow")
  BY DEF PatRequest
<1>3. /\ req' \in [Requests -> Request] /\ Others(r) /\ req'[r].at = "patRow"
      /\ req'[r].op = op /\ req'[r].cred = p /\ req'[r].arg = t
  BY <1>1, <1>2, StartStep DEF Others
<1>4. op # "createTunnel" => t \in Tunnels
  BY DEF PatRequest, tunnels
<1>5. WellFormed(req'[r])
  BY <1>3, <1>4 DEF WellFormed
<1>. QED  BY <1>3, <1>5, OneMoves

LEMMA PatReadOK ==
  ASSUME TypeOK, RequestsOK, NEW r \in Requests, PatRead(r)
  PROVE  /\ RequestsOK' /\ Others(r) /\ req'[r].at \notin {"count", "revokeSession",
                                                  "delete", "insertChannel", "update"}
         /\ req'[r].at = "insert" => req'[r].cred \notin AnonymousPats
<1>0. WellFormed(req[r]) /\ req[r] \in Request /\ req[r].at = "patRow"
  BY DEF RequestsOK, PatRead, At
<1>1. PICK want \in Modes \cup {"none"},
           loc \in {"idle", "find", "findChannel", "lock", "insert"} :
         /\ req' = [req EXCEPT ![r] = Proceed([@ EXCEPT !.want = want], loc)]
         /\ loc = "find" => req[r].op \in TunnelOps
         /\ loc = "findChannel" => req[r].op = "patchChannel"
         /\ loc = "lock" => req[r].cred \in AnonymousPats
         /\ loc = "insert" => req[r].cred \notin AnonymousPats
         /\ req[r].op = "createChannel" => want \in Modes
  <2>1. PICK want \in Modes \cup {"none"} :
           /\ req[r].op = "createChannel" => want \in Modes
           /\ req' = [req EXCEPT ![r] =
                        Proceed([@ EXCEPT !.want = want],
                                CASE pat[@.cred] = "revoked"    -> "idle"
                                  [] @.op \in TunnelOps         -> "find"
                                  [] @.op = "patchChannel"      -> "findChannel"
                                  [] @.cred \in AnonymousPats   -> "lock"
                                  [] OTHER                      -> "insert")]
    BY DEF PatRead
  <2>. DEFINE loc == CASE pat[req[r].cred] = "revoked"  -> "idle"
                       [] req[r].op \in TunnelOps       -> "find"
                       [] req[r].op = "patchChannel"    -> "findChannel"
                       [] req[r].cred \in AnonymousPats -> "lock"
                       [] OTHER                         -> "insert"
  <2>2. req' = [req EXCEPT ![r] = Proceed([@ EXCEPT !.want = want], loc)]
    BY <2>1
  <2>3. /\ loc \in {"idle", "find", "findChannel", "lock", "insert"}
        /\ loc = "find" => req[r].op \in TunnelOps
        /\ loc = "findChannel" => req[r].op = "patchChannel"
        /\ loc = "lock" => req[r].cred \in AnonymousPats
        /\ loc = "insert" => req[r].cred \notin AnonymousPats
    OBVIOUS
  <2>. HIDE DEF loc
  <2>. QED  BY <2>1, <2>2, <2>3
<1>2. /\ [req[r] EXCEPT !.want = want] \in Request
      /\ [req[r] EXCEPT !.want = want].op = req[r].op
      /\ [req[r] EXCEPT !.want = want].cred = req[r].cred
      /\ [req[r] EXCEPT !.want = want].arg = req[r].arg
      /\ [req[r] EXCEPT !.want = want].want = want
  BY <1>0 DEF Request
<1>. DEFINE sent == [req[r] EXCEPT !.want = want]
<1>5. Moves(r, sent, loc)
  BY <1>1 DEF TypeOK, Moves
<1>. HIDE DEF sent
<1>6. /\ sent \in Request /\ sent.op = req[r].op /\ sent.cred = req[r].cred
      /\ sent.arg = req[r].arg /\ sent.want = want
  BY <1>2 DEF sent
<1>7. loc \in Locations
  BY <1>1 DEF Locations
<1>3. /\ req' \in [Requests -> Request] /\ Others(r) /\ req'[r].at = loc
      /\ loc = "idle" => req'[r] = Idle
      /\ loc # "idle" => /\ req'[r].op = req[r].op /\ req'[r].cred = req[r].cred
                         /\ req'[r].arg = req[r].arg /\ req'[r].want = want
  BY <1>5, <1>6, <1>7, ProceedStep DEF Others
<1>4. WellFormed(req'[r])
  BY <1>0, <1>1, <1>3 DEF WellFormed
<1>. QED  BY <1>1, <1>3, <1>4, OneMoves

LEMMA TunnelRequestsOK ==
  ASSUME TypeOK, RequestsOK, NEW r \in Requests,
         TakeLock(r) \/ CountTunnels(r) \/ SubdomainTaken(r) \/ FindTunnel(r)
  PROVE  /\ RequestsOK' /\ Others(r) /\ req'[r].at # "revokeSession"
         /\ req'[r].at \in {"count", "insert"} => req'[r].cred = req[r].cred
         /\ req'[r].at = "count" => TakeLock(r)
         /\ req'[r].at = "insert" => CountTunnels(r) \/ SubdomainTaken(r)
         /\ req'[r].at \in {"delete", "insertChannel", "update"} => FindTunnel(r)
<1>0. WellFormed(req[r]) /\ req[r] \in Request
  BY DEF RequestsOK
<1>. USE DEF Others
<1>1. CASE TakeLock(r)
  BY <1>0, <1>1, AwaitStep, OneMoves DEF TakeLock, WellFormed, At
<1>2. CASE CountTunnels(r)
  <2>1. PICK loc \in {"idle", "insert"} : Await(r, loc)
    BY <1>2 DEF CountTunnels, Answer
  <2>2. At(r, "count")
    BY <1>2 DEF CountTunnels
  <2>. QED  BY <1>0, <1>2, <2>1, <2>2, AwaitStep, OneMoves DEF WellFormed, At, Tokens
<1>3. CASE SubdomainTaken(r)
  <2>1. PICK loc \in {"lock", "insert"} :
          Await(r, loc) /\ (loc = "lock" => req[r].cred \in AnonymousPats)
    BY <1>3 DEF SubdomainTaken, Anonymous
  <2>2. At(r, "insert")
    BY <1>3 DEF SubdomainTaken
  <2>. QED  BY <1>0, <1>3, <2>1, <2>2, AwaitStep, OneMoves DEF WellFormed, At
<1>4. CASE FindTunnel(r)
  <2>1. PICK loc \in {"idle", "delete", "insertChannel"} :
          Await(r, loc) /\ (loc = "insertChannel" => req[r].op = "createChannel")
    BY <1>4 DEF FindTunnel
  <2>2. At(r, "find")
    BY <1>4 DEF FindTunnel
  <2>. QED  BY <1>0, <1>4, <2>1, <2>2, AwaitStep, OneMoves DEF WellFormed, At
<1>. QED  BY <1>1, <1>2, <1>3, <1>4

LEMMA ChannelReadOK ==
  ASSUME TypeOK, RequestsOK, NEW r \in Requests, ChannelRead(r)
  PROVE  RequestsOK' /\ Others(r) /\ req'[r].at \in {"idle", "update"}
<1>0. WellFormed(req[r]) /\ req[r] \in Request /\ req[r].at = "findChannel"
  BY DEF RequestsOK, ChannelRead, At
<1>1. req[r].arg \in Tunnels /\ req \in [Requests -> Request]
  BY <1>0 DEF WellFormed, TypeOK
<1>2. CASE req' = [req EXCEPT ![r] = Idle]
  BY <1>1, <1>2, IdleRequest, OneMoves DEF Others
<1>3. ASSUME NEW c \in Modes \cup {"none"},
             req' = [req EXCEPT ![r] = [req[r] EXCEPT !.at = "update", !.copy = c]],
             req[r].want \in Modes \/ c \in Modes
      PROVE  RequestsOK' /\ Others(r) /\ req'[r].at = "update"
  <2>1. ASSUME NEW q, q = [req[r] EXCEPT !.at = "update", !.copy = c]
        PROVE  /\ q \in Request /\ q.at = "update" /\ q.arg = req[r].arg
               /\ q.want = req[r].want /\ q.copy = c
    <3>. HIDE DEF Modes, SessionOps, PatOps
    <3>1. q \in Request
      BY <1>0, <2>1 DEF Request
    <3>. QED  BY <1>0, <2>1, <3>1 DEF Request
  <2>2. PICK q : q = [req[r] EXCEPT !.at = "update", !.copy = c]
    OBVIOUS
  <2>3. /\ q \in Request /\ q.at = "update" /\ q.arg = req[r].arg
        /\ q.want = req[r].want /\ q.copy = c
    BY <2>1, <2>2
  <2>4. WellFormed(q)
    BY <1>1, <1>3, <2>3 DEF WellFormed
  <2>5. req'[r] = q /\ req' \in [Requests -> Request] /\ Others(r)
    BY <1>1, <1>3, <2>2, <2>3 DEF Others
  <2>. QED  BY <2>3, <2>4, <2>5, OneMoves
<1>4. CASE /\ channel[req[r].arg] # "none"
           /\ req' = [req EXCEPT ![r] = [req[r] EXCEPT !.at = "update", !.copy =
                IF req[r].want = "none" THEN channel[req[r].arg] ELSE "none"]]
  <2>1. PICK c : c = IF req[r].want = "none" THEN channel[req[r].arg] ELSE "none"
    OBVIOUS
  <2>2. c \in Modes \cup {"none"} /\ (req[r].want \in Modes \/ c \in Modes)
    BY <1>0, <1>1, <1>4, <2>1 DEF TypeOK, Request
  <2>. QED  BY <1>3, <1>4, <2>1, <2>2
<1>. QED  BY <1>1, <1>2, <1>4 DEF ChannelRead

(* Statements that answer their request.                                    *)
FinalStatement(r) ==
  \/ CreateSession(r) \/ SessionRevoked(r) \/ CreatePat(r) \/ Provisioned(r) \/ CleanUp(r)
  \/ InsertTunnel(r) \/ DeleteTunnel(r) \/ InsertChannel(r) \/ UpdateChannel(r)
  \/ StatementFails(r)

LEMMA AnswersOK ==
  ASSUME TypeOK, RequestsOK, NEW r \in Requests, FinalStatement(r)
  PROVE  RequestsOK' /\ Others(r) /\ req'[r] = Idle
<1>1. Answer(r)
  BY DEF FinalStatement, CreateSession, SessionRevoked, CreatePat, Provisioned, CleanUp,
         InsertTunnel, DeleteTunnel, InsertChannel, UpdateChannel, StatementFails
<1>. QED  BY <1>1, Answered

LEMMA RequestsNext ==
  ASSUME TypeOK, RequestsOK, [Next]_vars
  PROVE  RequestsOK'
<1>1. CASE UNCHANGED vars
  BY <1>1 DEF vars, RequestsOK, WellFormed
<1>2. ASSUME NEW r \in Requests, NewRequest(r) PROVE RequestsOK'
  BY <1>2, SessionRequestsOK, LogoutOK, SessionRequestOK, PatRequestOK DEF NewRequest
<1>3. ASSUME NEW r \in Requests, Statement(r) PROVE RequestsOK'
  BY <1>3, SessionRequestsOK, AnswersOK, PatReadOK, TunnelRequestsOK, ChannelReadOK
  DEF Statement, FinalStatement
<1>4. CASE \/ \E k \in Sessions : SessionExpires(k)
           \/ \E t \in Tunnels : GatewayDeletes(t)
           \/ Tick
  <2>1. req' = req
    BY <1>4 DEF SessionExpires, GatewayDeletes, Tick
  <2>. QED  BY <2>1 DEF RequestsOK, WellFormed
<1>. QED  BY <1>1, <1>2, <1>3, <1>4 DEF Next

--------------------------------------------------------------------------------
(* Types of the tables and of the cache                                    *)
Cache  == cached \in SUBSET Sessions /\ late \in SUBSET Sessions
Clocks == /\ age \in [Sessions -> 0 .. CacheTtl + 1]
          /\ doubt \in [Sessions -> 0 .. CacheTtl + 1]

LEMMA DeleteEntriesTyped ==
  ASSUME Cache, Clocks, NEW K \in SUBSET Sessions, DeleteEntries(K)
  PROVE  Cache' /\ Clocks'
BY PlaneAssumption DEF Cache, Clocks, DeleteEntries, Reset

LEMMA SetSessionCacheTyped ==
  ASSUME Cache, Clocks, NEW k \in Sessions, SetSessionCache(k)
  PROVE  Cache' /\ Clocks'
<1>1. PICK dropped \in SUBSET cached :
        /\ cached' = (cached \ dropped) \cup {k}
        /\ age' = Reset(age, dropped \cup {k})
        /\ doubt' = Reset(doubt, dropped \cup {k})
        /\ late' \subseteq late \cup {k}
  BY DEF SetSessionCache
<1>. QED  BY <1>1, PlaneAssumption DEF Cache, Clocks, Reset

LEMMA TickTyped ==
  ASSUME Clocks, Tick
  PROVE  Clocks'
<1>1. \A n \in 0 .. CacheTtl + 1 : Older(n) \in 0 .. CacheTtl + 1
  BY PlaneAssumption DEF Older
<1>2. \A k \in Sessions : /\ age[k] \in 0 .. CacheTtl + 1
                          /\ doubt[k] \in 0 .. CacheTtl + 1
  BY DEF Clocks
<1>3. 0 \in 0 .. CacheTtl + 1
  BY PlaneAssumption
<1>. QED  BY <1>1, <1>2, <1>3 DEF Clocks, Tick

Tables ==
  /\ patTokenId \in [Tunnels -> Tokens \cup {None}]
  /\ channel \in [Tunnels -> Modes \cup {"none"}]
  /\ stray \in SUBSET Tunnels
  /\ \A t \in Tunnels : channel[t] # "none" => patTokenId[t] # None

LEMMA DeleteTunnelsTyped ==
  ASSUME Tables, NEW T, DeleteTunnels(T)
  PROVE  Tables'
BY DEF Tables, DeleteTunnels

LEMMA UnlockTyped ==
  ASSUME lock \in [AnonymousPats -> Requests \cup {None}], NEW r, Unlock(r)
  PROVE  lock' \in [AnonymousPats -> Requests \cup {None}]
BY DEF Unlock

Rest ==
  /\ account \in BOOLEAN
  /\ session \in [Sessions -> {"absent", "live", "revoked", "expired"}]
  /\ pat \in [Tokens -> {"absent", "live", "revoked"}]
  /\ unclean \in SUBSET Tokens
  /\ lock \in [AnonymousPats -> Requests \cup {None}]

LEMMA TypeParts == TypeOK <=> Rest /\ Cache /\ Clocks /\ Tables /\ req \in [Requests -> Request]
BY DEF TypeOK, Rest, Cache, Clocks, Tables

LEMMA TypePartsNext ==
  ASSUME Rest', Cache', Clocks', Tables', req' \in [Requests -> Request]
  PROVE  TypeOK'
BY DEF TypeOK, Rest, Cache, Clocks, Tables

LEMMA NewRequestTyped ==
  ASSUME TypeOK, RequestsOK', NEW r \in Requests, NewRequest(r)
  PROVE  TypeOK'
<1>. USE TypeParts, TypePartsNext DEF RequestsOK
<1>1. CASE Register(r) \/ Login(r) \/ Provision(r)
  BY <1>1 DEF Register, Login, Provision, Rest, Cache, Clocks, Tables, sessionVars, tunnelRows
<1>2. ASSUME NEW k \in Sessions, Logout(r, k) PROVE TypeOK'
  <2>1. Cache' /\ Clocks'
    BY <1>2, DeleteEntriesTyped DEF Logout, EvictSessionCache
  <2>. QED  BY <1>2, <2>1 DEF Logout, Rest, Tables, tunnelRows
<1>3. ASSUME NEW k \in Sessions, NEW op \in SessionOps, NEW p \in Pats \cup {None},
             SessionRequest(r, op, k, p)
      PROVE  TypeOK'
  <2>1. Expired \in SUBSET Sessions /\ Expired \cap {k} \in SUBSET Sessions
    BY DEF Expired, Cache
  <2>2. Cache' /\ Clocks'
    BY <1>3, <2>1, DeleteEntriesTyped DEF SessionRequest, GetSessionCache
  <2>. QED  BY <1>3, <2>2 DEF SessionRequest, Rest, Tables, tunnelRows
<1>4. ASSUME NEW op, NEW p, NEW t, PatRequest(r, op, p, t) PROVE TypeOK'
  BY <1>4 DEF PatRequest, Rest, Cache, Clocks, Tables, sessionVars, tunnelRows
<1>. QED  BY <1>1, <1>2, <1>3, <1>4 DEF NewRequest

LEMMA StatementTyped ==
  ASSUME TypeOK, RequestsOK, RequestsOK', NEW r \in Requests, Statement(r)
  PROVE  TypeOK'
<1>. USE TypeParts, TypePartsNext DEF RequestsOK
<1>0. WellFormed(req[r]) /\ req[r] \in Request
  OBVIOUS
<1>1. CASE AccountRead(r) \/ SessionRead(r) \/ PatRead(r) \/ FindTunnel(r) \/ ChannelRead(r)
  BY <1>1 DEF AccountRead, SessionRead, PatRead, FindTunnel, ChannelRead,
              Rest, Cache, Clocks, Tables, sessionVars, tunnelRows
<1>2. CASE InsertAccount(r)
  BY <1>2 DEF InsertAccount, Rest, Cache, Clocks, Tables, tunnelRows
<1>3. CASE CreateSession(r)
  BY <1>3 DEF CreateSession, Rest, Cache, Clocks, Tables, tunnelRows
<1>4. CASE SessionRevoked(r)
  BY <1>4 DEF SessionRevoked, Rest, Cache, Clocks, Tables, tunnelRows
<1>5. CASE MemberRead(r)
  <2>1. req[r].cred \in Sessions
    BY <1>0, <1>5 DEF MemberRead, WellFormed, At
  <2>2. Cache' /\ Clocks'
    BY <1>5, <2>1, SetSessionCacheTyped DEF MemberRead
  <2>. QED  BY <1>5, <2>2 DEF MemberRead, Rest, Tables, tunnelRows
<1>6. CASE CreatePat(r) \/ Provisioned(r)
  BY <1>6 DEF CreatePat, Provisioned, Rest, Cache, Clocks, Tables, sessionVars, tunnelRows
<1>7. CASE RevokePat(r)
  BY <1>7 DEF RevokePat, Rest, Cache, Clocks, Tables, sessionVars, tunnelRows
<1>8. CASE CleanUp(r) \/ DeleteTunnel(r)
  BY <1>8, DeleteTunnelsTyped DEF CleanUp, DeleteTunnel, Rest, Cache, Clocks, sessionVars
<1>9. CASE TakeLock(r)
  BY <1>9 DEF TakeLock, Rest, Cache, Clocks, Tables, sessionVars
<1>10. CASE CountTunnels(r) \/ SubdomainTaken(r)
  BY <1>10, UnlockTyped DEF CountTunnels, SubdomainTaken, Rest, Cache, Clocks, Tables, sessionVars
<1>11. CASE InsertTunnel(r)
  <2>1. req[r].cred \in Tokens
    BY <1>0, <1>11 DEF InsertTunnel, WellFormed, At
  <2>2. PICK t \in Tunnels :
          /\ patTokenId' = [patTokenId EXCEPT ![t] = req[r].cred]
          /\ stray' = stray \/ stray' = stray \cup {t}
    BY <1>11 DEF InsertTunnel
  <2>3. Tables'
    BY <1>11, <2>1, <2>2, PlaneAssumption DEF InsertTunnel, Tables
  <2>4. lock' \in [AnonymousPats -> Requests \cup {None}]
    BY <1>11, UnlockTyped DEF InsertTunnel, Rest
  <2>. QED  BY <1>11, <2>3, <2>4 DEF InsertTunnel, Rest, Cache, Clocks, sessionVars
<1>12. CASE InsertChannel(r)
  <2>1. req[r].arg \in Tunnels /\ req[r].want \in Modes
    BY <1>0, <1>12 DEF InsertChannel, WellFormed, At
  <2>2. Tables'
    BY <1>12, <2>1 DEF InsertChannel, Tables, tunnels, tunnelRows
  <2>. QED  BY <1>12, <2>2 DEF InsertChannel, Rest, Cache, Clocks, sessionVars, tunnelRows
<1>13. CASE UpdateChannel(r)
  <2>1. req[r].arg \in Tunnels /\ Or(req[r].want, req[r].copy) \in Modes
    BY <1>0, <1>13 DEF UpdateChannel, WellFormed, At, Or, Request
  <2>2. Tables'
    BY <1>13, <2>1 DEF UpdateChannel, Tables, tunnelRows
  <2>. QED  BY <1>13, <2>2 DEF UpdateChannel, Rest, Cache, Clocks, sessionVars, tunnelRows
<1>14. CASE StatementFails(r)
  <2>1. unclean' \in SUBSET Tokens
    BY <1>0, <1>14 DEF StatementFails, WellFormed, At, Rest, Tokens
  <2>2. lock' \in [AnonymousPats -> Requests \cup {None}]
    BY <1>14, UnlockTyped DEF StatementFails, Rest
  <2>. QED  BY <1>14, <2>1, <2>2 DEF StatementFails, Rest, Cache, Clocks, Tables, sessionVars
<1>. QED
  BY <1>1, <1>2, <1>3, <1>4, <1>5, <1>6, <1>7, <1>8, <1>9, <1>10, <1>11, <1>12,
     <1>13, <1>14 DEF Statement

LEMMA TypeNext ==
  ASSUME TypeOK, RequestsOK, [Next]_vars
  PROVE  TypeOK'
<1>. USE TypeParts, TypePartsNext
<1>0. RequestsOK'
  BY RequestsNext
<1>1. CASE UNCHANGED vars
  BY <1>1 DEF vars, Rest, Cache, Clocks, Tables, sessionVars, tunnelRows
<1>2. ASSUME NEW k \in Sessions, SessionExpires(k) PROVE TypeOK'
  BY <1>2 DEF SessionExpires, Rest, Cache, Clocks, Tables, tunnelRows
<1>3. ASSUME NEW t \in Tunnels, GatewayDeletes(t) PROVE TypeOK'
  BY <1>3, DeleteTunnelsTyped DEF GatewayDeletes, Rest, Cache, Clocks, sessionVars
<1>4. CASE Tick
  <2>1. Clocks'
    BY <1>4, TickTyped
  <2>. QED  BY <1>4, <2>1 DEF Tick, Rest, Cache, Tables, tunnelRows
<1>. QED  BY <1>0, <1>1, <1>2, <1>3, <1>4, NewRequestTyped, StatementTyped DEF Next

LEMMA TypeInit == Init => TypeOK /\ RequestsOK
<1>. SUFFICES ASSUME Init PROVE TypeOK /\ RequestsOK
  OBVIOUS
<1>1. RequestsOK
  BY IdleRequest DEF Init, RequestsOK
<1>2. Rest
  BY DEF Init, Rest
<1>3. Cache /\ Clocks
  BY PlaneAssumption DEF Init, Cache, Clocks
<1>4. Tables
  BY DEF Init, Tables
<1>. QED  BY <1>1, <1>2, <1>3, <1>4, TypeParts DEF RequestsOK

(* Tables, cache and requests keep their types; an age is never counted    *)
(* beyond the time to live, and a channel always has a tunnel.             *)
THEOREM TypeCorrect == Spec => []TypeOK
<1>1. TypeOK /\ RequestsOK /\ [Next]_vars => TypeOK' /\ RequestsOK'
  BY TypeNext, RequestsNext
<1>. QED  BY <1>1, TypeInit, PTL DEF Spec

--------------------------------------------------------------------------------
(* The lock                                                                *)

(* A step that inserts no tunnel and lets no request count or insert for   *)
(* an anonymous user that did not before, nor takes its lock away.         *)
LEMMA LockKept ==
  ASSUME TypeOK, RequestsOK, LockProtects, AnonymousLimit,
         \A t \in Tunnels : patTokenId'[t] \in {patTokenId[t], None},
         \A q \in Requests :
            req'[q].at = "count" \/ (req'[q].at = "insert" /\ req'[q].cred \in AnonymousPats) =>
               /\ req'[q].at = req[q].at /\ req'[q].cred = req[q].cred
               /\ lock'[req[q].cred] = lock[req[q].cred]
  PROVE  LockProtects' /\ AnonymousLimit'
<1>1. LockProtects'
  BY DEF LockProtects, At, Anonymous, tunnels
<1>2. AnonymousLimit'
  BY PlaneAssumption DEF AnonymousLimit, tunnels
<1>. QED  BY <1>1, <1>2

(* What r releases is not what another request that counts or inserts      *)
(* holds.                                                                  *)
LEMMA UnlockOwn ==
  ASSUME TypeOK, RequestsOK, LockProtects, NEW r \in Requests, Unlock(r),
         NEW q \in Requests \ {r},
         At(q, "count") \/ (At(q, "insert") /\ Anonymous(q))
  PROVE  lock'[req[q].cred] = lock[req[q].cred]
<1>1. req[q].cred \in AnonymousPats
  BY DEF RequestsOK, WellFormed, At, Anonymous
<1>2. lock[req[q].cred] = q
  BY DEF LockProtects
<1>. QED  BY <1>1, <1>2 DEF Unlock

(* A request gives the lock up and neither counts nor inserts for an       *)
(* anonymous user any more.                                                *)
LEMMA LockReleased ==
  ASSUME TypeOK, RequestsOK, LockProtects, AnonymousLimit, NEW r \in Requests, Unlock(r),
         patTokenId' = patTokenId, Others(r), req'[r].at # "count",
         req'[r].at = "insert" => req'[r].cred \notin AnonymousPats
  PROVE  LockProtects' /\ AnonymousLimit'
<1>1. ASSUME NEW q \in Requests,
             req'[q].at = "count" \/ (req'[q].at = "insert" /\ req'[q].cred \in AnonymousPats)
      PROVE  /\ req'[q].at = req[q].at /\ req'[q].cred = req[q].cred
             /\ lock'[req[q].cred] = lock[req[q].cred]
  <2>1. q \in Requests \ {r} /\ req'[q] = req[q]
    BY <1>1 DEF Others
  <2>2. At(q, "count") \/ (At(q, "insert") /\ Anonymous(q))
    BY <1>1, <2>1 DEF At, Anonymous
  <2>3. lock'[req[q].cred] = lock[req[q].cred]
    BY <2>1, <2>2, UnlockOwn
  <2>. QED  BY <2>1, <2>3
<1>2. \A t \in Tunnels : patTokenId'[t] \in {patTokenId[t], None}
  OBVIOUS
<1>. QED  BY <1>1, <1>2, LockKept

LEMMA LockNew ==
  ASSUME TypeOK, RequestsOK, LockProtects, AnonymousLimit, NEW r \in Requests, NewRequest(r)
  PROVE  LockProtects' /\ AnonymousLimit'
<1>1. UNCHANGED tunnelRows
  BY DEF NewRequest, Register, Login, Provision, Logout, SessionRequest, PatRequest
<1>2. Others(r) /\ req'[r].at \notin {"count", "insert"}
  BY SessionRequestsOK, LogoutOK, SessionRequestOK, PatRequestOK DEF NewRequest
<1>. QED  BY <1>1, <1>2, LockKept DEF tunnelRows, Others

LEMMA LockStatement ==
  ASSUME TypeOK, RequestsOK, LockProtects, AnonymousLimit, NEW r \in Requests, Statement(r)
  PROVE  LockProtects' /\ AnonymousLimit'
<1>. USE DEF Others
<1>0. WellFormed(req[r]) /\ req[r] \in Request
  BY DEF RequestsOK
<1>1. CASE AccountRead(r) \/ InsertAccount(r) \/ SessionRead(r) \/ MemberRead(r) \/ RevokePat(r)
  <2>1. UNCHANGED tunnelRows
    BY <1>1 DEF AccountRead, InsertAccount, SessionRead, MemberRead, RevokePat
  <2>. QED  BY <1>1, <2>1, SessionRequestsOK, LockKept DEF tunnelRows
<1>2. CASE CreateSession(r) \/ SessionRevoked(r) \/ CreatePat(r) \/ Provisioned(r)
           \/ InsertChannel(r) \/ UpdateChannel(r)
  <2>1. UNCHANGED tunnelRows
    BY <1>2 DEF CreateSession, SessionRevoked, CreatePat, Provisioned, InsertChannel, UpdateChannel
  <2>2. Others(r) /\ req'[r].at = "idle"
    BY <1>2, AnswersOK, IdleRequest DEF FinalStatement
  <2>. QED  BY <2>1, <2>2, LockKept DEF tunnelRows
<1>3. CASE CleanUp(r) \/ DeleteTunnel(r)
  <2>1. lock' = lock /\ \A t \in Tunnels : patTokenId'[t] \in {patTokenId[t], None}
    BY <1>3 DEF CleanUp, DeleteTunnel, DeleteTunnels
  <2>2. Others(r) /\ req'[r].at = "idle"
    BY <1>3, AnswersOK, IdleRequest DEF FinalStatement
  <2>. QED  BY <2>1, <2>2, LockKept
<1>4. CASE PatRead(r)
  <2>1. UNCHANGED tunnelRows
    BY <1>4 DEF PatRead
  <2>. QED  BY <1>4, <2>1, PatReadOK, LockKept DEF tunnelRows
<1>5. CASE FindTunnel(r) \/ ChannelRead(r)
  <2>1. UNCHANGED tunnelRows
    BY <1>5 DEF FindTunnel, ChannelRead
  <2>2. At(r, "find") \/ At(r, "findChannel")
    BY <1>5 DEF FindTunnel, ChannelRead
  <2>3. Others(r) /\ req'[r].at \notin {"count", "insert"}
    BY <1>5, <2>2, TunnelRequestsOK, ChannelReadOK
    DEF TakeLock, CountTunnels, SubdomainTaken, At
  <2>. QED  BY <2>1, <2>3, LockKept DEF tunnelRows
<1>6. CASE TakeLock(r)
  <2>1. /\ patTokenId' = patTokenId /\ At(r, "lock") /\ lock[req[r].cred] = None
        /\ lock' = [lock EXCEPT ![req[r].cred] = r]
        /\ Others(r) /\ req'[r].at = "count" /\ req'[r].cred = req[r].cred
    BY <1>6, AwaitStep DEF TakeLock
  <2>2. req[r].cred \in AnonymousPats
    BY <1>0, <2>1 DEF WellFormed, At
  <2>3. lock'[req[r].cred] = r
    BY <2>1, <2>2 DEF TypeOK
  <2>4. ASSUME NEW q \in Requests \ {r}, At(q, "count") \/ (At(q, "insert") /\ Anonymous(q))
        PROVE  lock'[req[q].cred] = q
    <3>1. lock[req[q].cred] = q
      BY <2>4 DEF LockProtects
    <3>2. req[q].cred # req[r].cred
      BY <2>1, <3>1, PlaneAssumption
    <3>. QED  BY <2>1, <3>1, <3>2 DEF TypeOK, At
  <2>5. ASSUME NEW q \in Requests
        PROVE  /\ At(q, "count")' => lock'[req'[q].cred] = q
               /\ (At(q, "insert") /\ Anonymous(q))' =>
                    /\ lock'[req'[q].cred] = q
                    /\ \A t \in tunnels' : patTokenId'[t] # req'[q].cred
    <3>1. CASE q = r
      BY <2>1, <2>3, <3>1 DEF At
    <3>2. CASE q # r
      <4>1. req'[q] = req[q] /\ tunnels' = tunnels
        BY <2>1, <3>2 DEF tunnels
      <4>2. At(q, "insert") /\ Anonymous(q) => \A t \in tunnels : patTokenId[t] # req[q].cred
        BY DEF LockProtects
      <4>. QED  BY <2>1, <2>4, <3>2, <4>1, <4>2 DEF At, Anonymous
    <3>. QED  BY <3>1, <3>2
  <2>6. LockProtects'
    BY <2>5 DEF LockProtects
  <2>. QED  BY <2>1, <2>6 DEF AnonymousLimit, tunnels
<1>7. CASE CountTunnels(r)
  <2>1. patTokenId' = patTokenId /\ At(r, "count")
    BY <1>7 DEF CountTunnels
  <2>2. CASE Answer(r) /\ Unlock(r)
    <3>1. Others(r) /\ req'[r].at = "idle"
      BY <2>2, Answered, IdleRequest
    <3>. QED  BY <2>1, <2>2, <3>1, LockReleased
  <2>3. CASE /\ ~ \E t \in tunnels : patTokenId[t] = req[r].cred
             /\ Await(r, "insert") /\ UNCHANGED lock
    <3>1. Others(r) /\ req'[r].at = "insert" /\ req'[r].cred = req[r].cred
      BY <2>3, AwaitStep
    <3>2. LockProtects'
      BY <2>1, <2>3, <3>1 DEF LockProtects, At, Anonymous, tunnels
    <3>. QED  BY <2>1, <3>2 DEF AnonymousLimit, tunnels
  <2>. QED  BY <1>7, <2>2, <2>3 DEF CountTunnels
<1>8. CASE InsertTunnel(r)
  <2>1. At(r, "insert") /\ Unlock(r)
    BY <1>8 DEF InsertTunnel
  <2>2. PICK t \in Tunnels : Fresh(t) /\ patTokenId' = [patTokenId EXCEPT ![t] = req[r].cred]
    BY <1>8 DEF InsertTunnel
  <2>3. Others(r) /\ req'[r].at = "idle"
    BY <1>8, AnswersOK, IdleRequest DEF FinalStatement
  <2>4. ASSUME NEW q \in Requests \ {r}, At(q, "count") \/ (At(q, "insert") /\ Anonymous(q))
        PROVE  lock'[req[q].cred] = q /\ req[q].cred # req[r].cred
    <3>1. lock[req[q].cred] = q /\ req[q].cred \in AnonymousPats
      BY <2>4 DEF LockProtects, RequestsOK, WellFormed, At, Anonymous
    <3>2. req[q].cred # req[r].cred
      BY <2>1, <3>1 DEF LockProtects, Anonymous
    <3>. QED  BY <2>1, <2>4, <3>1, <3>2, UnlockOwn
  <2>5. LockProtects'
    <3>. SUFFICES ASSUME NEW q \in Requests
                  PROVE  /\ At(q, "count")' => lock'[req'[q].cred] = q
                         /\ (At(q, "insert") /\ Anonymous(q))' =>
                              /\ lock'[req'[q].cred] = q
                              /\ \A s \in tunnels' : patTokenId'[s] # req'[q].cred
      BY DEF LockProtects
    <3>1. CASE q = r
      BY <2>3, <3>1 DEF At
    <3>2. CASE q # r
      <4>1. req'[q] = req[q]
        BY <2>3, <3>2 DEF Others
      <4>2. At(q, "insert") /\ Anonymous(q) => \A s \in tunnels : patTokenId[s] # req[q].cred
        BY DEF LockProtects
      <4>3. \A s \in tunnels' : (s \in tunnels /\ patTokenId'[s] = patTokenId[s])
                                \/ patTokenId'[s] = req[r].cred
        BY <2>2 DEF tunnels, TypeOK
      <4>. QED  BY <2>4, <3>2, <4>1, <4>2, <4>3 DEF At, Anonymous
    <3>. QED  BY <3>1, <3>2
  <2>6. req[r].cred \in AnonymousPats => \A s \in tunnels : patTokenId[s] # req[r].cred
    BY <2>1 DEF LockProtects, Anonymous
  <2>7. AnonymousLimit'
    BY <2>2, <2>6 DEF AnonymousLimit, tunnels, TypeOK
  <2>. QED  BY <2>5, <2>7
<1>9. CASE SubdomainTaken(r)
  <2>1. patTokenId' = patTokenId /\ At(r, "insert") /\ Unlock(r)
    BY <1>9 DEF SubdomainTaken
  <2>2. /\ Others(r) /\ req'[r].at \in {"lock", "insert"} /\ req'[r].cred = req[r].cred
        /\ req[r].cred \in AnonymousPats => req'[r].at = "lock"
    BY <1>9, AwaitStep DEF SubdomainTaken, Anonymous
  <2>. QED  BY <2>1, <2>2, LockReleased
<1>10. CASE StatementFails(r)
  <2>1. patTokenId' = patTokenId /\ Unlock(r)
    BY <1>10 DEF StatementFails
  <2>2. Others(r) /\ req'[r].at = "idle"
    BY <1>10, AnswersOK, IdleRequest DEF FinalStatement
  <2>. QED  BY <2>1, <2>2, LockReleased
<1>. QED
  BY <1>1, <1>2, <1>3, <1>4, <1>5, <1>6, <1>7, <1>8, <1>9, <1>10 DEF Statement

LEMMA LockNext ==
  ASSUME TypeOK, RequestsOK, LockProtects, AnonymousLimit, [Next]_vars
  PROVE  LockProtects' /\ AnonymousLimit'
<1>1. CASE UNCHANGED vars
  BY <1>1, LockKept DEF vars, tunnelRows
<1>2. ASSUME NEW k \in Sessions, SessionExpires(k) PROVE LockProtects' /\ AnonymousLimit'
  BY <1>2, LockKept DEF SessionExpires, tunnelRows
<1>3. ASSUME NEW t \in Tunnels, GatewayDeletes(t) PROVE LockProtects' /\ AnonymousLimit'
  BY <1>3, LockKept DEF GatewayDeletes, DeleteTunnels
<1>4. CASE Tick
  BY <1>4, LockKept DEF Tick, tunnelRows
<1>. QED  BY <1>1, <1>2, <1>3, <1>4, LockNew, LockStatement DEF Next

(* However many requests of an anonymous user count and insert at once,    *)
(* the advisory lock keeps its workspace at one tunnel.                    *)
THEOREM AtMostOneTunnel == Spec => []AnonymousLimit
<1>. DEFINE Inv == TypeOK /\ RequestsOK /\ LockProtects /\ AnonymousLimit
<1>1. Init => Inv
  BY TypeInit DEF Init, LockProtects, AnonymousLimit, At, Idle, tunnels
<1>2. Inv /\ [Next]_vars => Inv'
  BY TypeNext, RequestsNext, LockNext
<1>. QED  BY <1>1, <1>2, PTL DEF Spec

--------------------------------------------------------------------------------
(* The session cache                                                       *)

(* Nothing enters the cache and nobody logs out anew.                      *)
LEMMA EntriesKept ==
  ASSUME TypeOK, CacheKnows,
         cached' \subseteq cached,
         \A k \in cached' : /\ age'[k] = age[k] /\ doubt'[k] = doubt[k]
                            /\ k \in late => k \in late'
                            /\ session'[k] = "revoked" \/ LoggingOut(k)' =>
                                  session[k] = "revoked" \/ LoggingOut(k)
  PROVE  CacheKnows'
BY DEF CacheKnows

LEMMA EntriesDeleted ==
  ASSUME Cache, NEW K, DeleteEntries(K)
  PROVE  /\ cached' = cached \ K
         /\ \A k \in cached' : /\ age'[k] = age[k] /\ doubt'[k] = doubt[k]
                               /\ k \in late => k \in late'
BY DEF DeleteEntries, Reset, Cache

LEMMA NoNewLogout ==
  ASSUME NEW r \in Requests, Others(r), req'[r].at # "revokeSession", NEW k,
         LoggingOut(k)'
  PROVE  LoggingOut(k)
BY DEF Others, LoggingOut, At

LEMMA CacheNew ==
  ASSUME TypeOK, RequestsOK, CacheKnows, NEW r \in Requests, NewRequest(r)
  PROVE  CacheKnows'
<1>0. Cache
  BY TypeParts
<1>1. CASE Register(r) \/ Login(r) \/ Provision(r)
  <2>1. UNCHANGED sessionVars
    BY <1>1 DEF Register, Login, Provision
  <2>2. Others(r) /\ req'[r].at # "revokeSession"
    BY <1>1, SessionRequestsOK
  <2>. QED  BY <2>1, <2>2, NoNewLogout, EntriesKept DEF sessionVars
<1>2. ASSUME NEW k \in Sessions, Logout(r, k) PROVE CacheKnows'
  <2>1. /\ cached' = cached \ {k} /\ session' = session
        /\ \A j \in cached' : /\ age'[j] = age[j] /\ doubt'[j] = doubt[j]
                              /\ j \in late => j \in late'
    BY <1>0, <1>2, EntriesDeleted DEF Logout, EvictSessionCache
  <2>2. Others(r) /\ req'[r].cred = k
    BY <1>2, LogoutOK
  <2>3. ASSUME NEW j \in cached', LoggingOut(j)' PROVE LoggingOut(j)
    BY <2>1, <2>2, <2>3 DEF Others, LoggingOut, At
  <2>4. \A j \in cached' : session'[j] = "revoked" \/ LoggingOut(j)' =>
                             session[j] = "revoked" \/ LoggingOut(j)
    BY <2>1, <2>3
  <2>. QED  BY <2>1, <2>4, EntriesKept
<1>3. ASSUME NEW k \in Sessions, NEW op \in SessionOps, NEW p \in Pats \cup {None},
             SessionRequest(r, op, k, p)
      PROVE  CacheKnows'
  <2>1. PICK K : DeleteEntries(K)
    BY <1>3 DEF SessionRequest, GetSessionCache
  <2>2. session' = session
    BY <1>3 DEF SessionRequest
  <2>3. Others(r) /\ req'[r].at # "revokeSession"
    BY <1>3, SessionRequestOK
  <2>4. /\ cached' = cached \ K
        /\ \A j \in cached' : /\ age'[j] = age[j] /\ doubt'[j] = doubt[j]
                              /\ j \in late => j \in late'
    BY <1>0, <2>1, EntriesDeleted
  <2>5. \A j \in cached' : session'[j] = "revoked" \/ LoggingOut(j)' =>
                             session[j] = "revoked" \/ LoggingOut(j)
    BY <2>2, <2>3, NoNewLogout
  <2>. QED  BY <2>4, <2>5, EntriesKept
<1>4. ASSUME NEW op \in PatOps, NEW p \in Tokens, NEW t \in Tunnels \cup {None},
             PatRequest(r, op, p, t)
      PROVE  CacheKnows'
  <2>1. UNCHANGED sessionVars
    BY <1>4 DEF PatRequest
  <2>2. Others(r) /\ req'[r].at # "revokeSession"
    BY <1>4, PatRequestOK
  <2>. QED  BY <2>1, <2>2, NoNewLogout, EntriesKept DEF sessionVars
<1>. QED  BY <1>1, <1>2, <1>3, <1>4 DEF NewRequest

(* What is entered late is marked.                                         *)
LEMMA EntryMade ==
  ASSUME TypeOK, RequestsOK, CacheKnows, NEW r \in Requests, MemberRead(r)
  PROVE  CacheKnows'
<1>. DEFINE k == req[r].cred
<1>1. k \in Sessions /\ session' = session
  BY DEF MemberRead, RequestsOK, WellFormed, At
<1>2. Others(r) /\ req'[r].at # "revokeSession"
  BY SessionRequestsOK
<1>3. PICK dropped \in SUBSET cached :
        /\ cached' = (cached \ dropped) \cup {k}
        /\ age' = Reset(age, dropped \cup {k})
        /\ doubt' = Reset(doubt, dropped \cup {k})
        /\ late' = (late \ (dropped \cup {k})) \cup
                    (IF session[k] = "revoked" \/ LoggingOut(k) THEN {k} ELSE {})
  BY DEF MemberRead, SetSessionCache
<1>4. cached \subseteq Sessions
  BY DEF TypeOK
<1>. SUFFICES ASSUME NEW j \in cached'
              PROVE  /\ doubt'[j] <= age'[j]
                     /\ session'[j] = "revoked" \/ LoggingOut(j)' => j \in late'
  BY DEF CacheKnows
<1>5. session'[j] = "revoked" \/ LoggingOut(j)' => session[j] = "revoked" \/ LoggingOut(j)
  BY <1>1, <1>2, NoNewLogout
<1>6. CASE j = k
  <2>1. doubt'[j] = 0 /\ age'[j] = 0
    BY <1>1, <1>3, <1>6 DEF Reset
  <2>2. session[j] = "revoked" \/ LoggingOut(j) => j \in late'
    BY <1>3, <1>6
  <2>. QED  BY <1>5, <2>1, <2>2
<1>7. CASE j # k
  <2>1. j \in cached \ dropped /\ j \in Sessions
    BY <1>3, <1>4, <1>7
  <2>2. doubt'[j] = doubt[j] /\ age'[j] = age[j]
    BY <1>3, <1>7, <2>1 DEF Reset
  <2>3. j \in late => j \in late'
    BY <1>3, <1>7, <2>1
  <2>. QED  BY <1>5, <2>1, <2>2, <2>3 DEF CacheKnows
<1>. QED  BY <1>6, <1>7

(* The session whose row is written was being logged out: a cached entry   *)
(* was marked before.                                                      *)
LEMMA RowRevoked ==
  ASSUME TypeOK, RequestsOK, CacheKnows, NEW r \in Requests, SessionRevoked(r)
  PROVE  CacheKnows'
<1>1. /\ cached' = cached /\ age' = age /\ doubt' = doubt /\ late' = late
      /\ session' = [session EXCEPT ![req[r].cred] = IF @ = "live" THEN "revoked" ELSE @]
  BY DEF SessionRevoked
<1>2. LoggingOut(req[r].cred)
  BY DEF SessionRevoked, LoggingOut
<1>3. Others(r) /\ req'[r].at # "revokeSession"
  BY AnswersOK, IdleRequest DEF FinalStatement
<1>4. ASSUME NEW k \in cached, session'[k] = "revoked" PROVE session[k] = "revoked" \/ LoggingOut(k)
  BY <1>1, <1>2, <1>4 DEF TypeOK
<1>. QED  BY <1>1, <1>3, <1>4, NoNewLogout, EntriesKept

LEMMA CacheStatement ==
  ASSUME TypeOK, RequestsOK, CacheKnows, NEW r \in Requests, Statement(r)
  PROVE  CacheKnows'
<1>1. CASE MemberRead(r)
  BY <1>1, EntryMade
<1>2. CASE SessionRevoked(r)
  BY <1>2, RowRevoked
<1>3. CASE CreateSession(r)
  <2>1. PICK k \in Sessions : session' = [session EXCEPT ![k] = "live"]
    BY <1>3 DEF CreateSession
  <2>2. /\ cached' = cached /\ age' = age /\ doubt' = doubt /\ late' = late
        /\ \A j \in cached : session'[j] = "revoked" => session[j] = "revoked"
    BY <1>3, <2>1 DEF CreateSession, TypeOK
  <2>3. Others(r) /\ req'[r].at # "revokeSession"
    BY <1>3, AnswersOK, IdleRequest DEF FinalStatement
  <2>. QED  BY <2>2, <2>3, NoNewLogout, EntriesKept
<1>4. CASE AccountRead(r) \/ InsertAccount(r) \/ SessionRead(r) \/ RevokePat(r)
  <2>1. UNCHANGED <<session, cached, age, doubt, late>>
    BY <1>4 DEF AccountRead, InsertAccount, SessionRead, RevokePat, sessionVars
  <2>2. Others(r) /\ req'[r].at # "revokeSession"
    BY <1>4, SessionRequestsOK
  <2>. QED  BY <2>1, <2>2, NoNewLogout, EntriesKept
<1>5. CASE \/ CreatePat(r) \/ Provisioned(r) \/ CleanUp(r) \/ InsertTunnel(r)
           \/ DeleteTunnel(r) \/ InsertChannel(r) \/ UpdateChannel(r) \/ StatementFails(r)
  <2>1. UNCHANGED <<session, cached, age, doubt, late>>
    BY <1>5 DEF CreatePat, Provisioned, CleanUp, InsertTunnel, DeleteTunnel, InsertChannel,
                UpdateChannel, StatementFails, sessionVars
  <2>2. Others(r) /\ req'[r].at # "revokeSession"
    BY <1>5, AnswersOK, IdleRequest DEF FinalStatement
  <2>. QED  BY <2>1, <2>2, NoNewLogout, EntriesKept
<1>6. CASE PatRead(r) \/ TakeLock(r) \/ CountTunnels(r) \/ SubdomainTaken(r)
           \/ FindTunnel(r) \/ ChannelRead(r)
  <2>1. UNCHANGED <<session, cached, age, doubt, late>>
    BY <1>6 DEF PatRead, TakeLock, CountTunnels, SubdomainTaken, FindTunnel, ChannelRead,
                sessionVars
  <2>2. Others(r) /\ req'[r].at # "revokeSession"
    BY <1>6, PatReadOK, TunnelRequestsOK, ChannelReadOK
  <2>. QED  BY <2>1, <2>2, NoNewLogout, EntriesKept
<1>. QED  BY <1>1, <1>2, <1>3, <1>4, <1>5, <1>6 DEF Statement

LEMMA CacheTick ==
  ASSUME TypeOK, CacheKnows, Tick
  PROVE  CacheKnows'
<1>1. cached' = cached /\ late' = late /\ session' = session /\ req' = req
  BY DEF Tick
<1>2. \A k \in Sessions : LoggingOut(k)' => LoggingOut(k)
  BY <1>1 DEF LoggingOut, At
<1>3. ASSUME NEW k \in cached PROVE doubt'[k] <= age'[k]
  <2>1. /\ k \in Sessions /\ doubt[k] \in 0 .. CacheTtl + 1 /\ age[k] \in 0 .. CacheTtl + 1
        /\ doubt[k] <= age[k]
    BY DEF TypeOK, CacheKnows
  <2>2. age'[k] = Older(age[k]) /\ doubt'[k] \in {0, Older(doubt[k])}
    BY <2>1 DEF Tick
  <2>. QED  BY <2>1, <2>2, PlaneAssumption DEF Older
<1>. QED  BY <1>1, <1>2, <1>3 DEF CacheKnows, TypeOK

LEMMA CacheNext ==
  ASSUME TypeOK, RequestsOK, CacheKnows, [Next]_vars
  PROVE  CacheKnows'
<1>1. CASE UNCHANGED vars
  BY <1>1 DEF vars, sessionVars, CacheKnows, LoggingOut, At
<1>2. ASSUME NEW k \in Sessions, SessionExpires(k) PROVE CacheKnows'
  <2>1. \A j \in Sessions : LoggingOut(j)' => LoggingOut(j)
    BY <1>2 DEF SessionExpires, LoggingOut, At
  <2>2. /\ cached' = cached /\ age' = age /\ doubt' = doubt /\ late' = late
        /\ \A j \in cached : session'[j] = "revoked" => session[j] = "revoked"
    BY <1>2 DEF SessionExpires, TypeOK
  <2>. QED  BY <2>1, <2>2, EntriesKept DEF TypeOK
<1>3. ASSUME NEW t \in Tunnels, GatewayDeletes(t) PROVE CacheKnows'
  BY <1>3 DEF GatewayDeletes, sessionVars, CacheKnows, LoggingOut, At
<1>. QED  BY <1>1, <1>2, <1>3, CacheNew, CacheStatement, CacheTick DEF Next

(* A session that is over is accepted from the cache no longer than the    *)
(* time to live, and after a logout only by an entry made during it.       *)
THEOREM LoggedOut == Spec => []LogoutTakesEffect
<1>. DEFINE Inv == TypeOK /\ RequestsOK /\ CacheKnows
<1>1. Init => Inv
  BY TypeInit DEF Init, CacheKnows
<1>2. Inv /\ [Next]_vars => Inv'
  BY TypeNext, RequestsNext, CacheNext
<1>3. Inv => LogoutTakesEffect
  <2>. SUFFICES ASSUME Inv, NEW k \in Sessions, Acceptable(k)
                PROVE  /\ session[k] \in {"revoked", "expired"} => doubt[k] <= CacheTtl
                       /\ session[k] = "revoked" => k \in late
    BY DEF LogoutTakesEffect
  <2>1. k \in cached /\ age[k] <= CacheTtl /\ doubt[k] <= age[k]
        /\ (session[k] = "revoked" => k \in late)
    BY DEF Acceptable, CacheKnows
  <2>2. doubt[k] \in 0 .. CacheTtl + 1 /\ age[k] \in 0 .. CacheTtl + 1
    BY DEF TypeOK
  <2>. QED  BY <2>1, <2>2, PlaneAssumption
<1>. QED  BY <1>1, <1>2, <1>3, PTL DEF Spec

--------------------------------------------------------------------------------
(* Revoked PATs                                                            *)

(* No tunnel is inserted, no PAT is revoked, no clean-up ends.             *)
LEMMA PatsKept ==
  ASSUME TypeOK, RevokedPatLosesTunnels,
         \A t \in Tunnels : \/ patTokenId'[t] = None
                            \/ patTokenId'[t] = patTokenId[t] /\ (t \in stray => t \in stray'),
         \A p \in Tokens : pat'[p] = "revoked" => pat[p] = "revoked",
         unclean \subseteq unclean',
         \A r \in Requests : At(r, "cleanup") => req'[r] = req[r]
  PROVE  RevokedPatLosesTunnels'
<1>. SUFFICES ASSUME NEW t \in Tunnels, patTokenId'[t] # None, pat'[patTokenId'[t]] = "revoked"
              PROVE  \/ t \in stray' \/ patTokenId'[t] \in unclean'
                     \/ \E r \in Requests : At(r, "cleanup")' /\ req'[r].arg = patTokenId'[t]
  BY DEF RevokedPatLosesTunnels, tunnels
<1>1. patTokenId'[t] = patTokenId[t] /\ (t \in stray => t \in stray')
  OBVIOUS
<1>2. patTokenId[t] \in Tokens /\ t \in tunnels
  BY <1>1 DEF TypeOK, tunnels
<1>3. \/ t \in stray \/ patTokenId[t] \in unclean
      \/ \E r \in Requests : At(r, "cleanup") /\ req[r].arg = patTokenId[t]
  BY <1>1, <1>2 DEF RevokedPatLosesTunnels
<1>. QED  BY <1>1, <1>3 DEF At

LEMMA PatsNew ==
  ASSUME TypeOK, RequestsOK, RevokedPatLosesTunnels, NEW r \in Requests, NewRequest(r)
  PROVE  RevokedPatLosesTunnels'
<1>1. UNCHANGED <<patTokenId, stray, pat, unclean>> /\ At(r, "idle")
  BY DEF NewRequest, Register, Login, Provision, Logout, SessionRequest, PatRequest, Start,
         tunnelRows
<1>2. Others(r)
  BY SessionRequestsOK, LogoutOK, SessionRequestOK, PatRequestOK DEF NewRequest
<1>. QED  BY <1>1, <1>2, PatsKept DEF Others, At

(* The row is written and its clean-up begins.                             *)
LEMMA PatRevoked ==
  ASSUME TypeOK, RequestsOK, RevokedPatLosesTunnels, NEW r \in Requests, RevokePat(r)
  PROVE  RevokedPatLosesTunnels'
<1>. DEFINE p == req[r].arg
<1>1. p \in Pats /\ p \in Tokens /\ At(r, "revokePat")
  BY DEF RevokePat, RequestsOK, WellFormed, At, Tokens
<1>2. UNCHANGED <<patTokenId, stray, unclean>>
  BY DEF RevokePat, tunnelRows
<1>3. pat' = [pat EXCEPT ![p] = IF @ = "live" THEN "revoked" ELSE @]
  BY DEF RevokePat
<1>4. Others(r)
  BY SessionRequestsOK
<1>5. CASE pat[p] = "live"
  <2>1. At(r, "cleanup")' /\ req'[r].arg = p
    BY <1>5, AwaitStep DEF RevokePat, At
  <2>2. \A q \in Tokens \ {p} : pat'[q] = pat[q]
    BY <1>3 DEF TypeOK
  <2>3. \A q \in Requests : At(q, "cleanup") => req'[q] = req[q]
    BY <1>1, <1>4 DEF Others, At
  <2>. SUFFICES ASSUME NEW t \in Tunnels, patTokenId[t] # None, pat'[patTokenId[t]] = "revoked"
                PROVE  \/ t \in stray \/ patTokenId[t] \in unclean
                       \/ \E q \in Requests : At(q, "cleanup")' /\ req'[q].arg = patTokenId[t]
    BY <1>2 DEF RevokedPatLosesTunnels, tunnels
  <2>4. CASE patTokenId[t] = p
    BY <2>1, <2>4
  <2>5. CASE patTokenId[t] # p
    <3>1. patTokenId[t] \in Tokens \ {p} /\ t \in tunnels
      BY <2>5 DEF TypeOK, tunnels
    <3>2. \/ t \in stray \/ patTokenId[t] \in unclean
          \/ \E q \in Requests : At(q, "cleanup") /\ req[q].arg = patTokenId[t]
      BY <2>2, <3>1 DEF RevokedPatLosesTunnels
    <3>. QED  BY <2>3, <3>2 DEF At
  <2>. QED  BY <2>4, <2>5
<1>6. CASE pat[p] # "live"
  <2>1. pat' = pat
    BY <1>1, <1>3, <1>6 DEF TypeOK
  <2>. QED  BY <1>1, <1>2, <1>4, <2>1, PatsKept DEF Others, At
<1>. QED  BY <1>5, <1>6

(* The clean-up of p ends: none of its tunnels is left.                    *)
LEMMA PatCleanedUp ==
  ASSUME TypeOK, RequestsOK, RevokedPatLosesTunnels, NEW r \in Requests, CleanUp(r)
  PROVE  RevokedPatLosesTunnels'
<1>1. UNCHANGED <<pat, unclean>>
  BY DEF CleanUp
<1>2. \A t \in Tunnels :
        \/ patTokenId'[t] = None
        \/ /\ patTokenId'[t] = patTokenId[t] /\ patTokenId[t] # req[r].arg
           /\ t \in stray => t \in stray'
  BY DEF CleanUp, DeleteTunnels, tunnels
<1>3. \A q \in Requests \ {r} : req'[q] = req[q]
  BY AnswersOK DEF FinalStatement, Others
<1>. SUFFICES ASSUME NEW t \in Tunnels, patTokenId'[t] # None, pat'[patTokenId'[t]] = "revoked"
              PROVE  \/ t \in stray' \/ patTokenId'[t] \in unclean'
                     \/ \E q \in Requests : At(q, "cleanup")' /\ req'[q].arg = patTokenId'[t]
  BY DEF RevokedPatLosesTunnels, tunnels
<1>4. /\ patTokenId'[t] = patTokenId[t] /\ patTokenId[t] # req[r].arg
      /\ t \in stray => t \in stray'
  BY <1>2
<1>5. \/ t \in stray \/ patTokenId[t] \in unclean
      \/ \E q \in Requests : At(q, "cleanup") /\ req[q].arg = patTokenId[t]
  BY <1>1, <1>4 DEF RevokedPatLosesTunnels, tunnels
<1>. QED  BY <1>1, <1>3, <1>4, <1>5 DEF At

(* A tunnel is inserted: for a revoked PAT it is a stray one.              *)
LEMMA TunnelInserted ==
  ASSUME TypeOK, RequestsOK, RevokedPatLosesTunnels, NEW r \in Requests, InsertTunnel(r)
  PROVE  RevokedPatLosesTunnels'
<1>1. UNCHANGED <<pat, unclean>> /\ At(r, "insert")
  BY DEF InsertTunnel
<1>2. PICK t \in Tunnels :
        /\ patTokenId' = [patTokenId EXCEPT ![t] = req[r].cred]
        /\ stray' = IF pat[req[r].cred] = "revoked" THEN stray \cup {t} ELSE stray
  BY DEF InsertTunnel
<1>3. \A q \in Requests : At(q, "cleanup") => req'[q] = req[q]
  BY <1>1, AnswersOK DEF FinalStatement, Others, At
<1>. SUFFICES ASSUME NEW s \in Tunnels, patTokenId'[s] # None, pat'[patTokenId'[s]] = "revoked"
              PROVE  \/ s \in stray' \/ patTokenId'[s] \in unclean'
                     \/ \E q \in Requests : At(q, "cleanup")' /\ req'[q].arg = patTokenId'[s]
  BY DEF RevokedPatLosesTunnels, tunnels
<1>4. CASE s = t
  <2>1. patTokenId'[s] = req[r].cred
    BY <1>2, <1>4 DEF TypeOK
  <2>. QED  BY <1>1, <1>2, <1>4, <2>1
<1>5. CASE s # t
  <2>1. patTokenId'[s] = patTokenId[s] /\ (s \in stray => s \in stray')
    BY <1>2, <1>5 DEF TypeOK
  <2>2. \/ s \in stray \/ patTokenId[s] \in unclean
        \/ \E q \in Requests : At(q, "cleanup") /\ req[q].arg = patTokenId[s]
    BY <1>1, <2>1 DEF RevokedPatLosesTunnels, tunnels
  <2>. QED  BY <1>1, <1>3, <2>1, <2>2 DEF At
<1>. QED  BY <1>4, <1>5

(* A statement fails: if it is a clean-up, its PAT is unclean.             *)
LEMMA PatUnclean ==
  ASSUME TypeOK, RequestsOK, RevokedPatLosesTunnels, NEW r \in Requests, StatementFails(r)
  PROVE  RevokedPatLosesTunnels'
<1>1. /\ UNCHANGED <<pat, patTokenId, stray>>
      /\ unclean' = IF At(r, "cleanup") THEN unclean \cup {req[r].arg} ELSE unclean
  BY DEF StatementFails
<1>2. \A q \in Requests \ {r} : req'[q] = req[q]
  BY AnswersOK DEF FinalStatement, Others
<1>. SUFFICES ASSUME NEW t \in Tunnels, patTokenId[t] # None, pat[patTokenId[t]] = "revoked"
              PROVE  \/ t \in stray \/ patTokenId[t] \in unclean'
                     \/ \E q \in Requests : At(q, "cleanup")' /\ req'[q].arg = patTokenId[t]
  BY <1>1 DEF RevokedPatLosesTunnels, tunnels
<1>3. \/ t \in stray \/ patTokenId[t] \in unclean
      \/ \E q \in Requests : At(q, "cleanup") /\ req[q].arg = patTokenId[t]
  BY DEF RevokedPatLosesTunnels, tunnels
<1>. QED  BY <1>1, <1>2, <1>3 DEF At

LEMMA PatsStatement ==
  ASSUME TypeOK, RequestsOK, RevokedPatLosesTunnels, NEW r \in Requests, Statement(r)
  PROVE  RevokedPatLosesTunnels'
<1>1. CASE \/ AccountRead(r) \/ InsertAccount(r) \/ SessionRead(r) \/ MemberRead(r)
  <2>1. UNCHANGED <<patTokenId, stray, pat, unclean>> /\ ~At(r, "cleanup")
    BY <1>1 DEF AccountRead, InsertAccount, SessionRead, MemberRead, tunnelRows, At
  <2>2. Others(r)
    BY <1>1, SessionRequestsOK
  <2>. QED  BY <2>1, <2>2, PatsKept DEF Others, At
<1>2. CASE CreateSession(r) \/ SessionRevoked(r) \/ InsertChannel(r) \/ UpdateChannel(r)
  <2>1. UNCHANGED <<patTokenId, stray, pat, unclean>> /\ ~At(r, "cleanup")
    BY <1>2 DEF CreateSession, SessionRevoked, InsertChannel, UpdateChannel, tunnelRows, At
  <2>2. Others(r)
    BY <1>2, AnswersOK DEF FinalStatement
  <2>. QED  BY <2>1, <2>2, PatsKept DEF Others, At
<1>3. CASE CreatePat(r) \/ Provisioned(r)
  <2>1. UNCHANGED <<patTokenId, stray, unclean>> /\ ~At(r, "cleanup")
    BY <1>3 DEF CreatePat, Provisioned, tunnelRows, At
  <2>2. \A p \in Tokens : pat'[p] = "revoked" => pat[p] = "revoked"
    BY <1>3 DEF CreatePat, Provisioned, TypeOK
  <2>3. Others(r)
    BY <1>3, AnswersOK DEF FinalStatement
  <2>. QED  BY <2>1, <2>2, <2>3, PatsKept DEF Others, At
<1>4. CASE \/ PatRead(r) \/ TakeLock(r) \/ CountTunnels(r) \/ SubdomainTaken(r)
           \/ FindTunnel(r) \/ ChannelRead(r)
  <2>1. UNCHANGED <<patTokenId, stray, pat, unclean>> /\ ~At(r, "cleanup")
    BY <1>4 DEF PatRead, TakeLock, CountTunnels, SubdomainTaken, FindTunnel, ChannelRead,
                tunnelRows, At
  <2>2. Others(r)
    BY <1>4, PatReadOK, TunnelRequestsOK, ChannelReadOK
  <2>. QED  BY <2>1, <2>2, PatsKept DEF Others, At
<1>5. CASE DeleteTunnel(r)
  <2>1. /\ UNCHANGED <<pat, unclean>> /\ ~At(r, "cleanup")
        /\ \A t \in Tunnels :
              \/ patTokenId'[t] = None
              \/ patTokenId'[t] = patTokenId[t] /\ (t \in stray => t \in stray')
    BY <1>5 DEF DeleteTunnel, DeleteTunnels, At
  <2>2. Others(r)
    BY <1>5, AnswersOK DEF FinalStatement
  <2>. QED  BY <2>1, <2>2, PatsKept DEF Others, At
<1>. QED
  BY <1>1, <1>2, <1>3, <1>4, <1>5, PatRevoked, PatCleanedUp, TunnelInserted, PatUnclean
  DEF Statement

LEMMA PatsNext ==
  ASSUME TypeOK, RequestsOK, RevokedPatLosesTunnels, [Next]_vars
  PROVE  RevokedPatLosesTunnels'
<1>1. CASE UNCHANGED vars
  BY <1>1, PatsKept DEF vars, tunnelRows
<1>2. ASSUME NEW k \in Sessions, SessionExpires(k) PROVE RevokedPatLosesTunnels'
  BY <1>2, PatsKept DEF SessionExpires, tunnelRows
<1>3. ASSUME NEW t \in Tunnels, GatewayDeletes(t) PROVE RevokedPatLosesTunnels'
  BY <1>3, PatsKept DEF GatewayDeletes, DeleteTunnels
<1>4. CASE Tick
  BY <1>4, PatsKept DEF Tick, tunnelRows
<1>. QED  BY <1>1, <1>2, <1>3, <1>4, PatsNew, PatsStatement DEF Next

(* Whatever a revocation races with, a tunnel of a revoked PAT that stays  *)
(* was inserted too late or its clean-up failed.                           *)
THEOREM RevocationCleansUp == Spec => []RevokedPatLosesTunnels
<1>. DEFINE Inv == TypeOK /\ RequestsOK /\ RevokedPatLosesTunnels
<1>1. Init => Inv
  BY TypeInit DEF Init, RevokedPatLosesTunnels, tunnels
<1>2. Inv /\ [Next]_vars => Inv'
  BY TypeNext, RequestsNext, PatsNext
<1>. QED  BY <1>1, <1>2, PTL DEF Spec

--------------------------------------------------------------------------------
(* Writes                                                                  *)
Writing == {"delete", "insertChannel", "update"}

(* No request comes to a write, and no tunnel a writing request refers to  *)
(* gets another owner.                                                     *)
LEMMA WritesKept ==
  ASSUME WritesAreAuthorised,
         \A r \in Requests : req'[r].at \in Writing =>
            /\ req'[r] = req[r]
            /\ req[r].arg \in Tunnels =>
                 patTokenId'[req[r].arg] \in {patTokenId[req[r].arg], None}
  PROVE  WritesAreAuthorised'
BY DEF WritesAreAuthorised, Writing, At, tunnels

(* The same for a step of one request that does not come to a write.       *)
LEMMA OthersWrite ==
  ASSUME RequestsOK, WritesAreAuthorised, NEW r \in Requests, Others(r),
         req'[r].at \notin Writing,
         \A t \in Tunnels : patTokenId'[t] \in {patTokenId[t], None}
  PROVE  WritesAreAuthorised'
<1>1. ASSUME NEW q \in Requests, req'[q].at \in Writing
      PROVE  /\ req'[q] = req[q]
             /\ req[q].arg \in Tunnels =>
                  patTokenId'[req[q].arg] \in {patTokenId[req[q].arg], None}
  <2>1. q # r
    BY <1>1
  <2>. QED  BY <2>1 DEF Others
<1>. QED  BY <1>1, WritesKept

(* A request comes to a write by a lookup that finds the tunnel its own.   *)
LEMMA FoundIsOwn ==
  ASSUME TypeOK, RequestsOK, WritesAreAuthorised, NEW r \in Requests,
         FindTunnel(r) \/ ChannelRead(r)
  PROVE  WritesAreAuthorised'
<1>0. req \in [Requests -> Request] /\ UNCHANGED patTokenId
  BY DEF TypeOK, FindTunnel, ChannelRead, tunnelRows
<1>1. Others(r)
  BY TunnelRequestsOK, ChannelReadOK
<1>2. CASE req'[r].at \notin Writing
  BY <1>0, <1>1, <1>2, OthersWrite
<1>3. CASE req'[r].at \in Writing
  <2>1. /\ req'[r].arg = req[r].arg /\ req'[r].cred = req[r].cred
        /\ req'[r].at = "delete" => patTokenId[req[r].arg] = req[r].cred
        /\ req'[r].at # "delete" => SameWorkspace(patTokenId[req[r].arg], req[r].cred)
    <3>1. CASE FindTunnel(r)
      <4>1. PICK loc \in {"idle", "delete", "insertChannel"} :
              /\ Await(r, loc)
              /\ loc = "delete" => patTokenId[req[r].arg] = req[r].cred
              /\ loc = "insertChannel" => SameWorkspace(patTokenId[req[r].arg], req[r].cred)
        BY <3>1 DEF FindTunnel
      <4>2. loc # "idle"
        BY <1>3, <4>1, AwaitStep DEF Writing
      <4>. QED  BY <4>1, <4>2, AwaitStep
    <3>2. CASE ChannelRead(r)
      <4>1. PICK c : c = IF req[r].want = "none" THEN channel[req[r].arg] ELSE "none"
        OBVIOUS
      <4>2. \/ req' = [req EXCEPT ![r] = Idle]
            \/ /\ req' = [req EXCEPT ![r] = [req[r] EXCEPT !.at = "update", !.copy = c]]
               /\ SameWorkspace(patTokenId[req[r].arg], req[r].cred)
        BY <3>2, <4>1 DEF ChannelRead
      <4>3. req'[r] # Idle
        BY <1>3, IdleRequest DEF Writing
      <4>4. /\ req'[r] = [req[r] EXCEPT !.at = "update", !.copy = c]
            /\ SameWorkspace(patTokenId[req[r].arg], req[r].cred)
        BY <1>0, <4>2, <4>3
      <4>5. req[r] \in Request
        BY <1>0
      <4>6. /\ req'[r].at = "update" /\ req'[r].arg = req[r].arg
            /\ req'[r].cred = req[r].cred
        BY <4>4, <4>5 DEF Request
      <4>. QED  BY <4>4, <4>6
    <3>. QED  BY <3>1, <3>2
  <2>. SUFFICES ASSUME NEW q \in Requests, req'[q].arg \in tunnels'
                PROVE  /\ At(q, "delete")' => patTokenId[req'[q].arg] = req'[q].cred
                       /\ At(q, "insertChannel")' \/ At(q, "update")' =>
                            SameWorkspace(patTokenId[req'[q].arg], req'[q].cred)
    BY <1>0 DEF WritesAreAuthorised
  <2>2. CASE q = r
    BY <2>1, <2>2 DEF At
  <2>3. CASE q # r
    <3>1. req'[q] = req[q] /\ req[q].arg \in tunnels
      BY <1>0, <1>1, <2>3 DEF Others, tunnels
    <3>. QED  BY <3>1 DEF WritesAreAuthorised, At
  <2>. QED  BY <2>2, <2>3
<1>. QED  BY <1>2, <1>3

(* A new tunnel has an id that no request refers to.                       *)
LEMMA InsertedIsFresh ==
  ASSUME TypeOK, RequestsOK, WritesAreAuthorised, NEW r \in Requests, InsertTunnel(r)
  PROVE  WritesAreAuthorised'
<1>1. PICK t \in Tunnels :
        /\ \A q \in Requests : req[q].arg # t
        /\ patTokenId' = [patTokenId EXCEPT ![t] = req[r].cred]
  BY DEF InsertTunnel, Fresh
<1>2. Others(r) /\ req'[r].at \notin Writing
  BY AnswersOK, IdleRequest DEF FinalStatement, Writing
<1>3. ASSUME NEW q \in Requests, req'[q].at \in Writing
      PROVE  /\ req'[q] = req[q]
             /\ req[q].arg \in Tunnels =>
                  patTokenId'[req[q].arg] \in {patTokenId[req[q].arg], None}
  <2>1. q # r /\ req[q].arg # t
    BY <1>1, <1>2, <1>3
  <2>. QED  BY <1>1, <1>2, <2>1 DEF Others, TypeOK
<1>. QED  BY <1>3, WritesKept

LEMMA WritesStatement ==
  ASSUME TypeOK, RequestsOK, WritesAreAuthorised, NEW r \in Requests, Statement(r)
  PROVE  WritesAreAuthorised'
<1>. USE OthersWrite DEF Writing
<1>1. CASE AccountRead(r) \/ InsertAccount(r) \/ SessionRead(r) \/ MemberRead(r) \/ RevokePat(r)
  <2>1. UNCHANGED patTokenId
    BY <1>1 DEF AccountRead, InsertAccount, SessionRead, MemberRead, RevokePat, tunnelRows
  <2>2. Others(r) /\ req'[r].at \notin Writing
    BY <1>1, SessionRequestsOK
  <2>. QED  BY <2>1, <2>2
<1>2. CASE PatRead(r)
  <2>1. UNCHANGED patTokenId
    BY <1>2 DEF PatRead, tunnelRows
  <2>2. Others(r) /\ req'[r].at \notin Writing
    BY <1>2, PatReadOK
  <2>. QED  BY <2>1, <2>2
<1>3. CASE TakeLock(r) \/ CountTunnels(r) \/ SubdomainTaken(r)
  <2>1. UNCHANGED patTokenId
    BY <1>3 DEF TakeLock, CountTunnels, SubdomainTaken
  <2>2. ~At(r, "find")
    BY <1>3 DEF TakeLock, CountTunnels, SubdomainTaken, At
  <2>3. Others(r) /\ req'[r].at \notin Writing
    BY <1>3, <2>2, TunnelRequestsOK DEF FindTunnel
  <2>. QED  BY <2>1, <2>3
<1>4. CASE FinalStatement(r) /\ ~InsertTunnel(r)
  <2>1. \A t \in Tunnels : patTokenId'[t] \in {patTokenId[t], None}
    BY <1>4 DEF FinalStatement, CreateSession, SessionRevoked, CreatePat, Provisioned, CleanUp,
       DeleteTunnel, DeleteTunnels, InsertChannel, UpdateChannel, StatementFails, tunnelRows
  <2>2. Others(r) /\ req'[r].at \notin Writing
    BY <1>4, AnswersOK, IdleRequest
  <2>. QED  BY <2>1, <2>2
<1>. QED
  BY <1>1, <1>2, <1>3, <1>4, FoundIsOwn, InsertedIsFresh DEF Statement, FinalStatement

LEMMA WritesNew ==
  ASSUME TypeOK, RequestsOK, WritesAreAuthorised, NEW r \in Requests, NewRequest(r)
  PROVE  WritesAreAuthorised'
<1>1. UNCHANGED patTokenId
  BY DEF NewRequest, Register, Login, Provision, Logout, SessionRequest, PatRequest, tunnelRows
<1>2. Others(r) /\ req'[r].at \notin Writing
  BY SessionRequestsOK, LogoutOK, SessionRequestOK, PatRequestOK DEF NewRequest, Writing
<1>. QED  BY <1>1, <1>2, OthersWrite

LEMMA WritesNext ==
  ASSUME TypeOK, RequestsOK, WritesAreAuthorised, [Next]_vars
  PROVE  WritesAreAuthorised'
<1>1. CASE \/ UNCHANGED vars \/ Tick
           \/ \E k \in Sessions : SessionExpires(k)
           \/ \E t \in Tunnels : GatewayDeletes(t)
  <2>1. req' = req /\ \A t \in Tunnels : patTokenId'[t] \in {patTokenId[t], None}
    BY <1>1 DEF vars, Tick, SessionExpires, GatewayDeletes, DeleteTunnels, tunnelRows
  <2>. QED  BY <2>1, WritesKept
<1>. QED  BY <1>1, WritesStatement, WritesNew DEF Next

(* What a request looked up as its own it writes as its own, whatever is   *)
(* deleted, revoked or created between the two statements.                 *)
THEOREM AuthorisedWrites == Spec => []WritesAreAuthorised
<1>. DEFINE Inv == TypeOK /\ RequestsOK /\ WritesAreAuthorised
<1>1. Init => Inv
  BY TypeInit DEF Init, WritesAreAuthorised, tunnels
<1>2. Inv /\ [Next]_vars => Inv'
  BY TypeNext, RequestsNext, WritesNext
<1>. QED  BY <1>1, <1>2, PTL DEF Spec

===============================================================================
