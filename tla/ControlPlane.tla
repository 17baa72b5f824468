----------------------------- MODULE ControlPlane -----------------------------
(***************************************************************************)
(* The API of the web application (apps/web/src/app/api/v1 and src/lib):   *)
(* accounts and sessions with their cache, personal access tokens (PATs),  *)
(* tunnels, LINE channels.                                                 *)
(*                                                                         *)
(* A request is a sequence of awaited statements.  Other requests run at   *)
(* every await; what follows an await, up to the next one, is one action.  *)
(* A statement may be rejected, which ends the request with what it has    *)
(* done so far.                                                            *)
(*                                                                         *)
(* There is one account with its workspace, and one more workspace for     *)
(* every anonymous PAT.  Rows of users never change: reading one is no     *)
(* step of its own.  Left out: requests that only read once they are       *)
(* authorised, calls of the LINE API (they are forwarded and logged),      *)
(* audit rows, bodies and their validation, the rate limit of anonymous    *)
(* provisioning, PATs' own expiry (they are issued without one), and the   *)
(* index userIndex of the session cache, which no route uses.              *)
(***************************************************************************)
EXTENDS Integers, FiniteSets

CONSTANTS
    Requests,           \* requests in flight at a time
    Sessions,           \* session tokens
    Pats,               \* PATs of the account
    AnonymousPats,      \* PATs of anonymous users
    Tunnels,            \* bound: tunnels at a time
    None,
    CacheTtl,           \* SESSION_CACHE_TTL_MS, in ticks
    MaxCacheSize        \* MAX_CACHE_SIZE

Tokens == Pats \cup AnonymousPats

ASSUME PlaneAssumption ==
    /\ None \notin Requests \cup Sessions \cup Tokens \cup Tunnels
    /\ Pats \cap AnonymousPats = {}
    /\ CacheTtl \in Nat /\ MaxCacheSize \in Nat \ {0}

VARIABLES
    account,        \* whether the account is registered
    session,        \* status of each row of sessions
    cached,         \* keys of the session cache
    age,            \* ticks since each of them was entered
    doubt,          \* history: ticks the entry of a session that is over has had
    late,           \* history: entries made during or after a logout
    pat,            \* status of each row of pat_tokens
    patTokenId,     \* rows of tunnels: the PAT of each
    channel,        \* mode of the LINE channel of each tunnel
    stray,          \* history: tunnels inserted for a PAT already revoked
    unclean,        \* history: revoked PATs whose tunnels were not deleted
    lock,           \* holder of the advisory lock of an anonymous workspace
    req             \* each request in flight

sessionVars == <<account, session, cached, age, doubt, late>>
tunnelRows  == <<patTokenId, stray, lock>>

vars == <<sessionVars, pat, unclean, tunnelRows, channel, req>>

Modes == {"relay", "managed"}

SessionOps == {"createPat", "revokePat", "view"}
TunnelOps  == {"deleteTunnel", "createChannel"}
PatOps     == {"createTunnel", "patchChannel"} \cup TunnelOps

(* Each location names what the request is waiting for.                    *)
Locations ==
    {"idle",
     "existing", "insertAccount", "credentials", "insertSession",
     "sessionRow", "memberRow", "revokeSession",
     "insertPat", "revokePat", "cleanup", "provision",
     "patRow", "lock", "count", "insert",
     "find", "delete", "insertChannel",
     "findChannel", "update"}

Request == [at   : Locations,
            op   : SessionOps \cup PatOps \cup {"register", "login", "logout", "provision", "none"},
            cred : Sessions \cup Tokens \cup {None},     \* cookie or bearer token
            arg  : Tunnels \cup Pats \cup {None},        \* id in the path or the body
            want : Modes \cup {"none"},                  \* mode in the body
            copy : Modes \cup {"none"}]                  \* mode as it was read

Idle == [at |-> "idle", op |-> "none", cred |-> None, arg |-> None,
         want |-> "none", copy |-> "none"]

TypeOK ==
    /\ account \in BOOLEAN
    /\ session \in [Sessions -> {"absent", "live", "revoked", "expired"}]
    /\ cached \in SUBSET Sessions
    /\ age \in [Sessions -> 0 .. CacheTtl + 1]
    /\ doubt \in [Sessions -> 0 .. CacheTtl + 1]
    /\ late \in SUBSET Sessions
    /\ pat \in [Tokens -> {"absent", "live", "revoked"}]
    /\ patTokenId \in [Tunnels -> Tokens \cup {None}]
    /\ channel \in [Tunnels -> Modes \cup {"none"}]
    /\ stray \in SUBSET Tunnels
    /\ unclean \in SUBSET Tokens
    /\ lock \in [AnonymousPats -> Requests \cup {None}]
    /\ req \in [Requests -> Request]
    \* What the schema promises: a channel refers to a tunnel.
    /\ \A t \in Tunnels : channel[t] # "none" => patTokenId[t] # None

Init ==
    /\ account = FALSE
    /\ session = [k \in Sessions |-> "absent"]
    /\ cached = {} /\ late = {}
    /\ age = [k \in Sessions |-> 0] /\ doubt = [k \in Sessions |-> 0]
    /\ pat = [p \in Tokens |-> "absent"]
    /\ patTokenId = [t \in Tunnels |-> None]
    /\ channel = [t \in Tunnels |-> "none"]
    /\ stray = {} /\ unclean = {}
    /\ lock = [p \in AnonymousPats |-> None]
    /\ req = [r \in Requests |-> Idle]

At(r, loc) == req[r].at = loc

tunnels == {t \in Tunnels : patTokenId[t] # None}

(* A request starts, goes on to its next await, or is answered ("idle").   *)
Proceed(sent, loc) == IF loc = "idle" THEN Idle ELSE [sent EXCEPT !.at = loc]

Start(r, sent, loc) == At(r, "idle") /\ req' = [req EXCEPT ![r] = Proceed(sent, loc)]
Await(r, loc) == req' = [req EXCEPT ![r] = Proceed(@, loc)]
Answer(r)     == Await(r, "idle")

Sent(op, cred, arg) == [Idle EXCEPT !.op = op, !.cred = cred, !.arg = arg]

SameWorkspace(p, q) == p = q \/ {p, q} \subseteq Pats

(* Rows of tunnels are deleted, and their channels with them (ON DELETE    *)
(* CASCADE).                                                               *)
DeleteTunnels(T) ==
    /\ patTokenId' = [t \in Tunnels |-> IF t \in T THEN None ELSE patTokenId[t]]
    /\ stray' = stray \ T
    /\ channel' = [t \in Tunnels |-> IF t \in T THEN "none" ELSE channel[t]]

-------------------------------------------------------------------------------
(* Accounts and sessions *)

Register(r) ==
    /\ ~account                                              \* bound: one account
    /\ Start(r, Sent("register", None, None), "existing")
    /\ UNCHANGED <<sessionVars, pat, unclean, tunnelRows, channel>>

Unused(status) == \E x \in DOMAIN status : status[x] = "absent"

Login(r) ==
    /\ Unused(session)                                       \* bound
    /\ Start(r, Sent("login", None, None), "credentials")
    /\ UNCHANGED <<sessionVars, pat, unclean, tunnelRows, channel>>

(* The e-mail address is looked up: it must be new, or registered.         *)
AccountRead(r) ==
    /\ \/ At(r, "existing") /\ Await(r, IF account THEN "idle" ELSE "insertAccount")
       \/ At(r, "credentials") /\ Await(r, IF account THEN "insertSession" ELSE "idle")
    /\ UNCHANGED <<sessionVars, pat, unclean, tunnelRows, channel>>

(* User, workspace and member in one transaction; users.email is unique.   *)
InsertAccount(r) ==
    /\ At(r, "insertAccount")
    /\ account' = TRUE
    /\ Await(r, IF account THEN "idle" ELSE "insertSession")
    /\ UNCHANGED <<session, cached, age, doubt, late, pat, unclean, tunnelRows, channel>>

CreateSession(r) ==
    /\ At(r, "insertSession")
    /\ \E k \in Sessions :
         session[k] = "absent" /\ session' = [session EXCEPT ![k] = "live"]
    /\ Answer(r)
    /\ UNCHANGED <<account, cached, age, doubt, late, pat, unclean, tunnelRows, channel>>

Acceptable(k) == k \in cached /\ age[k] <= CacheTtl

Expired == {k \in cached : age[k] > CacheTtl}

Reset(f, K) == [k \in Sessions |-> IF k \in K THEN 0 ELSE f[k]]

DeleteEntries(K) ==
    /\ cached' = cached \ K
    /\ age' = Reset(age, K) /\ doubt' = Reset(doubt, K)
    /\ late' = late \ K

(* An expired entry is dropped when it is met; every hundredth lookup      *)
(* drops them all.                                                         *)
GetSessionCache(k) ==
    \E pruned \in {Expired \cap {k}, Expired} : DeleteEntries(pruned)

LoggingOut(k) == \E r \in Requests : At(r, "revokeSession") /\ req[r].cred = k

(* A full cache drops its oldest entry; here, any one.                     *)
SetSessionCache(k) ==
    \E dropped \in {D \in SUBSET cached :
                      Cardinality(D) = IF Cardinality(cached) >= MaxCacheSize THEN 1 ELSE 0} :
        /\ cached' = (cached \ dropped) \cup {k}
        /\ age' = Reset(age, dropped \cup {k})
        /\ doubt' = Reset(doubt, dropped \cup {k})
        /\ late' = (late \ (dropped \cup {k})) \cup
                    (IF session[k] = "revoked" \/ LoggingOut(k) THEN {k} ELSE {})

EvictSessionCache_Not(k) ==             \* mutant: the entry outlives the logout
    UNCHANGED <<cached, age, doubt, late>>

EvictSessionCache(k) == DeleteEntries({k})

(* revokeSessionByToken: the cache entry first, then the row.              *)
Logout(r, k) ==
    /\ session[k] # "absent"
    /\ Start(r, Sent("logout", k, None), "revokeSession")
    /\ EvictSessionCache(k)
    /\ UNCHANGED <<account, session, pat, unclean, tunnelRows, channel>>

SessionRevoked(r) ==
    /\ At(r, "revokeSession")
    /\ session' = [session EXCEPT ![req[r].cred] =
                     IF @ = "live" THEN "revoked" ELSE @]
    /\ Answer(r)
    /\ UNCHANGED <<account, cached, age, doubt, late, pat, unclean, tunnelRows, channel>>

(* What a request authorised by a session waits for first.                 *)
Authorised(op) ==
    CASE op = "createPat" -> "insertPat"
      [] op = "revokePat" -> "revokePat"
      [] OTHER            -> "idle"

(* requireSessionAuth up to its first await: the cache, then the row.      *)
SessionRequest(r, op, k, p) ==
    /\ session[k] # "absent"
    /\ IF op = "revokePat" THEN p \in Pats /\ pat[p] # "absent" ELSE p = None
    /\ Start(r, Sent(op, k, p),
             IF Acceptable(k) THEN Authorised(op) ELSE "sessionRow")
    /\ GetSessionCache(k)
    /\ UNCHANGED <<account, session, pat, unclean, tunnelRows, channel>>

SessionRead(r) ==
    /\ At(r, "sessionRow")
    /\ Await(r, IF session[req[r].cred] = "live" THEN "memberRow" ELSE "idle")
    /\ UNCHANGED <<sessionVars, pat, unclean, tunnelRows, channel>>

(* User and member are read; the result is cached, whatever has happened   *)
(* to the session in the meantime.                                         *)
MemberRead(r) ==
    LET k == req[r].cred IN
    /\ At(r, "memberRow")
    /\ SetSessionCache(k)
    /\ Await(r, Authorised(req[r].op))
    /\ UNCHANGED <<account, session, pat, unclean, tunnelRows, channel>>

(* expires_at passes.                                                      *)
SessionExpires(k) ==
    /\ session[k] = "live"
    /\ session' = [session EXCEPT ![k] = "expired"]
    /\ UNCHANGED <<account, cached, age, doubt, late, pat, unclean, tunnelRows, channel, req>>

Older(n) == IF n > CacheTtl THEN n ELSE n + 1

Tick ==
    /\ age' = [k \in Sessions |-> IF k \in cached THEN Older(age[k]) ELSE 0]
    /\ doubt' = [k \in Sessions |-> IF k \in cached /\ session[k] # "live"
                                    THEN Older(doubt[k]) ELSE 0]
    /\ UNCHANGED <<account, session, cached, late, pat, unclean, tunnelRows, channel, req>>

-------------------------------------------------------------------------------
(* Personal access tokens *)

CreatePat(r) ==
    /\ At(r, "insertPat")
    /\ \E p \in Pats : pat[p] = "absent" /\ pat' = [pat EXCEPT ![p] = "live"]
    /\ Answer(r)
    /\ UNCHANGED <<sessionVars, unclean, tunnelRows, channel>>

(* tunnel http without a token: a user, a workspace and a PAT of its own,  *)
(* in one transaction.                                                     *)
Provision(r) ==
    /\ Start(r, Sent("provision", None, None), "provision")
    /\ UNCHANGED <<sessionVars, pat, unclean, tunnelRows, channel>>

Provisioned(r) ==
    /\ At(r, "provision")
    /\ \E p \in AnonymousPats : pat[p] = "absent" /\ pat' = [pat EXCEPT ![p] = "live"]
    /\ Answer(r)
    /\ UNCHANGED <<sessionVars, unclean, tunnelRows, channel>>

(* DELETE of a PAT: the row, if it is not revoked yet, then its tunnels.   *)
RevokePat(r) ==
    LET p == req[r].arg IN
    /\ At(r, "revokePat")
    /\ pat' = [pat EXCEPT ![p] = IF @ = "live" THEN "revoked" ELSE @]
    /\ Await(r, IF pat[p] = "live" THEN "cleanup" ELSE "idle")
    /\ UNCHANGED <<sessionVars, unclean, tunnelRows, channel>>

CleanUp_OwnOnly(r) ==                   \* mutant: keeps tunnels with a channel
    /\ At(r, "cleanup")
    /\ DeleteTunnels({t \in tunnels : patTokenId[t] = req[r].arg /\ channel[t] = "none"})
    /\ Answer(r)
    /\ UNCHANGED <<sessionVars, pat, unclean, lock>>

CleanUp(r) ==
    /\ At(r, "cleanup")
    /\ DeleteTunnels({t \in tunnels : patTokenId[t] = req[r].arg})
    /\ Answer(r)
    /\ UNCHANGED <<sessionVars, pat, unclean, lock>>

(* requirePatAuth: the row of the PAT.  Anonymous PATs have the scope      *)
(* line:manage, too: they may do whatever the others may.                  *)
PatRequest(r, op, p, t) ==
    /\ pat[p] # "absent"
    /\ IF op = "createTunnel" THEN t = None ELSE t \in tunnels
    /\ Start(r, Sent(op, p, t), "patRow")
    /\ UNCHANGED <<sessionVars, pat, unclean, tunnelRows, channel>>

(* Once it is authorised, the body is read.                                *)
PatRead(r) ==
    /\ At(r, "patRow")
    /\ \E want \in CASE req[r].op = "createChannel" -> Modes
                     [] req[r].op = "patchChannel"  -> Modes \cup {"none"}
                     [] OTHER                       -> {"none"} :
         req' = [req EXCEPT ![r] =
                   Proceed([@ EXCEPT !.want = want],
                           CASE pat[@.cred] = "revoked"    -> "idle"
                             [] @.op \in TunnelOps         -> "find"
                             [] @.op = "patchChannel"      -> "findChannel"
                             [] @.cred \in AnonymousPats   -> "lock"
                             [] OTHER                      -> "insert")]
    /\ UNCHANGED <<sessionVars, pat, unclean, tunnelRows, channel>>

-------------------------------------------------------------------------------
(* Tunnels *)

Anonymous(r) == req[r].cred \in AnonymousPats

Unlock(r) == lock' = [p \in AnonymousPats |-> IF lock[p] = r THEN None ELSE lock[p]]

TakeLock_Shared(r) ==                   \* mutant: the lock excludes nobody
    /\ At(r, "lock")
    /\ lock' = [lock EXCEPT ![req[r].cred] = r]
    /\ Await(r, "count")
    /\ UNCHANGED <<sessionVars, pat, unclean, patTokenId, stray, channel>>

(* pg_advisory_xact_lock, held to the end of the transaction.              *)
TakeLock(r) ==
    /\ At(r, "lock") /\ lock[req[r].cred] = None
    /\ lock' = [lock EXCEPT ![req[r].cred] = r]
    /\ Await(r, "count")
    /\ UNCHANGED <<sessionVars, pat, unclean, patTokenId, stray, channel>>

(* Tunnels that are not stopped; no code ever stops one.                   *)
CountTunnels(r) ==
    /\ At(r, "count")
    /\ IF \E t \in tunnels : patTokenId[t] = req[r].cred
       THEN Answer(r) /\ Unlock(r)
       ELSE Await(r, "insert") /\ UNCHANGED lock
    /\ UNCHANGED <<sessionVars, pat, unclean, patTokenId, stray, channel>>

(* Ids are never used twice: t may stand for a new tunnel once its last    *)
(* one is gone and no request refers to it.                                *)
Fresh(t) == t \notin tunnels /\ \A r \in Requests : req[r].arg # t

(* The row is visible, and the lock free, when the transaction commits.    *)
InsertTunnel(r) ==
    /\ At(r, "insert")
    /\ \E t \in Tunnels :
         /\ Fresh(t)
         /\ patTokenId' = [patTokenId EXCEPT ![t] = req[r].cred]
         /\ stray' = IF pat[req[r].cred] = "revoked" THEN stray \cup {t} ELSE stray
    /\ Unlock(r)
    /\ Answer(r)
    /\ UNCHANGED <<sessionVars, pat, unclean, channel>>

(* The subdomain is taken: rolled back, and tried again with another one.  *)
SubdomainTaken(r) ==
    /\ At(r, "insert")
    /\ Unlock(r)
    /\ Await(r, IF Anonymous(r) THEN "lock" ELSE "insert")
    /\ UNCHANGED <<sessionVars, pat, unclean, patTokenId, stray, channel>>

FindTunnel_ById(r) ==                   \* mutant: whosever tunnel it is
    LET found == req[r].arg \in tunnels
    IN  /\ At(r, "find")
        /\ Await(r, CASE found /\ req[r].op = "deleteTunnel"  -> "delete"
                      [] found /\ req[r].op = "createChannel" -> "insertChannel"
                      [] OTHER                                -> "idle")
        /\ UNCHANGED <<sessionVars, pat, unclean, tunnelRows, channel>>

(* findAccessibleTunnel: by workspace, and for all but channels by PAT.    *)
FindTunnel(r) ==
    LET t == req[r].arg
        found == /\ t \in tunnels
                 /\ IF req[r].op = "createChannel"
                    THEN SameWorkspace(patTokenId[t], req[r].cred)
                    ELSE patTokenId[t] = req[r].cred
    IN  /\ At(r, "find")
        /\ Await(r, CASE found /\ req[r].op = "deleteTunnel"  -> "delete"
                      [] found /\ req[r].op = "createChannel" -> "insertChannel"
                      [] OTHER                                -> "idle")
        /\ UNCHANGED <<sessionVars, pat, unclean, tunnelRows, channel>>

DeleteTunnel(r) ==
    /\ At(r, "delete")
    /\ DeleteTunnels({req[r].arg})
    /\ Answer(r)
    /\ UNCHANGED <<sessionVars, pat, unclean, lock>>

(* The gateway deletes a tunnel whose agent has left.                      *)
GatewayDeletes(t) ==
    /\ t \in tunnels
    /\ DeleteTunnels({t})
    /\ UNCHANGED <<sessionVars, pat, unclean, lock, req>>

-------------------------------------------------------------------------------
(* LINE channels: one to a tunnel, visible in the whole workspace *)

InsertChannel_NoReference(r) ==         \* mutant: the tunnel may be gone
    LET t == req[r].arg IN
    /\ At(r, "insertChannel")
    /\ channel' = [channel EXCEPT ![t] = IF @ = "none" THEN req[r].want ELSE @]
    /\ Answer(r)
    /\ UNCHANGED <<sessionVars, pat, unclean, tunnelRows>>

(* tunnel_id is unique and refers to a row.                                *)
InsertChannel(r) ==
    LET t == req[r].arg IN
    /\ At(r, "insertChannel")
    /\ channel' = [channel EXCEPT ![t] =
                     IF @ = "none" /\ t \in tunnels THEN req[r].want ELSE @]
    /\ Answer(r)
    /\ UNCHANGED <<sessionVars, pat, unclean, tunnelRows>>

(* The row is read and, in a second statement, its tunnel: if that one is  *)
(* gone so is the channel, and the UPDATE finds nothing to write.          *)
ChannelRead(r) ==
    LET t == req[r].arg
        found == channel[t] # "none" /\ SameWorkspace(patTokenId[t], req[r].cred)
    IN  /\ At(r, "findChannel")
        /\ req' = [req EXCEPT ![r] =
                     IF found THEN [@ EXCEPT !.at = "update",
                                             !.copy = IF req[r].want = "none" THEN channel[t] ELSE "none"]
                     ELSE Idle]
        /\ UNCHANGED <<sessionVars, pat, unclean, tunnelRows, channel>>

Or(mode, default) == IF mode = "none" THEN default ELSE mode

(* PATCH writes every field: those it was not given, as they were read.    *)
UpdateChannel(r) ==
    LET t == req[r].arg IN
    /\ At(r, "update")
    /\ channel' = [channel EXCEPT ![t] =
                     IF @ = "none" THEN @ ELSE Or(req[r].want, req[r].copy)]
    /\ Answer(r)
    /\ UNCHANGED <<sessionVars, pat, unclean, tunnelRows>>

-------------------------------------------------------------------------------
(* An awaited statement or call is rejected: the request is answered 500,  *)
(* a transaction is rolled back, and what was committed before stays.      *)
StatementFails(r) ==
    /\ ~At(r, "idle")
    /\ Unlock(r)
    /\ unclean' = IF At(r, "cleanup") THEN unclean \cup {req[r].arg} ELSE unclean
    /\ Answer(r)
    /\ UNCHANGED <<sessionVars, pat, patTokenId, stray, channel>>

Statement(r) ==
    \/ AccountRead(r) \/ InsertAccount(r) \/ CreateSession(r)
    \/ SessionRevoked(r) \/ SessionRead(r) \/ MemberRead(r)
    \/ CreatePat(r) \/ Provisioned(r) \/ RevokePat(r) \/ CleanUp(r)
    \/ PatRead(r) \/ TakeLock(r) \/ CountTunnels(r) \/ InsertTunnel(r)
    \/ SubdomainTaken(r) \/ FindTunnel(r) \/ DeleteTunnel(r)
    \/ InsertChannel(r) \/ ChannelRead(r) \/ UpdateChannel(r)
    \/ StatementFails(r)

NewRequest(r) ==
    \/ Register(r) \/ Login(r) \/ Provision(r)
    \/ \E k \in Sessions : Logout(r, k)
    \/ \E k \in Sessions, op \in SessionOps, p \in Pats \cup {None} :
         SessionRequest(r, op, k, p)
    \/ \E op \in PatOps, p \in Tokens, t \in Tunnels \cup {None} : PatRequest(r, op, p, t)

Next ==
    \/ \E r \in Requests : NewRequest(r) \/ Statement(r)
    \/ \E k \in Sessions : SessionExpires(k)
    \/ \E t \in Tunnels : GatewayDeletes(t)
    \/ Tick

Spec == Init /\ [][Next]_vars

-------------------------------------------------------------------------------
(* Safety *)

(* A session that is over is accepted from the cache no longer than the    *)
(* cache's time to live, and after a logout only if a lookup of the same   *)
(* session, under way at the logout, entered it again: logging out evicts  *)
(* the entry before it writes the row.                                     *)
LogoutTakesEffect ==
    \A k \in Sessions : Acceptable(k) =>
        /\ session[k] \in {"revoked", "expired"} => doubt[k] <= CacheTtl
        /\ session[k] = "revoked" => k \in late

(* An anonymous workspace has at most one tunnel, however many requests    *)
(* count and insert at once, and whatever is deleted in between.           *)
AnonymousLimit ==
    \A s, t \in tunnels :
        patTokenId[s] = patTokenId[t] /\ patTokenId[t] \in AnonymousPats => s = t

(* A revoked PAT loses its tunnels: one that is still there is about to be *)
(* deleted, was inserted by a request authorised before the revocation, or *)
(* is left over because the second statement of the revocation failed.     *)
RevokedPatLosesTunnels ==
    \A t \in tunnels :
        pat[patTokenId[t]] = "revoked" =>
            \/ t \in stray \/ patTokenId[t] \in unclean
            \/ \E r \in Requests : At(r, "cleanup") /\ req[r].arg = patTokenId[t]

(* What makes these inductive.  A request waits with what its next         *)
(* statement needs.                                                        *)
WellFormed(q) ==
    /\ q.at \in {"sessionRow", "memberRow"} =>
         /\ q.cred \in Sessions /\ q.op \in SessionOps
         /\ q.op = "revokePat" => q.arg \in Pats
    /\ q.at = "revokeSession" => q.cred \in Sessions
    /\ q.at \in {"revokePat", "cleanup"} => q.arg \in Pats
    /\ q.at \in {"patRow", "insert", "find", "findChannel"} => q.cred \in Tokens
    /\ q.at \in {"lock", "count"} => q.cred \in AnonymousPats
    /\ q.at = "patRow" =>
         /\ q.op \in PatOps
         /\ q.op # "createTunnel" => q.arg \in Tunnels
    /\ q.at = "find" =>
         /\ q.arg \in Tunnels
         /\ q.op = "createChannel" => q.want \in Modes
    /\ q.at \in {"delete", "insertChannel", "findChannel", "update"} => q.arg \in Tunnels
    /\ q.at = "insertChannel" => q.want \in Modes
    /\ q.at = "update" => q.want \in Modes \/ q.copy \in Modes

(* A request that counts, or inserts for an anonymous user, holds the lock *)
(* of the workspace, and no tunnel has come since it counted.              *)
LockProtects ==
    \A r \in Requests :
        /\ At(r, "count") => lock[req[r].cred] = r
        /\ At(r, "insert") /\ Anonymous(r) =>
             /\ lock[req[r].cred] = r
             /\ \A t \in tunnels : patTokenId[t] # req[r].cred

(* An entry is at least as old as its doubt, and one of a session that is  *)
(* being logged out, or has been, was made late.                           *)
CacheKnows ==
    \A k \in cached :
        /\ doubt[k] <= age[k]
        /\ session[k] = "revoked" \/ LoggingOut(k) => k \in late

(* A row is looked up in the workspace of the request in one statement and *)
(* written by its id alone in a later one: at the write the request is     *)
(* still entitled to it.  A tunnel that is there is deleted only with its  *)
(* own PAT; its channel is created and changed only from its workspace.    *)
WritesAreAuthorised ==
    \A r \in Requests : req[r].arg \in tunnels =>
        /\ At(r, "delete") => patTokenId[req[r].arg] = req[r].cred
        /\ At(r, "insertChannel") \/ At(r, "update") =>
             SameWorkspace(patTokenId[req[r].arg], req[r].cred)
===============================================================================
