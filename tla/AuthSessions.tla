---------------------------- MODULE AuthSessions ----------------------------
(***************************************************************************)
(* Local sessions: LoginService.login and .refresh, POST /auth/logout, the *)
(* Redis revocation store, GroupService.delete_group, and the checks every *)
(* request makes before it is admitted.  A step is one round trip to the   *)
(* database or to Redis; time passes between them, in whole seconds.       *)
(***************************************************************************)
EXTENDS Naturals

CONSTANTS Sessions,      \* session families (sid), one login each
          Clients,       \* concurrent refresh requests
          Checks,        \* concurrent requests being authenticated
          AccessLife,    \* JWT_ACCESS_EXPIRY_SECONDS
          RefreshLife,   \* JWT_REFRESH_EXPIRY_SECONDS
          MaxTime,       \* bound: the clock
          MaxJti         \* bound: tokens issued

ASSUME AuthAssumption ==
  /\ AccessLife \in Nat \ {0} /\ RefreshLife \in Nat \ {0}
  /\ MaxTime \in Nat /\ MaxJti \in Nat

VARIABLES now,        \* the clock
          tokens,     \* tokens issued
          user,       \* the local user: auth_version and its group, if any
          revokedAt,  \* jti -> when its marker expires, 0 for none
          familyEnd,  \* sid -> when its marker expires, 0 for none
          client,     \* refresh requests
          check,      \* authentication of requests
          logout      \* sid -> progress of its logout

authVars == <<now, tokens, user, revokedAt, familyEnd, client, check, logout>>

Min2(a, b) == IF a < b THEN a ELSE b
None == [jti |-> 0, type |-> "none", sid |-> 0, exp |-> 0, sexp |-> 0, ver |-> 0,
         perm |-> FALSE, from |-> 0]
Tokens == [jti : 0 .. MaxJti, type : {"none", "access", "refresh"}, sid : Sessions \cup {0},
           exp : 0 .. MaxTime + RefreshLife, sexp : 0 .. MaxTime + RefreshLife,
           ver : 0 .. 2, perm : BOOLEAN, from : 0 .. MaxJti]
NoClient == [pc |-> "idle", tok |-> None, at |-> 0, perm |-> FALSE]
NoCheck == [pc |-> "idle", tok |-> None, over |-> {}, group |-> FALSE]
\* A jti no token has: the least above those issued.
Fresh == CHOOSE j \in 1 .. MaxJti + 1 : \A t \in tokens : t.jti < j

\* Tokens are those issued so far, a user has one of two versions, and a call
\* stands between two of its reads and writes.
AuthTypeOK ==
  /\ now \in 0 .. MaxTime
  /\ tokens \subseteq Tokens
  /\ user \in [version : 1 .. 2, group : BOOLEAN]
  /\ client \in [Clients -> [pc : {"idle", "family", "user", "rotate"}, tok : Tokens,
                             at : 0 .. MaxTime, perm : BOOLEAN]]
  /\ check \in [Checks -> [pc : {"idle", "family", "session", "admitted"}, tok : Tokens,
                           over : SUBSET Sessions, group : BOOLEAN]]
  /\ logout \in [Sessions -> [step : {"none", "family", "done"}, jti : 0 .. MaxJti]]

AuthInit ==
  /\ now = 0
  /\ tokens = {}
  /\ user = [version |-> 1, group |-> TRUE]
  /\ revokedAt = [j \in 1 .. MaxJti |-> 0]
  /\ familyEnd = [s \in Sessions |-> 0]
  /\ client = [c \in Clients |-> NoClient]
  /\ check = [c \in Checks |-> NoCheck]
  /\ logout = [s \in Sessions |-> [step |-> "none", jti |-> 0]]

IsRevoked(j) == revokedAt[j] > now
IsFamilyRevoked(s) == familyEnd[s] > now
Expired(t) == t.exp <= now
LoggedOut == {s \in Sessions : logout[s].step = "done"}

(* The clock is the time since the first login.                             *)
Tick == /\ now < MaxTime /\ tokens # {}
        /\ now' = now + 1
        /\ UNCHANGED <<tokens, user, revokedAt, familyEnd, client, check, logout>>

(* login: one access and one refresh token of a new family.                 *)
Login(s) ==
  /\ \A t \in tokens : t.sid # s
  /\ Fresh + 1 <= MaxJti
  /\ LET end == now + RefreshLife
         base == [None EXCEPT !.sid = s, !.sexp = end, !.ver = user.version]
     IN  tokens' = tokens \cup
           {[base EXCEPT !.jti = Fresh, !.type = "access", !.exp = Min2(now + AccessLife, end),
                         !.perm = user.group],
            [base EXCEPT !.jti = Fresh + 1, !.type = "refresh", !.exp = end]}
  /\ UNCHANGED <<now, user, revokedAt, familyEnd, client, check, logout>>

(* verify_refresh_token: the signature and expiry, then two revocation reads. *)
RefreshStart(c, t) ==
  /\ client[c].pc = "idle"
  /\ t \in tokens /\ t.type = "refresh" /\ ~Expired(t)
  /\ ~IsRevoked(t.jti)
  /\ client' = [client EXCEPT ![c] = [NoClient EXCEPT !.pc = "family", !.tok = t]]
  /\ UNCHANGED <<now, tokens, user, revokedAt, familyEnd, check, logout>>
Answered(c) == client' = [client EXCEPT ![c] = NoClient]
RefreshFamily(c) ==
  /\ client[c].pc = "family"
  /\ IF IsFamilyRevoked(client[c].tok.sid) THEN Answered(c)
                                           ELSE client' = [client EXCEPT ![c].pc = "user"]
  /\ UNCHANGED <<now, tokens, user, revokedAt, familyEnd, check, logout>>

(* The user and its group are read, and `now' is taken for the new tokens.  *)
RefreshUser(c) ==
  /\ client[c].pc = "user"
  /\ IF client[c].tok.ver # user.version \/ client[c].tok.sexp <= now THEN Answered(c)
     ELSE client' = [client EXCEPT ![c].pc = "rotate", ![c].at = now, ![c].perm = user.group]
  /\ UNCHANGED <<now, tokens, user, revokedAt, familyEnd, check, logout>>

(* revoke_once: SET NX with the rest of the old token's life, at least one  *)
(* second.  The winner issues the next pair inside the session's deadline.  *)
RevokeOnce(j) == ~IsRevoked(j)
Marker(exp) == IF exp > now THEN exp ELSE now + 1
NextExpiry(c) == Min2(client[c].at + RefreshLife, client[c].tok.sexp)
RefreshRotate(c) ==
  /\ client[c].pc = "rotate"
  /\ Fresh + 1 <= MaxJti
  /\ IF RevokeOnce(client[c].tok.jti)
     THEN /\ revokedAt' = [revokedAt EXCEPT ![client[c].tok.jti] = Marker(client[c].tok.exp)]
          /\ LET old == client[c].tok
             IN  tokens' = tokens \cup
                   {[old EXCEPT !.jti = Fresh, !.type = "access", !.from = 0,
                                !.exp = Min2(client[c].at + AccessLife, old.sexp),
                                !.perm = client[c].perm],
                    [old EXCEPT !.jti = Fresh + 1, !.exp = NextExpiry(c), !.from = old.jti]}
     ELSE UNCHANGED <<revokedAt, tokens>>
  /\ Answered(c)
  /\ UNCHANGED <<now, user, familyEnd, check, logout>>

(* Redis took the marker and its answer was lost, or did not take it: 503.  *)
RefreshLost(c) ==
  /\ client[c].pc \in {"family", "rotate"}
  /\ \/ UNCHANGED revokedAt
     \/ /\ client[c].pc = "rotate" /\ RevokeOnce(client[c].tok.jti)
        /\ revokedAt' = [revokedAt EXCEPT ![client[c].tok.jti] = Marker(client[c].tok.exp)]
  /\ Answered(c)
  /\ UNCHANGED <<now, tokens, user, familyEnd, check, logout>>

(* logout: the family until the session's end, then the token itself; the   *)
(* request holds an access token of the session and either step may fail.   *)
TokenOnly(t) == t.exp                                                         \* seeded fault
FamilyUntil(t) == t.sexp
LogoutFamily(t) ==
  /\ t \in tokens /\ t.type = "access" /\ ~Expired(t) /\ logout[t.sid].step = "none"
  /\ familyEnd' = [familyEnd EXCEPT ![t.sid] = IF FamilyUntil(t) > @ THEN FamilyUntil(t) ELSE @]
  /\ logout' = [logout EXCEPT ![t.sid] = [step |-> "family", jti |-> t.jti]]
  /\ UNCHANGED <<now, tokens, user, revokedAt, client, check>>
LogoutToken(t) ==
  /\ t \in tokens /\ logout[t.sid] = [step |-> "family", jti |-> t.jti]
  /\ revokedAt' = [revokedAt EXCEPT ![t.jti] = Marker(t.exp)]
  /\ logout' = [logout EXCEPT ![t.sid] = [step |-> "done", jti |-> 0]]
  /\ UNCHANGED <<now, tokens, user, familyEnd, client, check>>

(* delete_group: its users lose the group and every token they hold.        *)
BumpsVersion(v) == v + 1
GroupDeleted ==
  /\ user.group
  /\ user' = [group |-> FALSE, version |-> BumpsVersion(user.version)]
  /\ UNCHANGED <<now, tokens, revokedAt, familyEnd, client, check, logout>>

(* get_auth_context: decode, the two revocation reads, then the database.   *)
CheckStart(k, t) ==
  /\ check[k].pc = "idle"
  /\ t \in tokens /\ t.type = "access" /\ ~Expired(t) /\ ~IsRevoked(t.jti)
  /\ check' = [check EXCEPT ![k] = [pc |-> "family", tok |-> t, over |-> LoggedOut,
                                    group |-> user.group]]
  /\ UNCHANGED <<now, tokens, user, revokedAt, familyEnd, client, logout>>
CheckFamily(k) ==
  /\ check[k].pc = "family"
  /\ check' = [check EXCEPT ![k] = IF IsFamilyRevoked(@.tok.sid) THEN NoCheck
                                      ELSE [@ EXCEPT !.pc = "session"]]
  /\ UNCHANGED <<now, tokens, user, revokedAt, familyEnd, client, logout>>
CheckSession(k) ==
  /\ check[k].pc = "session"
  /\ check' = [check EXCEPT ![k] = IF @.tok.ver = user.version THEN [@ EXCEPT !.pc = "admitted"]
                                      ELSE NoCheck]
  /\ UNCHANGED <<now, tokens, user, revokedAt, familyEnd, client, logout>>
CheckEnds(k) ==
  /\ check[k].pc = "admitted"
  /\ check' = [check EXCEPT ![k] = NoCheck]
  /\ UNCHANGED <<now, tokens, user, revokedAt, familyEnd, client, logout>>

AuthNext ==
  \/ Tick \/ GroupDeleted
  \/ \E s \in Sessions : Login(s)
  \/ \E t \in tokens : LogoutFamily(t) \/ LogoutToken(t)
  \/ \E c \in Clients : \/ \E t \in tokens : RefreshStart(c, t)
                        \/ RefreshFamily(c) \/ RefreshUser(c) \/ RefreshRotate(c) \/ RefreshLost(c)
  \/ \E k \in Checks : \/ \E t \in tokens : CheckStart(k, t)
                       \/ CheckFamily(k) \/ CheckSession(k) \/ CheckEnds(k)

-----------------------------------------------------------------------------
(* A refresh token has at most one live successor, however many requests    *)
(* present it and however long they stall between the verification and the  *)
(* rotation: the marker may run out under a stalled request, but then what  *)
(* it issues is past the session's end (refresh, revoke_once).              *)
RotatedOnce ==
  \A t, u \in tokens : t.from # 0 /\ t.from = u.from /\ ~Expired(t) /\ ~Expired(u) => t = u

(* Revocation is final for what starts after it: no request is admitted on  *)
(* a live token of a session whose logout had finished when its check began *)
(* - any token of the family - and none with the permissions of a group     *)
(* that had been deleted by then (logout, delete_group, get_auth_context).  *)
(* The token has to be live still: a check that stalls across the session's *)
(* end finds the family's marker gone with the session.                     *)
RevokedFinal ==
  \A k \in Checks : check[k].pc = "admitted" =>
    /\ ~Expired(check[k].tok) => check[k].tok.sid \notin check[k].over
    /\ check[k].tok.perm => check[k].group

(* Rotation never lengthens a session: tokens of one family share one       *)
(* deadline and none outlives it (login, refresh).                          *)
SessionDeadline ==
  \A t, u \in tokens : t.exp <= t.sexp /\ (t.sid = u.sid => t.sexp = u.sexp)
=============================================================================
