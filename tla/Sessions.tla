------------------------------ MODULE Sessions ------------------------------
(***************************************************************************)
(* Session tokens: signed when a passkey ceremony has been verified, kept  *)
(* in Redis under session:{token}, refreshed and logged out.               *)
(*                                                                         *)
(* A token is a JWT of the credential and the second it was signed in: two *)
(* signed for one credential in one second are one string, and one entry   *)
(* of Redis.  Every Redis call of a request is a step next to those of     *)
(* other requests; a call may fail and an instance may die anywhere.       *)
(*                                                                         *)
(* Time is counted in half seconds.  Checking a token for another endpoint *)
(* does what a refresh does up to ReadSession, and changes nothing.        *)
(***************************************************************************)
EXTENDS Integers

CONSTANTS
    Credentials,    \* credential ids
    Requests,       \* logins and refreshes served at a time
    Lifetime,       \* tokenExpiry, in seconds: 30 minutes in the code
    MaxNow,         \* bound: the half seconds of a run
    MaxLogins       \* bound: its logins

ASSUME SessionAssumption == Lifetime \in Nat \ {0} /\ MaxNow \in Nat /\ MaxLogins \in Nat

Seconds == 0 .. MaxNow \div 2
Token == [credential : Credentials, iat : Seconds]
NoToken == [credential |-> {}, iat |-> 0]
Logins == 1 .. MaxLogins

VARIABLES
    requireRedisSession,  \* AUTH_REQUIRE_REDIS_SESSION: a token must be in Redis to be accepted
    now,                  \* the clock, in half seconds
    redis,                \* for each token, when its entry expires; 0 when there is none
    req,                  \* the requests in flight
    issued,               \* tokens that clients were given
    \* bookkeeping: nothing in the code reads these
    logins,               \* logins so far
    of,                   \* the logins that each token stands for, or stood for
    revoked,              \* tokens deleted since they were last stored
    ended,                \* logins logged out of
    forked                \* logins that met two requests at once

vars == <<requireRedisSession, now, redis, req, issued, logins, of, revoked, ended, forked>>

(* A request: the token to be replaced, its replacement, and bookkeeping,  *)
(* the logins it acts for.                                                 *)
Request == [pc : {"idle", "get", "del", "sign", "set"}, token : Token \cup {NoToken},
            new : Token \cup {NoToken}, who : SUBSET Logins]
Idle == [pc |-> "idle", token |-> NoToken, new |-> NoToken, who |-> {}]

Init ==
    /\ requireRedisSession \in BOOLEAN
    /\ now = 0
    /\ redis = [t \in Token |-> 0]
    /\ req = [r \in Requests |-> Idle]
    /\ issued = {} /\ revoked = {}
    /\ logins = 0
    /\ of = [t \in Token |-> {}]
    /\ ended = {} /\ forked = {}

-----------------------------------------------------------------------------
HalfSeconds == now                                 \* mutation: iat is not rounded to seconds
Second == now \div 2

InRedis(t) == redis[t] > now
LoginsOf(t) == IF InRedis(t) THEN of[t] ELSE {}

\* jwt.verify, by the token's exp
Unexpired(t) == Second < t.iat + Lifetime

\* verifyToken, once the signature and Redis have been looked at
AnySigned(inRedis) == TRUE                         \* mutation: Redis is only logged
Accepted(inRedis) == inRedis \/ ~requireRedisSession

\* generateToken stores a token for this long.
TtlInSeconds == Lifetime                           \* mutation: seconds where milliseconds are due
Ttl == 2 * Lifetime

\* Requests that have decided on a token of these logins and are not done.
Acting(q, who) == req[q].pc \in {"del", "sign", "set"} /\ req[q].who \cap who # {}
Shared(r, who) == UNION {req[q].who \cap who : q \in {p \in Requests \ {r} : Acting(p, who)}}

\* del of session:{token}
KeepEntry(t) == UNCHANGED <<redis, revoked>>       \* mutation: nothing is deleted
revokeToken(t) ==
    /\ redis' = [redis EXCEPT ![t] = 0]
    /\ revoked' = revoked \cup {t}

(* A verified ceremony: generateToken signs a token ...                    *)
Login(r, c) ==
    /\ logins < MaxLogins
    /\ req[r].pc = "idle"
    /\ logins' = logins + 1
    /\ req' = [req EXCEPT ![r] = [pc |-> "set", token |-> NoToken, who |-> {logins + 1},
                                  new |-> [credential |-> c, iat |-> Second]]]
    /\ UNCHANGED <<requireRedisSession, now, redis, issued, of, revoked, ended, forked>>

(* ... and stores it, before the client gets it.                           *)
Store(r) ==
    LET t == req[r].new IN
    /\ req[r].pc = "set"
    /\ redis' = [redis EXCEPT ![t] = now + Ttl]
    /\ of' = [of EXCEPT ![t] = LoginsOf(t) \cup req[r].who]
    /\ issued' = issued \cup {t}
    /\ revoked' = revoked \ {t}
    /\ req' = [req EXCEPT ![r] = Idle]
    /\ UNCHANGED <<requireRedisSession, now, logins, ended, forked>>

(* POST passkey/refresh-token: jwt.verify ...                              *)
Refresh(r, t) ==
    /\ req[r].pc = "idle"
    /\ Unexpired(t)
    /\ req' = [req EXCEPT ![r] = [pc |-> "get", token |-> t, who |-> {}, new |-> NoToken]]
    /\ UNCHANGED <<requireRedisSession, now, redis, issued, logins, of, revoked, ended, forked>>

(* ... the entry in Redis, which a read may fail to find ...               *)
ReadSession(r, inRedis) ==
    LET who == of[req[r].token] IN
    /\ req[r].pc = "get"
    /\ inRedis => InRedis(req[r].token)
    /\ IF Accepted(inRedis)
       THEN /\ req' = [req EXCEPT ![r].pc = "del", ![r].who = who]
            /\ forked' = forked \cup Shared(r, who)
       ELSE /\ req' = [req EXCEPT ![r] = Idle]
            /\ UNCHANGED forked
    /\ UNCHANGED <<requireRedisSession, now, redis, issued, logins, of, revoked, ended>>

(* ... the old token goes ...                                              *)
RevokeOld(r) ==
    /\ req[r].pc = "del"
    /\ revokeToken(req[r].token)
    /\ req' = [req EXCEPT ![r].pc = "sign"]
    /\ UNCHANGED <<requireRedisSession, now, issued, logins, of, ended, forked>>

(* ... and the new one is signed, by the clock of then, and stored.        *)
Sign(r) ==
    /\ req[r].pc = "sign"
    /\ req' = [req EXCEPT ![r].pc = "set",
                          ![r].new = [credential |-> req[r].token.credential, iat |-> Second]]
    /\ UNCHANGED <<requireRedisSession, now, redis, issued, logins, of, revoked, ended, forked>>

(* POST passkey/logout, which verifies nothing.                            *)
Logout(t) ==
    LET who == LoginsOf(t) IN
    /\ revokeToken(t)
    /\ ended' = ended \cup who
    /\ forked' = forked \cup UNION {req[q].who \cap who : q \in {p \in Requests : Acting(p, who)}}
    /\ UNCHANGED <<requireRedisSession, now, req, issued, logins, of>>

(* A Redis call fails, or the instance dies.                               *)
Fail(r) ==
    /\ req[r].pc # "idle"
    /\ req' = [req EXCEPT ![r] = Idle]
    /\ UNCHANGED <<requireRedisSession, now, redis, issued, logins, of, revoked, ended, forked>>

Tick ==
    /\ now < MaxNow
    /\ now' = now + 1
    /\ UNCHANGED <<requireRedisSession, redis, req, issued, logins, of, revoked, ended, forked>>

Next ==
    \/ \E r \in Requests :
          \/ \E c \in Credentials : Login(r, c)
          \/ \E t \in issued : Refresh(r, t)
          \/ \E inRedis \in BOOLEAN : ReadSession(r, inRedis)
          \/ RevokeOld(r) \/ Sign(r) \/ Store(r) \/ Fail(r)
    \/ \E t \in issued : Logout(t)
    \/ Tick

Spec == Init /\ [][Next]_vars

-----------------------------------------------------------------------------
(* Properties.                                                             *)

\* The type of the state.
TypeOK ==
    /\ requireRedisSession \in BOOLEAN
    /\ now \in 0 .. MaxNow
    /\ redis \in [Token -> Nat]
    /\ req \in [Requests -> Request]
    /\ issued \subseteq Token /\ revoked \subseteq Token
    /\ logins \in 0 .. MaxLogins
    /\ of \in [Token -> SUBSET Logins]
    /\ ended \subseteq Logins /\ forked \subseteq Logins

(* A token that a client was given is in Redis as long as its signature is *)
(* good, unless a refresh or a logout has deleted it: the entry, timed in  *)
(* milliseconds from when it is stored, outlives the exp of the token, in  *)
(* whole seconds from when it was signed, also when one string was signed  *)
(* twice.                                                                  *)
NotCutShort ==
    \A t \in issued \ revoked : Unexpired(t) => InRedis(t)

(* With AUTH_REQUIRE_REDIS_SESSION a login has one token at a time,        *)
(* however often it is refreshed and whichever of the steps fails, unless  *)
(* two requests had both found its token before either of them was done.   *)
OneTokenPerLogin ==
    requireRedisSession =>
        \A l \in Logins \ forked : \A t, u \in Token :
            (l \in LoginsOf(t) /\ l \in LoginsOf(u)) => t = u

(* With it too, a logout ends the login: no token that came from it works  *)
(* any more, unless a refresh had found the token before the logout and    *)
(* was not done.                                                           *)
LogoutEndsLogin ==
    requireRedisSession =>
        \A l \in ended \ forked : \A t \in Token : l \notin LoginsOf(t)
=============================================================================
