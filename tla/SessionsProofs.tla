--------------------------- MODULE SessionsProofs ---------------------------
(***************************************************************************)
(* Proofs about Sessions, for any number of credentials, requests and      *)
(* logins and any lifetime: its type invariant, that entries outlive their *)
(* tokens, and the two invariants of the strict mode.                      *)
(***************************************************************************)
EXTENDS Sessions, TLAPS

USE SessionAssumption

\* Where each request stands.
RequestOK(r) ==
    /\ req[r].pc \in {"get", "del", "sign"} => req[r].token \in Token
    /\ req[r].pc = "set" => req[r].new \in Token /\ 2 * req[r].new.iat <= now
    /\ req[r].pc \in {"idle", "get"} => req[r].who = {}

\* A token a client may still use is in Redis until its exp at least.
EntriesTimed == \A t \in issued \ revoked : redis[t] >= 2 * (t.iat + Lifetime)

\* Logins to come have left no trace.
LoginsUsed ==
    /\ \A t \in Token : of[t] \subseteq 1 .. logins
    /\ \A r \in Requests : req[r].who \subseteq 1 .. logins
    /\ ended \subseteq 1 .. logins

\* What is held for login l: at most one token, in Redis or with a request.
ActsFor(r, l) == req[r].pc \in {"del", "sign", "set"} /\ l \in req[r].who
OneToken(l) == \A t, u \in Token : (l \in LoginsOf(t) /\ l \in LoginsOf(u)) => t = u
OldGone(l) == \A r \in Requests : ActsFor(r, l) =>
    \A t \in Token : l \in LoginsOf(t) => req[r].pc = "del" /\ t = req[r].token
OneRequest(l) == \A r, q \in Requests : (ActsFor(r, l) /\ ActsFor(q, l)) => r = q
Over(l) == l \in ended =>
    (\A t \in Token : l \notin LoginsOf(t)) /\ (\A r \in Requests : ~ActsFor(r, l))
Held(l) == OneToken(l) /\ OldGone(l) /\ OneRequest(l) /\ Over(l)

Safe == TypeOK /\ (\A r \in Requests : RequestOK(r)) /\ EntriesTimed /\ LoginsUsed
IInv == Safe /\ (requireRedisSession => \A l \in Logins \ forked : Held(l))

-----------------------------------------------------------------------------
\* Half a second more or less does not matter to a token's exp.
LEMMA SecondBounds ==
    ASSUME TypeOK
    PROVE  Second \in Seconds /\ 2 * Second <= now /\ now < 2 * Second + 2
BY DEF TypeOK, Second, Seconds

LEMMA InitSafe == Init => Safe
<1> SUFFICES ASSUME Init PROVE Safe
  OBVIOUS
<1>1. TypeOK
  BY DEF Init, TypeOK, Idle, Request, NoToken, Logins
<1>2. \A r \in Requests : RequestOK(r)
  BY DEF Init, RequestOK, Idle
<1>3. EntriesTimed /\ LoginsUsed
  BY DEF Init, EntriesTimed, LoginsUsed, Idle
<1> QED
  BY <1>1, <1>2, <1>3 DEF Safe

\* What requests change of themselves is what the type allows.
LEMMA StepSafe == Safe /\ [Next]_vars => Safe'
<1> SUFFICES ASSUME Safe, [Next]_vars PROVE Safe'
  OBVIOUS
<1> USE DEF Safe
<1>0. Second \in Seconds /\ 2 * Second <= now
  BY SecondBounds
<1>1. ASSUME NEW r \in Requests, NEW c \in Credentials, Login(r, c) PROVE Safe'
  <2> DEFINE t == [credential |-> c, iat |-> Second]
             new == [pc |-> "set", token |-> NoToken, who |-> {logins + 1}, new |-> t]
  <2>0. t \in Token /\ 2 * t.iat <= now /\ {logins + 1} \subseteq Logins
    BY <1>0, <1>1 DEF Login, Token, Logins, TypeOK
  <2>1. new.pc = "set" /\ new.who = {logins + 1} /\ new.new = t
    OBVIOUS
  <2>2. new \in Request /\ new.new \in Token /\ 2 * new.new.iat <= now
    BY <2>0 DEF Request
  <2>3. req' = [req EXCEPT ![r] = new]
    BY <1>1 DEF Login
  <2> HIDE DEF new, t
  <2>4. TypeOK'
    BY <2>2, <2>3, <1>1 DEF Login, TypeOK
  <2>5. (\A q \in Requests : RequestOK(q))'
    BY <2>1, <2>2, <2>3, <1>1 DEF Login, RequestOK, TypeOK
  <2>6. EntriesTimed'
    BY <1>1 DEF Login, EntriesTimed
  <2>7. LoginsUsed'
    BY <2>1, <2>3, <1>1 DEF Login, LoginsUsed, TypeOK
  <2> QED
    BY <2>4, <2>5, <2>6, <2>7
<1>2. ASSUME NEW r \in Requests, Store(r) PROVE Safe'
  <2> DEFINE t == req[r].new
  <2>1. t \in Token /\ 2 * t.iat <= now /\ t.iat \in Int
    BY <1>2 DEF Store, RequestOK, Token, Seconds
  <2>2. Idle \in Request /\ Idle.pc = "idle" /\ Idle.who = {}
    BY DEF Idle, Request, NoToken
  <2>3. /\ req' = [req EXCEPT ![r] = Idle]
        /\ redis' = [redis EXCEPT ![t] = now + 2 * Lifetime]
        /\ of' = [of EXCEPT ![t] = LoginsOf(t) \cup req[r].who]
        /\ issued' = issued \cup {t} /\ revoked' = revoked \ {t}
        /\ UNCHANGED <<requireRedisSession, now, logins, ended, forked>>
    BY <1>2 DEF Store, Ttl
  <2>4. LoginsOf(t) \subseteq of[t] /\ LoginsOf(t) \subseteq Logins /\ req[r].who \subseteq Logins
    BY <2>1 DEF LoginsOf, TypeOK, Request
  <2> HIDE DEF t
  <2>5. TypeOK'
    BY <2>1, <2>2, <2>3, <2>4 DEF TypeOK
  <2>6. (\A q \in Requests : RequestOK(q))'
    BY <2>2, <2>3 DEF RequestOK, TypeOK
  <2>7. EntriesTimed'
    <3> SUFFICES ASSUME NEW u \in issued' \ revoked' PROVE redis'[u] >= 2 * (u.iat + Lifetime)
      BY <2>3 DEF EntriesTimed
    <3>1. CASE u = t
      BY <3>1, <2>1, <2>3 DEF TypeOK
    <3>2. CASE u # t
      BY <3>2, <2>3 DEF EntriesTimed, TypeOK
    <3> QED
      BY <3>1, <3>2
  <2>8. LoginsUsed'
    BY <2>1, <2>2, <2>3, <2>4 DEF LoginsUsed, TypeOK
  <2> QED
    BY <2>5, <2>6, <2>7, <2>8
<1>3. ASSUME NEW r \in Requests, NEW t \in issued, Refresh(r, t) PROVE Safe'
  <2> DEFINE new == [pc |-> "get", token |-> t, who |-> {}, new |-> NoToken]
  <2>1. new.pc = "get" /\ new.token = t /\ new.who = {}
    OBVIOUS
  <2>2. new \in Request /\ t \in Token
    BY <2>1 DEF Request, TypeOK
  <2>3. req' = [req EXCEPT ![r] = new]
    BY <1>3 DEF Refresh
  <2> HIDE DEF new
  <2>4. TypeOK'
    BY <2>2, <2>3, <1>3 DEF Refresh, TypeOK
  <2>5. (\A q \in Requests : RequestOK(q))'
    BY <2>1, <2>2, <2>3, <1>3 DEF Refresh, RequestOK, TypeOK
  <2>6. EntriesTimed' /\ LoginsUsed'
    BY <2>1, <2>3, <1>3 DEF Refresh, EntriesTimed, LoginsUsed, TypeOK
  <2> QED
    BY <2>4, <2>5, <2>6
<1>4. ASSUME NEW r \in Requests, NEW inRedis \in BOOLEAN, ReadSession(r, inRedis) PROVE Safe'
  <2> DEFINE who == of[req[r].token]
  <2>1. req[r].token \in Token /\ who \subseteq Logins /\ who \subseteq 1 .. logins
    BY <1>4 DEF ReadSession, RequestOK, TypeOK, LoginsUsed
  <2>2. Shared(r, who) \subseteq Logins
    BY <2>1 DEF Shared
  <2>3. /\ \/ req' = [req EXCEPT ![r].pc = "del", ![r].who = who]
           \/ req' = [req EXCEPT ![r] = Idle]
        /\ forked' \subseteq Logins
        /\ UNCHANGED <<requireRedisSession, now, redis, issued, logins, of, revoked, ended>>
    BY <1>4, <2>2 DEF ReadSession, TypeOK
  <2> HIDE DEF who
  <2>4. TypeOK'
    BY <2>1, <2>3 DEF TypeOK, Request, Idle, NoToken
  <2>5. (\A q \in Requests : RequestOK(q))'
    BY <2>1, <2>3 DEF RequestOK, TypeOK, Request, Idle
  <2>6. EntriesTimed'
    BY <2>3 DEF EntriesTimed
  <2>7. LoginsUsed'
    BY <2>1, <2>3 DEF LoginsUsed, TypeOK, Request, Idle
  <2> QED
    BY <2>4, <2>5, <2>6, <2>7
<1>5. ASSUME NEW r \in Requests, RevokeOld(r) PROVE Safe'
  <2>1. req[r].token \in Token
    BY <1>5 DEF RevokeOld, RequestOK
  <2>2. TypeOK'
    BY <2>1, <1>5 DEF RevokeOld, revokeToken, TypeOK, Request
  <2>3. (\A q \in Requests : RequestOK(q))'
    BY <2>1, <1>5 DEF RevokeOld, RequestOK, TypeOK, Request
  <2>4. EntriesTimed' /\ LoginsUsed'
    BY <2>1, <1>5 DEF RevokeOld, revokeToken, EntriesTimed, LoginsUsed, TypeOK, Request
  <2> QED
    BY <2>2, <2>3, <2>4
<1>6. ASSUME NEW r \in Requests, Sign(r) PROVE Safe'
  <2> DEFINE t == [credential |-> req[r].token.credential, iat |-> Second]
  <2>1. t \in Token /\ 2 * t.iat <= now
    BY <1>0, <1>6 DEF Sign, RequestOK, Token
  <2>2. /\ req' = [req EXCEPT ![r].pc = "set", ![r].new = t]
        /\ UNCHANGED <<requireRedisSession, now, redis, issued, logins, of, revoked, ended, forked>>
    BY <1>6 DEF Sign
  <2> HIDE DEF t
  <2>3. TypeOK'
    BY <2>1, <2>2 DEF TypeOK, Request
  <2>4. (\A q \in Requests : RequestOK(q))'
    BY <2>1, <2>2 DEF RequestOK, TypeOK, Request
  <2>5. EntriesTimed' /\ LoginsUsed'
    BY <2>2 DEF EntriesTimed, LoginsUsed, TypeOK, Request
  <2> QED
    BY <2>3, <2>4, <2>5
<1>7. ASSUME NEW r \in Requests, Fail(r) PROVE Safe'
  <2>1. TypeOK'
    BY <1>7 DEF Fail, TypeOK, Request, Idle, NoToken
  <2>2. (\A q \in Requests : RequestOK(q))'
    BY <1>7 DEF Fail, RequestOK, TypeOK, Idle
  <2>3. EntriesTimed' /\ LoginsUsed'
    BY <1>7 DEF Fail, EntriesTimed, LoginsUsed, TypeOK, Idle
  <2> QED
    BY <2>1, <2>2, <2>3
<1>8. ASSUME NEW t \in issued, Logout(t) PROVE Safe'
  <2>1. t \in Token /\ LoginsOf(t) \subseteq Logins /\ LoginsOf(t) \subseteq 1 .. logins
    BY DEF TypeOK, LoginsOf, LoginsUsed
  <2>2. /\ ended' = ended \cup LoginsOf(t)
        /\ forked' \subseteq Logins
        /\ redis' = [redis EXCEPT ![t] = 0] /\ revoked' = revoked \cup {t}
        /\ UNCHANGED <<requireRedisSession, now, req, issued, logins, of>>
    BY <2>1, <1>8 DEF Logout, revokeToken, TypeOK
  <2>3. TypeOK'
    BY <2>1, <2>2 DEF TypeOK
  <2>4. (\A q \in Requests : RequestOK(q))'
    BY <2>2 DEF RequestOK
  <2>5. EntriesTimed' /\ LoginsUsed'
    BY <2>1, <2>2 DEF EntriesTimed, LoginsUsed, TypeOK
  <2> QED
    BY <2>3, <2>4, <2>5
<1>9. ASSUME Tick PROVE Safe'
  <2>1. TypeOK'
    BY <1>9 DEF Tick, TypeOK
  <2>2. (\A q \in Requests : RequestOK(q))'
    BY <1>9 DEF Tick, RequestOK, TypeOK, Token, Seconds
  <2>3. EntriesTimed' /\ LoginsUsed'
    BY <1>9 DEF Tick, EntriesTimed, LoginsUsed
  <2> QED
    BY <2>1, <2>2, <2>3
<1>10. CASE UNCHANGED vars
  BY <1>10 DEF vars, TypeOK, RequestOK, EntriesTimed, LoginsUsed
<1> QED
  BY <1>1, <1>2, <1>3, <1>4, <1>5, <1>6, <1>7, <1>8, <1>9, <1>10 DEF Next

-----------------------------------------------------------------------------
\* What is held for a login, in terms of what a step changes: fewer tokens in
\* Redis and fewer requests that act are no harm, whatever the logins over.
LEMMA HeldLess ==
    ASSUME NEW l, Held(l), (l \in ended)' => l \in ended,
           \A t \in Token : (l \in LoginsOf(t))' => l \in LoginsOf(t),
           \A r \in Requests : ActsFor(r, l)' =>
                ActsFor(r, l) /\ req'[r].token = req[r].token /\ (req[r].pc = "del" => (req[r].pc = "del")')
    PROVE  Held(l)'
<1>1. OneToken(l)' /\ OneRequest(l)'
  BY DEF Held, OneToken, OneRequest
<1>2. OldGone(l)'
  BY DEF Held, OldGone
<1>3. Over(l)'
  BY DEF Held, Over
<1> QED
  BY <1>1, <1>2, <1>3 DEF Held

LEMMA InitHeld == Init => \A l \in Logins : Held(l)
BY DEF Init, Held, OneToken, OldGone, OneRequest, Over, ActsFor, LoginsOf, InRedis, Idle

\* A login begins with nothing held for it.
LEMMA LoginHeld ==
    ASSUME Safe, NEW r \in Requests, NEW c \in Credentials, Login(r, c),
           NEW l \in Logins, Held(l)
    PROVE  Held(l)'
<1>1. /\ req[r].pc = "idle" /\ logins' = logins + 1
      /\ (req[r].pc = "set")' /\ req'[r].who = {logins + 1}
      /\ \A q \in Requests \ {r} : req'[q] = req[q]
      /\ UNCHANGED <<now, redis, of, ended>>
  BY DEF Login, Safe, TypeOK
<1>2. \A t \in Token : (l \in LoginsOf(t))' <=> l \in LoginsOf(t)
  BY <1>1 DEF LoginsOf, InRedis
<1>3. CASE l # logins + 1
  <2>1. \A q \in Requests : ActsFor(q, l)' => ActsFor(q, l) /\ req'[q] = req[q]
    BY <1>1, <1>3 DEF ActsFor
  <2> QED
    BY <2>1, <1>1, <1>2, HeldLess
<1>4. CASE l = logins + 1
  <2>1. l \notin 1 .. logins
    BY <1>4 DEF Safe, TypeOK
  <2>2. /\ \A t \in Token : l \notin LoginsOf(t)
        /\ \A q \in Requests : l \notin req[q].who
        /\ l \notin ended
    BY <2>1 DEF Safe, LoginsUsed, LoginsOf
  <2>3. \A q \in Requests : ActsFor(q, l)' => q = r
    BY <2>2, <1>1 DEF ActsFor
  <2>4. (\A t \in Token : l \notin LoginsOf(t))' /\ (l \notin ended)'
    BY <2>2, <1>1, <1>2
  <2> QED
    BY <2>3, <2>4 DEF Held, OneToken, OldGone, OneRequest, Over
<1> QED
  BY <1>3, <1>4

\* What a request holds goes to Redis.
LEMMA StoreHeld ==
    ASSUME Safe, NEW r \in Requests, Store(r), NEW l \in Logins, Held(l)
    PROVE  Held(l)'
<1> DEFINE t == req[r].new
<1>1. t \in Token
  BY DEF Store, Safe, RequestOK
<1>2. /\ req[r].pc = "set" /\ (req[r].pc = "idle")'
      /\ redis' = [redis EXCEPT ![t] = now + Ttl]
      /\ of' = [of EXCEPT ![t] = LoginsOf(t) \cup req[r].who]
      /\ \A q \in Requests \ {r} : req'[q] = req[q]
      /\ UNCHANGED <<now, ended>>
  BY DEF Store, Safe, TypeOK, Idle
<1> HIDE DEF t
<1>3. \A u \in Token : u # t => ((l \in LoginsOf(u))' <=> l \in LoginsOf(u))
  BY <1>1, <1>2 DEF LoginsOf, InRedis, Safe, TypeOK
<1>4. \A u \in Token : u = t /\ (l \in LoginsOf(u))' => l \in LoginsOf(u) \cup req[r].who
  BY <1>1, <1>2 DEF LoginsOf, InRedis, Safe, TypeOK
<1>5. \A q \in Requests : ActsFor(q, l)' => ActsFor(q, l) /\ q # r /\ req'[q] = req[q]
  BY <1>2 DEF ActsFor
<1>6. CASE l \notin req[r].who
  <2>1. \A u \in Token : (l \in LoginsOf(u))' => l \in LoginsOf(u)
    BY <1>3, <1>4, <1>6
  <2> QED
    BY <2>1, <1>2, <1>5, HeldLess
<1>7. CASE l \in req[r].who
  <2>1. ActsFor(r, l)
    BY <1>2, <1>7 DEF ActsFor
  <2>2. \A u \in Token : l \notin LoginsOf(u)
    BY <2>1, <1>2 DEF Held, OldGone
  <2>3. \A u \in Token : (l \in LoginsOf(u))' => u = t
    BY <2>2, <1>3
  <2>4. \A q \in Requests : ~ActsFor(q, l)'
    BY <2>1, <1>5 DEF Held, OneRequest
  <2>5. (l \notin ended)'
    BY <2>1, <1>2 DEF Held, Over
  <2> QED
    BY <2>3, <2>4, <2>5 DEF Held, OneToken, OldGone, OneRequest, Over
<1> QED
  BY <1>6, <1>7

\* In the strict mode a refresh goes on with what it found in Redis, and with
\* logins that no other request acts for, unless it marks them.
LEMMA ReadHeld ==
    ASSUME Safe, requireRedisSession, NEW r \in Requests, NEW inRedis \in BOOLEAN,
           ReadSession(r, inRedis), NEW l \in Logins, l \notin forked', Held(l)
    PROVE  Held(l)'
<1> DEFINE t == req[r].token
           who == of[t]
<1>1. /\ req[r].pc = "get" /\ t \in Token
      /\ UNCHANGED <<now, redis, of, ended>>
  BY DEF ReadSession, Safe, RequestOK
<1>2. \A u \in Token : (l \in LoginsOf(u))' <=> l \in LoginsOf(u)
  BY <1>1 DEF LoginsOf, InRedis
<1>3. CASE ~Accepted(inRedis)
  <2>1. req' = [req EXCEPT ![r] = Idle]
    BY <1>3 DEF ReadSession
  <2>2. \A q \in Requests : ActsFor(q, l)' => ActsFor(q, l) /\ req'[q] = req[q]
    BY <2>1 DEF ActsFor, Safe, TypeOK, Idle
  <2> QED
    BY <2>2, <1>1, <1>2, HeldLess
<1>4. CASE Accepted(inRedis)
  <2>1. InRedis(t)
    BY <1>4 DEF Accepted, ReadSession
  <2>2. LoginsOf(t) = who
    BY <2>1 DEF LoginsOf
  <2>3. /\ forked' = forked \cup Shared(r, who)
        /\ req' = [req EXCEPT ![r].pc = "del", ![r].who = who]
    BY <1>4 DEF ReadSession
  <2>4. /\ (req[r].pc = "del")' /\ req'[r].who = who /\ req'[r].token = t
        /\ \A q \in Requests \ {r} : req'[q] = req[q]
    BY <2>3 DEF Safe, TypeOK, Request
  <2> HIDE DEF who, t
  <2>5. CASE l \notin who
    <3>1. \A q \in Requests : ActsFor(q, l)' => ActsFor(q, l) /\ req'[q] = req[q]
      BY <2>4, <2>5 DEF ActsFor
    <3> QED
      BY <3>1, <1>1, <1>2, HeldLess
  <2>6. CASE l \in who
    <3>1. \A q \in Requests \ {r} : ~ActsFor(q, l)
      <4> SUFFICES ASSUME NEW q \in Requests \ {r}, ActsFor(q, l) PROVE FALSE
        OBVIOUS
      <4>1. Acting(q, who) /\ l \in req[q].who \cap who
        BY <2>6 DEF ActsFor, Acting
      <4>2. l \in Shared(r, who)
        BY <4>1 DEF Shared
      <4> QED
        BY <4>2, <2>3
    <3>2. \A q \in Requests : ActsFor(q, l)' => q = r
      BY <3>1, <2>4 DEF ActsFor
    <3>3. \A u \in Token : (l \in LoginsOf(u))' => u = t
      BY <1>1, <1>2, <2>2, <2>6 DEF Held, OneToken
    <3>4. (l \notin ended)'
      BY <1>1, <2>2, <2>6 DEF Held, Over
    <3> QED
      BY <2>4, <3>2, <3>3, <3>4 DEF Held, OneToken, OldGone, OneRequest, Over
  <2> QED
    BY <2>5, <2>6
<1> QED
  BY <1>3, <1>4

\* The old token goes before the new one is signed.
LEMMA RevokeHeld ==
    ASSUME Safe, NEW r \in Requests, RevokeOld(r), NEW l \in Logins, Held(l)
    PROVE  Held(l)'
<1> DEFINE t == req[r].token
<1>1. /\ req[r].pc = "del" /\ t \in Token
      /\ redis' = [redis EXCEPT ![t] = 0] /\ req' = [req EXCEPT ![r].pc = "sign"]
      /\ UNCHANGED <<now, of, ended>>
  BY DEF RevokeOld, revokeToken, Safe, RequestOK
<1>2. /\ (req[r].pc = "sign")' /\ req'[r].who = req[r].who
      /\ \A q \in Requests \ {r} : req'[q] = req[q]
  BY <1>1 DEF Safe, TypeOK, Request
<1> HIDE DEF t
<1>3. \A u \in Token : (l \in LoginsOf(u))' => l \in LoginsOf(u) /\ u # t
  BY <1>1 DEF LoginsOf, InRedis, Safe, TypeOK
<1>4. \A q \in Requests : ActsFor(q, l)' => ActsFor(q, l)
  BY <1>1, <1>2 DEF ActsFor
<1>5. OneToken(l)' /\ OneRequest(l)' /\ Over(l)'
  BY <1>1, <1>3, <1>4 DEF Held, OneToken, OneRequest, Over
<1>6. OldGone(l)'
  <2> SUFFICES ASSUME NEW q \in Requests, ActsFor(q, l)',
                      NEW u \in Token, (l \in LoginsOf(u))'
               PROVE  (req[q].pc = "del")' /\ u = req'[q].token
    BY DEF OldGone
  <2>1. ActsFor(q, l) /\ l \in LoginsOf(u) /\ u # t
    BY <1>3, <1>4
  <2>2. req[q].pc = "del" /\ u = req[q].token
    BY <2>1 DEF Held, OldGone
  <2> QED
    BY <2>1, <2>2, <1>2 DEF t
<1> QED
  BY <1>5, <1>6 DEF Held

\* A logout deletes what there is of the login, or marks who acts for it.
LEMMA LogoutHeld ==
    ASSUME Safe, NEW t \in issued, Logout(t), NEW l \in Logins, l \notin forked', Held(l)
    PROVE  Held(l)'
<1> DEFINE who == LoginsOf(t)
<1>1. /\ t \in Token /\ redis' = [redis EXCEPT ![t] = 0] /\ ended' = ended \cup who
      /\ forked' = forked \cup UNION {req[q].who \cap who : q \in {p \in Requests : Acting(p, who)}}
      /\ UNCHANGED <<now, of, req>>
  BY DEF Logout, revokeToken, Safe, TypeOK
<1>2. \A u \in Token : (l \in LoginsOf(u))' => l \in LoginsOf(u) /\ u # t
  BY <1>1 DEF LoginsOf, InRedis, Safe, TypeOK
<1>3. \A q \in Requests : ActsFor(q, l)' <=> ActsFor(q, l)
  BY <1>1 DEF ActsFor
<1>4. CASE l \notin who
  BY <1>1, <1>2, <1>3, <1>4, HeldLess
<1>5. CASE l \in who
  <2>1. \A q \in Requests : ~ActsFor(q, l)
    <3> SUFFICES ASSUME NEW q \in Requests, ActsFor(q, l) PROVE FALSE
      OBVIOUS
    <3>1. Acting(q, who) /\ l \in req[q].who \cap who
      BY <1>5 DEF ActsFor, Acting
    <3> HIDE DEF who
    <3> QED
      BY <3>1, <1>1
  <2>2. \A u \in Token : l \in LoginsOf(u) => u = t
    BY <1>1, <1>5 DEF Held, OneToken
  <2>3. (\A u \in Token : l \notin LoginsOf(u))' /\ (\A q \in Requests : ~ActsFor(q, l))'
    BY <2>1, <2>2, <1>2, <1>3
  <2> QED
    BY <2>3 DEF Held, OneToken, OldGone, OneRequest, Over
<1> QED
  BY <1>4, <1>5

-----------------------------------------------------------------------------
LEMMA InitIInv == Init => IInv
BY InitSafe, InitHeld DEF IInv

LEMMA StepIInv == IInv /\ [Next]_vars => IInv'
<1> SUFFICES ASSUME IInv, [Next]_vars PROVE IInv'
  OBVIOUS
<1>1. Safe /\ Safe'
  BY StepSafe DEF IInv
<1>2. requireRedisSession' = requireRedisSession /\ forked \subseteq forked'
  BY DEF Next, vars, Login, Store, Refresh, ReadSession, RevokeOld, Sign, Fail, Logout, Tick
<1> SUFFICES ASSUME requireRedisSession, NEW l \in Logins, l \notin forked'
             PROVE  Held(l)'
  BY <1>1, <1>2 DEF IInv
<1>3. Held(l)
  BY <1>2 DEF IInv
<1>4. ASSUME NEW r \in Requests, NEW t \in issued, Refresh(r, t) PROVE Held(l)'
  <2>1. req' = [req EXCEPT ![r] = [pc |-> "get", token |-> t, who |-> {}, new |-> NoToken]]
        /\ UNCHANGED <<now, redis, of, ended>>
    BY <1>4 DEF Refresh
  <2>2. \A q \in Requests : ActsFor(q, l)' => ActsFor(q, l) /\ req'[q] = req[q]
    BY <2>1, <1>1 DEF ActsFor, Safe, TypeOK
  <2>3. \A u \in Token : (l \in LoginsOf(u))' <=> l \in LoginsOf(u)
    BY <2>1 DEF LoginsOf, InRedis
  <2> QED
    BY <1>3, <2>1, <2>2, <2>3, HeldLess
<1>5. ASSUME NEW r \in Requests, Sign(r) PROVE Held(l)'
  <2>1. /\ req[r].pc = "sign" /\ req'[r].who = req[r].who /\ req'[r].token = req[r].token
        /\ \A q \in Requests \ {r} : req'[q] = req[q]
        /\ UNCHANGED <<now, redis, of, ended>>
    BY <1>1, <1>5 DEF Sign, Safe, TypeOK, Request
  <2>2. \A q \in Requests : ActsFor(q, l)' =>
            ActsFor(q, l) /\ req'[q].token = req[q].token /\ (req[q].pc = "del" => (req[q].pc = "del")')
    BY <2>1 DEF ActsFor
  <2>3. \A u \in Token : (l \in LoginsOf(u))' <=> l \in LoginsOf(u)
    BY <2>1 DEF LoginsOf, InRedis
  <2> QED
    BY <1>3, <2>1, <2>2, <2>3, HeldLess
<1>6. ASSUME NEW r \in Requests, Fail(r) PROVE Held(l)'
  <2>1. req' = [req EXCEPT ![r] = Idle] /\ UNCHANGED <<now, redis, of, ended>>
    BY <1>6 DEF Fail
  <2>2. \A q \in Requests : ActsFor(q, l)' => ActsFor(q, l) /\ req'[q] = req[q]
    BY <2>1, <1>1 DEF ActsFor, Safe, TypeOK, Idle
  <2>3. \A u \in Token : (l \in LoginsOf(u))' <=> l \in LoginsOf(u)
    BY <2>1 DEF LoginsOf, InRedis
  <2> QED
    BY <1>3, <2>1, <2>2, <2>3, HeldLess
<1>7. ASSUME Tick PROVE Held(l)'
  <2>1. now' = now + 1 /\ UNCHANGED <<req, redis, of, ended>>
    BY <1>7 DEF Tick
  <2>2. \A u \in Token : (l \in LoginsOf(u))' => l \in LoginsOf(u)
    BY <2>1, <1>1 DEF LoginsOf, InRedis, Safe, TypeOK
  <2> QED
    BY <1>3, <2>1, <2>2, HeldLess DEF ActsFor
<1>8. CASE UNCHANGED vars
  BY <1>3, <1>8, HeldLess DEF vars, ActsFor, LoginsOf, InRedis
<1> QED
  BY <1>1, <1>3, <1>4, <1>5, <1>6, <1>7, <1>8,
     LoginHeld, StoreHeld, ReadHeld, RevokeHeld, LogoutHeld DEF Next

-----------------------------------------------------------------------------
\* The inductive invariant: the type, where each request stands, how long
\* entries last, and what is held for each login that met no race.
THEOREM SessionsInvariant == Spec => []IInv
BY InitIInv, StepIInv, PTL DEF Spec

\* The type of the state, whatever requests do and wherever they fail.
THEOREM SessionsTypeCorrect == Spec => []TypeOK
<1>1. IInv => TypeOK
  BY DEF IInv, Safe
<1> QED
  BY <1>1, SessionsInvariant, PTL

\* A token that a client was given works as long as its signature does, until
\* a refresh or a logout deletes it: no entry of Redis runs out before.
THEOREM TokensLast == Spec => []NotCutShort
<1>1. IInv => NotCutShort
  <2> SUFFICES ASSUME IInv, NEW t \in issued \ revoked, Unexpired(t) PROVE InRedis(t)
    BY DEF NotCutShort
  <2>1. TypeOK /\ t \in Token /\ redis[t] >= 2 * (t.iat + Lifetime)
    BY DEF IInv, Safe, TypeOK, EntriesTimed
  <2>2. Second < t.iat + Lifetime /\ now < 2 * Second + 2 /\ Second \in Int
    BY <2>1, SecondBounds DEF Unexpired, Seconds
  <2>3. t.iat \in Int /\ redis[t] \in Int /\ now \in Int
    <3>1. t.iat \in Seconds
      BY <2>1 DEF Token
    <3>2. t.iat \in Int
      BY <3>1 DEF Seconds
    <3>3. redis[t] \in Int /\ now \in Int
      BY <2>1 DEF TypeOK
    <3> QED
      BY <3>2, <3>3
  <2> QED
    BY <2>1, <2>2, <2>3 DEF InRedis
<1> QED
  BY <1>1, SessionsInvariant, PTL

\* With sessions required in Redis, a login has one token, however often it is
\* refreshed, unless two requests had both found its token.
THEOREM LoginsHaveOneToken == Spec => []OneTokenPerLogin
<1>1. IInv => OneTokenPerLogin
  BY DEF IInv, Held, OneToken, OneTokenPerLogin
<1> QED
  BY <1>1, SessionsInvariant, PTL

\* With sessions required in Redis, no token of a login works once it has been
\* logged out of, unless a refresh had found its token before and was not done.
THEOREM LogoutsLast == Spec => []LogoutEndsLogin
<1>1. IInv => LogoutEndsLogin
  <2> SUFFICES ASSUME IInv, requireRedisSession, NEW l \in ended \ forked
               PROVE  \A t \in Token : l \notin LoginsOf(t)
    BY DEF LogoutEndsLogin
  <2>1. l \in Logins \ forked
    BY DEF IInv, Safe, TypeOK
  <2> QED
    BY <2>1 DEF IInv, Held, Over
<1> QED
  BY <1>1, SessionsInvariant, PTL
=============================================================================
