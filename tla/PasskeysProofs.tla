--------------------------- MODULE PasskeysProofs ---------------------------
(***************************************************************************)
(* Proofs about Passkeys, for any number of requests, ceremonies, wallets  *)
(* and names: its type invariant, and the three invariants that relate     *)
(* tokens, answers and names to the tables.                                *)
(***************************************************************************)
EXTENDS Passkeys, TLAPS

USE PasskeyAssumption, NameAssumption

\* The steps of a registration and of a login; after the last come the token
\* and the answer.
Registering == {"find", "count", "insert", "create"}
LoggingIn == {"lookup", "check", "ensure"}

\* Rows that found no longer differs from, unless they are edited by hand.
Agrees(c, row) == Stored(c) /\ (c \in Edited \/ credentials[c] = row)

\* Where each request stands.
RequestOK(r) ==
    /\ req[r].pc # "idle" =>
          /\ req[r].ceremony \in Ceremonies
          /\ intents[req[r].ceremony] \in Intent
    /\ req[r].pc \in Registering => intents[req[r].ceremony].action = "register"
    /\ req[r].pc \in {"count"} => AskedName(r) # None
    /\ req[r].pc \in {"insert", "create", "check", "ensure", "token"} => req[r].found \in Row
    /\ req[r].pc \in {"insert"} => req[r].found.wallet = intents[req[r].ceremony].wallet
    /\ req[r].pc \in {"create", "check", "ensure", "token"} =>
          Agrees(CredentialOf(r), req[r].found)
    /\ req[r].pc = "token" => HasUser(CredentialOf(r))

\* The name a request is about to insert is free, except for names that were
\* inserted while it chose.
ChosenNameOK(r) ==
    req[r].pc = "insert" =>
        \A d \in Credentials :
            (Stored(d) /\ d # CredentialOf(r) /\ credentials[d].name = req[r].found.name)
                => \/ CredentialOf(r) \in Edited \/ d \in Edited
                   \/ req[r].found.name = None
                   \/ {CredentialOf(r), d} \in overlapped

\* A registration's credential is its ceremony's, and its row has the wallet.
CeremoniesOK ==
    \A k \in Ceremonies :
        /\ intents[k].action = "register" => intents[k].credential = k
        /\ Stored(k) =>
              /\ intents[k] # NoIntent
              /\ k \in Edited \/ credentials[k].wallet = intents[k].wallet

\* A challenge in Redis was issued.
ChallengesOK == \A k \in challenges : intents[k] \in Intent

AnswersOK == \A answer \in answers : Agrees(answer.credential, answer.row)

IInv ==
    /\ TypeOK
    /\ \A r \in Requests : RequestOK(r)
    /\ \A r \in Requests : ChosenNameOK(r)
    /\ CeremoniesOK
    /\ ChallengesOK
    /\ AnswersOK
    /\ SessionHasUser
    /\ SameNameOnlyIfOverlapped

-----------------------------------------------------------------------------
(* Facts about the operators.                                              *)

\* A row is never NoRow: no wallet of a row is Absent.
LEMMA RowIsARow ==
    ASSUME NEW row \in Row
    PROVE  row # NoRow /\ row.wallet # Absent /\ row.wallet \in Wallets \cup {None}
BY DEF Row, NoRow

\* A name with a suffix appended is a name.
LEMMA CandidateIsAName ==
    ASSUME NEW name \in Names, NEW tries \in Nat
    PROVE  Candidate(name, tries) \in Name \ {None}
<1>1. name \in Name /\ name # None
  OBVIOUS
<1>2. name.base \in {n.base : n \in Names} /\ name.suffix \in Seq(Nat)
  BY <1>1 DEF Name
<1>3. Append(name.suffix, tries) \in Seq(Nat)
  BY <1>2
<1>4. [base |-> name.base, suffix |-> Append(name.suffix, tries)] \in Name
  BY <1>2, <1>3 DEF Name
<1> QED
  BY <1>1, <1>4 DEF Candidate

\* The trigger keeps a row a row.
LEMMA TriggerKeepsRows ==
    ASSUME NEW old \in Row, NEW new \in BodyRow
    PROVE  PreventWalletFieldClear(old, new) \in Row
<1>1. new \in Row
  BY DEF BodyRow, Row
<1> QED
  BY <1>1 DEF PreventWalletFieldClear, Row

-----------------------------------------------------------------------------
(* The initial state.                                                      *)

LEMMA InitIInv == Init => IInv
<1> SUFFICES ASSUME Init PROVE IInv
  OBVIOUS
<1>1. PICK rows \in [Legacy -> BodyRow] :
        /\ \A c, d \in Legacy : rows[c].name = rows[d].name => c = d \/ rows[c].name = None
        /\ credentials = [c \in Credentials |-> IF c \in Legacy THEN rows[c] ELSE NoRow]
  BY DEF Init
<1>2. BodyRow \subseteq Row
  BY DEF BodyRow, Row
<1>3. credentials \in [Credentials -> Row \cup {NoRow}]
  BY <1>1, <1>2
<1>4. Idle \in Request
  BY DEF Idle, Request, Steps
<1>5. TypeOK
  BY <1>3, <1>4 DEF Init, TypeOK
<1>6. \A r \in Requests : req[r].pc = "idle"
  BY DEF Init, Idle
<1>7. (\A r \in Requests : RequestOK(r)) /\ (\A r \in Requests : ChosenNameOK(r))
  BY <1>6 DEF RequestOK, ChosenNameOK, Registering
<1>8. CeremoniesOK
  BY <1>1 DEF Init, CeremoniesOK, NoIntent, Stored, Credentials, Ceremonies
<1>9. ChallengesOK /\ AnswersOK /\ SessionHasUser
  BY DEF Init, ChallengesOK, AnswersOK, SessionHasUser
<1>10. SameNameOnlyIfOverlapped
  BY <1>1 DEF SameNameOnlyIfOverlapped, Stored, Credentials
<1> QED
  BY <1>5, <1>7, <1>8, <1>9, <1>10 DEF IInv

-----------------------------------------------------------------------------
(* What a step leaves alone.                                               *)

\* Ceremonies only ever get an intent, and rows are only inserted.
Kept ==
    /\ \A k \in Ceremonies : intents[k] # NoIntent => intents'[k] = intents[k]
    /\ \A c \in Credentials : Stored(c) =>
          Stored(c)' /\ (c \in Edited \/ credentials'[c] = credentials[c])
    /\ \A c \in Credentials : HasUser(c) => HasUser(c)'

\* A request that takes no step stands where it stood.
LEMMA RequestFrame ==
    ASSUME TypeOK, Kept, NEW q \in Requests, RequestOK(q), req'[q] = req[q]
    PROVE  RequestOK(q)'
<1>1. CASE req[q].pc = "idle"
  BY <1>1 DEF RequestOK, Registering
<1>2. CASE req[q].pc # "idle"
  <2>1. req[q].ceremony \in Ceremonies /\ intents[req[q].ceremony] \in Intent
    BY <1>2 DEF RequestOK
  <2>2. intents[req[q].ceremony] # NoIntent
    BY <2>1 DEF Intent, NoIntent
  <2>3. intents'[req'[q].ceremony] = intents[req[q].ceremony]
    BY <2>1, <2>2 DEF Kept
  <2>4. CredentialOf(q) \in Credentials /\ CredentialOf(q)' = CredentialOf(q)
    BY <2>1, <2>3 DEF CredentialOf, Intent
  <2>5. Agrees(CredentialOf(q), req[q].found) => Agrees(CredentialOf(q), req[q].found)'
    BY <2>4 DEF Kept, Agrees
  <2>6. HasUser(CredentialOf(q)) => HasUser(CredentialOf(q))'
    BY <2>4 DEF Kept
  <2>7. AskedName(q)' = AskedName(q)
    BY <2>3 DEF AskedName
  <2> QED
    BY <2>1, <2>3, <2>4, <2>5, <2>6, <2>7 DEF RequestOK
<1> QED
  BY <1>1, <1>2

\* The same for the name it chose, while the table stays.
LEMMA NameFrame ==
    ASSUME TypeOK, Kept, NEW q \in Requests, RequestOK(q), ChosenNameOK(q),
           req'[q] = req[q], credentials' = credentials, overlapped' = overlapped
    PROVE  ChosenNameOK(q)'
<1> SUFFICES ASSUME req[q].pc = "insert" PROVE ChosenNameOK(q)'
  BY DEF ChosenNameOK
<1>1. req[q].ceremony \in Ceremonies /\ intents[req[q].ceremony] \in Intent
  BY DEF RequestOK
<1>2. intents'[req[q].ceremony] = intents[req[q].ceremony]
  BY <1>1 DEF Kept, Intent, NoIntent
<1> QED
  BY <1>2 DEF ChosenNameOK, CredentialOf, Stored

\* A request that has ended.
LEMMA IdleOK ==
    ASSUME NEW r \in Requests, req'[r] = Idle
    PROVE  RequestOK(r)' /\ ChosenNameOK(r)'
BY DEF RequestOK, ChosenNameOK, Idle, Registering

\* A step of one request that writes no table, and reports nothing.
LEMMA QuietStep ==
    ASSUME IInv, TypeOK', NEW r \in Requests, NEW value, req' = [req EXCEPT ![r] = value],
           UNCHANGED <<intents, credentials, users, sessions, answers, overlapped>>,
           challenges' \subseteq challenges, RequestOK(r)', ChosenNameOK(r)'
    PROVE  IInv'
<1>1. Kept
  BY DEF Kept, Stored, HasUser
<1>2. \A q \in Requests \ {r} : req'[q] = req[q]
  BY DEF IInv, TypeOK
<1>3. \A q \in Requests : RequestOK(q)' /\ ChosenNameOK(q)'
  BY <1>1, <1>2, RequestFrame, NameFrame DEF IInv
<1>4. CeremoniesOK' /\ AnswersOK' /\ SessionHasUser' /\ SameNameOnlyIfOverlapped'
        /\ ChallengesOK'
  BY DEF IInv, CeremoniesOK, ChallengesOK, AnswersOK, Agrees, SessionHasUser, SameNameOnlyIfOverlapped,
         Stored, HasUser
<1> QED
  BY <1>3, <1>4 DEF IInv

\* The type of the request that takes a step, when nothing else changes type.
LEMMA ReqType ==
    ASSUME TypeOK, NEW r \in Requests, NEW value \in Request
    PROVE  [req EXCEPT ![r] = value] \in [Requests -> Request]
BY DEF TypeOK

LEMMA IdleType == Idle \in Request
BY DEF Idle, Request, Steps

-----------------------------------------------------------------------------
(* Steps of one request that write no table.                               *)

\* The next step of a request: only pc changes.
LEMMA GotoFacts ==
    ASSUME TypeOK, NEW r \in Requests, NEW pc \in Steps, Goto(r, pc)
    PROVE  /\ req' = [req EXCEPT ![r] = [req[r] EXCEPT !.pc = pc]]
           /\ [req[r] EXCEPT !.pc = pc] \in Request
           /\ req' \in [Requests -> Request]
           /\ req'[r].pc = pc
           /\ req'[r].ceremony = req[r].ceremony
           /\ req'[r].found = req[r].found
           /\ req'[r].tries = req[r].tries
BY DEF TypeOK, Goto, Request

LEMMA EndFacts ==
    ASSUME TypeOK, NEW r \in Requests, End(r)
    PROVE  /\ req' = [req EXCEPT ![r] = Idle]
           /\ req' \in [Requests -> Request]
           /\ req'[r] = Idle
BY IdleType DEF TypeOK, End

\* A request that ends and changes no table.
LEMMA EndStep ==
    ASSUME IInv, NEW r \in Requests, End(r),
           UNCHANGED <<intents, credentials, users, sessions, answers, overlapped>>,
           challenges' \subseteq challenges
    PROVE  IInv'
<1>1. req' = [req EXCEPT ![r] = Idle] /\ req' \in [Requests -> Request] /\ req'[r] = Idle
  BY EndFacts DEF IInv
<1>2. TypeOK'
  BY <1>1 DEF IInv, TypeOK
<1> QED
  BY <1>1, <1>2, IdleOK, QuietStep

LEMMA VerifyPasskeyInv ==
    ASSUME IInv, NEW r \in Requests, NEW k \in Ceremonies, VerifyPasskey(r, k)
    PROVE  IInv'
<1> DEFINE value == [Idle EXCEPT !.pc = "delete", !.ceremony = k]
<1>1. value \in Request /\ req' = [req EXCEPT ![r] = value]
  BY DEF VerifyPasskey, Idle, Request, Steps
<1>2. TypeOK'
  BY <1>1, ReqType DEF IInv, TypeOK, VerifyPasskey, tables, history
<1>3. req'[r].pc = "delete" /\ req'[r].ceremony = k
  BY <1>1 DEF IInv, TypeOK, Idle
<1>4. RequestOK(r)' /\ ChosenNameOK(r)'
  BY <1>3 DEF RequestOK, ChosenNameOK, Registering, VerifyPasskey, IInv, ChallengesOK
<1> QED
  BY <1>1, <1>2, <1>4, QuietStep DEF VerifyPasskey, tables, history

LEMMA DeleteChallengeInv ==
    ASSUME IInv, NEW r \in Requests, DeleteChallenge(r)
    PROVE  IInv'
<1>1. challenges' \subseteq challenges
  BY DEF DeleteChallenge
<1>2. CASE End(r)
  BY <1>1, <1>2, EndStep DEF DeleteChallenge, tables, history, IInv, TypeOK
<1>3. ASSUME NEW pc \in {"find", "lookup"}, Goto(r, pc),
             pc = "find" => intents[req[r].ceremony].action = "register"
      PROVE  IInv'
  <2>1. pc \in Steps
    BY DEF Steps
  <2>2. /\ req' = [req EXCEPT ![r] = [req[r] EXCEPT !.pc = pc]]
        /\ req' \in [Requests -> Request]
        /\ req'[r].pc = pc /\ req'[r].ceremony = req[r].ceremony
    BY <1>3, <2>1, GotoFacts DEF IInv
  <2>3. TypeOK'
    BY <2>2, <1>1 DEF IInv, TypeOK, DeleteChallenge, tables, history
  <2>4. RequestOK(r)' /\ ChosenNameOK(r)'
    BY <1>3, <2>2 DEF IInv, RequestOK, ChosenNameOK, Registering, DeleteChallenge
  <2> QED
    BY <1>1, <2>2, <2>3, <2>4, QuietStep DEF DeleteChallenge, tables, history
<1> QED
  BY <1>2, <1>3 DEF DeleteChallenge

LEMMA CheckAssertionInv ==
    ASSUME IInv, NEW r \in Requests, CheckAssertion(r)
    PROVE  IInv'
<1>1. CASE End(r)
  BY <1>1, EndStep DEF CheckAssertion, tables, history, IInv, TypeOK
<1>2. CASE Goto(r, "ensure")
  <2>1. "ensure" \in Steps
    BY DEF Steps
  <2>2. /\ req' = [req EXCEPT ![r] = [req[r] EXCEPT !.pc = "ensure"]]
        /\ req' \in [Requests -> Request]
        /\ req'[r].pc = "ensure" /\ req'[r].ceremony = req[r].ceremony
        /\ req'[r].found = req[r].found
    BY <1>2, <2>1, GotoFacts DEF IInv
  <2>3. TypeOK'
    BY <2>2 DEF IInv, TypeOK, CheckAssertion, tables, history
  <2>4. RequestOK(r)' /\ ChosenNameOK(r)'
    BY <2>2 DEF IInv, RequestOK, ChosenNameOK, Registering, CheckAssertion, tables,
                Agrees, Stored, CredentialOf
  <2> QED
    BY <2>2, <2>3, <2>4, QuietStep DEF CheckAssertion, tables, history
<1> QED
  BY <1>1, <1>2 DEF CheckAssertion

LEMMA GetCredentialInv ==
    ASSUME IInv, NEW r \in Requests, GetCredential(r)
    PROVE  IInv'
<1>1. CASE End(r)
  BY <1>1, EndStep DEF GetCredential, tables, history, IInv, TypeOK
<1>2. CASE Stored(CredentialOf(r))
  <2> DEFINE value == [req[r] EXCEPT !.pc = "check", !.found = credentials[CredentialOf(r)]]
  <2>1. req[r].ceremony \in Ceremonies /\ intents[req[r].ceremony] \in Intent
    BY DEF IInv, RequestOK, GetCredential
  <2>2. CredentialOf(r) \in Credentials
    BY <2>1 DEF CredentialOf, Intent
  <2>3. credentials[CredentialOf(r)] \in Row
    BY <1>2, <2>2 DEF IInv, TypeOK, Stored
  <2>4. req' = [req EXCEPT ![r] = value]
    BY <1>2 DEF GetCredential
  <2>5. value \in Request
    BY <2>3 DEF IInv, TypeOK, Request, Steps
  <2>6. TypeOK'
    BY <2>4, <2>5, ReqType DEF IInv, TypeOK, GetCredential, tables, history
  <2>7. /\ req'[r].pc = "check" /\ req'[r].ceremony = req[r].ceremony
        /\ req'[r].found = credentials[CredentialOf(r)]
    BY <2>4 DEF IInv, TypeOK, Request
  <2>8. RequestOK(r)' /\ ChosenNameOK(r)'
    BY <1>2, <2>1, <2>3, <2>7 DEF RequestOK, ChosenNameOK, Registering, Agrees, Stored,
           CredentialOf, GetCredential, tables
  <2> QED
    BY <2>4, <2>6, <2>8, QuietStep DEF GetCredential, tables, history
<1> QED
  BY <1>1, <1>2 DEF GetCredential

LEMMA CrashInv ==
    ASSUME IInv, NEW r \in Requests, Crash(r)
    PROVE  IInv'
BY EndStep DEF Crash, tables, history, IInv, TypeOK

-----------------------------------------------------------------------------
(* Naming and inserting a credential.                                      *)

\* A registration inserts its ceremony's credential.
LEMMA RegisteringFacts ==
    ASSUME IInv, NEW r \in Requests, req[r].pc \in Registering
    PROVE  /\ req[r].ceremony \in Ceremonies
           /\ intents[req[r].ceremony] \in Intent
           /\ CredentialOf(r) = req[r].ceremony
           /\ CredentialOf(r) \in Credentials
           /\ AskedName(r) \in Names \cup {None}
           /\ intents[req[r].ceremony].wallet \in Wallets \cup {None}
           /\ intents[req[r].ceremony].invite \in BOOLEAN
<1>1. /\ req[r].ceremony \in Ceremonies /\ intents[req[r].ceremony] \in Intent
      /\ intents[req[r].ceremony].action = "register"
  BY DEF IInv, RequestOK, Registering
<1>2. intents[req[r].ceremony].credential = req[r].ceremony
  BY <1>1 DEF IInv, CeremoniesOK
<1> QED
  BY <1>1, <1>2 DEF CredentialOf, AskedName, Intent, Credentials

LEMMA FindCredentialInv ==
    ASSUME IInv, NEW r \in Requests, FindCredential(r)
    PROVE  IInv'
<1> DEFINE c == CredentialOf(r)
           k == req[r].ceremony
<1>1. /\ k \in Ceremonies /\ intents[k] \in Intent /\ c = k /\ c \in Credentials
      /\ AskedName(r) \in Names \cup {None}
      /\ intents[k].wallet \in Wallets \cup {None}
      /\ intents[k].action = "register"
  BY RegisteringFacts DEF IInv, FindCredential, Registering, RequestOK
<1>2. CASE Stored(c) /\ req' = [req EXCEPT ![r].pc = "create",
                                           ![r].found = NewRow(r, StoredName(r, c))]
  <2> DEFINE value == [req[r] EXCEPT !.pc = "create", !.found = NewRow(r, StoredName(r, c))]
  <2>1. credentials[c] \in Row
    BY <1>1, <1>2 DEF IInv, TypeOK, Stored
  <2>2. NewRow(r, StoredName(r, c)) \in Row
    BY <1>1, <2>1 DEF NewRow, StoredName, Row
  <2>3. Agrees(c, NewRow(r, StoredName(r, c)))
    <3>1. k \in Edited \/ credentials[c].wallet = intents[k].wallet
      BY <1>1, <1>2 DEF IInv, CeremoniesOK
    <3>2. credentials[c] = [wallet |-> credentials[c].wallet, name |-> credentials[c].name]
      BY <2>1 DEF Row
    <3> QED
      BY <1>1, <1>2, <3>1, <3>2 DEF Agrees, NewRow, StoredName
  <2>4. req' = [req EXCEPT ![r] = value] /\ value \in Request
    BY <1>2, <2>2 DEF IInv, TypeOK, Request, Steps
  <2>5. TypeOK'
    BY <2>4, ReqType DEF IInv, TypeOK, FindCredential, tables, history
  <2>6. /\ req'[r].pc = "create" /\ req'[r].ceremony = k
        /\ req'[r].found = NewRow(r, StoredName(r, c))
    BY <2>4 DEF IInv, TypeOK, Request
  <2>7. RequestOK(r)' /\ ChosenNameOK(r)'
    BY <1>1, <2>2, <2>3, <2>6 DEF RequestOK, ChosenNameOK, Registering, Agrees, Stored,
           CredentialOf, FindCredential, tables
  <2> QED
    BY <2>4, <2>5, <2>7, QuietStep DEF FindCredential, tables, history
<1>3. CASE AskedName(r) = None /\ req' = [req EXCEPT ![r].pc = "insert",
                                                    ![r].found = NewRow(r, None)]
  <2> DEFINE value == [req[r] EXCEPT !.pc = "insert", !.found = NewRow(r, None)]
  <2>1. NewRow(r, None) \in Row
    BY <1>1 DEF NewRow, Row
  <2>2. req' = [req EXCEPT ![r] = value] /\ value \in Request
    BY <1>3, <2>1 DEF IInv, TypeOK, Request, Steps
  <2>3. TypeOK'
    BY <2>2, ReqType DEF IInv, TypeOK, FindCredential, tables, history
  <2>4. /\ req'[r].pc = "insert" /\ req'[r].ceremony = k
        /\ req'[r].found = NewRow(r, None)
    BY <2>2 DEF IInv, TypeOK, Request
  <2>5. RequestOK(r)' /\ ChosenNameOK(r)'
    BY <1>1, <2>1, <2>4 DEF RequestOK, ChosenNameOK, Registering, NewRow, FindCredential
  <2> QED
    BY <2>2, <2>3, <2>5, QuietStep DEF FindCredential, tables, history
<1>4. CASE AskedName(r) # None /\ Goto(r, "count")
  <2>1. "count" \in Steps
    BY DEF Steps
  <2>2. /\ req' = [req EXCEPT ![r] = [req[r] EXCEPT !.pc = "count"]]
        /\ req' \in [Requests -> Request]
        /\ req'[r].pc = "count" /\ req'[r].ceremony = k
    BY <1>4, <2>1, GotoFacts DEF IInv
  <2>3. TypeOK'
    BY <2>2 DEF IInv, TypeOK, FindCredential, tables, history
  <2>4. RequestOK(r)' /\ ChosenNameOK(r)'
    BY <1>1, <1>4, <2>2 DEF RequestOK, ChosenNameOK, Registering, AskedName, FindCredential
  <2> QED
    BY <2>2, <2>3, <2>4, QuietStep DEF FindCredential, tables, history
<1> QED
  BY <1>2, <1>3, <1>4 DEF FindCredential

LEMMA CountNamesInv ==
    ASSUME IInv, NEW r \in Requests, CountNames(r)
    PROVE  IInv'
<1> DEFINE k == req[r].ceremony
           name == Candidate(AskedName(r), req[r].tries)
<1>1. /\ k \in Ceremonies /\ intents[k] \in Intent
      /\ intents[k].wallet \in Wallets \cup {None}
      /\ intents[k].action = "register"
      /\ AskedName(r) \in Names /\ AskedName(r) # None /\ req[r].tries \in Nat
  BY RegisteringFacts DEF IInv, CountNames, Registering, RequestOK, TypeOK, Request
<1>2. CASE req' = [req EXCEPT ![r].tries = @ + 1]
  <2> DEFINE value == [req[r] EXCEPT !.tries = @ + 1]
  <2>1. req' = [req EXCEPT ![r] = value] /\ value \in Request
    BY <1>1, <1>2 DEF IInv, TypeOK, Request
  <2>2. TypeOK'
    BY <2>1, ReqType DEF IInv, TypeOK, CountNames, tables, history
  <2>3. req'[r].pc = "count" /\ req'[r].ceremony = k
    BY <2>1 DEF IInv, TypeOK, Request, CountNames
  <2>4. RequestOK(r)' /\ ChosenNameOK(r)'
    BY <1>1, <2>3 DEF RequestOK, ChosenNameOK, Registering, AskedName, CountNames
  <2> QED
    BY <2>1, <2>2, <2>4, QuietStep DEF CountNames, tables, history
<1>3. CASE ~NameTaken(name) /\ req' = [req EXCEPT ![r].pc = "insert",
                                                  ![r].found = NewRow(r, name)]
  <2> DEFINE value == [req[r] EXCEPT !.pc = "insert", !.found = NewRow(r, name)]
  <2>1. name \in Name
    BY <1>1, CandidateIsAName
  <2>2. NewRow(r, name) \in Row
    BY <1>1, <2>1 DEF NewRow, Row
  <2>3. req' = [req EXCEPT ![r] = value] /\ value \in Request
    BY <1>3, <2>2 DEF IInv, TypeOK, Request, Steps
  <2>4. TypeOK'
    BY <2>3, ReqType DEF IInv, TypeOK, CountNames, tables, history
  <2>5. /\ req'[r].pc = "insert" /\ req'[r].ceremony = k
        /\ req'[r].found = NewRow(r, name)
    BY <2>3 DEF IInv, TypeOK, Request
  <2>6. RequestOK(r)'
    BY <1>1, <2>2, <2>5 DEF RequestOK, Registering, NewRow, CountNames
  <2>7. ChosenNameOK(r)'
    BY <1>3, <2>5 DEF ChosenNameOK, NewRow, NameTaken, Stored, CountNames, tables
  <2> QED
    BY <2>3, <2>4, <2>6, <2>7, QuietStep DEF CountNames, tables, history
<1> QED
  BY <1>2, <1>3 DEF CountNames, TryNext

LEMMA InsertCredentialInv ==
    ASSUME IInv, NEW r \in Requests, InsertCredential(r)
    PROVE  IInv'
<1> DEFINE c == CredentialOf(r)
           k == req[r].ceremony
<1>1. /\ k \in Ceremonies /\ intents[k] \in Intent /\ c = k /\ c \in Credentials
      /\ intents[k].action = "register"
      /\ req[r].pc = "insert"
      /\ req[r].found \in Row /\ req[r].found.wallet = intents[k].wallet
  BY RegisteringFacts DEF IInv, InsertCredential, Registering, RequestOK
<1>2. CASE Stored(c)
  BY <1>2, EndStep DEF InsertCredential, IInv, TypeOK
<1>3. CASE ~Stored(c)
  <2>1. /\ credentials' = [credentials EXCEPT ![c] = req[r].found]
        /\ overlapped' = overlapped \cup {{c, CredentialOf(q)} : q \in Naming}
        /\ Goto(r, "create")
        /\ UNCHANGED <<intents, challenges, users, sessions, answers>>
    BY <1>3 DEF InsertCredential
  <2>2. /\ req' = [req EXCEPT ![r] = [req[r] EXCEPT !.pc = "create"]]
        /\ req' \in [Requests -> Request]
        /\ req'[r].pc = "create" /\ req'[r].ceremony = k
        /\ req'[r].found = req[r].found
    <3>1. "create" \in Steps
      BY DEF Steps
    <3> QED
      BY <2>1, <3>1, GotoFacts DEF IInv
  <2>3. /\ credentials'[c] = req[r].found /\ credentials'[c] # NoRow
        /\ \A d \in Credentials \ {c} : credentials'[d] = credentials[d]
    BY <1>1, <2>1, RowIsARow DEF IInv, TypeOK, Stored
  <2>4. \A q \in Naming : CredentialOf(q) \in Credentials
    BY RegisteringFacts DEF Naming, Registering
  <2>5. TypeOK'
    BY <1>1, <2>1, <2>2, <2>4 DEF IInv, TypeOK
  <2>6. Kept
    BY <1>3, <2>1, <2>3 DEF Kept, Stored, HasUser
  <2>7. \A q \in Requests \ {r} : req'[q] = req[q]
    BY <2>2 DEF IInv, TypeOK
  <2>8. RequestOK(r)' /\ ChosenNameOK(r)'
    BY <1>1, <2>1, <2>2, <2>3 DEF RequestOK, ChosenNameOK, Registering, Agrees, CredentialOf,
           Stored
  <2>9. \A q \in Requests : RequestOK(q)'
    BY <2>6, <2>7, <2>8, RequestFrame DEF IInv
  <2>10. ASSUME NEW q \in Requests \ {r}
         PROVE  ChosenNameOK(q)'
    <3> SUFFICES ASSUME req[q].pc = "insert" PROVE ChosenNameOK(q)'
      BY <2>7 DEF ChosenNameOK
    <3>1. CredentialOf(q)' = CredentialOf(q)
      BY <2>1, <2>7 DEF CredentialOf
    <3>2. {CredentialOf(q), c} \in overlapped'
      BY <2>1 DEF Naming
    <3> SUFFICES ASSUME NEW d \in Credentials, Stored(d)', d # CredentialOf(q),
                        credentials'[d].name = req[q].found.name
                 PROVE  \/ CredentialOf(q) \in Edited \/ d \in Edited
                        \/ req[q].found.name = None
                        \/ {CredentialOf(q), d} \in overlapped'
      BY <2>7, <3>1 DEF ChosenNameOK
    <3>3. CASE d = c
      BY <3>2, <3>3
    <3>4. CASE d # c
      <4>1. Stored(d) /\ credentials[d].name = req[q].found.name
        BY <2>3, <3>4 DEF Stored
      <4> QED
        BY <2>1, <4>1 DEF IInv, ChosenNameOK
    <3> QED
      BY <3>3, <3>4
  <2>11. CeremoniesOK'
    <3>1. intents[c] # NoIntent
      BY <1>1 DEF Intent, NoIntent
    <3>2. ASSUME NEW j \in Ceremonies, Stored(j)'
          PROVE  /\ intents[j] # NoIntent
                 /\ j \in Edited \/ credentials'[j].wallet = intents[j].wallet
      <4>1. CASE j = c
        BY <1>1, <2>3, <3>1, <4>1
      <4>2. CASE j # c
        BY <2>3, <3>2, <4>2 DEF IInv, CeremoniesOK, Stored, Credentials
      <4> QED
        BY <4>1, <4>2
    <3> QED
      BY <2>1, <3>2 DEF IInv, CeremoniesOK
  <2>12. ChallengesOK' /\ AnswersOK' /\ SessionHasUser'
    BY <2>1, <2>6 DEF IInv, TypeOK, ChallengesOK, AnswersOK, SessionHasUser, Agrees, Kept,
                      Stored, HasUser
  <2>13. SameNameOnlyIfOverlapped'
    <3> SUFFICES ASSUME NEW a \in Credentials, NEW b \in Credentials, Stored(a)', Stored(b)',
                        a # b, credentials'[a].name = credentials'[b].name
                 PROVE  \/ a \in Edited \/ b \in Edited
                        \/ credentials'[a].name = None
                        \/ {a, b} \in overlapped'
      BY DEF SameNameOnlyIfOverlapped
    <3>1. ASSUME NEW d \in Credentials, d # c, Stored(d)', credentials'[d].name = req[r].found.name
          PROVE  \/ c \in Edited \/ d \in Edited
                 \/ req[r].found.name = None
                 \/ {c, d} \in overlapped'
      <4>1. Stored(d) /\ credentials[d].name = req[r].found.name
        BY <2>3, <3>1 DEF Stored
      <4> QED
        BY <1>1, <2>1, <3>1, <4>1 DEF IInv, ChosenNameOK
    <3>2. CASE a = c
      BY <2>3, <3>1, <3>2
    <3>3. CASE b = c
      <4>1. {a, b} = {b, a}
        OBVIOUS
      <4> QED
        BY <2>3, <3>1, <3>3, <4>1
    <3>4. CASE a # c /\ b # c
      BY <2>1, <2>3, <3>4 DEF IInv, SameNameOnlyIfOverlapped, Stored
    <3> QED
      BY <3>2, <3>3, <3>4
  <2> QED
    BY <2>5, <2>7, <2>8, <2>9, <2>10, <2>11, <2>12, <2>13 DEF IInv
<1> QED
  BY <1>2, <1>3

-----------------------------------------------------------------------------
(* The users row, the token, and the steps of the environment.             *)

\* A step that may only add users rows, and moves one request on to its token.
LEMMA UserStepInv ==
    ASSUME IInv, NEW r \in Requests, NEW c \in Credentials, NEW invite \in BOOLEAN,
           NEW wallet \in Wallets \cup {None},
           c = CredentialOf(r), req[r].pc \in {"create", "ensure"},
           UserStep(r, c, wallet, invite),
           UNCHANGED <<intents, challenges, credentials, sessions, answers, overlapped>>
    PROVE  IInv'
<1>1. CASE End(r) /\ UNCHANGED users
  BY <1>1, EndStep
<1>2. CASE /\ Goto(r, "token")
           /\ users' = [users EXCEPT ![c] = wallet] \/ (users' = users /\ HasUser(c))
  <2>1. "token" \in Steps
    BY DEF Steps
  <2>2. /\ req' = [req EXCEPT ![r] = [req[r] EXCEPT !.pc = "token"]]
        /\ req' \in [Requests -> Request]
        /\ req'[r].pc = "token" /\ req'[r].ceremony = req[r].ceremony
        /\ req'[r].found = req[r].found
    BY <1>2, <2>1, GotoFacts DEF IInv
  <2>3. TypeOK'
    BY <1>2, <2>2 DEF IInv, TypeOK
  <2>4. users'[c] # Absent /\ \A d \in Credentials \ {c} : users'[d] = users[d]
    BY <1>2 DEF IInv, TypeOK, HasUser
  <2>5. Kept
    BY <2>4 DEF Kept, Stored, HasUser
  <2>6. \A q \in Requests \ {r} : req'[q] = req[q]
    BY <2>2 DEF IInv, TypeOK
  <2>7. CredentialOf(r)' = c
    BY <2>2 DEF CredentialOf
  <2>8. RequestOK(r)' /\ ChosenNameOK(r)'
    BY <2>2, <2>4, <2>7 DEF IInv, RequestOK, ChosenNameOK, Registering, Agrees, Stored, HasUser
  <2>9. \A q \in Requests : RequestOK(q)' /\ ChosenNameOK(q)'
    BY <2>5, <2>6, <2>8, RequestFrame, NameFrame DEF IInv
  <2>10. /\ CeremoniesOK' /\ ChallengesOK' /\ AnswersOK' /\ SessionHasUser'
         /\ SameNameOnlyIfOverlapped'
    BY <2>5 DEF IInv, TypeOK, CeremoniesOK, ChallengesOK, AnswersOK, Agrees, SessionHasUser,
                SameNameOnlyIfOverlapped, Stored, Kept
  <2> QED
    BY <2>3, <2>9, <2>10 DEF IInv
<1> QED
  BY <1>1, <1>2 DEF UserStep

LEMMA CreateUserInv ==
    ASSUME IInv, NEW r \in Requests, CreateUser(r)
    PROVE  IInv'
<1>1. /\ CredentialOf(r) \in Credentials
      /\ intents[req[r].ceremony].wallet \in Wallets \cup {None}
      /\ intents[req[r].ceremony].invite \in BOOLEAN
  BY RegisteringFacts DEF CreateUser, Registering
<1> QED
  BY <1>1, UserStepInv DEF CreateUser, CredentialOf, history, IInv, TypeOK

LEMMA BackfillUserInv ==
    ASSUME IInv, NEW r \in Requests, BackfillUser(r)
    PROVE  IInv'
<1>1. /\ req[r].ceremony \in Ceremonies /\ intents[req[r].ceremony] \in Intent
      /\ req[r].found \in Row
  BY DEF IInv, RequestOK, BackfillUser
<1>2. CredentialOf(r) \in Credentials
  BY <1>1 DEF CredentialOf, Intent
<1>3. req[r].found.wallet \in Wallets \cup {None}
  BY <1>1, RowIsARow
<1> QED
  BY <1>2, <1>3, UserStepInv
     DEF BackfillUser, EnsureUserExistsWithWalletAddress, history, IInv, TypeOK

LEMMA GenerateTokenInv ==
    ASSUME IInv, NEW r \in Requests, GenerateToken(r)
    PROVE  IInv'
<1> DEFINE c == CredentialOf(r)
<1>1. /\ req[r].ceremony \in Ceremonies /\ intents[req[r].ceremony] \in Intent
      /\ req[r].found \in Row /\ Agrees(c, req[r].found) /\ HasUser(c)
  BY DEF IInv, RequestOK, GenerateToken
<1>2. c \in Credentials
  BY <1>1 DEF CredentialOf, Intent
<1>3. req' = [req EXCEPT ![r] = Idle] /\ req' \in [Requests -> Request] /\ req'[r] = Idle
  BY EndFacts DEF IInv, GenerateToken
<1>4. TypeOK'
  BY <1>1, <1>2, <1>3 DEF IInv, TypeOK, GenerateToken
<1>5. Kept
  BY DEF Kept, Stored, HasUser, GenerateToken
<1>6. \A q \in Requests \ {r} : req'[q] = req[q]
  BY <1>3 DEF IInv, TypeOK
<1>7. \A q \in Requests : RequestOK(q)' /\ ChosenNameOK(q)'
  BY <1>3, <1>5, <1>6, IdleOK, RequestFrame, NameFrame DEF IInv, GenerateToken
<1>8. AnswersOK' /\ SessionHasUser'
  <2>1. answers' = answers \cup {[credential |-> c, row |-> req[r].found]}
    BY DEF GenerateToken
  <2>2. sessions' = sessions \cup {c} /\ credentials' = credentials /\ users' = users
    BY DEF GenerateToken
  <2>3. ASSUME NEW answer \in answers'
        PROVE  Agrees(answer.credential, answer.row)'
    <3>1. Agrees(answer.credential, answer.row)
      BY <1>1, <2>1 DEF IInv, AnswersOK
    <3> QED
      BY <2>2, <3>1 DEF Agrees, Stored
  <2>4. SessionHasUser'
    BY <1>1, <2>2 DEF IInv, SessionHasUser, Agrees, Stored, HasUser
  <2> QED
    BY <2>3, <2>4 DEF AnswersOK
<1>9. CeremoniesOK' /\ ChallengesOK' /\ SameNameOnlyIfOverlapped'
  BY DEF IInv, CeremoniesOK, ChallengesOK, SameNameOnlyIfOverlapped, Stored, GenerateToken
<1> QED
  BY <1>4, <1>7, <1>8, <1>9 DEF IInv

LEMMA GenerateChallengeInv ==
    ASSUME IInv, NEW k \in Ceremonies, NEW intent \in Intent, GenerateChallenge(k, intent)
    PROVE  IInv'
<1>1. /\ intents[k] = NoIntent /\ intents' = [intents EXCEPT ![k] = intent]
      /\ challenges' = challenges \cup {k}
      /\ intent.action = "register" => intent.credential = k
      /\ UNCHANGED <<req, credentials, users, sessions, answers, overlapped>>
  BY DEF GenerateChallenge, tables, history
<1>2. TypeOK'
  BY <1>1 DEF IInv, TypeOK
<1>3. intents'[k] = intent /\ \A j \in Ceremonies \ {k} : intents'[j] = intents[j]
  BY <1>1 DEF IInv, TypeOK
<1>4. Kept
  BY <1>1, <1>3 DEF Kept, Stored, HasUser
<1>5. \A q \in Requests : RequestOK(q)' /\ ChosenNameOK(q)'
  BY <1>1, <1>4, RequestFrame, NameFrame DEF IInv
<1>6. CeremoniesOK'
  BY <1>1, <1>3 DEF IInv, CeremoniesOK, Stored
<1>7. ChallengesOK'
  BY <1>1, <1>3 DEF IInv, TypeOK, ChallengesOK
<1>8. AnswersOK' /\ SessionHasUser' /\ SameNameOnlyIfOverlapped'
  BY <1>1 DEF IInv, AnswersOK, Agrees, SessionHasUser, SameNameOnlyIfOverlapped, Stored, HasUser
<1> QED
  BY <1>2, <1>5, <1>6, <1>7, <1>8 DEF IInv

LEMMA ExpireInv ==
    ASSUME IInv, NEW k \in Ceremonies, Expire(k)
    PROVE  IInv'
<1>1. /\ challenges' \subseteq challenges
      /\ UNCHANGED <<intents, req, credentials, users, sessions, answers, overlapped>>
  BY DEF Expire, tables, history
<1>2. Kept
  BY <1>1 DEF Kept, Stored, HasUser
<1>3. \A q \in Requests : RequestOK(q)' /\ ChosenNameOK(q)'
  BY <1>1, <1>2, RequestFrame, NameFrame DEF IInv
<1>4. TypeOK'
  BY <1>1 DEF IInv, TypeOK
<1>5. /\ CeremoniesOK' /\ ChallengesOK' /\ AnswersOK' /\ SessionHasUser'
      /\ SameNameOnlyIfOverlapped'
  BY <1>1 DEF IInv, CeremoniesOK, ChallengesOK, AnswersOK, Agrees, SessionHasUser,
              SameNameOnlyIfOverlapped, Stored, HasUser
<1> QED
  BY <1>3, <1>4, <1>5 DEF IInv

LEMMA RecoveryUpdateInv ==
    ASSUME IInv, NEW c \in Credentials, NEW new \in BodyRow, RecoveryUpdate(c, new)
    PROVE  IInv'
<1>1. /\ c \in Edited /\ Stored(c)
      /\ credentials' = [credentials EXCEPT ![c] = PreventWalletFieldClear(@, new)]
      /\ UNCHANGED <<intents, challenges, users, req, sessions, answers, overlapped>>
  BY DEF RecoveryUpdate, history
<1>2. credentials'[c] \in Row /\ \A d \in Credentials \ {c} : credentials'[d] = credentials[d]
  BY <1>1, TriggerKeepsRows DEF IInv, TypeOK, Stored
<1>3. TypeOK'
  BY <1>1, <1>2, TriggerKeepsRows DEF IInv, TypeOK, Stored
<1>4. \A d \in Credentials : Stored(d)' <=> Stored(d)
  BY <1>1, <1>2, RowIsARow DEF Stored
<1>5. Kept
  BY <1>1, <1>2, <1>4 DEF Kept, HasUser
<1>6. \A q \in Requests : RequestOK(q)'
  BY <1>1, <1>5, RequestFrame DEF IInv
<1>7. ASSUME NEW q \in Requests
      PROVE  ChosenNameOK(q)'
  <2>1. CredentialOf(q)' = CredentialOf(q)
    BY <1>1 DEF CredentialOf
  <2> QED
    BY <1>1, <1>2, <1>4, <2>1 DEF IInv, ChosenNameOK
<1>8. SameNameOnlyIfOverlapped'
  BY <1>1, <1>2, <1>4 DEF IInv, SameNameOnlyIfOverlapped
<1>9. CeremoniesOK' /\ ChallengesOK' /\ AnswersOK' /\ SessionHasUser'
  BY <1>1, <1>2, <1>4 DEF IInv, TypeOK, CeremoniesOK, ChallengesOK, AnswersOK, Agrees,
              SessionHasUser, HasUser, Credentials
<1> QED
  BY <1>3, <1>6, <1>7, <1>8, <1>9 DEF IInv

-----------------------------------------------------------------------------
(* The invariants.                                                         *)

LEMMA NextIInv == IInv /\ [Next]_vars => IInv'
<1> SUFFICES ASSUME IInv, [Next]_vars PROVE IInv'
  OBVIOUS
<1>1. CASE \E k \in Ceremonies, intent \in Intent : GenerateChallenge(k, intent)
  BY <1>1, GenerateChallengeInv
<1>2. CASE \E k \in Ceremonies : Expire(k)
  BY <1>2, ExpireInv
<1>3. CASE \E r \in Requests, k \in Ceremonies : VerifyPasskey(r, k)
  BY <1>3, VerifyPasskeyInv
<1>4. CASE \E r \in Requests : Step(r)
  BY <1>4, DeleteChallengeInv, FindCredentialInv, CountNamesInv, InsertCredentialInv,
     CreateUserInv, GetCredentialInv, CheckAssertionInv, BackfillUserInv, GenerateTokenInv,
     CrashInv DEF Step
<1>5. CASE \E c \in Credentials, new \in BodyRow : RecoveryUpdate(c, new)
  BY <1>5, RecoveryUpdateInv
<1>6. CASE UNCHANGED vars
  <2>1. /\ UNCHANGED <<intents, challenges, req, credentials, users, sessions>>
        /\ UNCHANGED <<answers, overlapped>>
    BY <1>6 DEF vars
  <2>2. Kept
    BY <2>1 DEF Kept, Stored, HasUser
  <2>3. \A q \in Requests : RequestOK(q)' /\ ChosenNameOK(q)'
    BY <2>1, <2>2, RequestFrame, NameFrame DEF IInv
  <2>4. TypeOK'
    BY <2>1 DEF IInv, TypeOK
  <2>5. /\ CeremoniesOK' /\ ChallengesOK' /\ AnswersOK' /\ SessionHasUser'
        /\ SameNameOnlyIfOverlapped'
    BY <2>1 DEF IInv, CeremoniesOK, ChallengesOK, AnswersOK, Agrees, SessionHasUser,
                SameNameOnlyIfOverlapped, Stored, HasUser
  <2> QED
    BY <2>3, <2>4, <2>5 DEF IInv
<1> QED
  BY <1>1, <1>2, <1>3, <1>4, <1>5, <1>6 DEF Next

\* The inductive invariant: where every request stands, and what its copy of
\* a row still says about the table.
THEOREM PasskeysInvariant == Spec => []IInv
<1> QED
  BY InitIInv, NextIInv, PTL DEF Spec

(* Type correctness of the passkey tables and requests.                    *)
THEOREM PasskeysTypeCorrect == Spec => []TypeOK
<1>1. IInv => TypeOK
  BY DEF IInv
<1> QED
  BY <1>1, PasskeysInvariant, PTL

(* A token always stands for a stored credential that has a users row,     *)
(* wherever registrations were interrupted.                                *)
THEOREM TokensHaveUsers == Spec => []SessionHasUser
<1>1. IInv => SessionHasUser
  BY DEF IInv
<1> QED
  BY <1>1, PasskeysInvariant, PTL

(* What clients were told about their wallets is what the table says.      *)
THEOREM AnswersAgreeWithTable == Spec => []AnswersMatchRow
<1>1. IInv => AnswersMatchRow
  BY DEF IInv, AnswersOK, Agrees, AnswersMatchRow
<1> QED
  BY <1>1, PasskeysInvariant, PTL

(* Wallet names are distinct, except those chosen at the same time.        *)
THEOREM NamesDistinctUnlessOverlapped == Spec => []SameNameOnlyIfOverlapped
<1>1. IInv => SameNameOnlyIfOverlapped
  BY DEF IInv
<1> QED
  BY <1>1, PasskeysInvariant, PTL

\* A step edits a row only through the trigger.
LEMMA RowStep ==
    ASSUME IInv, [Next]_vars, NEW c \in Credentials, Stored(c)
    PROVE  \/ credentials'[c] = credentials[c]
           \/ \E new \in BodyRow : credentials'[c] = PreventWalletFieldClear(credentials[c], new)
<1>1. CASE credentials' = credentials
  BY <1>1
<1>2. ASSUME NEW r \in Requests, InsertCredential(r)
      PROVE  credentials'[c] = credentials[c]
  <2>1. CredentialOf(r) \in Credentials
    BY <1>2, RegisteringFacts DEF InsertCredential, Registering
  <2> QED
    BY <1>2, <2>1 DEF InsertCredential, IInv, TypeOK
<1>3. ASSUME NEW d \in Credentials, NEW new \in BodyRow, RecoveryUpdate(d, new)
      PROVE  \/ credentials'[c] = credentials[c]
             \/ credentials'[c] = PreventWalletFieldClear(credentials[c], new)
  BY <1>3 DEF RecoveryUpdate, IInv, TypeOK
<1>4. CASE \E r \in Requests : Step(r)
  <2>1. PICK r \in Requests : Step(r)
    BY <1>4
  <2>2. CASE InsertCredential(r)
    BY <1>2, <2>2
  <2>3. CASE \/ DeleteChallenge(r) \/ FindCredential(r) \/ CountNames(r) \/ GetCredential(r)
             \/ CheckAssertion(r) \/ Crash(r)
    BY <1>1, <2>3 DEF DeleteChallenge, FindCredential, CountNames, GetCredential,
                      CheckAssertion, Crash, tables
  <2>4. CASE CreateUser(r) \/ BackfillUser(r) \/ GenerateToken(r)
    BY <1>1, <2>4 DEF CreateUser, BackfillUser, GenerateToken
  <2> QED
    BY <2>1, <2>2, <2>3, <2>4 DEF Step
<1>5. CASE \/ \E k \in Ceremonies, intent \in Intent : GenerateChallenge(k, intent)
           \/ \E k \in Ceremonies : Expire(k)
           \/ \E r \in Requests, k \in Ceremonies : VerifyPasskey(r, k)
           \/ UNCHANGED vars
  BY <1>1, <1>5 DEF GenerateChallenge, Expire, VerifyPasskey, tables, vars
<1> QED
  BY <1>3, <1>4, <1>5 DEF Next

(* The trigger keeps a wallet address as it was first set, and never lets  *)
(* a name go, whatever UPDATE is run.                                      *)
THEOREM WalletNeverLost == Spec => WalletKept
<1>1. ASSUME IInv, [Next]_vars, NEW c \in Credentials, Stored(c)
      PROVE  /\ credentials[c].wallet # None => credentials'[c].wallet = credentials[c].wallet
             /\ credentials[c].name # None => credentials'[c].name # None
  <2>1. CASE credentials'[c] = credentials[c]
    BY <2>1
  <2>2. ASSUME NEW new \in BodyRow,
               credentials'[c] = PreventWalletFieldClear(credentials[c], new)
        PROVE  /\ credentials[c].wallet # None => credentials'[c].wallet = credentials[c].wallet
               /\ credentials[c].name # None => credentials'[c].name # None
    BY <2>2 DEF PreventWalletFieldClear
  <2> QED
    BY <1>1, <2>1, <2>2, RowStep
<1>2. IInv /\ [Next]_vars =>
        [\A c \in Credentials : Stored(c) =>
          /\ credentials[c].wallet # None => credentials'[c].wallet = credentials[c].wallet
          /\ credentials[c].name # None => credentials'[c].name # None]_vars
  BY <1>1
<1> QED
  BY <1>2, PasskeysInvariant, PTL DEF Spec, WalletKept

=============================================================================
