------------------------------ MODULE Passkeys ------------------------------
(***************************************************************************)
(* Passkey registration and login: POST /passkey/challenge, POST           *)
(* /passkey/verify, and the tables they write.                             *)
(*                                                                         *)
(* A ceremony is a challenge the backend issued and the one answer its     *)
(* client has for it.  Registering makes the authenticator create a new    *)
(* credential, so the credential of a registration is named by its         *)
(* ceremony.  A client may submit its answer any number of times: each     *)
(* submission is a request that runs verifyPasskey one await at a time,    *)
(* next to the other requests, and may die anywhere.                       *)
(*                                                                         *)
(* Public keys and signature counters are left out: only the verification, *)
(* whose outcome is left open, reads them.                                 *)
(***************************************************************************)
EXTENDS Integers, Sequences

CONSTANTS
    None,            \* NULL
    Absent,          \* no row
    Requests,        \* requests served at a time
    Wallets,         \* wallet addresses
    Names,           \* wallet names users ask for
    Legacy,          \* older credentials, stored before users had rows
    MaxCeremonies,   \* bound: challenges of a run
    Edited           \* credentials whose rows somebody runs UPDATE on by hand

ASSUME PasskeyAssumption ==
    /\ None \notin Wallets /\ Absent \notin Wallets /\ None # Absent
    /\ MaxCeremonies \in Nat
    /\ Legacy \cap (1 .. MaxCeremonies) = {}

Ceremonies == 1 .. MaxCeremonies
Credentials == Legacy \cup Ceremonies
ASSUME EditedAssumption == Edited \subseteq Credentials

\* A name with the suffixes (_1, _2, ...) it ends in.
Name == [base : {name.base : name \in Names}, suffix : Seq(Nat)]
ASSUME NameAssumption == Names \subseteq Name /\ None \notin Name

\* A passkey_credentials row.
Row == [wallet : Wallets \cup {None}, name : Name \cup {None}]
NoRow == [wallet |-> Absent, name |-> Absent]
BodyRow == [wallet : Wallets \cup {None}, name : Names \cup {None}]

\* What a client is after: the challenge's action and the body it will send.
Intent == [action : {"register", "authenticate"}, credential : Credentials,
           wallet : Wallets \cup {None}, name : Names \cup {None},
           invite : BOOLEAN]       \* no invite code, or one that exists
NoIntent == [action |-> "none", credential |-> None, wallet |-> None, name |-> None,
             invite |-> TRUE]

VARIABLES
    intents,       \* the ceremonies: NoIntent until the challenge is issued
    challenges,    \* the challenges still in Redis
    credentials,   \* passkey_credentials
    users,         \* users: the wallet address of the credential's row, or Absent
    req,           \* the requests in flight
    sessions,      \* credentials for which a token was generated
    \* bookkeeping: nothing in the code reads these
    answers,       \* the wallets and names reported to clients
    overlapped     \* pairs of credentials named at the same time

vars == <<intents, challenges, credentials, users, req, sessions, answers, overlapped>>

Steps == {"idle", "delete", "find", "count", "insert", "create", "lookup", "check",
          "ensure", "token"}

\* A request: its ceremony, the name or row it works with, the suffix it tries.
Request == [pc : Steps, ceremony : Ceremonies \cup {None}, found : Row \cup {NoRow},
            tries : Nat]
Idle == [pc |-> "idle", ceremony |-> None, found |-> NoRow, tries |-> 0]

Stored(c) == credentials[c] # NoRow
HasUser(c) == users[c] # Absent

Init ==
    /\ intents = [k \in Ceremonies |-> NoIntent]
    /\ challenges = {}
    /\ \E rows \in [Legacy -> BodyRow] :
         /\ \A c, d \in Legacy : rows[c].name = rows[d].name => c = d \/ rows[c].name = None
         /\ credentials = [c \in Credentials |-> IF c \in Legacy THEN rows[c] ELSE NoRow]
    /\ users = [c \in Credentials |-> Absent]
    /\ req = [r \in Requests |-> Idle]
    /\ sessions = {} /\ answers = {} /\ overlapped = {}

-----------------------------------------------------------------------------
(* Requests, one await at a time.                                          *)

CredentialOf(r) == intents[req[r].ceremony].credential
Goto(r, pc) == req' = [req EXCEPT ![r].pc = pc]
End(r) == req' = [req EXCEPT ![r] = Idle]

tables == <<credentials, users, sessions>>
history == <<answers, overlapped>>

(* POST /passkey/challenge.  A registration is for the credential the      *)
(* authenticator is about to create, a login for one it has.               *)
GenerateChallenge(k, intent) ==
    /\ intents[k] = NoIntent
    /\ \A j \in 1 .. k - 1 : intents[j] # NoIntent
    /\ \/ intent.action = "register" /\ intent.credential = k
       \/ /\ intent.action = "authenticate"
          /\ \/ intent.credential \in Legacy
             \/ /\ intent.credential \in 1 .. k - 1
                /\ intents[intent.credential].action = "register"
          /\ intent.wallet = None /\ intent.name = None /\ intent.invite
    /\ intents' = [intents EXCEPT ![k] = intent]
    /\ challenges' = challenges \cup {k}
    /\ UNCHANGED <<req, tables, history>>

\* The challenge's 60 seconds are over.
Expire(k) ==
    /\ k \in challenges
    /\ challenges' = challenges \ {k}
    /\ UNCHANGED <<intents, req, tables, history>>

(* POST /passkey/verify, up to the look at the challenge.  Without one the *)
(* request is refused, and nothing changes.                                *)
VerifyPasskey(r, k) ==
    /\ req[r].pc = "idle"
    /\ k \in challenges
    /\ req' = [req EXCEPT ![r] = [Idle EXCEPT !.pc = "delete", !.ceremony = k]]
    /\ UNCHANGED <<intents, challenges, tables, history>>

(* The challenge is deleted; then an attestation is verified at once, an   *)
(* assertion once its credential is known.                                 *)
DeleteChallenge(r) ==
    /\ req[r].pc = "delete"
    /\ challenges' = challenges \ {req[r].ceremony}
    /\ IF intents[req[r].ceremony].action = "register"
       THEN Goto(r, "find") \/ End(r)
       ELSE Goto(r, "lookup")
    /\ UNCHANGED <<intents, tables, history>>

NameTaken(name) == \E c \in Credentials : Stored(c) /\ credentials[c].name = name

MinusTwo(name, tries) ==                             \* mutation: the first suffix is off
    IF tries = 0 THEN name
    ELSE [base |-> name.base, suffix |-> Append(name.suffix, tries - 2)]
\* `${walletName}_${suffix}`
Candidate(name, tries) ==
    IF tries = 0 THEN name
    ELSE [base |-> name.base, suffix |-> Append(name.suffix, tries)]

AskedName(r) == intents[req[r].ceremony].name
NewRow(r, name) == [wallet |-> intents[req[r].ceremony].wallet, name |-> name]

AskedAgain(r, c) == AskedName(r)                     \* mutation: the asked name is returned
StoredName(r, c) == credentials[c].name

(* storeCredential.  A row that exists is kept (its key and counter are    *)
(* updated), and its name is the one to report.                            *)
FindCredential(r) ==
    LET c == CredentialOf(r) IN
    /\ req[r].pc = "find"
    /\ \/ /\ Stored(c)
          /\ req' = [req EXCEPT ![r].pc = "create",
                                ![r].found = NewRow(r, StoredName(r, c))]
       \/ /\ ~Stored(c)
          /\ AskedName(r) = None
          /\ req' = [req EXCEPT ![r].pc = "insert", ![r].found = NewRow(r, None)]
       \/ /\ ~Stored(c)
          /\ AskedName(r) # None
          /\ Goto(r, "count")
    /\ UNCHANGED <<intents, challenges, tables, history>>

FirstFree(name, tries) ==                            \* mutation: the suffix is not checked
    tries = 0 /\ NameTaken(name)
TryNext(name, tries) == NameTaken(Candidate(name, tries))

(* generateUniqueWalletName: one count query.                              *)
CountNames(r) ==
    LET name == AskedName(r) IN
    /\ req[r].pc = "count"
    /\ IF TryNext(name, req[r].tries)
       THEN req' = [req EXCEPT ![r].tries = @ + 1]
       ELSE req' = [req EXCEPT ![r].pc = "insert",
                               ![r].found = NewRow(r, Candidate(name, req[r].tries))]
    /\ UNCHANGED <<intents, challenges, tables, history>>

\* Requests between their first count and their insert.
Naming == {r \in Requests : req[r].pc \in {"count", "insert"}}

(* The insert.  The unique credentialId fails the second of two            *)
(* submissions that both found no row.                                     *)
InsertCredential(r) ==
    LET c == CredentialOf(r) IN
    /\ req[r].pc = "insert"
    /\ IF Stored(c)
       THEN End(r) /\ UNCHANGED <<credentials, overlapped>>
       ELSE /\ credentials' = [credentials EXCEPT ![c] = req[r].found]
            /\ overlapped' = overlapped \cup {{c, CredentialOf(q)} : q \in Naming}
            /\ Goto(r, "create")
    /\ UNCHANGED <<intents, challenges, users, sessions, answers>>

WalletTaken(c, wallet) == wallet # None /\ \E d \in Credentials \ {c} : users[d] = wallet

(* createUser, in one step: its statements are those of Accounts.  A row   *)
(* that exists gets its wallet if it has none; both statements may fail on *)
(* the unique walletAddress, and an insert on the invite code.             *)
UserStep(r, c, wallet, invite) ==
    LET backfill == HasUser(c) /\ users[c] = None /\ wallet # None
        insert == ~HasUser(c)
        fails == \/ insert /\ ~invite
                 \/ (insert \/ backfill) /\ WalletTaken(c, wallet)
    IN
    /\ IF fails
       THEN End(r) /\ UNCHANGED users
       ELSE /\ users' = IF insert \/ backfill THEN [users EXCEPT ![c] = wallet] ELSE users
            /\ Goto(r, "token")

CreateUser(r) ==
    LET intent == intents[req[r].ceremony] IN
    /\ req[r].pc = "create"
    /\ UserStep(r, intent.credential, intent.wallet, intent.invite)
    /\ UNCHANGED <<intents, challenges, credentials, sessions, history>>

(* Login: the stored credential is read, the assertion checked against it. *)
GetCredential(r) ==
    /\ req[r].pc = "lookup"
    /\ IF Stored(CredentialOf(r))
       THEN req' = [req EXCEPT ![r].pc = "check", ![r].found = credentials[CredentialOf(r)]]
       ELSE End(r)
    /\ UNCHANGED <<intents, challenges, tables, history>>

\* verifyAuthenticationResponse throws, or returns; either result goes on.
CheckAssertion(r) ==
    /\ req[r].pc = "check"
    /\ Goto(r, "ensure") \/ End(r)
    /\ UNCHANGED <<intents, challenges, tables, history>>

NoBackfill(r, c) ==                                  \* mutation: no backfill at login
    Goto(r, "token") /\ UNCHANGED users
EnsureUserExistsWithWalletAddress(r, c) == UserStep(r, c, req[r].found.wallet, TRUE)

BackfillUser(r) ==
    /\ req[r].pc = "ensure"
    /\ EnsureUserExistsWithWalletAddress(r, CredentialOf(r))
    /\ UNCHANGED <<intents, challenges, credentials, sessions, history>>

(* generateToken, and the answer.                                          *)
GenerateToken(r) ==
    /\ req[r].pc = "token"
    /\ sessions' = sessions \cup {CredentialOf(r)}
    /\ answers' = answers \cup {[credential |-> CredentialOf(r), row |-> req[r].found]}
    /\ End(r)
    /\ UNCHANGED <<intents, challenges, credentials, users, overlapped>>

\* The instance dies, or a statement throws.
Crash(r) ==
    /\ req[r].pc # "idle"
    /\ End(r)
    /\ UNCHANGED <<intents, challenges, tables, history>>

(* prevent_wallet_field_clear, the trigger under every UPDATE of a row.    *)
OnlyClearing(old, new) ==                            \* mutation: the last IF is missing
    [wallet |-> IF old.wallet # None /\ new.wallet = None THEN old.wallet ELSE new.wallet,
     name |-> IF old.name # None /\ new.name = None THEN old.name ELSE new.name]
PreventWalletFieldClear(old, new) ==
    [wallet |-> IF old.wallet # None THEN old.wallet ELSE new.wallet,
     name |-> IF old.name # None /\ new.name = None THEN old.name ELSE new.name]

(* An UPDATE of the wallet columns during recovery operations.             *)
RecoveryUpdate(c, new) ==
    /\ c \in Edited
    /\ Stored(c)
    /\ credentials' = [credentials EXCEPT ![c] = PreventWalletFieldClear(@, new)]
    /\ UNCHANGED <<intents, challenges, users, req, sessions, history>>

-----------------------------------------------------------------------------
Step(r) ==
    \/ DeleteChallenge(r)
    \/ FindCredential(r) \/ CountNames(r) \/ InsertCredential(r) \/ CreateUser(r)
    \/ GetCredential(r) \/ CheckAssertion(r) \/ BackfillUser(r)
    \/ GenerateToken(r)
    \/ Crash(r)

Next ==
    \/ \E k \in Ceremonies, intent \in Intent : GenerateChallenge(k, intent)
    \/ \E k \in Ceremonies : Expire(k)
    \/ \E r \in Requests, k \in Ceremonies : VerifyPasskey(r, k)
    \/ \E r \in Requests : Step(r)
    \/ \E c \in Credentials, new \in BodyRow : RecoveryUpdate(c, new)

Spec == Init /\ [][Next]_vars

-----------------------------------------------------------------------------
(* Properties.                                                             *)

\* The type of the state.
TypeOK ==
    /\ intents \in [Ceremonies -> Intent \cup {NoIntent}]
    /\ challenges \subseteq Ceremonies
    /\ credentials \in [Credentials -> Row \cup {NoRow}]
    /\ users \in [Credentials -> Wallets \cup {None, Absent}]
    /\ req \in [Requests -> Request]
    /\ sessions \subseteq Credentials
    /\ answers \subseteq [credential : Credentials, row : Row]
    /\ overlapped \subseteq SUBSET Credentials

(* A token stands for a stored credential with a users row: whatever was   *)
(* interrupted between storeCredential, createUser and generateToken, a    *)
(* session never starts for a user the other handlers cannot find.         *)
SessionHasUser == \A c \in sessions : Stored(c) /\ HasUser(c)

(* The wallet and the name a client was told are those in the database,    *)
(* for as long as nobody edits the row: also for the loser of two        *)
(* submissions, and for names that got a suffix.                           *)
AnswersMatchRow ==
    \A answer \in answers :
        answer.credential \in Edited \/ credentials[answer.credential] = answer.row

(* generateUniqueWalletName works, except next to another registration:    *)
(* two credentials share a name only if both were being named when one of  *)
(* them was inserted.                                                      *)
SameNameOnlyIfOverlapped ==
    \A c, d \in Credentials :
        (Stored(c) /\ Stored(d) /\ c # d /\ credentials[c].name = credentials[d].name)
            => \/ credentials[c].name = None
               \/ {c, d} \in overlapped
               \/ c \in Edited \/ d \in Edited

(* protect-wallet-fields.sql, against any UPDATE: a wallet address once    *)
(* set stays, and a name once set is never cleared.                        *)
WalletKept ==
    [][\A c \in Credentials : Stored(c) =>
          /\ credentials[c].wallet # None => credentials'[c].wallet = credentials[c].wallet
          /\ credentials[c].name # None => credentials'[c].name # None]_vars

=============================================================================
