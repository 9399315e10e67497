------------------------------ MODULE Accounts ------------------------------
(***************************************************************************)
(* The users row and the tables that account for it.                       *)
(*                                                                         *)
(* Every handler of the backend that moves NINJA, chances, mint credits or *)
(* the voucher nonce ends in a save of one users row.  Two styles coexist: *)
(*                                                                         *)
(*  - locked handlers open a transaction, read the row FOR UPDATE, save it *)
(*    and insert the ledger row before they commit: one action here;       *)
(*                                                                         *)
(*  - unlocked handlers read the row, compute, and call repository.save:   *)
(*    a SELECT of the current row, then an UPDATE of every column in which *)
(*    the entity held in memory differs from that SELECT, then (in a       *)
(*    separate statement) the insert of the ledger row.  They are requests *)
(*    that advance one awaited statement at a time.                        *)
(*                                                                         *)
(* Ledger tables are kept as the sums the properties compare with the row. *)
(*                                                                         *)
(* Amounts are integers, in millionths of a NINJA: the price of a token is *)
(* a whole number of them.  The code computes with such amounts and rounds *)
(* next to none; users.ninjaBalance holds whole cents and                  *)
(* points_transactions.amount ten-thousandths, and PostgreSQL rounds what  *)
(* is stored in either.                                                    *)
(***************************************************************************)
EXTENDS Integers

CONSTANTS
    Users,           \* credentials, each owning at most one users row
    Existing,        \* the users registered, with a wallet, when the run starts
    Requests,        \* the unlocked requests of the run, each used once
    Handlers,        \* which unlocked handlers receive traffic
    Purchases,       \* ChancePurchased notifications the webhook may deliver
    Costs,           \* costs of a recorded chat
    Earnings,        \* amounts of tap sessions and of SDK credits and debits
    Adjustments,     \* amounts an administrator sets or adds
    Times,           \* clock readings and cooldown ends
    INITIAL_BONUS, INVITER_REWARD, INVITEE_REWARD,
    MaxBalance,      \* bound: no credit takes a balance beyond it
    MaxFractions,    \* bound: tap sessions of a user that earn a fraction of a cent
    None             \* no inviter

Products == {"go", "pro", "max", "plan"}
Purchase == [txHash : Nat, user : Users, product : Products,
             chances : Nat, cooldownEndsAt : Times]
UnlockedHandlers == {"chat", "admin", "register", "login", "webhook", "ensure",
                     "crash"}

Cent == 10000         \* the unit of users.ninjaBalance, numeric(20,2)
LedgerUnit == 100     \* the unit of points_transactions.amount, DECIMAL(20,4)

Whole(amount) == amount % Cent = 0

ASSUME ConstantsAssumption ==
    /\ Existing \subseteq Users
    /\ None \notin Users
    /\ Handlers \subseteq UnlockedHandlers
    /\ Purchases \subseteq Purchase
    /\ Costs \subseteq Nat /\ Earnings \subseteq Nat \ {0} /\ Adjustments \subseteq Int
    /\ Times \subseteq Nat
    /\ INITIAL_BONUS \in Nat /\ INVITER_REWARD \in Nat /\ INVITEE_REWARD \in Nat
    /\ Whole(INITIAL_BONUS) /\ Whole(INVITER_REWARD) /\ Whole(INVITEE_REWARD)
    /\ MaxBalance \in Nat /\ MaxFractions \in Nat

VARIABLES
    users,              \* the users table
    registered,         \* the users that have a row
    req,                \* the unlocked requests in flight
    pointsTotal,        \* sum of points_transactions.amount
    chanceTransactions, \* rows of chance_transactions
    chanceTotal,        \* sum of chance_transactions.chanceAmount
    mintLedger,         \* sum of mint_credit_ledger.delta
    vouchers,           \* how many mint vouchers were issued
    invitedBy,          \* users.invitedBy, as the user the code belongs to
    referralLogs,       \* rows of referral_logs
    \* History: nothing in the code reads these.
    spent,              \* chances consumed
    unlogged,           \* balance changes saved, their points row not yet inserted
    fractions,          \* how many of a user's balance changes were no whole cents
    fresh,              \* fresh[r]: rows unchanged since request r read them
    raced               \* users over whose row a stale entity was saved

ledgers == <<pointsTotal, chanceTransactions, chanceTotal, mintLedger, vouchers>>
referrals == <<invitedBy, referralLogs>>
vars == <<users, registered, req, ledgers, referrals, spent, unlogged, fractions,
          fresh, raced>>

-----------------------------------------------------------------------------
Columns == {"ninjaBalance", "chanceRemaining", "chanceCooldownEndsAt",
            "mintCreditsRemaining", "catMintNonce", "walletAddress"}

\* walletAddress is kept as "is not NULL": each user has one wallet of its own.
Row == [ninjaBalance : Nat, chanceRemaining : Nat, chanceCooldownEndsAt : Nat,
        mintCreditsRemaining : Nat, catMintNonce : Nat, walletAddress : BOOLEAN]

Operations == {"none", "chat", "admin", "register", "login", "webhook", "ensure"}
Stages == {"new", "insert", "bonus", "inviter", "charge", "select", "update",
           "ledger", "log", "ingest", "done", "failed"}

\* caller: the credential the call is about; user: whose row entity holds.
Request == [op : Operations, stage : Stages, caller : Users \cup {None},
            user : Users \cup {None}, inviter : Users \cup {None}, wallet : BOOLEAN,
            entity : Row, delta : Int, dirty : SUBSET Columns]

\* The row createUser inserts: every other column takes its default.
InitialRow(wallet) ==
    [ninjaBalance |-> INITIAL_BONUS, chanceRemaining |-> 0,
     chanceCooldownEndsAt |-> 0, mintCreditsRemaining |-> 0,
     catMintNonce |-> 0, walletAddress |-> wallet]

NoRow == [InitialRow(FALSE) EXCEPT !.ninjaBalance = 0]

NewRequest == [op |-> "none", stage |-> "new", caller |-> None, user |-> None,
               inviter |-> None, wallet |-> FALSE, entity |-> NoRow, delta |-> 0,
               dirty |-> {}]

RowsOK == users \in [Users -> Row] /\ registered \subseteq Users

CentsOK == \A u \in Users : Whole(users[u].ninjaBalance)

RequestsOK == req \in [Requests -> Request] /\ fresh \in [Requests -> SUBSET Users]

LedgersOK ==
    /\ pointsTotal \in [Users -> Int]
    /\ chanceTransactions \subseteq Purchases
    /\ chanceTotal \in [Users -> Nat]
    /\ mintLedger \in [Users -> Int]
    /\ vouchers \in [Users -> Nat]

ReferralsOK ==
    /\ invitedBy \in [Users -> Users \cup {None}]
    /\ referralLogs \subseteq [inviter : Users, invitee : Users]

HistoryOK ==
    /\ spent \in [Users -> Nat]
    /\ unlogged \in [Users -> Int]
    /\ fractions \in [Users -> Nat]
    /\ raced \subseteq Users

\* Every column keeps its type: balances are whole cents, and no handler takes a
\* balance, a count of chances or of mint credits below zero.  (README.md:232
\* says that a balance may be deducted below zero; each debit of the code is
\* clamped or refused before that.)
TypeOK == RowsOK /\ CentsOK /\ RequestsOK /\ LedgersOK /\ ReferralsOK /\ HistoryOK

Init ==
    /\ users = [u \in Users |-> IF u \in Existing THEN InitialRow(TRUE) ELSE NoRow]
    /\ registered = Existing
    /\ req = [r \in Requests |-> NewRequest]
    /\ pointsTotal = [u \in Users |-> IF u \in Existing THEN INITIAL_BONUS ELSE 0]
    /\ chanceTransactions = {}
    /\ chanceTotal = [u \in Users |-> 0]
    /\ mintLedger = [u \in Users |-> 0]
    /\ vouchers = [u \in Users |-> 0]
    /\ invitedBy = [u \in Users |-> None]
    /\ referralLogs = {}
    /\ spent = [u \in Users |-> 0]
    /\ unlogged = [u \in Users |-> 0]
    /\ fractions = [u \in Users |-> 0]
    /\ fresh = [r \in Requests |-> {}]
    /\ raced = {}

-----------------------------------------------------------------------------
(* Locked handlers: one transaction on one row, read FOR UPDATE.           *)

Larger(a, b) == IF a >= b THEN a ELSE b

\* What a decimal column keeps of an amount: the nearest multiple of its unit,
\* and of two as near the one further from zero.
RoundTo(amount, unit) ==
    LET rest == amount % unit IN
    IF 2 * rest > unit \/ (2 * rest = unit /\ amount > 0)
    THEN amount - rest + unit ELSE amount - rest

ToCents(amount) == RoundTo(amount, Cent)
ToLedger(amount) == RoundTo(amount, LedgerUnit)

\* A change of the balance of u by amount is saved.
CountFraction(u, amount) ==
    fractions' = [fractions EXCEPT ![u] = IF Whole(amount) THEN @ ELSE @ + 1]

UncheckedSum(current, signed) == current + signed   \* mutation: no clamp
\* The balance a signed change leaves: Math.max(0, ...).
Clamped(current, signed) == Larger(0, current + signed)

RequestedDelta(current, signed) == signed           \* mutation: logs what was asked
\* What a clamped change really applied: the amount its points row carries.
AppliedDelta(current, signed) == Clamped(current, signed) - current

LatestTarget(current, target) == target             \* mutation: last writer wins
ExtendCooldown(current, target) == Larger(current, target)

\* A committed write of row u makes the copy any request holds of it stale.
CommitRow(u, row) ==
    /\ users' = [users EXCEPT ![u] = row]
    /\ fresh' = [r \in Requests |-> fresh[r] \ {u}]

\* A points row, its amount rounded to what the column holds.
LogPoints(u, amount) == pointsTotal' = [pointsTotal EXCEPT ![u] = @ + ToLedger(amount)]

(* PointsService.syncNinja.  Whether a chance is consumed is asked by the  *)
(* caller or inferred from the miner state in Redis; an active cooldown    *)
(* does not stop the settlement, the chance is deducted all the same.      *)
SyncNinja(u, earned, consumeChance, cooldownTarget) ==
    LET row == users[u]
        used == IF consumeChance THEN 1 ELSE 0
    IN
    /\ u \in registered
    /\ row.ninjaBalance + earned <= MaxBalance
    /\ Whole(earned) \/ fractions[u] < MaxFractions
    /\ row.chanceRemaining >= used
    /\ CommitRow(u,
         [row EXCEPT
            !.ninjaBalance = ToCents(@ + earned),
            !.chanceRemaining = @ - used,
            !.chanceCooldownEndsAt =
                IF consumeChance THEN ExtendCooldown(@, cooldownTarget) ELSE @])
    /\ LogPoints(u, earned)
    /\ CountFraction(u, earned)
    /\ spent' = [spent EXCEPT ![u] = @ + used]
    /\ UNCHANGED <<registered, req, chanceTransactions, chanceTotal, mintLedger,
                   vouchers, referrals, unlogged, raced>>

(* PointsService.consumeChance.  now is read before the row lock is taken, *)
(* on the clock of the instance that serves the call.                      *)
ConsumeChance(u, now, cooldownEndsAt) ==
    /\ u \in registered
    /\ users[u].chanceRemaining > 0
    /\ users[u].chanceCooldownEndsAt <= now
    /\ cooldownEndsAt > now
    /\ CommitRow(u, [users[u] EXCEPT !.chanceRemaining = @ - 1,
                                     !.chanceCooldownEndsAt = cooldownEndsAt])
    /\ spent' = [spent EXCEPT ![u] = @ + 1]
    /\ UNCHANGED <<registered, req, ledgers, referrals, unlogged, fractions, raced>>

(* PointsService.adjustNinjaBalance: the amount is rounded to cents first, *)
(* a debit is clamped at zero and what was really applied is logged; a     *)
(* debit that applies nothing is refused.  (The handler also rounds the    *)
(* new balance and what it applied, which are whole cents already.)        *)
AdjustNinjaBalance(u, amount, operation) ==
    LET current == users[u].ninjaBalance
        safeAmount == ToCents(amount)
        signed == IF operation = "debit" THEN -safeAmount ELSE safeAmount
        next == Clamped(current, signed)
    IN
    /\ u \in registered
    /\ next <= MaxBalance
    /\ operation = "debit" => next # current
    /\ CommitRow(u, [users[u] EXCEPT !.ninjaBalance = next])
    /\ LogPoints(u, AppliedDelta(current, signed))
    /\ UNCHANGED <<registered, req, chanceTransactions, chanceTotal, mintLedger,
                   vouchers, referrals, spent, unlogged,
                   fractions, raced>>

(* CatNftService.issueMintVoucher: credits become a voucher whose nonce is *)
(* the row's next one.  Signing follows the commit.                        *)
IssueMintVoucher(u, quantity) ==
    /\ u \in registered
    /\ users[u].walletAddress
    /\ users[u].mintCreditsRemaining >= quantity
    /\ CommitRow(u, [users[u] EXCEPT !.mintCreditsRemaining = @ - quantity,
                                     !.catMintNonce = @ + 1])
    /\ mintLedger' = [mintLedger EXCEPT ![u] = @ - quantity]
    /\ vouchers' = [vouchers EXCEPT ![u] = @ + 1]
    /\ UNCHANGED <<registered, req, pointsTotal, chanceTransactions, chanceTotal,
                   referrals, spent, unlogged,
                   fractions, raced>>

MintCredits(p) ==
    CASE p.product = "go"  -> 1
      [] p.product = "pro" -> 2
      [] p.product = "max" -> 3
      [] p.product = "plan" -> IF p.chances >= 30 THEN 3
                               ELSE IF p.chances >= 12 THEN 2
                               ELSE IF p.chances >= 3 THEN 1 ELSE 0

PurchasesOf(u) == {p \in Purchases : p.user = u}
SameLog(p) == p \in chanceTransactions               \* mutation: unique per log
\* chance_transactions."txHash" is UNIQUE: the insert is ignored.
Duplicate(p) == \E q \in chanceTransactions : q.txHash = p.txHash

(* The transaction of AdminService.ingestChancePurchase.  The unique       *)
(* txHash of chance_transactions turns a repeated notification into a no-op.*)
CreditPurchase(p) ==
    /\ ~Duplicate(p)
    /\ chanceTransactions' = chanceTransactions \cup {p}
    /\ CommitRow(p.user,
         [users[p.user] EXCEPT
            !.chanceRemaining = @ + p.chances,
            !.chanceCooldownEndsAt = ExtendCooldown(@, p.cooldownEndsAt),
            !.mintCreditsRemaining = @ + MintCredits(p)])
    /\ chanceTotal' = [chanceTotal EXCEPT ![p.user] = @ + p.chances]
    /\ mintLedger' = [mintLedger EXCEPT ![p.user] = @ + MintCredits(p)]
    /\ UNCHANGED <<registered, pointsTotal, vouchers, referrals, spent, unlogged,
                   fractions, raced>>

\* The webhook finds the buyer's row by its wallet and goes straight to the
\* transaction: the lookup alone changes nothing.
IngestChancePurchase(p) ==
    /\ p.user \in registered
    /\ users[p.user].walletAddress
    /\ CreditPurchase(p)
    /\ UNCHANGED req

-----------------------------------------------------------------------------
(* Unlocked handlers: how a request starts.                                *)

Accepts(r, op) == op \in Handlers /\ req[r].stage = "new"

\* The webhook is called for a purchase.
Called(op, u) == op = "webhook" => PurchasesOf(u) # {}

\* The entity read (or returned by createUser), changed in memory and handed
\* to repository.save.
Saving(op, caller, u, inviter, wallet, entity, delta) ==
    [op |-> op, stage |-> "select", caller |-> caller, user |-> u,
     inviter |-> inviter, wallet |-> wallet, entity |-> entity,
     delta |-> delta, dirty |-> {}]

ReadRow(r, u) == fresh' = [fresh EXCEPT ![r] = @ \cup {u}]

(* AiService.recordChat on an existing row: the balance check and the      *)
(* deduction both use the copy read here.  A chat the balance cannot pay   *)
(* changes nothing.                                                        *)
RecordChat(r, u, cost) ==
    /\ Accepts(r, "chat")
    /\ u \in registered
    /\ users[u].ninjaBalance >= cost
    /\ req' = [req EXCEPT ![r] =
         Saving("chat", u, u, None, FALSE,
                [users[u] EXCEPT !.ninjaBalance = @ - cost], -cost)]
    /\ ReadRow(r, u)
    /\ UNCHANGED <<users, registered, ledgers, referrals, spent, unlogged,
                   fractions, raced>>

(* AdminService.adjustUserBalance: set and increment both end in a target  *)
(* balance computed from the copy read here, clamped at zero.              *)
AdjustUserBalance(r, u, amount, mode) ==
    LET current == users[u].ninjaBalance
        next == IF mode = "set" THEN Larger(0, amount) ELSE Clamped(current, amount)
    IN
    /\ Accepts(r, "admin")
    /\ u \in registered
    /\ next <= MaxBalance
    /\ req' = [req EXCEPT ![r] =
         Saving("admin", u, u, None, FALSE,
                [users[u] EXCEPT !.ninjaBalance = next], next - current)]
    /\ ReadRow(r, u)
    /\ UNCHANGED <<users, registered, ledgers, referrals, spent, unlogged,
                   fractions, raced>>

(* createUser, ensureUserExistsWithWalletAddress or the webhook on a row   *)
(* without a wallet address: the wallet is filled in by an unlocked save.  *)
BackfillWallet(r, u, op) ==
    /\ Accepts(r, op)
    /\ u \in registered
    /\ ~users[u].walletAddress
    /\ Called(op, u)
    /\ req' = [req EXCEPT ![r] =
         Saving(op, u, u, None, TRUE, [users[u] EXCEPT !.walletAddress = TRUE], 0)]
    /\ ReadRow(r, u)
    /\ UNCHANGED <<users, registered, ledgers, referrals, spent, unlogged,
                   fractions, raced>>

(* UserService.createUser up to its insert: no row for the credential was  *)
(* found, and the invite code, if any, is some user's.  Only a             *)
(* registration carries a code.  A chat, and a handler that only ensures   *)
(* the row exists ("ensure": syncNinja, adjustNinjaBalance, the profile),  *)
(* create it without a wallet.                                             *)
CreateUser(r, u, op, inviter, wallet) ==
    /\ Accepts(r, op)
    /\ u \notin registered
    /\ inviter \in registered \cup {None}
    /\ inviter # None => op = "register"
    /\ op \in {"chat", "ensure"} => ~wallet
    /\ op = "webhook" => wallet
    /\ Called(op, u)
    /\ req' = [req EXCEPT ![r] =
         [Saving(op, u, u, inviter, wallet, NoRow, 0) EXCEPT !.stage = "insert"]]
    /\ UNCHANGED <<users, registered, ledgers, referrals, spent, unlogged, fractions,
                   fresh, raced>>

-----------------------------------------------------------------------------
(* Unlocked handlers: how a request advances, one statement at a time.     *)

Advance(r, stage) == req' = [req EXCEPT ![r].stage = stage]
End(r, stage) == req' = [req EXCEPT ![r] = [NewRequest EXCEPT !.stage = stage]]

NeverTaken(u) == FALSE                               \* mutation: no unique index
CredentialTaken(u) == u \in registered

(* The insert of the new row; the unique credentialId fails the second of  *)
(* two concurrent creations.                                               *)
InsertUser(r) ==
    LET u == req[r].caller IN
    /\ req[r].stage = "insert"
    /\ IF CredentialTaken(u)
       THEN /\ End(r, "failed")
            /\ UNCHANGED <<users, registered, invitedBy, unlogged, fresh>>
       ELSE /\ registered' = registered \cup {u}
            /\ users' = [users EXCEPT ![u] = InitialRow(req[r].wallet)]
            /\ invitedBy' = [invitedBy EXCEPT ![u] = req[r].inviter]
            /\ unlogged' = [unlogged EXCEPT ![u] = @ + INITIAL_BONUS]
            /\ fresh' = [q \in Requests |-> IF q = r THEN {u} ELSE fresh[q] \ {u}]
            /\ Advance(r, "bonus")
    /\ UNCHANGED <<ledgers, referralLogs, spent, fractions, raced>>

\* What the handler does once createUser has recorded the initial bonus.
AfterBonus(rq) ==
    IF rq.inviter # None THEN "inviter"
    ELSE IF rq.op = "chat" THEN "charge"
    ELSE IF rq.op = "webhook" THEN "ingest" ELSE "done"

RecordBonus(r) ==
    LET u == req[r].caller IN
    /\ req[r].stage = "bonus"
    /\ LogPoints(u, INITIAL_BONUS)
    /\ unlogged' = [unlogged EXCEPT ![u] = @ - INITIAL_BONUS]
    /\ IF AfterBonus(req[r]) \in {"ingest", "done"}
       THEN fresh' = [fresh EXCEPT ![r] = {}]
       ELSE UNCHANGED fresh
    /\ IF AfterBonus(req[r]) = "done" THEN End(r, "done") ELSE Advance(r, AfterBonus(req[r]))
    /\ UNCHANGED <<users, registered, chanceTransactions, chanceTotal, mintLedger,
                   vouchers, referrals, spent, fractions, raced>>

(* recordChat goes on with the entity createUser returned, read or not     *)
(* since.                                                                  *)
ChargeNewUser(r, cost) ==
    /\ req[r].stage = "charge"
    /\ IF INITIAL_BONUS >= cost
       THEN /\ req' = [req EXCEPT ![r] =
                 Saving("chat", req[r].caller, req[r].caller, None, FALSE,
                        [InitialRow(FALSE) EXCEPT !.ninjaBalance = @ - cost], -cost)]
            /\ UNCHANGED fresh
       ELSE /\ End(r, "done")
            /\ fresh' = [fresh EXCEPT ![r] = {}]
    /\ UNCHANGED <<users, registered, ledgers, referrals, spent, unlogged,
                   fractions, raced>>

(* processReferralReward: the inviter's row is read and its reward added.  *)
ReadInviter(r) ==
    LET rq == req[r] IN
    /\ rq.stage = "inviter"
    /\ req' = [req EXCEPT ![r] =
         Saving(rq.op, rq.caller, rq.inviter, rq.inviter, rq.wallet,
                [users[rq.inviter] EXCEPT !.ninjaBalance = @ + INVITER_REWARD],
                INVITER_REWARD)]
    /\ ReadRow(r, rq.inviter)
    /\ UNCHANGED <<users, registered, ledgers, referrals, spent, unlogged,
                   fractions, raced>>

\* What these handlers assign to the balance is a number, and the driver returns
\* the column as text: the two differ even where they say the same.
AssignsBalance(rq) == rq.op \in {"chat", "admin"} \/ rq.inviter # None

\* The columns in which the entity differs from the row in the table.
Dirty(rq) == {c \in Columns : \/ rq.entity[c] # users[rq.user][c]
                              \/ c = "ninjaBalance" /\ AssignsBalance(rq)}

(* repository.save, first half: SELECT the row and compare.                *)
SaveSelect(r) ==
    /\ req[r].stage = "select"
    /\ req' = [req EXCEPT ![r].stage = "update", ![r].dirty = Dirty(req[r])]
    /\ UNCHANGED <<users, registered, ledgers, referrals, spent, unlogged, fractions,
                   fresh, raced>>

\* Row current with the columns in dirty taken from entity; the balance, which
\* the code computes to any fraction of a cent, is rounded by its column.
Overwrite(current, entity, dirty) ==
    [ninjaBalance |->
        IF "ninjaBalance" \in dirty THEN ToCents(entity.ninjaBalance) ELSE current.ninjaBalance,
     chanceRemaining |->
        IF "chanceRemaining" \in dirty THEN entity.chanceRemaining ELSE current.chanceRemaining,
     chanceCooldownEndsAt |->
        IF "chanceCooldownEndsAt" \in dirty
        THEN entity.chanceCooldownEndsAt ELSE current.chanceCooldownEndsAt,
     mintCreditsRemaining |->
        IF "mintCreditsRemaining" \in dirty
        THEN entity.mintCreditsRemaining ELSE current.mintCreditsRemaining,
     catMintNonce |->
        IF "catMintNonce" \in dirty THEN entity.catMintNonce ELSE current.catMintNonce,
     walletAddress |->
        IF "walletAddress" \in dirty THEN entity.walletAddress ELSE current.walletAddress]

(* What follows a save and its ledger row.  After the inviter's reward the *)
(* invitee's is saved with the entity createUser inserted; after that the  *)
(* referral is logged.                                                     *)
Continue(rq) ==
    IF rq.op = "register" /\ rq.user # rq.caller
    THEN Saving(rq.op, rq.caller, rq.caller, rq.inviter, rq.wallet,
                [InitialRow(rq.wallet) EXCEPT !.ninjaBalance = @ + INVITEE_REWARD],
                INVITEE_REWARD)
    ELSE IF rq.inviter # None THEN [rq EXCEPT !.stage = "log"]
    ELSE IF rq.op = "webhook" THEN [rq EXCEPT !.stage = "ingest"]
    ELSE [NewRequest EXCEPT !.stage = "done"]

OnlyEarnings(rq) ==                                  \* mutation: spending unlogged
    IF rq.delta > 0 THEN [rq EXCEPT !.stage = "ledger"] ELSE Continue(rq)
AfterSave(rq) ==
    IF rq.delta # 0 THEN [rq EXCEPT !.stage = "ledger"] ELSE Continue(rq)

(* repository.save, second half: UPDATE the dirty columns.                 *)
SaveUpdate(r) ==
    LET rq == req[r]
        u == rq.user
    IN
    /\ rq.stage = "update"
    /\ IF rq.dirty # {}
       THEN CommitRow(u, Overwrite(users[u], rq.entity, rq.dirty))
       ELSE users' = users /\ fresh' = [fresh EXCEPT ![r] = @ \ {u}]
    /\ unlogged' = [unlogged EXCEPT ![u] = @ + ToLedger(rq.delta)]
    /\ CountFraction(u, rq.delta)
    /\ raced' = IF u \in fresh[r] \/ (rq.dirty = {} /\ rq.delta = 0)
                THEN raced ELSE raced \cup {u}
    /\ req' = [req EXCEPT ![r] = AfterSave(rq)]
    /\ UNCHANGED <<registered, ledgers, referrals, spent>>

PointsOwner(rq) == rq.user

(* The points_transactions row of the save.                                *)
RecordPoints(r) ==
    LET rq == req[r] IN
    /\ rq.stage = "ledger"
    /\ LogPoints(PointsOwner(rq), rq.delta)
    /\ unlogged' = [unlogged EXCEPT ![rq.user] = @ - ToLedger(rq.delta)]
    /\ req' = [req EXCEPT ![r] = Continue(rq)]
    /\ UNCHANGED <<users, registered, chanceTransactions, chanceTotal, mintLedger,
                   vouchers, referrals, spent, fractions, fresh, raced>>

LogReferral(r) ==
    /\ req[r].stage = "log"
    /\ referralLogs' = referralLogs \cup
                        {[inviter |-> req[r].inviter, invitee |-> req[r].caller]}
    /\ End(r, "done")
    /\ UNCHANGED <<users, registered, ledgers, invitedBy, spent, unlogged, fractions,
                   fresh, raced>>

(* The webhook goes on to its transaction after it created the row or      *)
(* filled in its wallet.                                                   *)
IngestAfterEnsure(r, p) ==
    /\ req[r].stage = "ingest"
    /\ p.user = req[r].caller
    /\ \/ CreditPurchase(p)
       \/ /\ Duplicate(p)
          /\ UNCHANGED <<users, registered, ledgers, referrals, spent, unlogged,
                         fractions, fresh, raced>>
    /\ End(r, "done")

(* The instance dies, or a statement throws, between two statements.       *)
Crash(r) ==
    /\ "crash" \in Handlers
    /\ req[r].stage \notin {"new", "done", "failed"}
    /\ End(r, "failed")
    /\ fresh' = [fresh EXCEPT ![r] = {}]
    /\ UNCHANGED <<users, registered, ledgers, referrals, spent, unlogged,
                   fractions, raced>>

-----------------------------------------------------------------------------
LockedOn(u) ==
    \/ \E earned \in Earnings, consumeChance \in BOOLEAN, cooldownTarget \in Times :
          SyncNinja(u, earned, consumeChance, cooldownTarget)
    \/ \E now, cooldownEndsAt \in Times : ConsumeChance(u, now, cooldownEndsAt)
    \/ \E amount \in Earnings, operation \in {"credit", "debit"} :
          AdjustNinjaBalance(u, amount, operation)
    \/ \E quantity \in 1 .. 20 : IssueMintVoucher(u, quantity)

Start(r, u) ==
    \/ \E cost \in Costs : RecordChat(r, u, cost)
    \/ \E amount \in Adjustments, mode \in {"set", "increment"} :
          AdjustUserBalance(r, u, amount, mode)
    \/ \E op \in {"register", "login", "webhook"} : BackfillWallet(r, u, op)
    \/ \E op \in {"register", "login", "webhook", "chat", "ensure"},
          inviter \in Users \cup {None}, wallet \in BOOLEAN :
          CreateUser(r, u, op, inviter, wallet)

Step(r) ==
    \/ InsertUser(r) \/ RecordBonus(r) \/ ReadInviter(r)
    \/ \E cost \in Costs : ChargeNewUser(r, cost)
    \/ SaveSelect(r) \/ SaveUpdate(r) \/ RecordPoints(r) \/ LogReferral(r)
    \/ \E p \in Purchases : IngestAfterEnsure(r, p)
    \/ Crash(r)

Next ==
    \/ \E u \in Users : LockedOn(u)
    \/ \E p \in Purchases : IngestChancePurchase(p)
    \/ \E r \in Requests, u \in Users : Start(r, u)
    \/ \E r \in Requests : Step(r)

Spec == Init /\ [][Next]_vars

-----------------------------------------------------------------------------
(* Properties.                                                             *)

\* The balance of u is what its points rows add up to, but for what the two
\* columns have rounded off changes that were no whole cents: of each such change
\* half a cent in the row and half a unit in its points row, at most.
WithinRounding(u, total) ==
    LET slack == fractions[u] * (Cent + LedgerUnit) IN
    /\ 2 * (users[u].ninjaBalance - total) <= slack
    /\ 2 * (total - users[u].ninjaBalance) <= slack

\* The row agrees with the tables that account for it: the balance, up to
\* rounding, with the points rows (and those about to be inserted), the chances
\* with what was bought and spent, the credits with their ledger, the nonce with
\* the vouchers issued, so that no two vouchers of a user carry the same nonce.
Consistent(u) ==
    /\ WithinRounding(u, pointsTotal[u] + unlogged[u])
    /\ users[u].chanceRemaining + spent[u] = chanceTotal[u]
    /\ users[u].mintCreditsRemaining = mintLedger[u]
    /\ users[u].catMintNonce = vouchers[u]

(* Rounding apart, a users row only ever leaves its ledgers through the    *)
(* unlocked repository.save of an entity whose row another handler changed *)
(* after it was read; no other interleaving of handlers, and no crash,     *)
(* breaks it.  recordChat, adjustUserBalance and syncNinja round neither   *)
(* the balance nor the amount they log (ai.service.ts:164): each of their  *)
(* fractions moves the two apart by half a cent at most, and a user whose  *)
(* amounts all were whole cents has a row equal to its ledger.             *)
ConsistentUnlessRaced == \A u \in Users : u \notin raced => Consistent(u)

\* No request is between two statements, none died between two.
Settled == \A r \in Requests : req[r].stage \in {"new", "done"}

(* Once every request has run to its end, each balance change of a user    *)
(* not raced over has its points_transactions row (recordChat,             *)
(* adjustUserBalance and createUser insert it after the save): the rows    *)
(* add up to the balance, exactly if its changes were whole cents.         *)
SettledLedger ==
    Settled => \A u \in Users \ raced : WithinRounding(u, pointsTotal[u])

Ledger == INSTANCE PurchaseLedger
            WITH credited <- chanceTransactions, chances <- chanceTotal

(* However often and through whichever path the webhook is notified of a   *)
(* purchase, and whatever else happens to the buyer's row meanwhile, the   *)
(* handlers keep the promise of PurchaseLedger: one transaction hash is    *)
(* credited once, in one step with its chances.                            *)
RefinesPurchaseLedger == Ledger!Spec

(* Two concurrent registrations of one credential, with two invite codes,  *)
(* end in at most one referral: the loser fails on the unique credentialId *)
(* before any reward is paid.  And an invited user ends in exactly one,    *)
(* unless a request failed: createUser inserts the row with its inviter    *)
(* and awaits the bonus, both rewards and the referral one by one, and     *)
(* nothing resumes what an interruption left.                              *)
ReferredOnce ==
    /\ \A a, b \in referralLogs : a.invitee = b.invitee => a = b
    /\ Settled => \A u \in Users :
                     invitedBy[u] # None => \E log \in referralLogs : log.invitee = u

(* The end of a chance cooldown never moves back, except by a stale save:  *)
(* consumeChance, syncNinja and the webhook only ever extend it, on        *)
(* whichever instance's clock.                                             *)
CooldownNeverShortened ==
    [][\A u \in Users \ raced' :
          users'[u].chanceCooldownEndsAt >= users[u].chanceCooldownEndsAt]_vars

=============================================================================
