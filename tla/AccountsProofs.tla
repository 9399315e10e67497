--------------------------- MODULE AccountsProofs ---------------------------
(* Proofs about Accounts, for every set of users, requests and amounts: its *)
(* types, its rows and their ledgers, its referrals, and that the points   *)
(* ledger is complete once the requests have ended.                        *)
EXTENDS Accounts, FiniteSets, FiniteSetTheorems, TLAPS

USE DEF Stages, Operations, Columns

Active(rq) == rq.stage \notin {"new", "done", "failed"}

(* Whom a request at work is about, given the users that have a row. *)
BoundTo(rq, rows) ==
    /\ Active(rq) => rq.caller \in Users /\ rq.user \in Users
    /\ rq.inviter # None => rq.inviter \in rows
    /\ rq.stage \in {"inviter", "log"} => rq.inviter # None
    /\ rq.stage \in {"select", "update"} => rq.user \in rows
    /\ Active(rq) /\ rq.stage # "insert" => rq.caller \in rows

Bound == \A r \in Requests : BoundTo(req[r], registered)

\* TypeOK, but that balances are whole cents: see CentsNext.
Types == RowsOK /\ RequestsOK /\ LedgersOK /\ ReferralsOK /\ HistoryOK

TypeInv == Types /\ Bound

(* What rounding to a column does to an amount: it moves the amount by half *)
(* a unit at most, and leaves what the column can hold as it is.           *)
LEMMA CentsFacts ==
    ASSUME NEW amount \in Int
    PROVE  /\ ToCents(amount) \in Int /\ Whole(ToCents(amount))
           /\ amount \in Nat => ToCents(amount) \in Nat
           /\ 2 * (ToCents(amount) - amount) <= Cent
           /\ 2 * (amount - ToCents(amount)) <= Cent
           /\ Whole(amount) => ToCents(amount) = amount
  BY DEF ToCents, RoundTo, Whole, Cent

LEMMA LedgerFacts ==
    ASSUME NEW amount \in Int
    PROVE  /\ ToLedger(amount) \in Int
           /\ 2 * (ToLedger(amount) - amount) <= LedgerUnit
           /\ 2 * (amount - ToLedger(amount)) <= LedgerUnit
           /\ Whole(amount) => ToLedger(amount) = amount
  BY DEF ToLedger, RoundTo, Whole, LedgerUnit, Cent

LEMMA WholeSums ==
    ASSUME NEW a \in Int, NEW b \in Int, Whole(a), Whole(b)
    PROVE  Whole(a + b) /\ Whole(a - b)
  BY DEF Whole, Cent

LEMMA RowTypes ==
    /\ \A w \in BOOLEAN : InitialRow(w) \in Row
    /\ NoRow \in Row
    /\ NewRequest \in Request
  <1>1. \A w \in BOOLEAN : InitialRow(w) \in Row
    BY ConstantsAssumption DEF InitialRow, Row
  <1>2. NoRow \in Row
    BY <1>1 DEF NoRow, Row
  <1>3. NewRequest \in Request
    BY <1>2 DEF NewRequest, Request
  <1> QED BY <1>1, <1>2, <1>3

(* A row stays one when a column is given a value of its type. *)
LEMMA ColumnTypes ==
    ASSUME NEW row \in Row, NEW n \in Nat
    PROVE  /\ [row EXCEPT !.ninjaBalance = n] \in Row
           /\ [row EXCEPT !.chanceRemaining = n] \in Row
           /\ [row EXCEPT !.chanceCooldownEndsAt = n] \in Row
           /\ [row EXCEPT !.mintCreditsRemaining = n] \in Row
           /\ [row EXCEPT !.catMintNonce = n] \in Row
           /\ [row EXCEPT !.walletAddress = TRUE] \in Row
  BY DEF Row

LEMMA OverwriteType ==
    ASSUME NEW a \in Row, NEW b \in Row, NEW d \in SUBSET Columns
    PROVE  Overwrite(a, b, d) \in Row
  <1>1. ToCents(b.ninjaBalance) \in Nat
    BY CentsFacts DEF Row
  <1> QED BY <1>1 DEF Overwrite, Row

LEMMA CreditsType ==
    ASSUME NEW p \in Purchases
    PROVE  MintCredits(p) \in Nat /\ p.chances \in Nat /\ p.user \in Users
           /\ p.cooldownEndsAt \in Nat
  BY ConstantsAssumption DEF MintCredits, Purchase, Products

LEMMA CommitType ==
    ASSUME Types, NEW u \in Users, NEW row \in Row, CommitRow(u, row)
    PROVE  users' \in [Users -> Row] /\ fresh' \in [Requests -> SUBSET Users]
  BY DEF CommitRow, Types, RowsOK, RequestsOK

LEMMA SavingType ==
    ASSUME NEW op \in Operations, NEW caller \in Users, NEW u \in Users,
           NEW inviter \in Users \cup {None}, NEW wallet \in BOOLEAN,
           NEW entity \in Row, NEW delta \in Int
    PROVE  /\ Saving(op, caller, u, inviter, wallet, entity, delta) \in Request
           /\ \A rows : caller \in rows /\ u \in rows /\ (inviter # None => inviter \in rows)
                => BoundTo(Saving(op, caller, u, inviter, wallet, entity, delta), rows)
  BY DEF Saving, Request, BoundTo, Active

(* One request moves, the others stay; rows are only ever added. *)
LEMMA RequestStep ==
    ASSUME TypeInv, NEW r \in Requests, NEW q \in Request,
           req' = [req EXCEPT ![r] = q], registered \subseteq registered',
           BoundTo(q, registered')
    PROVE  req' \in [Requests -> Request] /\ Bound'
  <1>1. req' \in [Requests -> Request]
    BY DEF TypeInv, Types, RequestsOK
  <1>2. ASSUME NEW p \in Requests PROVE BoundTo(req'[p], registered')
    <2>1. CASE p = r
      BY <2>1 DEF TypeInv, Types, RequestsOK
    <2>2. CASE p # r
      <3>1. req'[p] = req[p]
        BY <2>2 DEF TypeInv, Types, RequestsOK
      <3>2. BoundTo(req[p], registered)
        BY DEF TypeInv, Bound
      <3> QED BY <3>1, <3>2 DEF BoundTo
    <2> QED BY <2>1, <2>2
  <1> QED BY <1>1, <1>2 DEF Bound

LEMMA EndedRequest ==
    ASSUME NEW stage \in {"done", "failed"}
    PROVE  /\ [NewRequest EXCEPT !.stage = stage] \in Request
           /\ \A rows : BoundTo([NewRequest EXCEPT !.stage = stage], rows)
  BY RowTypes DEF NewRequest, Request, BoundTo, Active

\* Rows and requests start with the types of TypeInv: an existing user's bonus,
\* chances and credits are natural numbers.
THEOREM TypeInit == Init => TypeInv
  <1> SUFFICES ASSUME Init PROVE TypeInv
    OBVIOUS
  <1>1. RowsOK
    BY RowTypes, ConstantsAssumption DEF Init, RowsOK
  <1>2. RequestsOK
    BY RowTypes, ConstantsAssumption DEF Init, RequestsOK
  <1>3. LedgersOK
    BY ConstantsAssumption DEF Init, LedgersOK
  <1>4. ReferralsOK
    BY DEF Init, ReferralsOK
  <1>5. HistoryOK
    BY DEF Init, HistoryOK
  <1>6. Bound
    BY DEF Init, Bound, BoundTo, Active, NewRequest
  <1> QED BY <1>1, <1>2, <1>3, <1>4, <1>5, <1>6 DEF TypeInv, Types

LEMMA FractionType ==
    ASSUME TypeInv, NEW u \in Users, NEW amount, CountFraction(u, amount)
    PROVE  fractions' \in [Users -> Nat]
  BY DEF CountFraction, TypeInv, Types, HistoryOK

(* A locked handler writes one well-formed row and well-formed ledgers. *)
LEMMA LockedType ==
    ASSUME TypeInv, NEW u \in Users, NEW row \in Row, CommitRow(u, row),
           LedgersOK', HistoryOK', UNCHANGED <<registered, req, referrals>>
    PROVE  TypeInv'
  <1>1. users' \in [Users -> Row] /\ fresh' \in [Requests -> SUBSET Users]
    BY CommitType DEF TypeInv
  <1>2. Bound'
    BY DEF TypeInv, Bound
  <1>3. RowsOK' /\ RequestsOK' /\ ReferralsOK'
    BY <1>1 DEF TypeInv, Types, RowsOK, RequestsOK, ReferralsOK, referrals
  <1> QED BY <1>2, <1>3 DEF TypeInv, Types

LEMMA SyncType ==
    ASSUME TypeInv, NEW u \in Users, NEW earned \in Earnings, NEW consumeChance \in BOOLEAN,
           NEW target \in Times, SyncNinja(u, earned, consumeChance, target)
    PROVE  TypeInv'
  <1> DEFINE n == IF consumeChance THEN 1 ELSE 0
  <1> DEFINE cooldown == IF consumeChance
                          THEN ExtendCooldown(users[u].chanceCooldownEndsAt, target)
                          ELSE users[u].chanceCooldownEndsAt
  <1> DEFINE row == [users[u] EXCEPT !.ninjaBalance = ToCents(@ + earned),
                                     !.chanceRemaining = @ - n,
                                     !.chanceCooldownEndsAt = cooldown]
  <1>1. CommitRow(u, row)
    BY DEF SyncNinja
  <1>2. users[u] \in Row /\ users[u].chanceRemaining >= n /\ n \in {0, 1} /\ earned \in Nat
    BY ConstantsAssumption DEF SyncNinja, TypeInv, Types, RowsOK
  <1>3. cooldown \in Nat
    BY <1>2, ConstantsAssumption DEF ExtendCooldown, Larger, Row
  <1>4. /\ pointsTotal' = [pointsTotal EXCEPT ![u] = @ + ToLedger(earned)]
        /\ CountFraction(u, earned)
        /\ spent' = [spent EXCEPT ![u] = @ + n]
        /\ UNCHANGED <<registered, req, chanceTransactions, chanceTotal, mintLedger,
                       vouchers, referrals, unlogged, raced>>
    BY DEF SyncNinja, LogPoints
  <1> HIDE DEF n, cooldown
  <1>5. row \in Row
    <2>1. users[u].ninjaBalance + earned \in Nat /\ users[u].chanceRemaining - n \in Nat
      BY <1>2 DEF Row
    <2>2. ToCents(users[u].ninjaBalance + earned) \in Nat
      BY <2>1, CentsFacts
    <2> QED BY <1>2, <1>3, <2>1, <2>2, ColumnTypes
  <1> HIDE DEF row
  <1>6. LedgersOK' /\ HistoryOK'
    <2>1. ToLedger(earned) \in Int /\ fractions' \in [Users -> Nat]
      BY <1>2, <1>4, LedgerFacts, FractionType
    <2>2. LedgersOK'
      BY <1>4, <2>1 DEF TypeInv, Types, LedgersOK
    <2>3. HistoryOK'
      <3>1. spent' \in [Users -> Nat]
        BY <1>2, <1>4 DEF TypeInv, Types, HistoryOK
      <3>2. unlogged' \in [Users -> Int] /\ raced' \subseteq Users
        BY <1>4 DEF TypeInv, Types, HistoryOK
      <3> QED BY <2>1, <3>1, <3>2 DEF HistoryOK
    <2> QED BY <2>2, <2>3
  <1> QED BY <1>1, <1>4, <1>5, <1>6, LockedType

LEMMA ConsumeType ==
    ASSUME TypeInv, NEW u \in Users, NEW now \in Times, NEW target \in Times,
           ConsumeChance(u, now, target)
    PROVE  TypeInv'
  <1> DEFINE row == [users[u] EXCEPT !.chanceRemaining = @ - 1, !.chanceCooldownEndsAt = target]
  <1>1. CommitRow(u, row) /\ spent' = [spent EXCEPT ![u] = @ + 1]
    BY DEF ConsumeChance
  <1>2. row \in Row
    <2>1. users[u] \in Row /\ users[u].chanceRemaining - 1 \in Nat /\ target \in Nat
      BY ConstantsAssumption DEF ConsumeChance, TypeInv, Types, RowsOK, Row
    <2> QED BY <2>1, ColumnTypes
  <1>3. LedgersOK' /\ HistoryOK' /\ UNCHANGED <<registered, req, referrals>>
    BY <1>1 DEF ConsumeChance, TypeInv, Types, LedgersOK, HistoryOK, ledgers
  <1> HIDE DEF row
  <1> QED BY <1>1, <1>2, <1>3, LockedType

LEMMA ClampedType ==
    ASSUME NEW current \in Nat, NEW signed \in Int
    PROVE  Clamped(current, signed) \in Nat /\ AppliedDelta(current, signed) \in Int
           /\ current + AppliedDelta(current, signed) = Clamped(current, signed)
  BY DEF Clamped, AppliedDelta, Larger

LEMMA AdjustType ==
    ASSUME TypeInv, NEW u \in Users, NEW amount \in Earnings, NEW operation,
           AdjustNinjaBalance(u, amount, operation)
    PROVE  TypeInv'
  <1> DEFINE safeAmount == ToCents(amount)
  <1> DEFINE signed == IF operation = "debit" THEN -safeAmount ELSE safeAmount
  <1> DEFINE current == users[u].ninjaBalance
  <1> DEFINE row == [users[u] EXCEPT !.ninjaBalance = Clamped(current, signed)]
  <1>1. /\ CommitRow(u, row)
        /\ pointsTotal' =
             [pointsTotal EXCEPT ![u] = @ + ToLedger(AppliedDelta(current, signed))]
        /\ UNCHANGED <<registered, req, chanceTransactions, chanceTotal, mintLedger,
                       vouchers, referrals, spent, unlogged, fractions, raced>>
    BY DEF AdjustNinjaBalance, LogPoints
  <1>2. users[u] \in Row /\ current \in Nat /\ signed \in Int
    <2>1. safeAmount \in Int
      BY ConstantsAssumption, CentsFacts
    <2> HIDE DEF safeAmount
    <2> QED BY <2>1 DEF TypeInv, Types, RowsOK, Row
  <1> HIDE DEF signed, current
  <1>3. row \in Row /\ AppliedDelta(current, signed) \in Int
    BY <1>2, ClampedType DEF Row
  <1> HIDE DEF row
  <1>4. LedgersOK' /\ HistoryOK'
    BY <1>1, <1>3, LedgerFacts DEF TypeInv, Types, LedgersOK, HistoryOK
  <1> QED BY <1>1, <1>3, <1>4, LockedType

LEMMA VoucherType ==
    ASSUME TypeInv, NEW u \in Users, NEW quantity \in 1 .. 20, IssueMintVoucher(u, quantity)
    PROVE  TypeInv'
  <1> DEFINE row == [users[u] EXCEPT !.mintCreditsRemaining = @ - quantity,
                                     !.catMintNonce = @ + 1]
  <1>1. /\ CommitRow(u, row)
        /\ mintLedger' = [mintLedger EXCEPT ![u] = @ - quantity]
        /\ vouchers' = [vouchers EXCEPT ![u] = @ + 1]
        /\ UNCHANGED <<registered, req, pointsTotal, chanceTransactions, chanceTotal,
                       referrals, spent, unlogged, fractions, raced>>
    BY DEF IssueMintVoucher
  <1>2. row \in Row
    <2>1. users[u] \in Row /\ users[u].mintCreditsRemaining - quantity \in Nat
          /\ users[u].catMintNonce + 1 \in Nat
      BY DEF IssueMintVoucher, TypeInv, Types, RowsOK, Row
    <2> QED BY <2>1, ColumnTypes
  <1> HIDE DEF row
  <1>3. LedgersOK' /\ HistoryOK'
    BY <1>1 DEF TypeInv, Types, LedgersOK, HistoryOK
  <1> QED BY <1>1, <1>2, <1>3, LockedType

(* The transaction of the webhook, whatever becomes of the request. *)
LEMMA CreditType ==
    ASSUME TypeInv, NEW p \in Purchases, CreditPurchase(p)
    PROVE  RowsOK' /\ LedgersOK' /\ HistoryOK' /\ ReferralsOK'
           /\ fresh' \in [Requests -> SUBSET Users] /\ registered' = registered
  <1> DEFINE u == p.user
  <1> DEFINE end == ExtendCooldown(users[u].chanceCooldownEndsAt, p.cooldownEndsAt)
  <1> DEFINE row == [users[u] EXCEPT !.chanceRemaining = @ + p.chances,
                                     !.chanceCooldownEndsAt = end,
                                     !.mintCreditsRemaining = @ + MintCredits(p)]
  <1>1. /\ CommitRow(u, row)
        /\ chanceTransactions' = chanceTransactions \cup {p}
        /\ chanceTotal' = [chanceTotal EXCEPT ![u] = @ + p.chances]
        /\ mintLedger' = [mintLedger EXCEPT ![u] = @ + MintCredits(p)]
        /\ UNCHANGED <<registered, pointsTotal, vouchers, referrals, spent, unlogged,
                       fractions, raced>>
    BY DEF CreditPurchase
  <1>2. MintCredits(p) \in Nat /\ p.chances \in Nat /\ u \in Users /\ users[u] \in Row
    BY CreditsType DEF TypeInv, Types, RowsOK
  <1>3. end \in Nat
    BY <1>2, CreditsType DEF ExtendCooldown, Larger, Row
  <1> HIDE DEF u, end
  <1>4. row \in Row
    <2>1. /\ users[u].chanceRemaining + p.chances \in Nat
          /\ users[u].mintCreditsRemaining + MintCredits(p) \in Nat
      BY <1>2 DEF Row
    <2> QED BY <1>2, <1>3, <2>1, ColumnTypes
  <1> HIDE DEF row
  <1>5. LedgersOK' /\ HistoryOK' /\ ReferralsOK'
    BY <1>1, <1>2 DEF TypeInv, Types, LedgersOK, HistoryOK, ReferralsOK, referrals
  <1>6. RowsOK' /\ fresh' \in [Requests -> SUBSET Users] /\ registered' = registered
    BY <1>1, <1>2, <1>4, CommitType DEF TypeInv, Types, RowsOK
  <1> QED BY <1>5, <1>6

LEMMA LockedStepType ==
    ASSUME TypeInv, NEW u \in Users, LockedOn(u)
    PROVE  TypeInv'
  BY SyncType, ConsumeType, AdjustType, VoucherType DEF LockedOn

LEMMA WebhookType ==
    ASSUME TypeInv, NEW p \in Purchases, IngestChancePurchase(p)
    PROVE  TypeInv'
  <1>1. CreditPurchase(p) /\ req' = req
    BY DEF IngestChancePurchase
  <1>2. RowsOK' /\ LedgersOK' /\ HistoryOK' /\ ReferralsOK'
        /\ fresh' \in [Requests -> SUBSET Users] /\ registered' = registered
    BY <1>1, CreditType
  <1>3. RequestsOK' /\ Bound'
    BY <1>1, <1>2 DEF TypeInv, Types, RequestsOK, Bound
  <1> QED BY <1>2, <1>3 DEF TypeInv, Types

(* A request starts on a copy of a row: only the request and what it has   *)
(* read change.                                                            *)
LEMMA ReadingType ==
    ASSUME TypeInv, NEW r \in Requests, NEW q \in Request, BoundTo(q, registered),
           req' = [req EXCEPT ![r] = q], fresh' \in [Requests -> SUBSET Users],
           UNCHANGED <<users, registered, ledgers, referrals, spent, unlogged,
                       fractions, raced>>
    PROVE  TypeInv'
  <1>1. req' \in [Requests -> Request] /\ Bound'
    BY RequestStep
  <1>2. RowsOK' /\ RequestsOK' /\ LedgersOK'
    BY <1>1 DEF TypeInv, Types, RowsOK, RequestsOK, LedgersOK, ledgers
  <1>3. ReferralsOK' /\ HistoryOK'
    BY DEF TypeInv, Types, ReferralsOK, HistoryOK, referrals
  <1> QED BY <1>1, <1>2, <1>3 DEF TypeInv, Types

LEMMA ReadRowType ==
    ASSUME TypeInv, NEW r \in Requests, NEW u \in Users, ReadRow(r, u)
    PROVE  fresh' \in [Requests -> SUBSET Users]
  BY DEF ReadRow, TypeInv, Types, RequestsOK

LEMMA StartType ==
    ASSUME TypeInv, NEW r \in Requests, NEW u \in Users, Start(r, u)
    PROVE  TypeInv'
  <1>0. users[u] \in Row /\ registered \subseteq Users
    BY DEF TypeInv, Types, RowsOK
  <1>1. ASSUME NEW cost \in Costs, RecordChat(r, u, cost) PROVE TypeInv'
    <2> DEFINE entity == [users[u] EXCEPT !.ninjaBalance = @ - cost]
    <2>1. /\ u \in registered
          /\ req' = [req EXCEPT ![r] = Saving("chat", u, u, None, FALSE, entity, -cost)]
          /\ ReadRow(r, u)
          /\ UNCHANGED <<users, registered, ledgers, referrals, spent, unlogged,
                         fractions, raced>>
      BY <1>1 DEF RecordChat
    <2>2. users[u].ninjaBalance - cost \in Nat /\ -cost \in Int
      BY <1>0, <1>1, ConstantsAssumption DEF RecordChat, Row
    <2>3. entity \in Row
      BY <1>0, <2>2, ColumnTypes
    <2> HIDE DEF entity
    <2> DEFINE q == Saving("chat", u, u, None, FALSE, entity, -cost)
    <2>4. q \in Request /\ BoundTo(q, registered)
      BY <2>1, <2>2, <2>3, SavingType
    <2> QED BY <2>1, <2>4, ReadingType, ReadRowType
  <1>2. ASSUME NEW amount \in Adjustments, NEW mode \in {"set", "increment"},
               AdjustUserBalance(r, u, amount, mode)
        PROVE  TypeInv'
    <2> DEFINE current == users[u].ninjaBalance
               next == IF mode = "set" THEN Larger(0, amount) ELSE Clamped(current, amount)
               entity == [users[u] EXCEPT !.ninjaBalance = next]
               q == Saving("admin", u, u, None, FALSE, entity, next - current)
    <2>1. /\ u \in registered
          /\ req' = [req EXCEPT ![r] = q]
          /\ ReadRow(r, u)
          /\ UNCHANGED <<users, registered, ledgers, referrals, spent, unlogged,
                         fractions, raced>>
      BY <1>2 DEF AdjustUserBalance
    <2>2. current \in Nat /\ amount \in Int
      BY <1>0, ConstantsAssumption DEF Row
    <2> HIDE DEF current
    <2>3. next \in Nat /\ next - current \in Int
      <3>1. Larger(0, amount) \in Nat /\ Clamped(current, amount) \in Nat
        BY <2>2, ClampedType DEF Larger
      <3>2. next \in Nat
        BY <3>1
      <3> HIDE DEF next
      <3> QED BY <2>2, <3>2
    <2> HIDE DEF next
    <2>4. entity \in Row
      BY <1>0, <2>3, ColumnTypes
    <2> HIDE DEF entity
    <2>5. q \in Request /\ BoundTo(q, registered)
      BY <2>1, <2>3, <2>4, SavingType
    <2> QED BY <2>1, <2>5, ReadingType, ReadRowType
  <1>3. ASSUME NEW op \in {"register", "login", "webhook"}, BackfillWallet(r, u, op)
        PROVE  TypeInv'
    <2> DEFINE entity == [users[u] EXCEPT !.walletAddress = TRUE]
               q == Saving(op, u, u, None, TRUE, entity, 0)
    <2>1. /\ u \in registered
          /\ req' = [req EXCEPT ![r] = q]
          /\ ReadRow(r, u)
          /\ UNCHANGED <<users, registered, ledgers, referrals, spent, unlogged,
                         fractions, raced>>
      BY <1>3 DEF BackfillWallet
    <2>2. entity \in Row
      BY <1>0, ColumnTypes
    <2> HIDE DEF entity
    <2>3. op \in Operations /\ TRUE \in BOOLEAN /\ 0 \in Int
      OBVIOUS
    <2>4. q \in Request /\ BoundTo(q, registered)
      BY <2>1, <2>2, <2>3, SavingType
    <2> QED BY <2>1, <2>4, ReadingType, ReadRowType
  <1>4. ASSUME NEW op \in {"register", "login", "webhook", "chat", "ensure"},
               NEW inviter \in Users \cup {None}, NEW wallet \in BOOLEAN,
               CreateUser(r, u, op, inviter, wallet)
        PROVE  TypeInv'
    <2> DEFINE q == [Saving(op, u, u, inviter, wallet, NoRow, 0) EXCEPT !.stage = "insert"]
    <2>1. /\ inviter \in registered \cup {None}
          /\ req' = [req EXCEPT ![r] = q]
          /\ UNCHANGED <<users, registered, ledgers, referrals, spent, unlogged,
                         fractions, fresh, raced>>
      BY <1>4 DEF CreateUser
    <2>2. q \in Request /\ BoundTo(q, registered)
      BY <2>1, RowTypes DEF Saving, Request, BoundTo, Active
    <2>3. fresh' \in [Requests -> SUBSET Users]
      BY <2>1 DEF TypeInv, Types, RequestsOK
    <2> HIDE DEF q
    <2> QED BY <2>1, <2>2, <2>3, ReadingType
  <1> QED BY <1>1, <1>2, <1>3, <1>4 DEF Start

(* The facts every step of a request starts from. *)
LEMMA AtWork ==
    ASSUME TypeInv, NEW r \in Requests, Active(req[r])
    PROVE  /\ req[r] \in Request /\ BoundTo(req[r], registered)
           /\ req[r].caller \in Users /\ req[r].user \in Users
           /\ users[req[r].user] \in Row /\ registered \subseteq Users
           /\ users \in [Users -> Row]
  BY DEF TypeInv, Types, RowsOK, RequestsOK, Bound, BoundTo

(* Moving to another stage keeps what a request is about. *)
LEMMA StageType ==
    ASSUME NEW rq \in Request, NEW rows, BoundTo(rq, rows), Active(rq), rq.caller \in rows,
           NEW stage \in {"bonus", "inviter", "charge", "ledger", "log", "ingest"},
           stage \in {"inviter", "log"} => rq.inviter # None
    PROVE  [rq EXCEPT !.stage = stage] \in Request
           /\ BoundTo([rq EXCEPT !.stage = stage], rows)
  BY DEF Request, BoundTo, Active

LEMMA ContinueType ==
    ASSUME NEW rq \in Request, NEW rows, BoundTo(rq, rows), Active(rq), rq.caller \in rows
    PROVE  Continue(rq) \in Request /\ BoundTo(Continue(rq), rows)
  <1>1. CASE rq.op = "register" /\ rq.user # rq.caller
    <2> DEFINE entity == [InitialRow(rq.wallet) EXCEPT !.ninjaBalance = @ + INVITEE_REWARD]
    <2>1. Continue(rq) = Saving(rq.op, rq.caller, rq.caller, rq.inviter, rq.wallet,
                                entity, INVITEE_REWARD)
      BY <1>1 DEF Continue
    <2>2. rq.op \in Operations /\ rq.wallet \in BOOLEAN /\ rq.caller \in Users
          /\ rq.inviter \in Users \cup {None} /\ INVITEE_REWARD \in Int
      BY ConstantsAssumption DEF Request, BoundTo
    <2>3. entity \in Row
      <3>1. InitialRow(rq.wallet) \in Row
        BY <2>2, RowTypes
      <3>2. InitialRow(rq.wallet).ninjaBalance + INVITEE_REWARD \in Nat
        BY <3>1, ConstantsAssumption DEF Row
      <3> QED BY <3>1, <3>2, ColumnTypes
    <2> HIDE DEF entity
    <2>4. rq.inviter # None => rq.inviter \in rows
      BY DEF BoundTo
    <2> DEFINE q == Saving(rq.op, rq.caller, rq.caller, rq.inviter, rq.wallet,
                           entity, INVITEE_REWARD)
    <2>5. q \in Request
      BY <2>2, <2>3, SavingType
    <2>6. BoundTo(q, rows)
      BY <2>2, <2>3, <2>4, SavingType
    <2> QED BY <2>1, <2>5, <2>6
  <1>2. CASE ~(rq.op = "register" /\ rq.user # rq.caller)
    <2>1. rq.inviter # None => /\ [rq EXCEPT !.stage = "log"] \in Request
                               /\ BoundTo([rq EXCEPT !.stage = "log"], rows)
      BY StageType
    <2>2. [rq EXCEPT !.stage = "ingest"] \in Request
          /\ BoundTo([rq EXCEPT !.stage = "ingest"], rows)
      BY StageType
    <2>3. [NewRequest EXCEPT !.stage = "done"] \in Request
          /\ BoundTo([NewRequest EXCEPT !.stage = "done"], rows)
      BY EndedRequest
    <2> QED BY <1>2, <2>1, <2>2, <2>3 DEF Continue
  <1> QED BY <1>1, <1>2

LEMMA InsertType ==
    ASSUME TypeInv, NEW r \in Requests, InsertUser(r)
    PROVE  TypeInv'
  <1> DEFINE u == req[r].caller
  <1>1. Active(req[r])
    BY DEF InsertUser, Active
  <1>2. req[r] \in Request /\ BoundTo(req[r], registered) /\ u \in Users
        /\ registered \subseteq Users /\ users \in [Users -> Row]
    BY <1>1, AtWork
  <1>3. LedgersOK' /\ UNCHANGED <<referralLogs, spent, fractions, raced>>
    BY DEF InsertUser, TypeInv, Types, LedgersOK, ledgers
  <1>4. CASE CredentialTaken(u)
    <2>1. /\ req' = [req EXCEPT ![r] = [NewRequest EXCEPT !.stage = "failed"]]
          /\ UNCHANGED <<users, registered, invitedBy, unlogged, fresh>>
      BY <1>4 DEF InsertUser, End
    <2>2. req' \in [Requests -> Request] /\ Bound'
      BY <2>1, EndedRequest, RequestStep
    <2> QED BY <1>3, <2>1, <2>2
          DEF TypeInv, Types, RowsOK, RequestsOK, ReferralsOK, HistoryOK
  <1>5. CASE ~CredentialTaken(u)
    <2>1. /\ registered' = registered \cup {u}
          /\ users' = [users EXCEPT ![u] = InitialRow(req[r].wallet)]
          /\ invitedBy' = [invitedBy EXCEPT ![u] = req[r].inviter]
          /\ unlogged' = [unlogged EXCEPT ![u] = @ + INITIAL_BONUS]
          /\ fresh' = [q \in Requests |-> IF q = r THEN {u} ELSE fresh[q] \ {u}]
          /\ req' = [req EXCEPT ![r].stage = "bonus"]
      BY <1>5 DEF InsertUser, Advance
    <2>2. req[r].wallet \in BOOLEAN /\ req[r].inviter \in Users \cup {None}
      BY <1>2 DEF Request
    <2>3. RowsOK'
      BY <1>2, <2>1, <2>2, RowTypes DEF RowsOK
    <2>4. ReferralsOK' /\ HistoryOK'
      BY <1>2, <1>3, <2>1, <2>2, ConstantsAssumption
      DEF TypeInv, Types, ReferralsOK, HistoryOK
    <2>5. fresh' \in [Requests -> SUBSET Users]
      BY <1>2, <2>1 DEF TypeInv, Types, RequestsOK
    <2> DEFINE q == [req[r] EXCEPT !.stage = "bonus"]
    <2>6. q \in Request /\ BoundTo(q, registered')
      BY <1>1, <1>2, <2>1 DEF Request, BoundTo, Active
    <2>7. req' = [req EXCEPT ![r] = q]
      BY <2>1
    <2> HIDE DEF q
    <2>8. req' \in [Requests -> Request] /\ Bound'
      BY <2>1, <2>6, <2>7, RequestStep
    <2> QED BY <1>3, <2>3, <2>4, <2>5, <2>8 DEF TypeInv, Types, RequestsOK
  <1> QED BY <1>4, <1>5

LEMMA LogType ==
    ASSUME TypeInv, NEW u \in Users, NEW amount \in Int, LogPoints(u, amount),
           UNCHANGED <<chanceTransactions, chanceTotal, mintLedger, vouchers>>
    PROVE  LedgersOK'
  BY LedgerFacts DEF LogPoints, TypeInv, Types, LedgersOK

LEMMA BonusType ==
    ASSUME TypeInv, NEW r \in Requests, RecordBonus(r)
    PROVE  TypeInv'
  <1> DEFINE u == req[r].caller
  <1>1. Active(req[r]) /\ req[r].stage = "bonus"
    BY DEF RecordBonus, Active
  <1>2. req[r] \in Request /\ BoundTo(req[r], registered) /\ u \in Users /\ u \in registered
    BY <1>1, AtWork DEF BoundTo
  <1>3. /\ LogPoints(u, INITIAL_BONUS)
        /\ unlogged' = [unlogged EXCEPT ![u] = @ - INITIAL_BONUS]
        /\ UNCHANGED <<users, registered, chanceTransactions, chanceTotal, mintLedger,
                       vouchers, referrals, spent, fractions, raced>>
    BY DEF RecordBonus
  <1>4. LedgersOK' /\ ReferralsOK' /\ HistoryOK' /\ RowsOK'
    BY <1>2, <1>3, LogType, ConstantsAssumption
    DEF TypeInv, Types, RowsOK, ReferralsOK, HistoryOK, referrals
  <1>5. fresh' \in [Requests -> SUBSET Users]
    BY DEF RecordBonus, TypeInv, Types, RequestsOK
  <1>6. req' \in [Requests -> Request] /\ Bound'
    <2>1. CASE AfterBonus(req[r]) = "done"
      BY <1>3, <2>1, EndedRequest, RequestStep DEF RecordBonus, End
    <2>2. CASE AfterBonus(req[r]) # "done"
      <3> DEFINE q == [req[r] EXCEPT !.stage = AfterBonus(req[r])]
      <3>1. /\ AfterBonus(req[r]) \in {"inviter", "charge", "ingest"}
            /\ AfterBonus(req[r]) = "inviter" => req[r].inviter # None
        BY <2>2 DEF AfterBonus
      <3>2. q \in Request /\ BoundTo(q, registered)
        BY <1>1, <1>2, <3>1, StageType
      <3>3. req' = [req EXCEPT ![r] = q]
        BY <2>2 DEF RecordBonus, Advance
      <3> HIDE DEF q
      <3> QED BY <1>3, <3>2, <3>3, RequestStep
    <2> QED BY <2>1, <2>2
  <1> QED BY <1>4, <1>5, <1>6 DEF TypeInv, Types, RequestsOK

LEMMA ChargeType ==
    ASSUME TypeInv, NEW r \in Requests, NEW cost \in Costs, ChargeNewUser(r, cost)
    PROVE  TypeInv'
  <1> DEFINE u == req[r].caller
             entity == [InitialRow(FALSE) EXCEPT !.ninjaBalance = @ - cost]
             q == Saving("chat", u, u, None, FALSE, entity, -cost)
  <1>1. u \in Users /\ u \in registered
    <2>1. Active(req[r]) /\ req[r].stage = "charge"
      BY DEF ChargeNewUser, Active
    <2> QED BY <2>1, AtWork DEF BoundTo
  <1>2. fresh' \in [Requests -> SUBSET Users]
        /\ UNCHANGED <<users, registered, ledgers, referrals, spent, unlogged,
                       fractions, raced>>
    BY DEF ChargeNewUser, TypeInv, Types, RequestsOK
  <1>3. CASE INITIAL_BONUS >= cost
    <2>1. entity \in Row
      <3>1. InitialRow(FALSE) \in Row
        BY RowTypes
      <3>2. InitialRow(FALSE).ninjaBalance - cost \in Nat
        BY <1>3, ConstantsAssumption DEF InitialRow
      <3> QED BY <3>1, <3>2, ColumnTypes
    <2>2. -cost \in Int
      BY ConstantsAssumption
    <2>3. req' = [req EXCEPT ![r] = q]
      BY <1>3 DEF ChargeNewUser
    <2> HIDE DEF u, entity
    <2>4. q \in Request /\ BoundTo(q, registered)
      BY <1>1, <2>1, <2>2, SavingType
    <2> HIDE DEF q
    <2> QED BY <1>2, <2>3, <2>4, ReadingType
  <1>4. CASE ~(INITIAL_BONUS >= cost)
    BY <1>2, <1>4, EndedRequest, ReadingType DEF ChargeNewUser, End
  <1> QED BY <1>3, <1>4

LEMMA InviterType ==
    ASSUME TypeInv, NEW r \in Requests, ReadInviter(r)
    PROVE  TypeInv'
  <1> DEFINE rq == req[r]
             entity == [users[rq.inviter] EXCEPT !.ninjaBalance = @ + INVITER_REWARD]
             q == Saving(rq.op, rq.caller, rq.inviter, rq.inviter, rq.wallet, entity,
                         INVITER_REWARD)
  <1>1. rq.stage = "inviter" /\ Active(rq)
    BY DEF ReadInviter, Active
  <1>2. rq \in Request /\ BoundTo(rq, registered) /\ registered \subseteq Users
        /\ users \in [Users -> Row] /\ rq.caller \in Users
    BY <1>1, AtWork
  <1>3. rq.inviter \in registered /\ rq.inviter \in Users /\ rq.caller \in registered
    BY <1>1, <1>2 DEF BoundTo
  <1>4. rq.op \in Operations /\ rq.wallet \in BOOLEAN /\ rq.inviter \in Users \cup {None}
        /\ INVITER_REWARD \in Int
    BY <1>2, ConstantsAssumption DEF Request
  <1>5. /\ req' = [req EXCEPT ![r] = q]
        /\ ReadRow(r, rq.inviter)
        /\ UNCHANGED <<users, registered, ledgers, referrals, spent, unlogged,
                       fractions, raced>>
    BY DEF ReadInviter
  <1>6. entity \in Row
    <2>1. users[rq.inviter] \in Row /\ users[rq.inviter].ninjaBalance + INVITER_REWARD \in Nat
      BY <1>2, <1>3, ConstantsAssumption DEF Row
    <2> QED BY <2>1, ColumnTypes
  <1> HIDE DEF entity
  <1>7. q \in Request
    BY <1>2, <1>3, <1>4, <1>6, SavingType
  <1>8. BoundTo(q, registered)
    BY <1>2, <1>3, <1>4, <1>6, SavingType
  <1> HIDE DEF q
  <1>9. fresh' \in [Requests -> SUBSET Users]
    BY <1>3, <1>5, ReadRowType
  <1> QED BY <1>5, <1>7, <1>8, <1>9, ReadingType

LEMMA SelectType ==
    ASSUME TypeInv, NEW r \in Requests, SaveSelect(r)
    PROVE  TypeInv'
  <1> DEFINE dirty == Dirty(req[r])
             q == [req[r] EXCEPT !.stage = "update", !.dirty = dirty]
  <1>1. Active(req[r]) /\ req[r].stage = "select"
    BY DEF SaveSelect, Active
  <1>2. req[r] \in Request /\ BoundTo(req[r], registered)
    BY <1>1, AtWork
  <1>3. dirty \in SUBSET Columns
    BY DEF Dirty
  <1>4. req' = [req EXCEPT ![r] = q]
    BY DEF SaveSelect, TypeInv, Types, RequestsOK
  <1> HIDE DEF dirty
  <1>5. q \in Request /\ BoundTo(q, registered)
    BY <1>1, <1>2, <1>3 DEF Request, BoundTo, Active
  <1> HIDE DEF q
  <1>6. fresh' \in [Requests -> SUBSET Users]
        /\ UNCHANGED <<users, registered, ledgers, referrals, spent, unlogged,
                       fractions, raced>>
    BY DEF SaveSelect, TypeInv, Types, RequestsOK
  <1> QED BY <1>4, <1>5, <1>6, ReadingType

LEMMA AfterSaveType ==
    ASSUME NEW rq \in Request, NEW rows, BoundTo(rq, rows), Active(rq), rq.caller \in rows
    PROVE  AfterSave(rq) \in Request /\ BoundTo(AfterSave(rq), rows)
  <1>1. [rq EXCEPT !.stage = "ledger"] \in Request
        /\ BoundTo([rq EXCEPT !.stage = "ledger"], rows)
    BY StageType
  <1> QED BY <1>1, ContinueType DEF AfterSave

LEMMA UpdateType ==
    ASSUME TypeInv, NEW r \in Requests, SaveUpdate(r)
    PROVE  TypeInv'
  <1> DEFINE rq == req[r]
             u == rq.user
             row == Overwrite(users[u], rq.entity, rq.dirty)
  <1>1. Active(rq) /\ rq.stage = "update"
    BY DEF SaveUpdate, Active
  <1>2. rq \in Request /\ BoundTo(rq, registered) /\ u \in Users /\ u \in registered
        /\ rq.caller \in registered /\ users[u] \in Row
    BY <1>1, AtWork DEF BoundTo
  <1>3. rq.entity \in Row /\ rq.dirty \in SUBSET Columns /\ rq.delta \in Int
    BY <1>2 DEF Request
  <1>4. row \in Row
    BY <1>2, <1>3, OverwriteType
  <1>5. users' \in [Users -> Row] /\ fresh' \in [Requests -> SUBSET Users]
    <2>1. CASE rq.dirty # {}
      <3>1. CommitRow(u, row)
        BY <2>1 DEF SaveUpdate
      <3> HIDE DEF row, u
      <3> QED BY <1>2, <1>4, <3>1, CommitType DEF TypeInv
    <2>2. CASE rq.dirty = {}
      BY <2>2 DEF SaveUpdate, TypeInv, Types, RowsOK, RequestsOK
    <2> QED BY <2>1, <2>2
  <1>6. /\ unlogged' = [unlogged EXCEPT ![u] = @ + ToLedger(rq.delta)]
        /\ CountFraction(u, rq.delta)
        /\ raced' \subseteq raced \cup {u}
        /\ req' = [req EXCEPT ![r] = AfterSave(rq)]
        /\ UNCHANGED <<registered, ledgers, referrals, spent>>
    BY DEF SaveUpdate
  <1>7. req' \in [Requests -> Request] /\ Bound'
    <2>1. AfterSave(rq) \in Request /\ BoundTo(AfterSave(rq), registered)
      BY <1>1, <1>2, AfterSaveType
    <2> QED BY <1>6, <2>1, RequestStep
  <1>8. LedgersOK' /\ ReferralsOK' /\ HistoryOK'
    <2>1. ToLedger(rq.delta) \in Int /\ fractions' \in [Users -> Nat]
      BY <1>2, <1>3, <1>6, LedgerFacts, FractionType
    <2>2. LedgersOK' /\ ReferralsOK'
      BY <1>6 DEF TypeInv, Types, LedgersOK, ReferralsOK, ledgers, referrals
    <2>3. HistoryOK'
      <3>1. unlogged' \in [Users -> Int]
        BY <1>2, <1>6, <2>1 DEF TypeInv, Types, HistoryOK
      <3>2. spent' \in [Users -> Nat] /\ raced' \subseteq Users
        BY <1>2, <1>6 DEF TypeInv, Types, HistoryOK
      <3> QED BY <2>1, <3>1, <3>2 DEF HistoryOK
    <2> QED BY <2>2, <2>3
  <1> QED BY <1>5, <1>6, <1>7, <1>8 DEF TypeInv, Types, RowsOK, RequestsOK

LEMMA PointsType ==
    ASSUME TypeInv, NEW r \in Requests, RecordPoints(r)
    PROVE  TypeInv'
  <1> DEFINE rq == req[r]
  <1>1. Active(rq) /\ rq.stage = "ledger"
    BY DEF RecordPoints, Active
  <1>2. rq \in Request /\ BoundTo(rq, registered) /\ rq.user \in Users
        /\ rq.caller \in registered
    BY <1>1, AtWork DEF BoundTo
  <1>3. rq.delta \in Int
    BY <1>2 DEF Request
  <1>4. /\ LogPoints(rq.user, rq.delta)
        /\ unlogged' = [unlogged EXCEPT ![rq.user] = @ - ToLedger(rq.delta)]
        /\ req' = [req EXCEPT ![r] = Continue(rq)]
        /\ UNCHANGED <<users, registered, chanceTransactions, chanceTotal, mintLedger,
                       vouchers, referrals, spent, fractions, fresh, raced>>
    BY DEF RecordPoints, PointsOwner
  <1>5. req' \in [Requests -> Request] /\ Bound'
    BY <1>1, <1>2, <1>4, ContinueType, RequestStep
  <1>6. LedgersOK'
    BY <1>2, <1>3, <1>4, LogType
  <1>7. ReferralsOK' /\ HistoryOK'
    BY <1>2, <1>3, <1>4, LedgerFacts DEF TypeInv, Types, ReferralsOK, HistoryOK, referrals
  <1> QED BY <1>4, <1>5, <1>6, <1>7 DEF TypeInv, Types, RowsOK, RequestsOK

LEMMA ReferralType ==
    ASSUME TypeInv, NEW r \in Requests, LogReferral(r)
    PROVE  TypeInv'
  <1>1. Active(req[r]) /\ req[r].stage = "log"
    BY DEF LogReferral, Active
  <1>2. req[r].inviter \in Users /\ req[r].caller \in Users
    BY <1>1, AtWork DEF BoundTo
  <1>3. req' \in [Requests -> Request] /\ Bound'
    BY EndedRequest, RequestStep DEF LogReferral, End
  <1>4. LedgersOK' /\ RowsOK' /\ HistoryOK' /\ fresh' = fresh
    BY DEF LogReferral, TypeInv, Types, LedgersOK, RowsOK, HistoryOK, ledgers
  <1>5. ReferralsOK'
    BY <1>2 DEF LogReferral, TypeInv, Types, ReferralsOK
  <1> QED BY <1>3, <1>4, <1>5 DEF TypeInv, Types, RequestsOK

LEMMA IngestType ==
    ASSUME TypeInv, NEW r \in Requests, NEW p \in Purchases, IngestAfterEnsure(r, p)
    PROVE  TypeInv'
  <1>1. /\ registered' = registered /\ RowsOK' /\ LedgersOK' /\ HistoryOK' /\ ReferralsOK'
        /\ fresh' \in [Requests -> SUBSET Users]
    <2>1. CASE CreditPurchase(p)
      BY <2>1, CreditType
    <2>2. CASE UNCHANGED <<users, registered, ledgers, referrals, spent, unlogged,
                           fractions,
                           fresh, raced>>
      BY <2>2 DEF TypeInv, Types, RowsOK, RequestsOK, LedgersOK, HistoryOK, ReferralsOK,
                  ledgers, referrals
    <2> QED BY <2>1, <2>2 DEF IngestAfterEnsure
  <1>2. req' \in [Requests -> Request] /\ Bound'
    BY <1>1, EndedRequest, RequestStep DEF IngestAfterEnsure, End
  <1> QED BY <1>1, <1>2 DEF TypeInv, Types, RequestsOK

LEMMA CrashType ==
    ASSUME TypeInv, NEW r \in Requests, Crash(r)
    PROVE  TypeInv'
  <1>1. fresh' \in [Requests -> SUBSET Users]
        /\ UNCHANGED <<users, registered, ledgers, referrals, spent, unlogged,
                       fractions, raced>>
    BY DEF Crash, TypeInv, Types, RequestsOK
  <1> QED BY <1>1, EndedRequest, ReadingType DEF Crash, End

LEMMA StepType ==
    ASSUME TypeInv, NEW r \in Requests, Step(r)
    PROVE  TypeInv'
  BY InsertType, BonusType, InviterType, ChargeType, SelectType, UpdateType, PointsType,
     ReferralType, IngestType, CrashType
  DEF Step

\* Every statement of every handler, and a crash between any two, keeps the
\* types: the debits are clamped or refused before they are written.
THEOREM TypeNext == TypeInv /\ [Next]_vars => TypeInv'
  <1> SUFFICES ASSUME TypeInv, [Next]_vars PROVE TypeInv'
    OBVIOUS
  <1>1. ASSUME NEW u \in Users, LockedOn(u) PROVE TypeInv'
    BY <1>1, LockedStepType
  <1>2. ASSUME NEW p \in Purchases, IngestChancePurchase(p) PROVE TypeInv'
    BY <1>2, WebhookType
  <1>3. ASSUME NEW r \in Requests, NEW u \in Users, Start(r, u) PROVE TypeInv'
    BY <1>3, StartType
  <1>4. ASSUME NEW r \in Requests, Step(r) PROVE TypeInv'
    BY <1>4, StepType
  <1>5. CASE UNCHANGED vars
    BY <1>5 DEF vars, ledgers, referrals, TypeInv, Types, RowsOK, RequestsOK, LedgersOK,
                ReferralsOK, HistoryOK, Bound
  <1> QED BY <1>1, <1>2, <1>3, <1>4, <1>5 DEF Next

(* A committed row keeps the balances whole cents if its own is.           *)
LEMMA CommitCents ==
    ASSUME TypeInv, CentsOK, NEW u \in Users, NEW row, CommitRow(u, row),
           Whole(row.ninjaBalance)
    PROVE  CentsOK'
  BY DEF CommitRow, CentsOK, TypeInv, Types, RowsOK, Whole

LEMMA CentsInit == Init => CentsOK
  <1>1. Whole(0)
    BY DEF Whole, Cent
  <1>2. InitialRow(TRUE).ninjaBalance = INITIAL_BONUS /\ NoRow.ninjaBalance = 0
    BY DEF InitialRow, NoRow
  <1>3. Whole(INITIAL_BONUS)
    BY ConstantsAssumption
  <1> SUFFICES ASSUME Init, NEW u \in Users PROVE Whole(users[u].ninjaBalance)
    BY DEF CentsOK
  <1>4. users[u].ninjaBalance \in {INITIAL_BONUS, 0}
    BY <1>2 DEF Init
  <1> QED BY <1>1, <1>3, <1>4

LEMMA LockedCents ==
    ASSUME TypeInv, CentsOK, NEW u \in Users, LockedOn(u)
    PROVE  CentsOK'
  <1>1. users[u] \in Row /\ Whole(users[u].ninjaBalance)
    BY DEF TypeInv, Types, RowsOK, CentsOK
  <1>2. ASSUME NEW earned \in Earnings, NEW consumeChance \in BOOLEAN, NEW target \in Times,
               SyncNinja(u, earned, consumeChance, target)
        PROVE  CentsOK'
    <2>1. PICK remaining, cooldown :
             CommitRow(u, [users[u] EXCEPT !.ninjaBalance = ToCents(@ + earned),
                                           !.chanceRemaining = remaining,
                                           !.chanceCooldownEndsAt = cooldown])
      BY <1>2 DEF SyncNinja
    <2> DEFINE row == [users[u] EXCEPT !.ninjaBalance = ToCents(@ + earned),
                                       !.chanceRemaining = remaining,
                                       !.chanceCooldownEndsAt = cooldown]
    <2>2. row.ninjaBalance = ToCents(users[u].ninjaBalance + earned)
      BY <1>1 DEF Row
    <2>3. users[u].ninjaBalance + earned \in Int
      BY <1>1, ConstantsAssumption DEF Row
    <2> HIDE DEF row
    <2>4. Whole(row.ninjaBalance)
      BY <2>2, <2>3, CentsFacts
    <2> QED BY <2>1, <2>4, CommitCents DEF row
  <1>3. ASSUME NEW now \in Times, NEW target \in Times, ConsumeChance(u, now, target)
        PROVE  CentsOK'
    <2> DEFINE row == [users[u] EXCEPT !.chanceRemaining = @ - 1,
                                       !.chanceCooldownEndsAt = target]
    <2>1. CommitRow(u, row)
      BY <1>3 DEF ConsumeChance
    <2>2. row.ninjaBalance = users[u].ninjaBalance
      BY <1>1 DEF Row
    <2> HIDE DEF row
    <2> QED BY <1>1, <2>1, <2>2, CommitCents
  <1>4. ASSUME NEW amount \in Earnings, NEW operation, AdjustNinjaBalance(u, amount, operation)
        PROVE  CentsOK'
    <2> DEFINE safeAmount == ToCents(amount)
               signed == IF operation = "debit" THEN -safeAmount ELSE safeAmount
               current == users[u].ninjaBalance
               row == [users[u] EXCEPT !.ninjaBalance = Clamped(current, signed)]
    <2>1. CommitRow(u, row)
      BY <1>4 DEF AdjustNinjaBalance
    <2>2. row.ninjaBalance = Clamped(current, signed) /\ current \in Nat
      BY <1>1 DEF Row
    <2>3. safeAmount \in Int /\ Whole(safeAmount)
      BY ConstantsAssumption, CentsFacts
    <2> HIDE DEF row, safeAmount, current
    <2>4. Whole(current + signed)
      <3>1. Whole(current + safeAmount) /\ Whole(current - safeAmount)
        <4>1. Whole(current) /\ current \in Int
          BY <1>1, <2>2 DEF current
        <4> QED BY <2>3, <4>1, WholeSums
      <3>2. current + (-safeAmount) = current - safeAmount
        BY <2>2, <2>3
      <3> QED BY <3>1, <3>2
    <2>5. Whole(0)
      BY DEF Whole, Cent
    <2>6. Clamped(current, signed) \in {0, current + signed}
      BY DEF Clamped, Larger
    <2>7. Whole(row.ninjaBalance)
      BY <2>2, <2>4, <2>5, <2>6
    <2> QED BY <2>1, <2>7, CommitCents
  <1>5. ASSUME NEW quantity \in 1 .. 20, IssueMintVoucher(u, quantity) PROVE CentsOK'
    <2> DEFINE row == [users[u] EXCEPT !.mintCreditsRemaining = @ - quantity,
                                       !.catMintNonce = @ + 1]
    <2>1. CommitRow(u, row)
      BY <1>5 DEF IssueMintVoucher
    <2>2. row.ninjaBalance = users[u].ninjaBalance
      BY <1>1 DEF Row
    <2> HIDE DEF row
    <2> QED BY <1>1, <2>1, <2>2, CommitCents
  <1> QED BY <1>2, <1>3, <1>4, <1>5 DEF LockedOn

LEMMA CreditCents ==
    ASSUME TypeInv, CentsOK, NEW p \in Purchases, CreditPurchase(p)
    PROVE  CentsOK'
  <1> DEFINE u == p.user
             row == [users[u] EXCEPT !.chanceRemaining = @ + p.chances,
                                     !.chanceCooldownEndsAt =
                                        ExtendCooldown(@, p.cooldownEndsAt),
                                     !.mintCreditsRemaining = @ + MintCredits(p)]
  <1>1. CommitRow(u, row)
    BY DEF CreditPurchase
  <1>2. u \in Users /\ users[u] \in Row /\ Whole(users[u].ninjaBalance)
    BY CreditsType DEF TypeInv, Types, RowsOK, CentsOK
  <1>3. row.ninjaBalance = users[u].ninjaBalance
    BY <1>2 DEF Row
  <1> HIDE DEF u, row
  <1> QED BY <1>1, <1>2, <1>3, CommitCents

LEMMA StepCents ==
    ASSUME TypeInv, CentsOK, NEW r \in Requests, Step(r)
    PROVE  CentsOK'
  <1>0. ASSUME users' = users PROVE CentsOK'
    BY <1>0 DEF CentsOK
  <1>1. ASSUME InsertUser(r) PROVE CentsOK'
    <2>1. Active(req[r])
      BY <1>1 DEF InsertUser, Active
    <2>2. req[r].caller \in Users /\ users \in [Users -> Row]
      BY <2>1, AtWork
    <2>3. CASE users' = [users EXCEPT ![req[r].caller] = InitialRow(req[r].wallet)]
      <3>1. Whole(InitialRow(req[r].wallet).ninjaBalance)
        BY ConstantsAssumption DEF InitialRow, Whole
      <3> QED BY <2>2, <2>3, <3>1 DEF CentsOK, Whole
    <2> QED BY <1>0, <1>1, <2>3 DEF InsertUser
  <1>2. ASSUME SaveUpdate(r) PROVE CentsOK'
    <2> DEFINE rq == req[r]
               row == Overwrite(users[rq.user], rq.entity, rq.dirty)
    <2>1. Active(rq)
      BY <1>2 DEF SaveUpdate, Active
    <2>2. rq \in Request /\ rq.user \in Users /\ Whole(users[rq.user].ninjaBalance)
      BY <2>1, AtWork DEF CentsOK
    <2>3. rq.entity.ninjaBalance \in Int
      BY <2>2 DEF Request, Row
    <2>4. Whole(row.ninjaBalance)
      BY <2>2, <2>3, CentsFacts DEF Overwrite
    <2> HIDE DEF row
    <2>5. users' = users \/ CommitRow(rq.user, row)
      BY <1>2 DEF SaveUpdate, row
    <2> QED BY <1>0, <2>2, <2>4, <2>5, CommitCents
  <1>3. ASSUME NEW p \in Purchases, IngestAfterEnsure(r, p) PROVE CentsOK'
    BY <1>0, <1>3, CreditCents DEF IngestAfterEnsure
  <1> QED BY <1>0, <1>1, <1>2, <1>3
          DEF Step, RecordBonus, ReadInviter, ChargeNewUser, SaveSelect, RecordPoints,
              LogReferral, Crash

\* No handler stores a fraction of a cent: what it computes is rounded when the
\* row is saved.
LEMMA CentsNext == TypeInv /\ CentsOK /\ [Next]_vars => CentsOK'
  <1> SUFFICES ASSUME TypeInv, CentsOK, [Next]_vars PROVE CentsOK'
    OBVIOUS
  <1>1. ASSUME users' = users PROVE CentsOK'
    BY <1>1 DEF CentsOK
  <1>2. ASSUME NEW p \in Purchases, IngestChancePurchase(p) PROVE CentsOK'
    BY <1>2, CreditCents DEF IngestChancePurchase
  <1>3. ASSUME NEW r \in Requests, NEW u \in Users, Start(r, u) PROVE CentsOK'
    BY <1>1, <1>3 DEF Start, RecordChat, AdjustUserBalance, BackfillWallet, CreateUser
  <1>4. CASE UNCHANGED vars
    BY <1>1, <1>4 DEF vars
  <1> QED BY <1>2, <1>3, <1>4, LockedCents, StepCents DEF Next

(* Whatever the interleaving, every column of every row keeps its type: in *)
(* particular no handler, unlocked or locked, leaves a negative balance,   *)
(* a negative number of chances or of mint credits, although README.md:232 *)
(* says that a balance may be deducted below zero.                         *)
THEOREM TypeCorrect == Spec => []TypeOK
  <1>1. Spec => [](TypeInv /\ CentsOK)
    BY TypeInit, TypeNext, CentsInit, CentsNext, PTL DEF Spec
  <1>2. TypeInv /\ CentsOK => TypeOK
    BY DEF TypeInv, Types, TypeOK
  <1> QED BY <1>1, <1>2, PTL

-----------------------------------------------------------------------------
(* Why a users row agrees with its ledgers unless a stale copy was saved   *)
(* over it: a copy nobody overtook still equals the row, up to the change  *)
(* the request made to it.                                                 *)

SameButBalance(a, b) ==
    /\ a.chanceRemaining = b.chanceRemaining
    /\ a.chanceCooldownEndsAt = b.chanceCooldownEndsAt
    /\ a.mintCreditsRemaining = b.mintCreditsRemaining
    /\ a.catMintNonce = b.catMintNonce

\* The request created its caller's row and will go on with that entity.
Owes(rq) ==
    \/ rq.stage \in {"bonus", "inviter", "charge"}
    \/ rq.stage \in {"select", "update", "ledger"} /\ rq.user # rq.caller

(* What a request knows of the rows nobody committed since it read them.   *)
CopyOK(rq, read, rows) ==
    /\ rq.stage \in {"select", "update"} /\ rq.user \in read
        => /\ rq.entity.ninjaBalance = rows[rq.user].ninjaBalance + rq.delta
           /\ SameButBalance(rq.entity, rows[rq.user])
    /\ rq.stage = "update" /\ rq.user \in read
       /\ rq.entity.ninjaBalance # rows[rq.user].ninjaBalance
        => "ninjaBalance" \in rq.dirty
    /\ Owes(rq) /\ rq.caller \in read
        => /\ rows[rq.caller].ninjaBalance = INITIAL_BONUS
           /\ SameButBalance(rows[rq.caller], NoRow)

CopyInv == \A r \in Requests : CopyOK(req[r], fresh[r], users)

Unborn == \A u \in Users \ registered :
            users[u].ninjaBalance = 0 /\ SameButBalance(users[u], NoRow)

IInv == TypeInv /\ CentsOK /\ CopyInv /\ Unborn /\ ConsistentUnlessRaced

(* What one step does to the cooldowns: see CooldownNeverShortened.        *)
CooldownStep ==
    \A u \in Users \ raced' : users'[u].chanceCooldownEndsAt >= users[u].chanceCooldownEndsAt

(* A step that leaves everything Consistent(v) reads as it was.            *)
Untouched(v) ==
    UNCHANGED <<users[v], pointsTotal[v], unlogged[v], fractions[v], spent[v],
                chanceTotal[v], mintLedger[v], vouchers[v]>>

\* What every step guarantees beyond the types.
Sound == CopyInv' /\ Unborn' /\ ConsistentUnlessRaced' /\ CooldownStep

LEMMA UntouchedConsistent ==
    ASSUME NEW v \in Users, Untouched(v), Consistent(v)
    PROVE  Consistent(v)'
  BY DEF Untouched, Consistent, WithinRounding

(* A step that leaves the balance, its ledger and their rounding alone.    *)
LEMMA WithinKept ==
    ASSUME NEW u, WithinRounding(u, pointsTotal[u] + unlogged[u]),
           users'[u].ninjaBalance = users[u].ninjaBalance, fractions'[u] = fractions[u],
           pointsTotal'[u] + unlogged'[u] = pointsTotal[u] + unlogged[u]
    PROVE  WithinRounding(u, pointsTotal[u] + unlogged[u])'
  BY DEF WithinRounding

(* A balance and its ledger change by one amount, each rounded its own way: *)
(* they part by half a unit of each at most, by nothing on whole cents.    *)
LEMMA RoundedMove ==
    ASSUME NEW b \in Nat, NEW t \in Int, NEW k \in Nat, NEW amount \in Int, Whole(b),
           2 * (b - t) <= k * (Cent + LedgerUnit), 2 * (t - b) <= k * (Cent + LedgerUnit),
           NEW k1, k1 = IF Whole(amount) THEN k ELSE k + 1
    PROVE  /\ 2 * (ToCents(b + amount) - (t + ToLedger(amount))) <= k1 * (Cent + LedgerUnit)
           /\ 2 * ((t + ToLedger(amount)) - ToCents(b + amount)) <= k1 * (Cent + LedgerUnit)
  <1> DEFINE sum == b + amount
             row == ToCents(sum)
             logged == ToLedger(amount)
  <1>1. sum \in Int
    OBVIOUS
  <1> HIDE DEF sum
  <1>2. /\ row \in Int /\ 2 * (row - sum) <= Cent /\ 2 * (sum - row) <= Cent
        /\ Whole(sum) => row = sum
    BY <1>1, CentsFacts
  <1>3. /\ logged \in Int
        /\ 2 * (logged - amount) <= LedgerUnit /\ 2 * (amount - logged) <= LedgerUnit
        /\ Whole(amount) => logged = amount
    BY LedgerFacts
  <1>4. Whole(amount) => Whole(sum)
    BY WholeSums DEF sum
  <1> HIDE DEF row, logged
  <1>5. CASE Whole(amount)
    BY <1>2, <1>3, <1>4, <1>5 DEF sum, row, logged, Cent, LedgerUnit
  <1>6. CASE ~Whole(amount)
    <2>1. k1 * (Cent + LedgerUnit) = k * (Cent + LedgerUnit) + Cent + LedgerUnit
      BY <1>6 DEF Cent, LedgerUnit
    <2>2. /\ 2 * (row - (t + logged))
              = 2 * (b - t) + 2 * (row - sum) + 2 * (amount - logged)
          /\ 2 * ((t + logged) - row)
              = 2 * (t - b) + 2 * (sum - row) + 2 * (logged - amount)
      BY <1>2, <1>3 DEF sum
    <2>3. Cent \in Int /\ LedgerUnit \in Int /\ k * (Cent + LedgerUnit) \in Int
      BY DEF Cent, LedgerUnit
    <2> HIDE DEF sum
    <2>4. 2 * (row - (t + logged)) <= k1 * (Cent + LedgerUnit)
      BY <1>1, <1>2, <1>3, <2>1, <2>2, <2>3
    <2>5. 2 * ((t + logged) - row) <= k1 * (Cent + LedgerUnit)
      BY <1>1, <1>2, <1>3, <2>1, <2>2, <2>3
    <2> QED BY <2>4, <2>5 DEF sum, row, logged
  <1> QED BY <1>5, <1>6

(* The balance and the points rows of u take one change.                   *)
LEMMA WithinMove ==
    ASSUME IInv, NEW u \in Users, NEW amount \in Int,
           WithinRounding(u, pointsTotal[u] + unlogged[u]),
           users'[u].ninjaBalance = ToCents(users[u].ninjaBalance + amount),
           CountFraction(u, amount),
           pointsTotal'[u] + unlogged'[u] = pointsTotal[u] + unlogged[u] + ToLedger(amount)
    PROVE  WithinRounding(u, pointsTotal[u] + unlogged[u])'
  <1> DEFINE b == users[u].ninjaBalance
             t == pointsTotal[u] + unlogged[u]
             k == fractions[u]
             k1 == fractions'[u]
  <1>1. b \in Nat /\ Whole(b) /\ t \in Int /\ k \in Nat
    BY DEF IInv, CentsOK, TypeInv, Types, RowsOK, Row, LedgersOK, HistoryOK
  <1>2. k1 = IF Whole(amount) THEN k ELSE k + 1
    BY DEF CountFraction, IInv, TypeInv, Types, HistoryOK
  <1>3. 2 * (b - t) <= k * (Cent + LedgerUnit) /\ 2 * (t - b) <= k * (Cent + LedgerUnit)
    BY DEF WithinRounding
  <1>4. /\ users'[u].ninjaBalance = ToCents(b + amount)
        /\ pointsTotal'[u] + unlogged'[u] = t + ToLedger(amount)
    OBVIOUS
  <1> HIDE DEF b, t, k, k1
  <1>5. /\ 2 * (ToCents(b + amount) - (t + ToLedger(amount))) <= k1 * (Cent + LedgerUnit)
        /\ 2 * ((t + ToLedger(amount)) - ToCents(b + amount)) <= k1 * (Cent + LedgerUnit)
    BY <1>1, <1>2, <1>3, RoundedMove
  <1> QED BY <1>4, <1>5 DEF WithinRounding, k1

\* The copies a request holds can only be overtaken by a step of another.
Kept(p) == fresh'[p] \subseteq fresh[p] /\ \A v \in fresh'[p] : users'[v] = users[v]

LEMMA KeptCopy ==
    ASSUME CopyInv, NEW p \in Requests, Kept(p), req'[p] = req[p]
    PROVE  CopyOK(req'[p], fresh'[p], users')
  <1>1. CopyOK(req[p], fresh[p], users)
    BY DEF CopyInv
  <1> QED BY <1>1 DEF Kept, CopyOK

LEMMA CommitKeeps ==
    ASSUME TypeInv, NEW u \in Users, NEW row, CommitRow(u, row), NEW p \in Requests
    PROVE  Kept(p)
  BY DEF CommitRow, Kept, TypeInv, Types, RowsOK, RequestsOK

(* One request goes on as q, the others keep what they have read.          *)
LEMMA CopyStep ==
    ASSUME TypeInv, CopyInv, NEW r \in Requests, NEW q, req' = [req EXCEPT ![r] = q],
           \A p \in Requests \ {r} : Kept(p), CopyOK(q, fresh'[r], users')
    PROVE  CopyInv'
  <1>1. ASSUME NEW p \in Requests PROVE CopyOK(req'[p], fresh'[p], users')
    <2>1. CASE p = r
      <3>1. req'[p] = q
        BY <2>1 DEF TypeInv, Types, RequestsOK
      <3> QED BY <2>1, <3>1
    <2>2. CASE p # r
      <3>1. req'[p] = req[p] /\ Kept(p)
        BY <2>2 DEF TypeInv, Types, RequestsOK
      <3> QED BY <3>1, KeptCopy
    <2> QED BY <2>1, <2>2
  <1> QED BY <1>1 DEF CopyInv

(* The commit of a locked handler: it moves the row and its ledgers alike. *)
LEMMA CommitSound ==
    ASSUME IInv, NEW u \in Users, u \in registered, NEW row, CommitRow(u, row),
           UNCHANGED <<registered, raced>>, \A v \in Users \ {u} : Untouched(v),
           Consistent(u) => Consistent(u)',
           row.chanceCooldownEndsAt >= users[u].chanceCooldownEndsAt
    PROVE  Unborn' /\ ConsistentUnlessRaced' /\ CooldownStep
  <1>1. users'[u] = row /\ \A v \in Users \ {u} : users'[v] = users[v]
    BY DEF CommitRow, IInv, TypeInv, Types, RowsOK
  <1>2. Unborn'
    BY <1>1 DEF IInv, Unborn
  <1>3. ConsistentUnlessRaced'
    BY UntouchedConsistent DEF IInv, ConsistentUnlessRaced
  <1>4. CooldownStep
    <2>1. \A v \in Users : users[v] \in Row
      BY DEF IInv, TypeInv, Types, RowsOK
    <2> QED BY <1>1, <2>1 DEF CooldownStep, Row
  <1> QED BY <1>2, <1>3, <1>4

LEMMA LockedSound ==
    ASSUME IInv, NEW u \in Users, u \in registered, NEW row, CommitRow(u, row),
           UNCHANGED <<registered, req, raced>>, \A v \in Users \ {u} : Untouched(v),
           Consistent(u) => Consistent(u)',
           row.chanceCooldownEndsAt >= users[u].chanceCooldownEndsAt
    PROVE  Sound
  <1>1. CopyInv'
    BY CommitKeeps, KeptCopy DEF IInv, CopyInv
  <1> QED BY <1>1, CommitSound DEF Sound

LEMMA SyncSound ==
    ASSUME IInv, NEW u \in Users, NEW earned \in Earnings, NEW consumeChance \in BOOLEAN,
           NEW target \in Times, SyncNinja(u, earned, consumeChance, target)
    PROVE  Sound
  <1> DEFINE n == IF consumeChance THEN 1 ELSE 0
             cooldown == IF consumeChance
                          THEN ExtendCooldown(users[u].chanceCooldownEndsAt, target)
                          ELSE users[u].chanceCooldownEndsAt
             row == [users[u] EXCEPT !.ninjaBalance = ToCents(@ + earned),
                                     !.chanceRemaining = @ - n,
                                     !.chanceCooldownEndsAt = cooldown]
  <1>1. /\ CommitRow(u, row)
        /\ pointsTotal' = [pointsTotal EXCEPT ![u] = @ + ToLedger(earned)]
        /\ CountFraction(u, earned)
        /\ spent' = [spent EXCEPT ![u] = @ + n]
        /\ UNCHANGED <<registered, req, chanceTransactions, chanceTotal, mintLedger,
                       vouchers, referrals, unlogged, raced>>
        /\ u \in registered
    BY DEF SyncNinja, LogPoints
  <1>2. users[u] \in Row /\ users \in [Users -> Row] /\ n \in {0, 1} /\ earned \in Nat
    BY ConstantsAssumption DEF IInv, TypeInv, Types, RowsOK
  <1>3. cooldown >= users[u].chanceCooldownEndsAt
    BY <1>2, ConstantsAssumption DEF ExtendCooldown, Larger, Row
  <1> HIDE DEF n, cooldown
  <1>4. /\ row.ninjaBalance = ToCents(users[u].ninjaBalance + earned)
        /\ row.chanceRemaining = users[u].chanceRemaining - n
        /\ row.chanceCooldownEndsAt = cooldown
        /\ row.mintCreditsRemaining = users[u].mintCreditsRemaining
        /\ row.catMintNonce = users[u].catMintNonce
    BY <1>2 DEF Row
  <1> HIDE DEF row
  <1>5. users' = [users EXCEPT ![u] = row]
    BY <1>1 DEF CommitRow
  <1>6. \A v \in Users \ {u} : Untouched(v)
    BY <1>1, <1>2, <1>5 DEF Untouched, CountFraction, IInv, TypeInv, Types, LedgersOK, HistoryOK
  <1>7. Consistent(u) => Consistent(u)'
    <2> SUFFICES ASSUME Consistent(u) PROVE Consistent(u)'
      OBVIOUS
    <2>1. pointsTotal'[u] + unlogged'[u] = pointsTotal[u] + unlogged[u] + ToLedger(earned)
      BY <1>1, <1>2, LedgerFacts DEF IInv, TypeInv, Types, LedgersOK, HistoryOK
    <2>2. users'[u] = row
      BY <1>2, <1>5
    <2>3. WithinRounding(u, pointsTotal[u] + unlogged[u])'
      BY <1>1, <1>2, <1>4, <2>1, <2>2, WithinMove DEF Consistent
    <2> QED BY <1>1, <1>2, <1>4, <2>2, <2>3
            DEF Consistent, IInv, TypeInv, Types, LedgersOK, HistoryOK, Row
  <1> QED BY <1>1, <1>3, <1>4, <1>6, <1>7, LockedSound

LEMMA ConsumeSound ==
    ASSUME IInv, NEW u \in Users, NEW now \in Times, NEW target \in Times,
           ConsumeChance(u, now, target)
    PROVE  Sound
  <1> DEFINE row == [users[u] EXCEPT !.chanceRemaining = @ - 1, !.chanceCooldownEndsAt = target]
  <1>1. /\ CommitRow(u, row)
        /\ spent' = [spent EXCEPT ![u] = @ + 1]
        /\ UNCHANGED <<registered, req, ledgers, referrals, unlogged, fractions, raced>>
        /\ u \in registered
    BY DEF ConsumeChance
  <1>2. users[u] \in Row /\ users \in [Users -> Row]
    BY DEF IInv, TypeInv, Types, RowsOK
  <1>3. target >= users[u].chanceCooldownEndsAt
    BY <1>2, ConstantsAssumption DEF ConsumeChance, Row
  <1>4. /\ row.ninjaBalance = users[u].ninjaBalance
        /\ row.chanceRemaining = users[u].chanceRemaining - 1
        /\ row.chanceCooldownEndsAt = target
        /\ row.mintCreditsRemaining = users[u].mintCreditsRemaining
        /\ row.catMintNonce = users[u].catMintNonce
    BY <1>2 DEF Row
  <1> HIDE DEF row
  <1>5. users' = [users EXCEPT ![u] = row]
    BY <1>1 DEF CommitRow
  <1>6. \A v \in Users \ {u} : Untouched(v)
    BY <1>1, <1>2, <1>5 DEF Untouched, ledgers, IInv, TypeInv, Types, HistoryOK
  <1>7. Consistent(u) => Consistent(u)'
    <2>1. users'[u] = row
      BY <1>2, <1>5
    <2>2. UNCHANGED <<pointsTotal, unlogged, fractions, chanceTotal, mintLedger, vouchers>>
      BY <1>1 DEF ledgers
    <2>3. spent'[u] = spent[u] + 1
      BY <1>1 DEF IInv, TypeInv, Types, HistoryOK
    <2>4. spent[u] \in Nat /\ users[u].chanceRemaining \in Nat
      BY <1>2 DEF IInv, TypeInv, Types, HistoryOK, Row
    <2> QED BY <1>4, <2>1, <2>2, <2>3, <2>4, WithinKept DEF Consistent
  <1> QED BY <1>1, <1>3, <1>4, <1>6, <1>7, LockedSound

LEMMA AdjustSound ==
    ASSUME IInv, NEW u \in Users, NEW amount \in Earnings, NEW operation,
           AdjustNinjaBalance(u, amount, operation)
    PROVE  Sound
  <1> DEFINE safeAmount == ToCents(amount)
  <1> DEFINE signed == IF operation = "debit" THEN -safeAmount ELSE safeAmount
             current == users[u].ninjaBalance
             row == [users[u] EXCEPT !.ninjaBalance = Clamped(current, signed)]
  <1>1. /\ CommitRow(u, row)
        /\ pointsTotal' =
             [pointsTotal EXCEPT ![u] = @ + ToLedger(AppliedDelta(current, signed))]
        /\ UNCHANGED <<registered, req, chanceTransactions, chanceTotal, mintLedger,
                       vouchers, referrals, spent, unlogged, fractions, raced>>
        /\ u \in registered
    BY DEF AdjustNinjaBalance, LogPoints
  <1>2. users[u] \in Row /\ users \in [Users -> Row] /\ current \in Nat
        /\ signed \in Int /\ Whole(signed)
    <2>1. safeAmount \in Int /\ Whole(safeAmount)
      BY ConstantsAssumption, CentsFacts
    <2> HIDE DEF safeAmount
    <2>2. signed \in Int /\ Whole(signed)
      BY <2>1 DEF Whole, Cent
    <2> QED BY <2>2 DEF IInv, TypeInv, Types, RowsOK, Row
  <1>3. /\ row.ninjaBalance = Clamped(current, signed)
        /\ SameButBalance(row, users[u])
    BY <1>2 DEF Row, SameButBalance
  <1> HIDE DEF signed
  <1>4. AppliedDelta(current, signed) \in Int
        /\ current + AppliedDelta(current, signed) = Clamped(current, signed)
    BY <1>2, ClampedType
  <1> HIDE DEF row
  <1>5. users' = [users EXCEPT ![u] = row]
    BY <1>1 DEF CommitRow
  <1>6. \A v \in Users \ {u} : Untouched(v)
    BY <1>1, <1>2, <1>5 DEF Untouched, IInv, TypeInv, Types, LedgersOK
  <1>7. Consistent(u) => Consistent(u)'
    <2> SUFFICES ASSUME Consistent(u) PROVE Consistent(u)'
      OBVIOUS
    <2> DEFINE amt == AppliedDelta(current, signed)
    <2>1. Whole(amt)
      <3>1. Whole(current) /\ Whole(0)
        BY DEF IInv, CentsOK, Whole, Cent
      <3>2. Whole(0 - current) /\ Whole(signed)
        BY <1>2, <3>1 DEF Whole, Cent
      <3>3. amt \in {0 - current, signed}
        BY <1>2 DEF AppliedDelta, Clamped, Larger
      <3> QED BY <3>2, <3>3
    <2>2. amt \in Int /\ current + amt = Clamped(current, signed)
      BY <1>4
    <2> HIDE DEF amt
    <2>3. Whole(current + amt)
      <3>1. Whole(current) /\ current \in Int
        BY <1>2 DEF IInv, CentsOK
      <3> HIDE DEF current
      <3> QED BY <2>1, <2>2, <3>1, WholeSums
    <2>4. ToCents(current + amt) = current + amt
      BY <1>2, <2>2, <2>3, CentsFacts
    <2>5. users'[u] = row
      BY <1>2, <1>5
    <2>6. CountFraction(u, amt)
      BY <1>1, <2>1 DEF CountFraction, IInv, TypeInv, Types, HistoryOK
    <2>7. pointsTotal'[u] + unlogged'[u] = pointsTotal[u] + unlogged[u] + ToLedger(amt)
      BY <1>1, <2>2, LedgerFacts DEF amt, IInv, TypeInv, Types, LedgersOK, HistoryOK
    <2>8. WithinRounding(u, pointsTotal[u] + unlogged[u])'
      BY <1>3, <2>2, <2>4, <2>5, <2>6, <2>7, WithinMove DEF Consistent
    <2> QED BY <1>1, <1>3, <2>5, <2>8 DEF Consistent, SameButBalance
  <1>8. row.chanceCooldownEndsAt >= users[u].chanceCooldownEndsAt
    BY <1>2, <1>3 DEF SameButBalance, Row
  <1> QED BY <1>1, <1>6, <1>7, <1>8, LockedSound

LEMMA VoucherSound ==
    ASSUME IInv, NEW u \in Users, NEW quantity \in 1 .. 20, IssueMintVoucher(u, quantity)
    PROVE  Sound
  <1> DEFINE row == [users[u] EXCEPT !.mintCreditsRemaining = @ - quantity,
                                     !.catMintNonce = @ + 1]
  <1>1. /\ CommitRow(u, row)
        /\ mintLedger' = [mintLedger EXCEPT ![u] = @ - quantity]
        /\ vouchers' = [vouchers EXCEPT ![u] = @ + 1]
        /\ UNCHANGED <<registered, req, pointsTotal, chanceTransactions, chanceTotal,
                       referrals, spent, unlogged, fractions, raced>>
        /\ u \in registered
    BY DEF IssueMintVoucher
  <1>2. users[u] \in Row /\ users \in [Users -> Row]
    BY DEF IInv, TypeInv, Types, RowsOK
  <1>3. /\ row.ninjaBalance = users[u].ninjaBalance
        /\ row.chanceRemaining = users[u].chanceRemaining
        /\ row.chanceCooldownEndsAt = users[u].chanceCooldownEndsAt
        /\ row.mintCreditsRemaining = users[u].mintCreditsRemaining - quantity
        /\ row.catMintNonce = users[u].catMintNonce + 1
    BY <1>2 DEF Row
  <1> HIDE DEF row
  <1>4. users' = [users EXCEPT ![u] = row]
    BY <1>1 DEF CommitRow
  <1>5. \A v \in Users \ {u} : Untouched(v)
    BY <1>1, <1>2, <1>4 DEF Untouched, IInv, TypeInv, Types, LedgersOK
  <1>6. Consistent(u) => Consistent(u)'
    BY <1>1, <1>2, <1>3, <1>4, WithinKept
    DEF Consistent, IInv, TypeInv, Types, LedgersOK, HistoryOK, Row
  <1>7. row.chanceCooldownEndsAt >= users[u].chanceCooldownEndsAt
    BY <1>2, <1>3 DEF Row
  <1> QED BY <1>1, <1>5, <1>6, <1>7, LockedSound

LEMMA CreditSound ==
    ASSUME IInv, NEW p \in Purchases, p.user \in registered, CreditPurchase(p)
    PROVE  /\ \A q \in Requests : Kept(q)
           /\ Unborn' /\ ConsistentUnlessRaced' /\ CooldownStep
  <1> DEFINE u == p.user
             end == ExtendCooldown(users[u].chanceCooldownEndsAt, p.cooldownEndsAt)
             row == [users[u] EXCEPT !.chanceRemaining = @ + p.chances,
                                     !.chanceCooldownEndsAt = end,
                                     !.mintCreditsRemaining = @ + MintCredits(p)]
  <1>1. /\ CommitRow(u, row)
        /\ chanceTotal' = [chanceTotal EXCEPT ![u] = @ + p.chances]
        /\ mintLedger' = [mintLedger EXCEPT ![u] = @ + MintCredits(p)]
        /\ UNCHANGED <<registered, pointsTotal, vouchers, referrals, spent, unlogged,
                       fractions, raced>>
    BY DEF CreditPurchase
  <1>2. MintCredits(p) \in Nat /\ p.chances \in Nat /\ u \in Users /\ users[u] \in Row
        /\ users \in [Users -> Row] /\ p.cooldownEndsAt \in Nat
    BY CreditsType DEF IInv, TypeInv, Types, RowsOK
  <1>3. end >= users[u].chanceCooldownEndsAt
    BY <1>2 DEF ExtendCooldown, Larger, Row
  <1> HIDE DEF end
  <1>4. /\ row.ninjaBalance = users[u].ninjaBalance
        /\ row.chanceRemaining = users[u].chanceRemaining + p.chances
        /\ row.chanceCooldownEndsAt = end
        /\ row.mintCreditsRemaining = users[u].mintCreditsRemaining + MintCredits(p)
        /\ row.catMintNonce = users[u].catMintNonce
    BY <1>2 DEF Row
  <1> HIDE DEF row
  <1>5. users' = [users EXCEPT ![u] = row]
    BY <1>1 DEF CommitRow
  <1>6. \A v \in Users \ {u} : Untouched(v)
    BY <1>1, <1>2, <1>5 DEF Untouched, IInv, TypeInv, Types, LedgersOK
  <1>7. Consistent(u) => Consistent(u)'
    BY <1>1, <1>2, <1>4, <1>5, WithinKept
    DEF Consistent, IInv, TypeInv, Types, LedgersOK, HistoryOK, Row
  <1>8. \A q \in Requests : Kept(q)
    BY <1>1, <1>2, CommitKeeps DEF IInv
  <1>9. Unborn' /\ ConsistentUnlessRaced' /\ CooldownStep
    BY <1>1, <1>2, <1>3, <1>4, <1>6, <1>7, CommitSound
  <1> QED BY <1>8, <1>9

LEMMA WebhookSound ==
    ASSUME IInv, NEW p \in Purchases, IngestChancePurchase(p)
    PROVE  Sound
  <1>1. CreditPurchase(p) /\ p.user \in registered /\ req' = req
    BY DEF IngestChancePurchase
  <1>2. /\ \A q \in Requests : Kept(q)
        /\ Unborn' /\ ConsistentUnlessRaced' /\ CooldownStep
    BY <1>1, CreditSound
  <1>3. CopyInv'
    BY <1>1, <1>2, KeptCopy DEF IInv, CopyInv
  <1> QED BY <1>2, <1>3 DEF Sound

LEMMA LockedStepSound ==
    ASSUME IInv, NEW u \in Users, LockedOn(u)
    PROVE  Sound
  BY SyncSound, ConsumeSound, AdjustSound, VoucherSound DEF LockedOn

(* A step that changes no row and no ledger, only one request.             *)
LEMMA ReadingSound ==
    ASSUME IInv, NEW r \in Requests, NEW q, req' = [req EXCEPT ![r] = q],
           \A p \in Requests \ {r} : fresh'[p] = fresh[p],
           CopyOK(q, fresh'[r], users),
           UNCHANGED <<users, registered, ledgers, referrals, spent, unlogged,
                       fractions, raced>>
    PROVE  Sound
  <1>1. CopyInv'
    <2>1. \A p \in Requests \ {r} : Kept(p)
      BY DEF Kept
    <2> QED BY <2>1, CopyStep DEF IInv
  <1>2. Unborn' /\ ConsistentUnlessRaced'
    BY DEF IInv, Unborn, ConsistentUnlessRaced, Consistent, WithinRounding, ledgers
  <1>3. CooldownStep
    BY DEF CooldownStep, IInv, TypeInv, Types, RowsOK, Row
  <1> QED BY <1>1, <1>2, <1>3 DEF Sound

LEMMA StartSound ==
    ASSUME IInv, NEW r \in Requests, NEW u \in Users, Start(r, u)
    PROVE  Sound
  <1>0. users[u] \in Row
    BY DEF IInv, TypeInv, Types, RowsOK
  <1>1. ASSUME NEW cost \in Costs, RecordChat(r, u, cost) PROVE Sound
    <2> DEFINE entity == [users[u] EXCEPT !.ninjaBalance = @ - cost]
               q == Saving("chat", u, u, None, FALSE, entity, -cost)
    <2>1. /\ req' = [req EXCEPT ![r] = q]
          /\ ReadRow(r, u)
          /\ UNCHANGED <<users, registered, ledgers, referrals, spent, unlogged,
                         fractions, raced>>
      BY <1>1 DEF RecordChat
    <2>2. entity.ninjaBalance = users[u].ninjaBalance + (-cost)
          /\ SameButBalance(entity, users[u])
      BY <1>0, ConstantsAssumption DEF Row, SameButBalance
    <2> HIDE DEF entity
    <2>3. CopyOK(q, fresh'[r], users)
      BY <2>2 DEF Saving, CopyOK, Owes
    <2>4. \A p \in Requests \ {r} : fresh'[p] = fresh[p]
      BY <2>1 DEF ReadRow, IInv, TypeInv, Types, RequestsOK
    <2> HIDE DEF q
    <2> QED BY <2>1, <2>3, <2>4, ReadingSound
  <1>2. ASSUME NEW amount \in Adjustments, NEW mode \in {"set", "increment"},
               AdjustUserBalance(r, u, amount, mode)
        PROVE  Sound
    <2> DEFINE current == users[u].ninjaBalance
               next == IF mode = "set" THEN Larger(0, amount) ELSE Clamped(current, amount)
               entity == [users[u] EXCEPT !.ninjaBalance = next]
               q == Saving("admin", u, u, None, FALSE, entity, next - current)
    <2>1. /\ req' = [req EXCEPT ![r] = q]
          /\ ReadRow(r, u)
          /\ UNCHANGED <<users, registered, ledgers, referrals, spent, unlogged,
                         fractions, raced>>
      BY <1>2 DEF AdjustUserBalance
    <2>2. current \in Nat /\ amount \in Int
      BY <1>0, ConstantsAssumption DEF Row
    <2>3. next \in Nat
      <3> HIDE DEF current
      <3>1. Larger(0, amount) \in Nat /\ Clamped(current, amount) \in Nat
        BY <2>2, ClampedType DEF Larger
      <3> QED BY <3>1
    <2> HIDE DEF next
    <2>4. entity.ninjaBalance = current + (next - current)
          /\ SameButBalance(entity, users[u])
      BY <1>0, <2>2, <2>3 DEF Row, SameButBalance
    <2> HIDE DEF entity
    <2>5. CopyOK(q, fresh'[r], users)
      BY <2>4 DEF Saving, CopyOK, Owes
    <2>6. \A p \in Requests \ {r} : fresh'[p] = fresh[p]
      BY <2>1 DEF ReadRow, IInv, TypeInv, Types, RequestsOK
    <2> HIDE DEF q
    <2> QED BY <2>1, <2>5, <2>6, ReadingSound
  <1>3. ASSUME NEW op \in {"register", "login", "webhook"}, BackfillWallet(r, u, op)
        PROVE  Sound
    <2> DEFINE entity == [users[u] EXCEPT !.walletAddress = TRUE]
               q == Saving(op, u, u, None, TRUE, entity, 0)
    <2>1. /\ req' = [req EXCEPT ![r] = q]
          /\ ReadRow(r, u)
          /\ UNCHANGED <<users, registered, ledgers, referrals, spent, unlogged,
                         fractions, raced>>
      BY <1>3 DEF BackfillWallet
    <2>2. entity.ninjaBalance = users[u].ninjaBalance + 0 /\ SameButBalance(entity, users[u])
      BY <1>0 DEF Row, SameButBalance
    <2> HIDE DEF entity
    <2>3. CopyOK(q, fresh'[r], users)
      BY <2>2 DEF Saving, CopyOK, Owes
    <2>4. \A p \in Requests \ {r} : fresh'[p] = fresh[p]
      BY <2>1 DEF ReadRow, IInv, TypeInv, Types, RequestsOK
    <2> HIDE DEF q
    <2> QED BY <2>1, <2>3, <2>4, ReadingSound
  <1>4. ASSUME NEW op, NEW inviter, NEW wallet, CreateUser(r, u, op, inviter, wallet)
        PROVE  Sound
    <2> DEFINE q == [Saving(op, u, u, inviter, wallet, NoRow, 0) EXCEPT !.stage = "insert"]
    <2>1. /\ req' = [req EXCEPT ![r] = q]
          /\ UNCHANGED <<users, registered, ledgers, referrals, spent, unlogged,
                         fractions, fresh, raced>>
      BY <1>4 DEF CreateUser
    <2>2. CopyOK(q, fresh'[r], users)
      BY DEF Saving, CopyOK, Owes
    <2> HIDE DEF q
    <2> QED BY <2>1, <2>2, ReadingSound
  <1> QED BY <1>1, <1>2, <1>3, <1>4 DEF Start

LEMMA EndedCopy ==
    ASSUME NEW stage \in {"done", "failed"}, NEW read, NEW rows
    PROVE  CopyOK([NewRequest EXCEPT !.stage = stage], read, rows)
  BY DEF NewRequest, CopyOK, Owes

LEMMA ChargeSound ==
    ASSUME IInv, NEW r \in Requests, NEW cost \in Costs, ChargeNewUser(r, cost)
    PROVE  Sound
  <1> DEFINE u == req[r].caller
             entity == [InitialRow(FALSE) EXCEPT !.ninjaBalance = @ - cost]
             q == Saving("chat", u, u, None, FALSE, entity, -cost)
  <1>1. CopyOK(req[r], fresh[r], users) /\ req[r].stage = "charge"
    BY DEF IInv, CopyInv, ChargeNewUser
  <1>2. \A p \in Requests \ {r} : fresh'[p] = fresh[p]
    BY DEF ChargeNewUser, IInv, TypeInv, Types, RequestsOK
  <1>3. UNCHANGED <<users, registered, ledgers, referrals, spent, unlogged,
                    fractions, raced>>
    BY DEF ChargeNewUser
  <1>4. CASE INITIAL_BONUS >= cost
    <2>1. req' = [req EXCEPT ![r] = q] /\ fresh' = fresh
      BY <1>4 DEF ChargeNewUser
    <2>2. entity.ninjaBalance = INITIAL_BONUS + (-cost) /\ SameButBalance(entity, NoRow)
      BY ConstantsAssumption DEF InitialRow, NoRow, SameButBalance
    <2> HIDE DEF entity
    <2>3. CopyOK(q, fresh'[r], users)
      BY <1>1, <2>1, <2>2 DEF Saving, CopyOK, Owes, SameButBalance
    <2> HIDE DEF q
    <2> QED BY <1>2, <1>3, <2>1, <2>3, ReadingSound
  <1>5. CASE ~(INITIAL_BONUS >= cost)
    BY <1>2, <1>3, <1>5, EndedCopy, ReadingSound DEF ChargeNewUser, End
  <1> QED BY <1>4, <1>5

LEMMA InviterSound ==
    ASSUME IInv, NEW r \in Requests, ReadInviter(r)
    PROVE  Sound
  <1> DEFINE rq == req[r]
             entity == [users[rq.inviter] EXCEPT !.ninjaBalance = @ + INVITER_REWARD]
             q == Saving(rq.op, rq.caller, rq.inviter, rq.inviter, rq.wallet, entity,
                         INVITER_REWARD)
  <1>1. rq.stage = "inviter" /\ Active(rq)
    BY DEF ReadInviter, Active
  <1>2. CopyOK(rq, fresh[r], users)
    BY DEF IInv, CopyInv
  <1>3. rq.inviter \in Users /\ users[rq.inviter] \in Row
    BY <1>1, AtWork DEF BoundTo, IInv
  <1>4. /\ req' = [req EXCEPT ![r] = q]
        /\ fresh' = [fresh EXCEPT ![r] = @ \cup {rq.inviter}]
        /\ UNCHANGED <<users, registered, ledgers, referrals, spent, unlogged,
                       fractions, raced>>
    BY DEF ReadInviter, ReadRow
  <1>5. entity.ninjaBalance = users[rq.inviter].ninjaBalance + INVITER_REWARD
        /\ SameButBalance(entity, users[rq.inviter])
    BY <1>3, ConstantsAssumption DEF Row, SameButBalance
  <1> HIDE DEF entity
  <1>6. fresh'[r] = fresh[r] \cup {rq.inviter} /\ \A p \in Requests \ {r} : fresh'[p] = fresh[p]
    BY <1>4 DEF IInv, TypeInv, Types, RequestsOK
  <1>7. CopyOK(q, fresh'[r], users)
    BY <1>1, <1>2, <1>5, <1>6 DEF Saving, CopyOK, Owes
  <1> HIDE DEF q
  <1> QED BY <1>4, <1>6, <1>7, ReadingSound

LEMMA SelectSound ==
    ASSUME IInv, NEW r \in Requests, SaveSelect(r)
    PROVE  Sound
  <1> DEFINE rq == req[r]
             dirty == Dirty(rq)
             q == [rq EXCEPT !.stage = "update", !.dirty = dirty]
  <1>1. Active(rq) /\ rq.stage = "select"
    BY DEF SaveSelect, Active
  <1>2. rq \in Request /\ CopyOK(rq, fresh[r], users)
    BY <1>1, AtWork DEF IInv, CopyInv
  <1>3. /\ req' = [req EXCEPT ![r] = q]
        /\ UNCHANGED <<users, registered, ledgers, referrals, spent, unlogged,
                       fractions, fresh, raced>>
    BY DEF SaveSelect, IInv, TypeInv, Types, RequestsOK
  <1>4. rq.entity.ninjaBalance # users[rq.user].ninjaBalance => "ninjaBalance" \in dirty
    BY DEF Dirty, Columns
  <1> HIDE DEF dirty
  <1>5. /\ q.stage = "update" /\ q.dirty = dirty
        /\ q.user = rq.user /\ q.caller = rq.caller /\ q.entity = rq.entity /\ q.delta = rq.delta
    BY <1>2 DEF Request
  <1> HIDE DEF q
  <1>6. CopyOK(q, fresh'[r], users)
    BY <1>1, <1>2, <1>3, <1>4, <1>5 DEF CopyOK, Owes
  <1> QED BY <1>3, <1>6, ReadingSound

LEMMA CrashSound ==
    ASSUME IInv, NEW r \in Requests, Crash(r)
    PROVE  Sound
  <1>1. \A p \in Requests \ {r} : fresh'[p] = fresh[p]
    BY DEF Crash, IInv, TypeInv, Types, RequestsOK
  <1> QED BY <1>1, EndedCopy, ReadingSound DEF Crash, End

(* Moving to another stage, or going on with the save that follows.        *)
LEMMA StageCopy ==
    ASSUME NEW rq \in Request, NEW read, NEW rows, NEW stage, CopyOK(rq, read, rows),
           Owes([rq EXCEPT !.stage = stage]) => Owes(rq), stage \notin {"select", "update"}
    PROVE  CopyOK([rq EXCEPT !.stage = stage], read, rows)
  <1> DEFINE q == [rq EXCEPT !.stage = stage]
  <1>1. q.stage = stage /\ q.user = rq.user /\ q.caller = rq.caller
    BY DEF Request
  <1> HIDE DEF q
  <1>2. Owes(q) => Owes(rq)
    BY DEF q
  <1>3. CopyOK(q, read, rows)
    BY <1>1, <1>2 DEF CopyOK
  <1> QED BY <1>3 DEF q

LEMMA ContinueCopy ==
    ASSUME NEW rq \in Request, NEW read, NEW rows, rq.stage \in {"update", "ledger"},
           rq.user # rq.caller /\ rq.caller \in read
             => /\ rows[rq.caller].ninjaBalance = INITIAL_BONUS
                /\ SameButBalance(rows[rq.caller], NoRow)
    PROVE  CopyOK(Continue(rq), read, rows)
  <1>1. CASE rq.op = "register" /\ rq.user # rq.caller
    <2> DEFINE entity == [InitialRow(rq.wallet) EXCEPT !.ninjaBalance = @ + INVITEE_REWARD]
    <2>1. Continue(rq) = Saving(rq.op, rq.caller, rq.caller, rq.inviter, rq.wallet,
                                entity, INVITEE_REWARD)
      BY <1>1 DEF Continue
    <2>2. entity.ninjaBalance = INITIAL_BONUS + INVITEE_REWARD /\ SameButBalance(entity, NoRow)
      BY DEF InitialRow, NoRow, SameButBalance
    <2> HIDE DEF entity
    <2> QED BY <1>1, <2>1, <2>2 DEF Saving, CopyOK, Owes, SameButBalance
  <1>2. CASE ~(rq.op = "register" /\ rq.user # rq.caller)
    <2>1. CopyOK([rq EXCEPT !.stage = "log"], read, rows)
      BY DEF Request, CopyOK, Owes
    <2>2. CopyOK([rq EXCEPT !.stage = "ingest"], read, rows)
      BY DEF Request, CopyOK, Owes
    <2> QED BY <1>2, <2>1, <2>2, EndedCopy DEF Continue
  <1> QED BY <1>1, <1>2

LEMMA InsertSound ==
    ASSUME IInv, NEW r \in Requests, InsertUser(r)
    PROVE  Sound
  <1>1. Active(req[r])
    BY DEF InsertUser, Active
  <1> PICK u \in Users : u = req[r].caller
    BY <1>1, AtWork DEF IInv
  <1>2. req[r] \in Request /\ u = req[r].caller /\ users \in [Users -> Row] /\ users[u] \in Row
    BY <1>1, AtWork DEF IInv, TypeInv, Types, RowsOK
  <1>3. UNCHANGED <<ledgers, spent, fractions, raced>>
    BY DEF InsertUser
  <1>4. CASE CredentialTaken(u)
    <2>1. /\ req' = [req EXCEPT ![r] = [NewRequest EXCEPT !.stage = "failed"]]
          /\ UNCHANGED <<users, registered, invitedBy, unlogged, fresh>>
      BY <1>4 DEF InsertUser, End
    <2>2. CopyInv'
      BY <2>1, EndedCopy, CopyStep DEF IInv, Kept
    <2>3. Unborn' /\ ConsistentUnlessRaced'
      BY <1>3, <2>1 DEF IInv, Unborn, ConsistentUnlessRaced, Consistent, WithinRounding, ledgers
    <2>4. CooldownStep
      BY <2>1 DEF CooldownStep, IInv, TypeInv, Types, RowsOK, Row
    <2> QED BY <2>2, <2>3, <2>4 DEF Sound
  <1>5. CASE ~CredentialTaken(u)
    <2> DEFINE row == InitialRow(req[r].wallet)
               q == [req[r] EXCEPT !.stage = "bonus"]
    <2>1. /\ u \notin registered
          /\ registered' = registered \cup {u}
          /\ users' = [users EXCEPT ![u] = row]
          /\ unlogged' = [unlogged EXCEPT ![u] = @ + INITIAL_BONUS]
          /\ fresh' = [p \in Requests |-> IF p = r THEN {u} ELSE fresh[p] \ {u}]
          /\ req' = [req EXCEPT ![r] = q]
      BY <1>5 DEF InsertUser, Advance, CredentialTaken
    <2>2. row.ninjaBalance = INITIAL_BONUS /\ SameButBalance(row, NoRow)
      BY DEF InitialRow, NoRow, SameButBalance
    <2>3. users[u].ninjaBalance = 0 /\ SameButBalance(users[u], NoRow)
      BY <1>2, <2>1 DEF IInv, Unborn
    <2>4. q.stage = "bonus" /\ q.caller = u /\ q.user = req[r].user
      BY <1>2 DEF Request
    <2> HIDE DEF row, q
    <2>5. \A p \in Requests \ {r} : Kept(p)
      BY <1>2, <2>1 DEF Kept, IInv, TypeInv, Types, RequestsOK
    <2>6. CopyOK(q, fresh'[r], users')
      BY <1>2, <2>1, <2>2, <2>4 DEF CopyOK, Owes
    <2>7. CopyInv'
      BY <2>1, <2>5, <2>6, CopyStep DEF IInv
    <2>8. Unborn'
      BY <1>2, <2>1 DEF IInv, Unborn
    <2>9. ConsistentUnlessRaced'
      <3>1. \A v \in Users \ {u} : Untouched(v)
        BY <1>2, <1>3, <2>1 DEF Untouched, ledgers, IInv, TypeInv, Types, HistoryOK
      <3>2. Consistent(u) => Consistent(u)'
        <4> SUFFICES ASSUME Consistent(u) PROVE Consistent(u)'
          OBVIOUS
        <4>1. users'[u] = row /\ INITIAL_BONUS \in Int /\ Whole(INITIAL_BONUS)
          BY <1>2, <2>1, ConstantsAssumption
        <4>2. ToLedger(INITIAL_BONUS) = INITIAL_BONUS
              /\ ToCents(0 + INITIAL_BONUS) = INITIAL_BONUS
          BY <4>1, CentsFacts, LedgerFacts
        <4>3. CountFraction(u, INITIAL_BONUS)
          BY <1>3, <4>1 DEF CountFraction, IInv, TypeInv, Types, HistoryOK
        <4>4. pointsTotal'[u] + unlogged'[u]
                = pointsTotal[u] + unlogged[u] + ToLedger(INITIAL_BONUS)
          BY <1>3, <2>1, <4>1, <4>2 DEF ledgers, IInv, TypeInv, Types, LedgersOK, HistoryOK
        <4>5. WithinRounding(u, pointsTotal[u] + unlogged[u])'
          BY <2>2, <2>3, <4>1, <4>2, <4>3, <4>4, WithinMove DEF Consistent
        <4> QED BY <1>3, <2>2, <2>3, <4>1, <4>5
                DEF Consistent, SameButBalance, NoRow, InitialRow, ledgers
      <3> QED BY <1>3, <3>1, <3>2, UntouchedConsistent DEF IInv, ConsistentUnlessRaced
    <2>10. CooldownStep
      BY <1>2, <2>1, <2>2, <2>3 DEF CooldownStep, SameButBalance, Row
    <2> QED BY <2>7, <2>8, <2>9, <2>10 DEF Sound
  <1> QED BY <1>4, <1>5

LEMMA BonusSound ==
    ASSUME IInv, NEW r \in Requests, RecordBonus(r)
    PROVE  Sound
  <1>1. Active(req[r]) /\ req[r].stage = "bonus"
    BY DEF RecordBonus, Active
  <1> PICK rq \in Request : rq = req[r]
    BY <1>1, AtWork DEF IInv
  <1>2. rq.caller \in Users /\ CopyOK(rq, fresh[r], users) /\ rq.stage = "bonus"
    BY <1>1, AtWork DEF IInv, CopyInv
  <1> PICK u \in Users : u = rq.caller
    BY <1>2
  <1>3. /\ pointsTotal' = [pointsTotal EXCEPT ![u] = @ + INITIAL_BONUS]
        /\ unlogged' = [unlogged EXCEPT ![u] = @ - INITIAL_BONUS]
        /\ UNCHANGED <<users, registered, chanceTransactions, chanceTotal, mintLedger,
                       vouchers, referrals, spent, fractions, raced>>
    <2>1. ToLedger(INITIAL_BONUS) = INITIAL_BONUS
      BY ConstantsAssumption, LedgerFacts
    <2> QED BY <2>1 DEF RecordBonus, LogPoints
  <1>4. /\ fresh' \in {fresh, [fresh EXCEPT ![r] = {}]}
        /\ fresh'[r] \subseteq fresh[r]
        /\ \A p \in Requests \ {r} : Kept(p)
    BY <1>3 DEF RecordBonus, Kept, IInv, TypeInv, Types, RequestsOK
  <1>5. CopyInv'
    <2>1. CASE AfterBonus(rq) = "done"
      BY <1>4, <2>1, EndedCopy, CopyStep DEF RecordBonus, End, IInv
    <2>2. CASE AfterBonus(rq) # "done"
      <3> DEFINE q == [rq EXCEPT !.stage = AfterBonus(rq)]
      <3>1. req' = [req EXCEPT ![r] = q]
        BY <2>2 DEF RecordBonus, Advance
      <3>2. CopyOK(rq, fresh'[r], users')
        BY <1>2, <1>3, <1>4 DEF CopyOK
      <3>3. AfterBonus(rq) \notin {"select", "update"} /\ Owes(rq)
        BY <1>2 DEF AfterBonus, Owes
      <3>4. CopyOK(q, fresh'[r], users')
        BY <3>2, <3>3, StageCopy
      <3> HIDE DEF q
      <3> QED BY <1>4, <3>1, <3>4, CopyStep DEF IInv
    <2> QED BY <2>1, <2>2
  <1>6. Unborn'
    BY <1>3 DEF IInv, Unborn
  <1>7. ConsistentUnlessRaced'
    <2>1. \A v \in Users \ {u} : Untouched(v)
      BY <1>3 DEF Untouched, IInv, TypeInv, Types, LedgersOK, HistoryOK
    <2>2. Consistent(u) => Consistent(u)'
      <3>1. pointsTotal'[u] + unlogged'[u] = pointsTotal[u] + unlogged[u]
        BY <1>3, ConstantsAssumption DEF IInv, TypeInv, Types, LedgersOK, HistoryOK
      <3> QED BY <1>3, <3>1, WithinKept DEF Consistent
    <2> QED BY <1>3, <2>1, <2>2, UntouchedConsistent DEF IInv, ConsistentUnlessRaced
  <1>8. CooldownStep
    BY <1>3 DEF CooldownStep, IInv, TypeInv, Types, RowsOK, Row
  <1> QED BY <1>5, <1>6, <1>7, <1>8 DEF Sound

LEMMA PointsSound ==
    ASSUME IInv, NEW r \in Requests, RecordPoints(r)
    PROVE  Sound
  <1>1. Active(req[r]) /\ req[r].stage = "ledger"
    BY DEF RecordPoints, Active
  <1> PICK rq \in Request : rq = req[r]
    BY <1>1, AtWork DEF IInv
  <1>2. rq.user \in Users /\ CopyOK(rq, fresh[r], users) /\ rq.stage = "ledger" /\ rq.delta \in Int
    BY <1>1, AtWork DEF IInv, CopyInv, Request
  <1> PICK u \in Users : u = rq.user
    BY <1>2
  <1>3. /\ pointsTotal' = [pointsTotal EXCEPT ![u] = @ + ToLedger(rq.delta)]
        /\ unlogged' = [unlogged EXCEPT ![u] = @ - ToLedger(rq.delta)]
        /\ req' = [req EXCEPT ![r] = Continue(rq)]
        /\ UNCHANGED <<users, registered, chanceTransactions, chanceTotal, mintLedger,
                       vouchers, referrals, spent, fractions, fresh, raced>>
    BY DEF RecordPoints, PointsOwner, LogPoints
  <1>4. CopyInv'
    <2>1. CopyOK(Continue(rq), fresh'[r], users')
      <3>1. rq.user # rq.caller /\ rq.caller \in fresh'[r]
              => /\ users'[rq.caller].ninjaBalance = INITIAL_BONUS
                 /\ SameButBalance(users'[rq.caller], NoRow)
        BY <1>2, <1>3 DEF CopyOK, Owes
      <3> QED BY <1>2, <3>1, ContinueCopy
    <2> QED BY <1>3, <2>1, CopyStep DEF IInv, Kept
  <1>5. Unborn'
    BY <1>3 DEF IInv, Unborn
  <1>6. ConsistentUnlessRaced'
    <2>1. \A v \in Users \ {u} : Untouched(v)
      BY <1>3 DEF Untouched, IInv, TypeInv, Types, LedgersOK, HistoryOK
    <2>2. Consistent(u) => Consistent(u)'
      <3>1. pointsTotal'[u] + unlogged'[u] = pointsTotal[u] + unlogged[u]
        BY <1>2, <1>3, LedgerFacts DEF IInv, TypeInv, Types, LedgersOK, HistoryOK
      <3> QED BY <1>3, <3>1, WithinKept DEF Consistent
    <2> QED BY <1>3, <2>1, <2>2, UntouchedConsistent DEF IInv, ConsistentUnlessRaced
  <1>7. CooldownStep
    BY <1>3 DEF CooldownStep, IInv, TypeInv, Types, RowsOK, Row
  <1> QED BY <1>4, <1>5, <1>6, <1>7 DEF Sound

LEMMA ReferralSound ==
    ASSUME IInv, NEW r \in Requests, LogReferral(r)
    PROVE  Sound
  <1>1. UNCHANGED <<users, registered, ledgers, spent, unlogged, fractions, fresh, raced>>
    BY DEF LogReferral
  <1>2. CopyInv'
    BY <1>1, EndedCopy, CopyStep DEF LogReferral, End, IInv, Kept
  <1>3. Unborn' /\ ConsistentUnlessRaced'
    BY <1>1 DEF IInv, Unborn, ConsistentUnlessRaced, Consistent, WithinRounding, ledgers
  <1>4. CooldownStep
    BY <1>1 DEF CooldownStep, IInv, TypeInv, Types, RowsOK, Row
  <1> QED BY <1>2, <1>3, <1>4 DEF Sound

LEMMA IngestSound ==
    ASSUME IInv, NEW r \in Requests, NEW p \in Purchases, IngestAfterEnsure(r, p)
    PROVE  Sound
  <1>1. p.user \in registered
    <2>1. Active(req[r]) /\ req[r].stage = "ingest" /\ p.user = req[r].caller
      BY DEF IngestAfterEnsure, Active
    <2> QED BY <2>1, AtWork DEF BoundTo, IInv
  <1>2. /\ \A q \in Requests : Kept(q)
        /\ Unborn' /\ ConsistentUnlessRaced' /\ CooldownStep
    <2>1. CASE CreditPurchase(p)
      BY <1>1, <2>1, CreditSound
    <2>2. CASE UNCHANGED <<users, registered, ledgers, referrals, spent, unlogged,
                           fractions,
                           fresh, raced>>
      <3>1. \A q \in Requests : Kept(q)
        BY <2>2 DEF Kept
      <3>2. Unborn' /\ ConsistentUnlessRaced'
        BY <2>2 DEF IInv, Unborn, ConsistentUnlessRaced, Consistent, WithinRounding, ledgers
      <3>3. CooldownStep
        BY <2>2 DEF CooldownStep, IInv, TypeInv, Types, RowsOK, Row
      <3> QED BY <3>1, <3>2, <3>3
    <2> QED BY <2>1, <2>2 DEF IngestAfterEnsure
  <1>3. CopyInv'
    BY <1>2, EndedCopy, CopyStep DEF IngestAfterEnsure, End, IInv
  <1> QED BY <1>2, <1>3 DEF Sound

(* The update of a save: overtaken, it marks its row; otherwise the copy   *)
(* still is the row up to the change, so the row moves by delta, rounded.  *)
LEMMA UpdateSound ==
    ASSUME IInv, NEW r \in Requests, SaveUpdate(r)
    PROVE  Sound
  <1>1. Active(req[r]) /\ req[r].stage = "update"
    BY DEF SaveUpdate, Active
  <1> PICK rq \in Request : rq = req[r]
    BY <1>1, AtWork DEF IInv
  <1>2. /\ rq.user \in Users /\ rq.user \in registered /\ rq.stage = "update"
        /\ rq.delta \in Int /\ rq.entity \in Row
        /\ CopyOK(rq, fresh[r], users)
    BY <1>1, AtWork DEF IInv, CopyInv, Request, BoundTo
  <1> PICK u \in Users : u = rq.user
    BY <1>2
  <1> DEFINE row == IF rq.dirty = {} THEN users[u] ELSE Overwrite(users[u], rq.entity, rq.dirty)
  <1>3. users[u] \in Row /\ users \in [Users -> Row]
    BY DEF IInv, TypeInv, Types, RowsOK
  <1>4. /\ users' = [users EXCEPT ![u] = row]
        /\ fresh' \in {[p \in Requests |-> fresh[p] \ {u}], [fresh EXCEPT ![r] = @ \ {u}]}
        /\ rq.dirty # {} => fresh' = [p \in Requests |-> fresh[p] \ {u}]
    BY <1>3 DEF SaveUpdate, CommitRow
  <1>5. /\ unlogged' = [unlogged EXCEPT ![u] = @ + ToLedger(rq.delta)]
        /\ CountFraction(u, rq.delta)
        /\ raced' = IF u \in fresh[r] \/ (rq.dirty = {} /\ rq.delta = 0)
                    THEN raced ELSE raced \cup {u}
        /\ req' = [req EXCEPT ![r] = AfterSave(rq)]
        /\ UNCHANGED <<registered, ledgers, referrals, spent>>
    BY DEF SaveUpdate
  <1>6. u \notin raced' => /\ row.ninjaBalance = ToCents(users[u].ninjaBalance + rq.delta)
                          /\ SameButBalance(row, users[u])
    <2>0. rq.delta = 0 => ToCents(users[u].ninjaBalance + rq.delta) = users[u].ninjaBalance
      <3>1. users[u].ninjaBalance \in Int /\ Whole(users[u].ninjaBalance)
        BY <1>3 DEF Row, IInv, CentsOK
      <3> QED BY <3>1, CentsFacts
    <2>1. CASE u \in fresh[r]
      <3>1. /\ rq.entity.ninjaBalance = users[u].ninjaBalance + rq.delta
            /\ SameButBalance(rq.entity, users[u])
            /\ "ninjaBalance" \notin rq.dirty => rq.delta = 0
        BY <1>2, <1>3, <2>1 DEF CopyOK, Row
      <3>2. SameButBalance(row, users[u])
        BY <3>1 DEF SameButBalance, Overwrite
      <3>3. row.ninjaBalance = IF "ninjaBalance" \in rq.dirty
                               THEN ToCents(rq.entity.ninjaBalance)
                               ELSE users[u].ninjaBalance
        BY DEF Overwrite
      <3> HIDE DEF row
      <3> QED BY <2>0, <3>1, <3>2, <3>3
    <2>2. CASE rq.dirty = {} /\ rq.delta = 0
      BY <1>3, <2>0, <2>2 DEF SameButBalance, Row
    <2>3. CASE u \notin fresh[r] /\ ~(rq.dirty = {} /\ rq.delta = 0)
      BY <1>5, <2>3
    <2> QED BY <2>1, <2>2, <2>3
  <1>7. \A v \in Users \ {u} : Untouched(v)
    BY <1>3, <1>4, <1>5 DEF Untouched, CountFraction, ledgers, IInv, TypeInv, Types, HistoryOK
  <1>8. CopyInv'
    <2>1. \A p \in Requests \ {r} : Kept(p)
      BY <1>3, <1>4 DEF Kept, IInv, TypeInv, Types, RequestsOK
    <2>2. fresh'[r] = fresh[r] \ {u}
      BY <1>4 DEF IInv, TypeInv, Types, RequestsOK
    <2>3. rq.user # rq.caller /\ rq.caller \in fresh'[r]
            => /\ users'[rq.caller].ninjaBalance = INITIAL_BONUS
               /\ SameButBalance(users'[rq.caller], NoRow)
      <3>1. rq.caller \in fresh[r] => rq.caller \in Users
        BY DEF IInv, TypeInv, Types, RequestsOK
      <3>2. \A v \in Users \ {u} : users'[v] = users[v]
        BY <1>3, <1>4
      <3> QED BY <1>2, <2>2, <3>1, <3>2 DEF CopyOK, Owes
    <2>4. CopyOK(AfterSave(rq), fresh'[r], users')
      <3>1. CopyOK([rq EXCEPT !.stage = "ledger"], fresh'[r], users')
        BY <2>3 DEF CopyOK, Owes, Request
      <3>2. CopyOK(Continue(rq), fresh'[r], users')
        BY <1>2, <2>3, ContinueCopy
      <3> QED BY <3>1, <3>2 DEF AfterSave
    <2> QED BY <1>5, <2>1, <2>4, CopyStep DEF IInv
  <1> HIDE DEF row
  <1>9. Unborn'
    BY <1>2, <1>3, <1>4, <1>5 DEF IInv, Unborn
  <1>10. ConsistentUnlessRaced'
    <2>1. u \notin raced' /\ Consistent(u) => Consistent(u)'
      <3> SUFFICES ASSUME u \notin raced', Consistent(u) PROVE Consistent(u)'
        OBVIOUS
      <3>1. users'[u] = row /\ SameButBalance(row, users[u])
            /\ row.ninjaBalance = ToCents(users[u].ninjaBalance + rq.delta)
        BY <1>3, <1>4, <1>6
      <3>2. UNCHANGED <<pointsTotal, chanceTotal, mintLedger, vouchers, spent>>
        BY <1>5 DEF ledgers
      <3>3. pointsTotal'[u] + unlogged'[u] = pointsTotal[u] + unlogged[u] + ToLedger(rq.delta)
        BY <1>2, <1>5, <3>2, LedgerFacts DEF IInv, TypeInv, Types, LedgersOK, HistoryOK
      <3>4. WithinRounding(u, pointsTotal[u] + unlogged[u])'
        BY <1>2, <1>5, <3>1, <3>3, WithinMove DEF Consistent
      <3> QED BY <3>1, <3>2, <3>4 DEF Consistent, SameButBalance
    <2>2. raced \subseteq raced'
      BY <1>5
    <2> QED BY <1>7, <2>1, <2>2, UntouchedConsistent DEF IInv, ConsistentUnlessRaced
  <1>11. CooldownStep
    BY <1>3, <1>4, <1>6 DEF CooldownStep, SameButBalance, Row
  <1> QED BY <1>8, <1>9, <1>10, <1>11 DEF Sound

LEMMA StepSound ==
    ASSUME IInv, NEW r \in Requests, Step(r)
    PROVE  Sound
  BY InsertSound, BonusSound, InviterSound, ChargeSound, SelectSound, UpdateSound, PointsSound,
     ReferralSound, IngestSound, CrashSound
  DEF Step

LEMMA NextSound == IInv /\ [Next]_vars => Sound
  <1> SUFFICES ASSUME IInv, [Next]_vars PROVE Sound
    OBVIOUS
  <1>1. ASSUME NEW u \in Users, LockedOn(u) PROVE Sound
    BY <1>1, LockedStepSound
  <1>2. ASSUME NEW p \in Purchases, IngestChancePurchase(p) PROVE Sound
    BY <1>2, WebhookSound
  <1>3. ASSUME NEW r \in Requests, NEW u \in Users, Start(r, u) PROVE Sound
    BY <1>3, StartSound
  <1>4. ASSUME NEW r \in Requests, Step(r) PROVE Sound
    BY <1>4, StepSound
  <1>5. CASE UNCHANGED vars
    <2>1. CopyInv' /\ Unborn' /\ ConsistentUnlessRaced'
      BY <1>5 DEF vars, ledgers, IInv, CopyInv, Unborn, ConsistentUnlessRaced,
                  Consistent, WithinRounding
    <2>2. CooldownStep
      BY <1>5 DEF vars, CooldownStep, IInv, TypeInv, Types, RowsOK, Row
    <2> QED BY <2>1, <2>2 DEF Sound
  <1> QED BY <1>1, <1>2, <1>3, <1>4, <1>5 DEF Next

LEMMA InvInit == Init => IInv
  <1> SUFFICES ASSUME Init PROVE IInv
    OBVIOUS
  <1>1. TypeInv
    BY TypeInit
  <1>2. CopyInv
    BY DEF Init, CopyInv, CopyOK, Owes, NewRequest
  <1>3. Unborn
    BY DEF Init, Unborn, NoRow, InitialRow, SameButBalance
  <1>4. ConsistentUnlessRaced
    <2> SUFFICES ASSUME NEW u \in Users PROVE Consistent(u)
      BY DEF ConsistentUnlessRaced
    <2>1. /\ users[u].ninjaBalance = pointsTotal[u] + unlogged[u] /\ fractions[u] = 0
          /\ users[u].ninjaBalance \in Nat
      BY ConstantsAssumption DEF Init, NoRow, InitialRow
    <2>2. WithinRounding(u, pointsTotal[u] + unlogged[u])
      BY <2>1 DEF WithinRounding, Cent, LedgerUnit
    <2> QED BY <2>2 DEF Init, Consistent, NoRow, InitialRow
  <1> QED BY <1>1, <1>2, <1>3, <1>4, CentsInit DEF IInv

LEMMA InvNext == IInv /\ [Next]_vars => IInv'
  BY TypeNext, CentsNext, NextSound DEF IInv, Sound

(* Whatever the interleaving of locked and unlocked handlers and wherever  *)
(* requests die, a users row agrees with its four ledgers unless the       *)
(* unlocked save of an overtaken copy was written over it: the balance up  *)
(* to what its column and the ledger's have rounded off fractions of a     *)
(* cent, the other columns exactly.                                        *)
THEOREM ConsistencyCorrect == Spec => []ConsistentUnlessRaced
  <1>1. Spec => []IInv
    BY InvInit, InvNext, PTL DEF Spec
  <1>2. IInv => ConsistentUnlessRaced
    BY DEF IInv
  <1> QED BY <1>1, <1>2, PTL

(* On such rows the end of a chance cooldown never moves back.             *)
THEOREM CooldownCorrect == Spec => CooldownNeverShortened
  <1>1. Spec => []IInv
    BY InvInit, InvNext, PTL DEF Spec
  <1>2. IInv /\ [Next]_vars
        => [\A u \in Users \ raced' :
              users'[u].chanceCooldownEndsAt >= users[u].chanceCooldownEndsAt]_vars
    BY NextSound DEF Sound, CooldownStep
  <1> QED BY <1>1, <1>2, PTL DEF Spec, CooldownNeverShortened

-----------------------------------------------------------------------------
(* The webhook's promise: every path to a new row of chance_transactions   *)
(* goes through CreditPurchase, a step of PurchaseLedger; every other      *)
(* handler leaves the purchases alone.                                     *)

LEMMA CreditImplements ==
    ASSUME NEW p \in Purchases, CreditPurchase(p)
    PROVE  Ledger!Next
  BY DEF CreditPurchase, Duplicate, Ledger!Next, Ledger!Credit

\* Whatever becomes of their rows, no handler breaks the promise of
\* PurchaseLedger to the buyers.
THEOREM AccountsImplementPurchaseLedger == Spec => RefinesPurchaseLedger
  <1>1. Init => Ledger!Init
    BY DEF Init, Ledger!Init
  <1>2. [Next]_vars => [Ledger!Next]_<<chanceTransactions, chanceTotal>>
    <2> SUFFICES ASSUME [Next]_vars,
                        ~UNCHANGED <<chanceTransactions, chanceTotal>>
                 PROVE  Ledger!Next
      OBVIOUS
    <2>1. ASSUME NEW u \in Users, LockedOn(u) PROVE UNCHANGED <<chanceTransactions, chanceTotal>>
      BY <2>1 DEF LockedOn, SyncNinja, ConsumeChance, AdjustNinjaBalance, IssueMintVoucher, ledgers
    <2>2. ASSUME NEW p \in Purchases, IngestChancePurchase(p) PROVE Ledger!Next
      BY <2>2, CreditImplements DEF IngestChancePurchase
    <2>3. ASSUME NEW r \in Requests, NEW u \in Users, Start(r, u)
          PROVE  UNCHANGED <<chanceTransactions, chanceTotal>>
      BY <2>3 DEF Start, RecordChat, AdjustUserBalance, BackfillWallet, CreateUser, ledgers
    <2>4. ASSUME NEW r \in Requests, Step(r) PROVE Ledger!Next
      <3>1. ASSUME NEW p \in Purchases, IngestAfterEnsure(r, p) PROVE Ledger!Next
        BY <3>1, CreditImplements DEF IngestAfterEnsure, ledgers
      <3>2. ASSUME \/ InsertUser(r) \/ RecordBonus(r) \/ ReadInviter(r)
                   \/ \E cost \in Costs : ChargeNewUser(r, cost)
                   \/ SaveSelect(r) \/ SaveUpdate(r) \/ RecordPoints(r) \/ LogReferral(r)
                   \/ Crash(r)
            PROVE  UNCHANGED <<chanceTransactions, chanceTotal>>
        BY <3>2 DEF InsertUser, RecordBonus, ReadInviter, ChargeNewUser, SaveSelect, SaveUpdate,
                    RecordPoints, LogReferral, Crash, ledgers
      <3> QED BY <2>4, <3>1, <3>2 DEF Step
    <2>5. CASE UNCHANGED vars
      BY <2>5 DEF vars, ledgers
    <2> QED BY <2>1, <2>2, <2>3, <2>4, <2>5 DEF Next
  <1> QED BY <1>1, <1>2, PTL DEF Spec, RefinesPurchaseLedger, Ledger!Spec

-----------------------------------------------------------------------------
(* One referral per invitee: what a request will log is what its insert of *)
(* the invitee's row recorded, and that row is inserted once.              *)

\* The request inserted its caller's row and may still log a referral.
Referring(rq) ==
    rq.stage \notin {"new", "insert", "done", "failed"} /\ rq.inviter # None

ReferralInv ==
    /\ \A r \in Requests : Referring(req[r]) => invitedBy[req[r].caller] = req[r].inviter
    /\ \A log \in referralLogs : log.invitee \in registered
                                /\ invitedBy[log.invitee] = log.inviter

\* Request q goes on with the referral rq already owed, or owes none.
SameReferral(rq, q) ==
    Referring(q) => Referring(rq) /\ q.caller = rq.caller /\ q.inviter = rq.inviter

LEMMA ReferralKept ==
    ASSUME TypeInv, ReferralInv, UNCHANGED <<invitedBy, referralLogs, registered>>,
           \A p \in Requests : SameReferral(req[p], req'[p])
    PROVE  ReferralInv'
  BY DEF ReferralInv, SameReferral

LEMMA OneMoves ==
    ASSUME TypeInv, NEW r \in Requests, NEW q, req' = [req EXCEPT ![r] = q], SameReferral(req[r], q)
    PROVE  \A p \in Requests : SameReferral(req[p], req'[p])
  BY DEF TypeInv, Types, RequestsOK, SameReferral

LEMMA SavingReferral ==
    ASSUME NEW rq, NEW op, NEW caller, NEW u, NEW inviter, NEW wallet, NEW entity, NEW delta,
           inviter # None => Referring(rq) /\ caller = rq.caller /\ inviter = rq.inviter
    PROVE  SameReferral(rq, Saving(op, caller, u, inviter, wallet, entity, delta))
  BY DEF Saving, SameReferral, Referring

LEMMA EndedReferral ==
    ASSUME NEW rq, NEW stage
    PROVE  SameReferral(rq, [NewRequest EXCEPT !.stage = stage])
  BY DEF NewRequest, SameReferral, Referring

LEMMA ContinueReferral ==
    ASSUME NEW rq \in Request, rq.stage \in {"update", "ledger"}
    PROVE  SameReferral(rq, Continue(rq)) /\ SameReferral(rq, AfterSave(rq))
  <1>1. \A stage : rq.inviter # None => SameReferral(rq, [rq EXCEPT !.stage = stage])
    BY DEF Request, SameReferral, Referring
  <1>2. \A stage : rq.inviter = None => SameReferral(rq, [rq EXCEPT !.stage = stage])
    BY DEF Request, SameReferral, Referring
  <1>3. SameReferral(rq, Continue(rq))
    <2>1. CASE rq.op = "register" /\ rq.user # rq.caller
      BY <2>1, SavingReferral DEF Continue, Referring
    <2>2. CASE ~(rq.op = "register" /\ rq.user # rq.caller)
      BY <1>1, <1>2, <2>2, EndedReferral DEF Continue
    <2> QED BY <2>1, <2>2
  <1> QED BY <1>1, <1>2, <1>3 DEF AfterSave

LEMMA StartReferral ==
    ASSUME TypeInv, ReferralInv, NEW r \in Requests, NEW u \in Users, Start(r, u)
    PROVE  ReferralInv'
  <1>1. UNCHANGED <<invitedBy, referralLogs, registered>>
    BY DEF Start, RecordChat, AdjustUserBalance, BackfillWallet, CreateUser, referrals
  <1>2. ASSUME NEW cost \in Costs, RecordChat(r, u, cost)
        PROVE  \A p \in Requests : SameReferral(req[p], req'[p])
    BY <1>2, OneMoves, SavingReferral DEF RecordChat
  <1>3. ASSUME NEW amount \in Adjustments, NEW mode \in {"set", "increment"},
               AdjustUserBalance(r, u, amount, mode)
        PROVE  \A p \in Requests : SameReferral(req[p], req'[p])
    <2>1. PICK entity, delta :
             req' = [req EXCEPT ![r] = Saving("admin", u, u, None, FALSE, entity, delta)]
      BY <1>3 DEF AdjustUserBalance
    <2> DEFINE q == Saving("admin", u, u, None, FALSE, entity, delta)
    <2>2. SameReferral(req[r], q)
      BY SavingReferral
    <2> HIDE DEF q
    <2> QED BY <2>1, <2>2, OneMoves DEF q
  <1>4. ASSUME NEW op \in {"register", "login", "webhook"}, BackfillWallet(r, u, op)
        PROVE  \A p \in Requests : SameReferral(req[p], req'[p])
    BY <1>4, OneMoves, SavingReferral DEF BackfillWallet
  <1>5. ASSUME NEW op, NEW inviter, NEW wallet, CreateUser(r, u, op, inviter, wallet)
        PROVE  \A p \in Requests : SameReferral(req[p], req'[p])
    <2> DEFINE q == [Saving(op, u, u, inviter, wallet, NoRow, 0) EXCEPT !.stage = "insert"]
    <2>1. req' = [req EXCEPT ![r] = q]
      BY <1>5 DEF CreateUser
    <2>2. SameReferral(req[r], q)
      BY DEF Saving, SameReferral, Referring
    <2> HIDE DEF q
    <2> QED BY <2>1, <2>2, OneMoves
  <1> QED BY <1>1, <1>2, <1>3, <1>4, <1>5, ReferralKept DEF Start

LEMMA StepReferral ==
    ASSUME TypeInv, ReferralInv, NEW r \in Requests, Step(r)
    PROVE  ReferralInv'
  <1>1. ASSUME InsertUser(r) PROVE ReferralInv'
    <2>1. Active(req[r]) /\ req[r].stage = "insert"
      BY <1>1 DEF InsertUser, Active
    <2> PICK u \in Users : u = req[r].caller
      BY <2>1, AtWork
    <2>2. req[r] \in Request
      BY <2>1, AtWork
    <2>3. CASE CredentialTaken(u)
      BY <1>1, <2>3, EndedReferral, OneMoves, ReferralKept DEF InsertUser, End
    <2>4. CASE ~CredentialTaken(u)
      <3>1. /\ u \notin registered
            /\ registered' = registered \cup {u}
            /\ invitedBy' = [invitedBy EXCEPT ![u] = req[r].inviter]
            /\ req' = [req EXCEPT ![r] = [req[r] EXCEPT !.stage = "bonus"]]
            /\ referralLogs' = referralLogs
        BY <1>1, <2>4 DEF InsertUser, Advance, CredentialTaken
      <3>2. invitedBy \in [Users -> Users \cup {None}]
        BY DEF TypeInv, Types, ReferralsOK
      <3>3. invitedBy'[u] = req[r].inviter /\ \A v \in Users \ {u} : invitedBy'[v] = invitedBy[v]
        BY <3>1, <3>2
      <3>4. ASSUME NEW p \in Requests, Referring(req'[p])
            PROVE  invitedBy'[req'[p].caller] = req'[p].inviter
        <4>1. CASE p = r
          <5>1. req'[p] = [req[r] EXCEPT !.stage = "bonus"]
            BY <3>1, <4>1 DEF TypeInv, Types, RequestsOK
          <5>2. req'[p].caller = req[r].caller /\ req'[p].inviter = req[r].inviter
            BY <2>2, <5>1 DEF Request
          <5> QED BY <3>3, <5>2
        <4>2. CASE p # r
          <5>1. req'[p] = req[p]
            BY <3>1, <4>2 DEF TypeInv, Types, RequestsOK
          <5>2. Active(req[p]) /\ req[p].stage # "insert" /\ Referring(req[p])
            BY <3>4, <5>1 DEF Referring, Active
          <5>3. req[p].caller \in registered /\ req[p].caller \in Users
            BY <5>2, AtWork DEF BoundTo
          <5> QED BY <3>1, <3>3, <5>1, <5>2, <5>3 DEF ReferralInv
        <4> QED BY <4>1, <4>2
      <3>5. ASSUME NEW log \in referralLogs'
            PROVE  log.invitee \in registered' /\ invitedBy'[log.invitee] = log.inviter
        BY <3>1, <3>3 DEF ReferralInv, TypeInv, Types, RowsOK
      <3> QED BY <3>4, <3>5 DEF ReferralInv
    <2> QED BY <2>3, <2>4
  <1>2. ASSUME LogReferral(r) PROVE ReferralInv'
    <2>1. Active(req[r]) /\ Referring(req[r])
      <3>1. Active(req[r]) /\ req[r].stage = "log"
        BY <1>2 DEF LogReferral, Active
      <3> QED BY <3>1, AtWork DEF BoundTo, Referring
    <2>2. req[r].caller \in registered /\ invitedBy[req[r].caller] = req[r].inviter
      BY <1>2, <2>1, AtWork DEF BoundTo, LogReferral, ReferralInv
    <2>3. /\ referralLogs' = referralLogs \cup
                              {[inviter |-> req[r].inviter, invitee |-> req[r].caller]}
          /\ req' = [req EXCEPT ![r] = [NewRequest EXCEPT !.stage = "done"]]
          /\ UNCHANGED <<registered, invitedBy>>
      BY <1>2 DEF LogReferral, End
    <2>4. \A p \in Requests : SameReferral(req[p], req'[p])
      BY <2>3, EndedReferral, OneMoves
    <2> QED BY <2>2, <2>3, <2>4 DEF ReferralInv, SameReferral
  <1>3. ASSUME \/ RecordBonus(r) \/ ReadInviter(r)
               \/ \E cost \in Costs : ChargeNewUser(r, cost)
               \/ SaveSelect(r) \/ SaveUpdate(r) \/ RecordPoints(r)
               \/ \E p \in Purchases : IngestAfterEnsure(r, p)
               \/ Crash(r)
        PROVE  UNCHANGED <<invitedBy, referralLogs, registered>>
    BY <1>3 DEF RecordBonus, ReadInviter, ChargeNewUser, SaveSelect, SaveUpdate, RecordPoints,
                IngestAfterEnsure, CreditPurchase, Crash, referrals
  <1>4. ASSUME RecordBonus(r) PROVE \A p \in Requests : SameReferral(req[p], req'[p])
    <2>1. Active(req[r]) /\ req[r].stage = "bonus"
      BY <1>4 DEF RecordBonus, Active
    <2>2. req[r] \in Request
      BY <2>1, AtWork
    <2>3. SameReferral(req[r], [req[r] EXCEPT !.stage = AfterBonus(req[r])])
      BY <2>1, <2>2 DEF Request, SameReferral, Referring
    <2> QED BY <1>4, <2>3, EndedReferral, OneMoves DEF RecordBonus, End, Advance
  <1>5. ASSUME ReadInviter(r) PROVE \A p \in Requests : SameReferral(req[p], req'[p])
    <2>1. Active(req[r]) /\ req[r].stage = "inviter"
      BY <1>5 DEF ReadInviter, Active
    <2>2. Referring(req[r])
      BY <2>1, AtWork DEF BoundTo, Referring
    <2>3. PICK entity :
             req' = [req EXCEPT ![r] = Saving(req[r].op, req[r].caller, req[r].inviter,
                                              req[r].inviter, req[r].wallet, entity,
                                              INVITER_REWARD)]
      BY <1>5 DEF ReadInviter
    <2> DEFINE q == Saving(req[r].op, req[r].caller, req[r].inviter, req[r].inviter,
                           req[r].wallet, entity, INVITER_REWARD)
    <2>4. SameReferral(req[r], q)
      BY <2>2, SavingReferral
    <2> HIDE DEF q
    <2> QED BY <2>3, <2>4, OneMoves DEF q
  <1>6. ASSUME NEW cost \in Costs, ChargeNewUser(r, cost)
        PROVE  \A p \in Requests : SameReferral(req[p], req'[p])
    <2> DEFINE u == req[r].caller
               entity == [InitialRow(FALSE) EXCEPT !.ninjaBalance = @ - cost]
               q == IF INITIAL_BONUS >= cost
                    THEN Saving("chat", u, u, None, FALSE, entity, -cost)
                    ELSE [NewRequest EXCEPT !.stage = "done"]
    <2>1. req' = [req EXCEPT ![r] = q]
      BY <1>6 DEF ChargeNewUser, End
    <2>2. SameReferral(req[r], q)
      BY SavingReferral, EndedReferral
    <2> HIDE DEF q
    <2> QED BY <2>1, <2>2, OneMoves
  <1>7. ASSUME SaveSelect(r) PROVE \A p \in Requests : SameReferral(req[p], req'[p])
    <2> DEFINE dirty == Dirty(req[r])
               q == [req[r] EXCEPT !.stage = "update", !.dirty = dirty]
    <2>1. Active(req[r]) /\ req[r].stage = "select"
      BY <1>7 DEF SaveSelect, Active
    <2>2. req[r] \in Request
      BY <2>1, AtWork
    <2>3. req' = [req EXCEPT ![r] = q]
      BY <1>7 DEF SaveSelect, TypeInv, Types, RequestsOK
    <2> HIDE DEF dirty
    <2>4. SameReferral(req[r], q)
      BY <2>1, <2>2 DEF Request, SameReferral, Referring
    <2> HIDE DEF q
    <2> QED BY <2>3, <2>4, OneMoves
  <1>8. ASSUME SaveUpdate(r) \/ RecordPoints(r)
        PROVE  \A p \in Requests : SameReferral(req[p], req'[p])
    <2>1. Active(req[r]) /\ req[r].stage \in {"update", "ledger"}
      BY <1>8 DEF SaveUpdate, RecordPoints, Active
    <2>2. req[r] \in Request
      BY <2>1, AtWork
    <2>3. SameReferral(req[r], Continue(req[r])) /\ SameReferral(req[r], AfterSave(req[r]))
      BY <2>1, <2>2, ContinueReferral
    <2> QED BY <1>8, <2>3, OneMoves DEF SaveUpdate, RecordPoints
  <1>9. ASSUME Crash(r) \/ \E p \in Purchases : IngestAfterEnsure(r, p)
        PROVE  \A p \in Requests : SameReferral(req[p], req'[p])
    BY <1>9, EndedReferral, OneMoves DEF Crash, IngestAfterEnsure, End
  <1> QED BY <1>1, <1>2, <1>3, <1>4, <1>5, <1>6, <1>7, <1>8, <1>9, ReferralKept DEF Step

LEMMA ReferralInvNext == TypeInv /\ ReferralInv /\ [Next]_vars => ReferralInv'
  <1> SUFFICES ASSUME TypeInv, ReferralInv, [Next]_vars PROVE ReferralInv'
    OBVIOUS
  <1>1. ASSUME UNCHANGED <<req, invitedBy, referralLogs, registered>> PROVE ReferralInv'
    BY <1>1 DEF ReferralInv
  <1>2. ASSUME NEW u \in Users, LockedOn(u) PROVE ReferralInv'
    BY <1>1, <1>2
    DEF LockedOn, SyncNinja, ConsumeChance, AdjustNinjaBalance, IssueMintVoucher, referrals
  <1>3. ASSUME NEW p \in Purchases, IngestChancePurchase(p) PROVE ReferralInv'
    BY <1>1, <1>3 DEF IngestChancePurchase, CreditPurchase, referrals
  <1>4. CASE UNCHANGED vars
    BY <1>1, <1>4 DEF vars, referrals
  <1> QED BY <1>2, <1>3, <1>4, StartReferral, StepReferral DEF Next

(* And the other way round: a referral that an insert recorded is logged,  *)
(* or a request still owes it, or a request failed.                        *)
OwesReferral(rq, u) == Referring(rq) /\ rq.caller = u
SomeFailed == \E r \in Requests : req[r].stage = "failed"

OwedInv ==
    /\ \A u \in Users : invitedBy[u] # None =>
          \/ \E log \in referralLogs : log.invitee = u
          \/ \E r \in Requests : OwesReferral(req[r], u)
          \/ SomeFailed
    /\ \A r \in Requests : req[r].stage \in {"charge", "ingest"} => req[r].inviter = None

\* Request q still owes what rq did, unless it failed, and is not at a loose end.
StillOwes(rq, q) ==
    /\ Referring(rq) => (Referring(q) /\ q.caller = rq.caller) \/ q.stage = "failed"
    /\ rq.stage = "failed" => q.stage = "failed"
    /\ q.stage \in {"charge", "ingest"} => q.inviter = None

LEMMA OwedKept ==
    ASSUME TypeInv, OwedInv, NEW r \in Requests, NEW q, req' = [req EXCEPT ![r] = q],
           StillOwes(req[r], q), UNCHANGED <<invitedBy, referralLogs>>
    PROVE  OwedInv'
  <1>1. req'[r] = q /\ \A p \in Requests \ {r} : req'[p] = req[p]
    BY DEF TypeInv, Types, RequestsOK
  <1>2. SomeFailed => SomeFailed'
    BY <1>1 DEF SomeFailed, StillOwes
  <1>3. ASSUME NEW u \in Users, NEW p \in Requests, OwesReferral(req[p], u)
        PROVE  (\E o \in Requests : OwesReferral(req[o], u))' \/ SomeFailed'
    <2>1. CASE p = r
      BY <1>1, <1>3, <2>1 DEF OwesReferral, StillOwes, SomeFailed
    <2>2. CASE p # r
      BY <1>1, <1>3, <2>2
    <2> QED BY <2>1, <2>2
  <1>4. ASSUME NEW u \in Users, invitedBy'[u] # None
        PROVE  (\E log \in referralLogs : log.invitee = u)'
               \/ (\E o \in Requests : OwesReferral(req[o], u))' \/ SomeFailed'
    BY <1>2, <1>3, <1>4 DEF OwedInv
  <1>5. (\A p \in Requests : req[p].stage \in {"charge", "ingest"} => req[p].inviter = None)'
    BY <1>1 DEF OwedInv, StillOwes
  <1> QED BY <1>4, <1>5 DEF OwedInv

LEMMA ContinueOwes ==
    ASSUME NEW rq \in Request, rq.stage \in {"update", "ledger"}
    PROVE  StillOwes(rq, Continue(rq)) /\ StillOwes(rq, AfterSave(rq))
  <1>1. StillOwes(rq, Continue(rq))
    <2>1. CASE rq.op = "register" /\ rq.user # rq.caller
      BY <2>1 DEF Continue, Saving, StillOwes, Referring
    <2>2. CASE ~(rq.op = "register" /\ rq.user # rq.caller) /\ rq.inviter # None
      <3>1. Continue(rq) = [rq EXCEPT !.stage = "log"]
        BY <2>2 DEF Continue
      <3> QED BY <2>2, <3>1 DEF Request, StillOwes, Referring
    <2>3. CASE ~(rq.op = "register" /\ rq.user # rq.caller) /\ rq.inviter = None
      <3>1. \/ Continue(rq) = [rq EXCEPT !.stage = "ingest"]
            \/ Continue(rq) = [NewRequest EXCEPT !.stage = "done"]
        BY <2>3 DEF Continue
      <3> QED BY <2>3, <3>1 DEF NewRequest, Request, StillOwes, Referring
    <2> QED BY <2>1, <2>2, <2>3
  <1>2. StillOwes(rq, [rq EXCEPT !.stage = "ledger"])
    BY DEF Request, StillOwes, Referring
  <1> QED BY <1>1, <1>2 DEF AfterSave

LEMMA StartOwes ==
    ASSUME TypeInv, OwedInv, NEW r \in Requests, NEW u \in Users, Start(r, u)
    PROVE  OwedInv'
  <1>1. UNCHANGED <<invitedBy, referralLogs>>
    BY DEF Start, RecordChat, AdjustUserBalance, BackfillWallet, CreateUser, referrals
  <1>2. req[r].stage = "new"
    BY DEF Start, RecordChat, AdjustUserBalance, BackfillWallet, CreateUser, Accepts
  <1>3. ASSUME NEW q, req' = [req EXCEPT ![r] = q], q.stage \in {"select", "insert"}
        PROVE  OwedInv'
    BY <1>1, <1>2, <1>3, OwedKept DEF StillOwes, Referring
  <1>4. OwedInv'
    <2>1. \A op, caller, user, inviter, wallet, entity, delta :
             /\ Saving(op, caller, user, inviter, wallet, entity, delta).stage = "select"
             /\ [Saving(op, caller, user, inviter, wallet, entity, delta)
                   EXCEPT !.stage = "insert"].stage = "insert"
      BY DEF Saving
    <2>2. \/ \E op, caller, user, inviter, wallet, entity, delta :
                req' = [req EXCEPT ![r] = Saving(op, caller, user, inviter, wallet, entity, delta)]
          \/ \E op, caller, user, inviter, wallet, entity, delta :
                req' = [req EXCEPT ![r] =
                          [Saving(op, caller, user, inviter, wallet, entity, delta)
                             EXCEPT !.stage = "insert"]]
      <3>1. ASSUME NEW cost \in Costs, RecordChat(r, u, cost) PROVE <2>2!1
        BY <3>1 DEF RecordChat
      <3>2. ASSUME NEW amount \in Adjustments, NEW mode \in {"set", "increment"},
                   AdjustUserBalance(r, u, amount, mode)
            PROVE  <2>2!1
        BY <3>2 DEF AdjustUserBalance
      <3>3. ASSUME NEW op \in {"register", "login", "webhook"}, BackfillWallet(r, u, op)
            PROVE  <2>2!1
        BY <3>3 DEF BackfillWallet
      <3>4. ASSUME NEW op, NEW inviter, NEW wallet, CreateUser(r, u, op, inviter, wallet)
            PROVE  <2>2!2
        BY <3>4 DEF CreateUser
      <3> QED BY <3>1, <3>2, <3>3, <3>4 DEF Start
    <2>3. CASE <2>2!1
      <3> PICK op, caller, user, inviter, wallet, entity, delta :
               req' = [req EXCEPT ![r] = Saving(op, caller, user, inviter, wallet, entity, delta)]
        BY <2>3
      <3> DEFINE q == Saving(op, caller, user, inviter, wallet, entity, delta)
      <3>1. q.stage = "select" /\ req' = [req EXCEPT ![r] = q]
        BY <2>1
      <3> HIDE DEF q
      <3> QED BY <3>1, <1>3
    <2>4. CASE <2>2!2
      <3> PICK op, caller, user, inviter, wallet, entity, delta :
               req' = [req EXCEPT ![r] =
                         [Saving(op, caller, user, inviter, wallet, entity, delta)
                            EXCEPT !.stage = "insert"]]
        BY <2>4
      <3> DEFINE q == [Saving(op, caller, user, inviter, wallet, entity, delta)
                         EXCEPT !.stage = "insert"]
      <3>1. q.stage = "insert" /\ req' = [req EXCEPT ![r] = q]
        BY <2>1
      <3> HIDE DEF q
      <3> QED BY <3>1, <1>3
    <2> QED BY <2>2, <2>3, <2>4
  <1> QED BY <1>4

LEMMA InsertOwes ==
    ASSUME TypeInv, OwedInv, NEW r \in Requests, InsertUser(r)
    PROVE  OwedInv'
  <1>1. Active(req[r]) /\ req[r].stage = "insert"
    BY DEF InsertUser, Active
  <1> PICK u \in Users : u = req[r].caller
    BY <1>1, AtWork
  <1>2. req[r] \in Request
    BY <1>1, AtWork
  <1>3. CASE CredentialTaken(u)
    <2>1. StillOwes(req[r], [NewRequest EXCEPT !.stage = "failed"])
      BY <1>1 DEF NewRequest, StillOwes, Referring
    <2> QED BY <1>3, <2>1, OwedKept DEF InsertUser, End
  <1>4. CASE ~CredentialTaken(u)
    <2>1. /\ invitedBy' = [invitedBy EXCEPT ![u] = req[r].inviter]
          /\ req' = [req EXCEPT ![r] = [req[r] EXCEPT !.stage = "bonus"]]
          /\ referralLogs' = referralLogs
      BY <1>4 DEF InsertUser, Advance
    <2>2. /\ req'[r] = [req[r] EXCEPT !.stage = "bonus"]
          /\ \A p \in Requests \ {r} : req'[p] = req[p]
          /\ invitedBy'[u] = req[r].inviter
          /\ \A v \in Users \ {u} : invitedBy'[v] = invitedBy[v]
      BY <2>1 DEF TypeInv, Types, RequestsOK, ReferralsOK
    <2>3. req'[r].stage = "bonus" /\ req'[r].caller = u /\ req'[r].inviter = req[r].inviter
      BY <2>2, <1>2 DEF Request
    <2>4. SomeFailed => SomeFailed'
      BY <2>2, <1>1 DEF SomeFailed
    <2>5. ASSUME NEW v \in Users, invitedBy'[v] # None
          PROVE  (\E log \in referralLogs : log.invitee = v)'
                 \/ (\E o \in Requests : OwesReferral(req[o], v))' \/ SomeFailed'
      <3>1. CASE v = u
        BY <2>2, <2>3, <2>5, <3>1 DEF OwesReferral, Referring
      <3>2. CASE v # u
        <4>1. ~Referring(req[r])
          BY <1>1 DEF Referring
        <4>2. ASSUME NEW p \in Requests, OwesReferral(req[p], v)
              PROVE  (\E o \in Requests : OwesReferral(req[o], v))'
          BY <4>1, <4>2, <2>2 DEF OwesReferral
        <4> QED BY <4>2, <3>2, <2>1, <2>2, <2>4, <2>5 DEF OwedInv
      <3> QED BY <3>1, <3>2
    <2>6. (\A p \in Requests : req[p].stage \in {"charge", "ingest"} => req[p].inviter = None)'
      BY <2>2, <2>3 DEF OwedInv
    <2> QED BY <2>5, <2>6 DEF OwedInv
  <1> QED BY <1>3, <1>4

LEMMA LogOwes ==
    ASSUME TypeInv, OwedInv, NEW r \in Requests, LogReferral(r)
    PROVE  OwedInv'
  <1>1. /\ req[r].stage = "log"
        /\ req' = [req EXCEPT ![r] = [NewRequest EXCEPT !.stage = "done"]]
        /\ referralLogs' = referralLogs \cup
                            {[inviter |-> req[r].inviter, invitee |-> req[r].caller]}
        /\ invitedBy' = invitedBy
    BY DEF LogReferral, End
  <1>2. (req[r].stage = "done")' /\ \A p \in Requests \ {r} : req'[p] = req[p]
    BY <1>1 DEF TypeInv, Types, RequestsOK, NewRequest
  <1>3. SomeFailed => SomeFailed'
    BY <1>1, <1>2 DEF SomeFailed
  <1>4. ASSUME NEW u \in Users, invitedBy'[u] # None
        PROVE  (\E log \in referralLogs : log.invitee = u)'
               \/ (\E o \in Requests : OwesReferral(req[o], u))' \/ SomeFailed'
    <2>1. CASE OwesReferral(req[r], u)
      <3> DEFINE log == [inviter |-> req[r].inviter, invitee |-> req[r].caller]
      <3>1. log \in referralLogs' /\ log.invitee = u
        BY <1>1, <2>1 DEF OwesReferral
      <3> QED BY <3>1
    <2>2. CASE ~OwesReferral(req[r], u)
      <3>1. ASSUME NEW p \in Requests, OwesReferral(req[p], u)
            PROVE  (\E o \in Requests : OwesReferral(req[o], u))'
        BY <1>2, <2>2, <3>1
      <3> QED BY <1>1, <1>3, <1>4, <3>1 DEF OwedInv
    <2> QED BY <2>1, <2>2
  <1>5. (\A p \in Requests : req[p].stage \in {"charge", "ingest"} => req[p].inviter = None)'
    BY <1>2 DEF OwedInv
  <1> QED BY <1>4, <1>5 DEF OwedInv

LEMMA StepOwes ==
    ASSUME TypeInv, OwedInv, NEW r \in Requests, Step(r)
    PROVE  OwedInv'
  <1>1. ASSUME RecordBonus(r) PROVE OwedInv'
    <2>1. Active(req[r]) /\ req[r].stage = "bonus"
      BY <1>1 DEF RecordBonus, Active
    <2>2. req[r] \in Request
      BY <2>1, AtWork
    <2>3. StillOwes(req[r], [req[r] EXCEPT !.stage = AfterBonus(req[r])])
      BY <2>1, <2>2 DEF Request, StillOwes, Referring, AfterBonus
    <2>4. AfterBonus(req[r]) = "done" => req[r].inviter = None
      BY DEF AfterBonus
    <2>5. AfterBonus(req[r]) = "done" => StillOwes(req[r], [NewRequest EXCEPT !.stage = "done"])
      BY <2>1, <2>4 DEF NewRequest, StillOwes, Referring
    <2>6. UNCHANGED <<invitedBy, referralLogs>>
      BY <1>1 DEF RecordBonus, referrals
    <2> QED BY <1>1, <2>3, <2>5, <2>6, OwedKept DEF RecordBonus, End, Advance
  <1>2. ASSUME ReadInviter(r) PROVE OwedInv'
    <2>1. Active(req[r]) /\ req[r].stage = "inviter"
      BY <1>2 DEF ReadInviter, Active
    <2>2. req[r].inviter # None
      BY <2>1, AtWork DEF BoundTo
    <2>3. PICK entity :
             req' = [req EXCEPT ![r] = Saving(req[r].op, req[r].caller, req[r].inviter,
                                              req[r].inviter, req[r].wallet, entity,
                                              INVITER_REWARD)]
      BY <1>2 DEF ReadInviter
    <2> DEFINE q == Saving(req[r].op, req[r].caller, req[r].inviter, req[r].inviter,
                           req[r].wallet, entity, INVITER_REWARD)
    <2>4. StillOwes(req[r], q)
      BY <2>1, <2>2 DEF Saving, StillOwes, Referring
    <2>5. UNCHANGED <<invitedBy, referralLogs>>
      BY <1>2 DEF ReadInviter, referrals
    <2> HIDE DEF q
    <2> QED BY <2>3, <2>4, <2>5, OwedKept DEF q
  <1>3. ASSUME NEW cost \in Costs, ChargeNewUser(r, cost) PROVE OwedInv'
    <2> DEFINE u == req[r].caller
               entity == [InitialRow(FALSE) EXCEPT !.ninjaBalance = @ - cost]
               q == IF INITIAL_BONUS >= cost
                    THEN Saving("chat", u, u, None, FALSE, entity, -cost)
                    ELSE [NewRequest EXCEPT !.stage = "done"]
    <2>1. req' = [req EXCEPT ![r] = q] /\ req[r].stage = "charge"
      BY <1>3 DEF ChargeNewUser, End
    <2>2. req[r].inviter = None
      BY <2>1 DEF OwedInv
    <2>3. q.stage \in {"select", "done"}
      BY DEF Saving, NewRequest
    <2>4. UNCHANGED <<invitedBy, referralLogs>>
      BY <1>3 DEF ChargeNewUser, referrals
    <2> HIDE DEF q
    <2>5. StillOwes(req[r], q)
      BY <2>1, <2>2, <2>3 DEF StillOwes, Referring
    <2> QED BY <2>1, <2>4, <2>5, OwedKept
  <1>4. ASSUME SaveSelect(r) PROVE OwedInv'
    <2> DEFINE dirty == Dirty(req[r])
               q == [req[r] EXCEPT !.stage = "update", !.dirty = dirty]
    <2>1. Active(req[r]) /\ req[r].stage = "select"
      BY <1>4 DEF SaveSelect, Active
    <2>2. req[r] \in Request
      BY <2>1, AtWork
    <2>3. req' = [req EXCEPT ![r] = q] /\ UNCHANGED <<invitedBy, referralLogs>>
      BY <1>4 DEF SaveSelect, TypeInv, Types, RequestsOK, referrals
    <2> HIDE DEF dirty
    <2>4. StillOwes(req[r], q)
      BY <2>1, <2>2 DEF Request, StillOwes, Referring
    <2> HIDE DEF q
    <2> QED BY <2>3, <2>4, OwedKept
  <1>5. ASSUME SaveUpdate(r) \/ RecordPoints(r) PROVE OwedInv'
    <2>1. Active(req[r]) /\ req[r].stage \in {"update", "ledger"}
      BY <1>5 DEF SaveUpdate, RecordPoints, Active
    <2>2. req[r] \in Request
      BY <2>1, AtWork
    <2>3. StillOwes(req[r], Continue(req[r])) /\ StillOwes(req[r], AfterSave(req[r]))
      BY <2>1, <2>2, ContinueOwes
    <2>4. UNCHANGED <<invitedBy, referralLogs>>
      BY <1>5 DEF SaveUpdate, RecordPoints, referrals
    <2> QED BY <1>5, <2>3, <2>4, OwedKept DEF SaveUpdate, RecordPoints
  <1>6. ASSUME NEW p \in Purchases, IngestAfterEnsure(r, p) PROVE OwedInv'
    <2>1. /\ req' = [req EXCEPT ![r] = [NewRequest EXCEPT !.stage = "done"]]
          /\ req[r].stage = "ingest" /\ UNCHANGED <<invitedBy, referralLogs>>
      BY <1>6 DEF IngestAfterEnsure, CreditPurchase, End, referrals
    <2>2. StillOwes(req[r], [NewRequest EXCEPT !.stage = "done"])
      BY <2>1 DEF OwedInv, NewRequest, StillOwes, Referring
    <2> QED BY <2>1, <2>2, OwedKept
  <1>7. ASSUME Crash(r) PROVE OwedInv'
    <2>1. req' = [req EXCEPT ![r] = [NewRequest EXCEPT !.stage = "failed"]]
          /\ UNCHANGED <<invitedBy, referralLogs>>
      BY <1>7 DEF Crash, End, referrals
    <2>2. StillOwes(req[r], [NewRequest EXCEPT !.stage = "failed"])
      BY DEF NewRequest, StillOwes
    <2> QED BY <2>1, <2>2, OwedKept
  <1> QED BY <1>1, <1>2, <1>3, <1>4, <1>5, <1>6, <1>7, InsertOwes, LogOwes DEF Step

LEMMA OwedInvNext == TypeInv /\ OwedInv /\ [Next]_vars => OwedInv'
  <1> SUFFICES ASSUME TypeInv, OwedInv, [Next]_vars PROVE OwedInv'
    OBVIOUS
  <1>1. ASSUME UNCHANGED <<req, invitedBy, referralLogs>> PROVE OwedInv'
    BY <1>1 DEF OwedInv, SomeFailed
  <1>2. ASSUME NEW u \in Users, LockedOn(u) PROVE OwedInv'
    BY <1>1, <1>2
    DEF LockedOn, SyncNinja, ConsumeChance, AdjustNinjaBalance, IssueMintVoucher, referrals
  <1>3. ASSUME NEW p \in Purchases, IngestChancePurchase(p) PROVE OwedInv'
    BY <1>1, <1>3 DEF IngestChancePurchase, CreditPurchase, referrals
  <1>4. CASE UNCHANGED vars
    BY <1>1, <1>4 DEF vars, referrals
  <1> QED BY <1>2, <1>3, <1>4, StartOwes, StepOwes DEF Next

(* Two registrations of one credential never both reach referral_logs,     *)
(* whichever of them inserted the row and with whichever code; and when no *)
(* request failed and none is at work, every invited user is in it.        *)
THEOREM ReferralsCorrect == Spec => []ReferredOnce
  <1>1. Init => TypeInv /\ ReferralInv /\ OwedInv
    <2>1. Init => TypeInv /\ ReferralInv
      BY TypeInit DEF Init, ReferralInv, Referring, NewRequest
    <2>2. Init => OwedInv
      BY DEF Init, OwedInv, NewRequest
    <2> QED BY <2>1, <2>2
  <1>2. TypeInv /\ ReferralInv /\ OwedInv /\ [Next]_vars => (TypeInv /\ ReferralInv /\ OwedInv)'
    BY TypeNext, ReferralInvNext, OwedInvNext
  <1>3. TypeInv /\ ReferralInv /\ OwedInv => ReferredOnce
    <2> SUFFICES ASSUME TypeInv, ReferralInv, OwedInv PROVE ReferredOnce
      OBVIOUS
    <2>1. ASSUME NEW a \in referralLogs, NEW b \in referralLogs, a.invitee = b.invitee
          PROVE  a = b
      <3>1. a.inviter = b.inviter
        BY <2>1 DEF ReferralInv
      <3>2. a \in [inviter : Users, invitee : Users] /\ b \in [inviter : Users, invitee : Users]
        BY DEF TypeInv, Types, ReferralsOK
      <3> QED BY <2>1, <3>1, <3>2
    <2>2. ASSUME Settled, NEW u \in Users, invitedBy[u] # None
          PROVE  \E log \in referralLogs : log.invitee = u
      BY <2>2 DEF OwedInv, Settled, SomeFailed, OwesReferral, Referring
    <2> QED BY <2>1, <2>2 DEF ReferredOnce
  <1> QED BY <1>1, <1>2, <1>3, PTL DEF Spec

-----------------------------------------------------------------------------
(* Why the ledger is complete once every request has ended: what unlogged  *)
(* holds is what the requests at work still have to insert.  The sum over  *)
(* them is counted, a millionth of a NINJA at a time: credits less debits. *)

\* The points row that rq has to insert on behalf of u.
Pending(rq, u) ==
    IF rq.stage = "bonus" /\ rq.caller = u THEN INITIAL_BONUS
    ELSE IF rq.stage = "ledger" /\ rq.user = u THEN ToLedger(rq.delta) ELSE 0

Units(f) == {p \in Requests \X Nat : 1 <= p[2] /\ p[2] <= f[p[1]]}

Credits(u) == [r \in Requests |-> Pending(req[r], u)]
Debits(u) == [r \in Requests |-> -Pending(req[r], u)]

AccountedFor(u) ==
    /\ IsFiniteSet(Units(Credits(u))) /\ IsFiniteSet(Units(Debits(u)))
    /\ unlogged[u] = Cardinality(Units(Credits(u))) - Cardinality(Units(Debits(u)))

PendingInv == SomeFailed \/ \A u \in Users : AccountedFor(u)

LEMMA ColumnUnits ==
    ASSUME NEW r, NEW n \in Int
    PROVE  IsFiniteSet({r} \X (1 .. n)) /\ Cardinality({r} \X (1 .. n)) = Larger(0, n)
  <1>1. IsFiniteSet({r}) /\ Cardinality({r}) = 1
    BY FS_Singleton
  <1>2. IsFiniteSet(1 .. n) /\ Cardinality(1 .. n) = Larger(0, n)
    BY FS_Interval DEF Larger
  <1>3. Larger(0, n) \in Int /\ 1 * Larger(0, n) = Larger(0, n)
    BY DEF Larger
  <1> QED BY <1>1, <1>2, <1>3, FS_Product

\* The units of all requests but one, and of that one.
LEMMA SplitUnits ==
    ASSUME NEW f \in [Requests -> Int], NEW r \in Requests
    PROVE  LET others == {p \in Units(f) : p[1] # r}
               own == {r} \X (1 .. f[r])
           IN  Units(f) = others \cup own /\ others \cap own = {} /\ others \subseteq Units(f)
  <1> DEFINE others == {p \in Units(f) : p[1] # r}
             own == {r} \X (1 .. f[r])
  <1>1. f[r] \in Int
    OBVIOUS
  <1>2. own \subseteq Units(f)
    <2>1. ASSUME NEW p \in own PROVE p \in Units(f)
      <3>1. p = <<p[1], p[2]>> /\ p[1] = r /\ p[2] \in 1 .. f[r]
        BY <2>1
      <3>2. p[2] \in Nat /\ 1 <= p[2] /\ p[2] <= f[p[1]]
        BY <1>1, <3>1
      <3>3. p \in Requests \X Nat
        BY <3>1, <3>2
      <3> QED BY <3>2, <3>3 DEF Units
    <2> QED BY <2>1
  <1>3. ASSUME NEW p \in Units(f), p[1] = r PROVE p \in own
    <2>1. p = <<p[1], p[2]>> /\ p[2] \in Nat /\ 1 <= p[2] /\ p[2] <= f[p[1]]
      BY <1>3 DEF Units
    <2>2. p[2] \in 1 .. f[r]
      BY <1>1, <1>3, <2>1
    <2> QED BY <1>3, <2>1, <2>2
  <1>4. others \cap own = {}
    OBVIOUS
  <1> QED BY <1>2, <1>3, <1>4

LEMMA MovedUnits ==
    ASSUME NEW f \in [Requests -> Int], NEW r \in Requests, NEW n \in Int,
           IsFiniteSet(Units(f)), NEW g, g = [f EXCEPT ![r] = n]
    PROVE  /\ IsFiniteSet(Units(g))
           /\ Cardinality(Units(g)) = Cardinality(Units(f)) - Larger(0, f[r]) + Larger(0, n)
           /\ Cardinality(Units(f)) \in Nat
  <1> DEFINE others == {p \in Units(f) : p[1] # r}
             old == {r} \X (1 .. f[r])
             new == {r} \X (1 .. n)
  <1>1. g \in [Requests -> Int] /\ g[r] = n /\ \A q \in Requests \ {r} : g[q] = f[q]
    OBVIOUS
  <1>2. {p \in Units(g) : p[1] # r} = others
    <2>1. ASSUME NEW p \in Requests \X Nat, p[1] # r PROVE f[p[1]] = g[p[1]]
      BY <1>1, <2>1
    <2> QED BY <2>1 DEF Units
  <1>3. Units(f) = others \cup old /\ others \cap old = {} /\ others \subseteq Units(f)
    BY SplitUnits
  <1>4. Units(g) = others \cup new /\ others \cap new = {}
    <2>1. LET rest == {p \in Units(g) : p[1] # r}
              own == {r} \X (1 .. g[r])
          IN  Units(g) = rest \cup own /\ rest \cap own = {}
      BY <1>1, SplitUnits
    <2> QED BY <1>1, <1>2, <2>1
  <1>5. /\ IsFiniteSet(old) /\ Cardinality(old) = Larger(0, f[r])
        /\ IsFiniteSet(new) /\ Cardinality(new) = Larger(0, n)
    BY ColumnUnits
  <1> HIDE DEF others, old, new
  <1>6. IsFiniteSet(others) /\ Cardinality(others) \in Nat /\ Cardinality(Units(f)) \in Nat
    BY <1>3, FS_Subset, FS_CardinalityType
  <1>7. Cardinality(Units(f)) = Cardinality(others) + Larger(0, f[r])
    <2>1. Cardinality(others \cup old)
            = Cardinality(others) + Cardinality(old) - Cardinality(others \cap old)
      BY <1>5, <1>6, FS_Union
    <2>2. Larger(0, f[r]) \in Int
      BY DEF Larger
    <2>3. Cardinality(others \cap old) = 0
      BY <1>3, FS_EmptySet
    <2> QED BY <1>3, <1>5, <1>6, <2>1, <2>2, <2>3
  <1>8. IsFiniteSet(Units(g)) /\ Cardinality(Units(g)) = Cardinality(others) + Larger(0, n)
    <2>1. IsFiniteSet(others \cup new)
          /\ Cardinality(others \cup new)
               = Cardinality(others) + Cardinality(new) - Cardinality(others \cap new)
      BY <1>5, <1>6, FS_Union
    <2>2. Larger(0, n) \in Int
      BY DEF Larger
    <2>3. Cardinality(others \cap new) = 0
      BY <1>4, FS_EmptySet
    <2>4. Cardinality(others \cup new) = Cardinality(others) + Larger(0, n)
      BY <1>5, <1>6, <2>1, <2>2, <2>3
    <2> QED BY <1>4, <2>1, <2>4
  <1>9. Larger(0, f[r]) \in Int /\ Larger(0, n) \in Int
    BY DEF Larger
  <1> QED BY <1>6, <1>7, <1>8, <1>9

LEMMA PendingType ==
    ASSUME NEW rq \in Request, NEW u
    PROVE  Pending(rq, u) \in Int
  BY ConstantsAssumption, LedgerFacts DEF Pending, Request

\* One request moves, and unlogged by as much as its pending row.
LEMMA PendingKept ==
    ASSUME TypeInv, PendingInv, NEW r \in Requests, NEW q \in Request,
           req' = [req EXCEPT ![r] = q],
           req[r].stage = "failed" => q.stage = "failed",
           \A u \in Users :
              unlogged'[u] = unlogged[u] + Pending(q, u) - Pending(req[r], u)
    PROVE  PendingInv'
  <1>1. req'[r] = q /\ (\A p \in Requests \ {r} : req'[p] = req[p]) /\ req \in [Requests -> Request]
    BY DEF TypeInv, Types, RequestsOK
  <1>2. CASE SomeFailed
    BY <1>1, <1>2 DEF PendingInv, SomeFailed
  <1>3. ASSUME NEW u \in Users, AccountedFor(u) PROVE AccountedFor(u)'
    <2>1. Pending(req[r], u) \in Int /\ Pending(q, u) \in Int
      BY <1>1, PendingType
    <2>2. Credits(u) \in [Requests -> Int] /\ Debits(u) \in [Requests -> Int]
      BY <1>1, PendingType DEF Credits, Debits
    <2>3. /\ Credits(u)' = [Credits(u) EXCEPT ![r] = Pending(q, u)]
          /\ Debits(u)' = [Debits(u) EXCEPT ![r] = -Pending(q, u)]
      BY <1>1 DEF Credits, Debits
    <2>4. Credits(u)[r] = Pending(req[r], u) /\ Debits(u)[r] = -Pending(req[r], u)
      BY DEF Credits, Debits
    <2> DEFINE c == Credits(u)
               d == Debits(u)
               m == Pending(req[r], u)
               n == Pending(q, u)
    <2>5. IsFiniteSet(Units(c)) /\ IsFiniteSet(Units(d)) /\ -n \in Int
      BY <1>3, <2>1 DEF AccountedFor
    <2>6. /\ \A g : g = [c EXCEPT ![r] = n] =>
                  /\ IsFiniteSet(Units(g))
                  /\ Cardinality(Units(g)) = Cardinality(Units(c)) - Larger(0, m) + Larger(0, n)
                  /\ Cardinality(Units(c)) \in Nat
          /\ \A g : g = [d EXCEPT ![r] = -n] =>
                  /\ IsFiniteSet(Units(g))
                  /\ Cardinality(Units(g)) = Cardinality(Units(d)) - Larger(0, -m) + Larger(0, -n)
                  /\ Cardinality(Units(d)) \in Nat
      <3> HIDE DEF c, d, m, n
      <3> QED BY <2>1, <2>2, <2>4, <2>5, MovedUnits DEF c, d, m, n
    <2>7. \A k \in Int : Larger(0, k) \in Int /\ Larger(0, k) - Larger(0, -k) = k
      BY DEF Larger
    <2>8. unlogged[u] \in Int
      BY DEF TypeInv, Types, HistoryOK
    <2>9. ASSUME NEW g, NEW h, g = [c EXCEPT ![r] = n], h = [d EXCEPT ![r] = -n]
          PROVE  /\ IsFiniteSet(Units(g)) /\ IsFiniteSet(Units(h))
                 /\ unlogged'[u] = Cardinality(Units(g)) - Cardinality(Units(h))
      <3>1. /\ Larger(0, n) - Larger(0, -n) = n /\ Larger(0, m) - Larger(0, -m) = m
            /\ Larger(0, n) \in Int /\ Larger(0, -n) \in Int
            /\ Larger(0, m) \in Int /\ Larger(0, -m) \in Int
        BY <2>1, <2>7
      <3>2. unlogged[u] = Cardinality(Units(c)) - Cardinality(Units(d))
            /\ unlogged'[u] = unlogged[u] + n - m
        BY <1>3 DEF AccountedFor
      <3>3. m \in Int /\ n \in Int
        BY <2>1
      <3> DEFINE cc == Cardinality(Units(c))
                 dd == Cardinality(Units(d))
                 gg == Cardinality(Units(g))
                 hh == Cardinality(Units(h))
      <3> HIDE DEF c, d, m, n
      <3>4. gg = cc - Larger(0, m) + Larger(0, n) /\ hh = dd - Larger(0, -m) + Larger(0, -n)
            /\ cc \in Nat /\ dd \in Nat /\ IsFiniteSet(Units(g)) /\ IsFiniteSet(Units(h))
        BY <2>6, <2>9
      <3>5. unlogged[u] = cc - dd
        BY <3>2
      <3> HIDE DEF cc, dd, gg, hh
      <3>6. unlogged'[u] = gg - hh
        <4> DEFINE np == Larger(0, n)
                   nn == Larger(0, -n)
                   mp == Larger(0, m)
                   mn == Larger(0, -m)
        <4>1. /\ np - nn = n /\ mp - mn = m /\ np \in Int /\ nn \in Int /\ mp \in Int /\ mn \in Int
              /\ gg = cc - mp + np /\ hh = dd - mn + nn /\ cc \in Int /\ dd \in Int
          BY <3>1, <3>4
        <4> HIDE DEF np, nn, mp, mn
        <4>2. unlogged'[u] = cc - dd + n - m
          BY <3>2, <3>5
        <4> QED BY <3>3, <4>1, <4>2
      <3> QED BY <3>4, <3>6 DEF gg, hh
    <2>10. /\ IsFiniteSet(Units(Credits(u)')) /\ IsFiniteSet(Units(Debits(u)'))
           /\ unlogged'[u] = Cardinality(Units(Credits(u)')) - Cardinality(Units(Debits(u)'))
      BY <2>3, <2>9
    <2> HIDE DEF c, d, m, n
    <2>11. Units(Credits(u))' = Units(Credits(u)') /\ Units(Debits(u))' = Units(Debits(u)')
      BY DEF Units
    <2> QED BY <2>10, <2>11 DEF AccountedFor
  <1> QED BY <1>2, <1>3 DEF PendingInv

\* Only an insert or a save that is not logged yet leaves a row pending.
LEMMA NothingPending ==
    ASSUME NEW rq, rq.stage \notin {"bonus", "ledger"}
    PROVE  \A u : Pending(rq, u) = 0
  BY DEF Pending

LEMMA QuietPending ==
    ASSUME TypeInv, PendingInv, NEW r \in Requests, NEW q \in Request,
           req' = [req EXCEPT ![r] = q], req[r].stage # "failed",
           req[r].stage \notin {"bonus", "ledger"}, q.stage \notin {"bonus", "ledger"},
           unlogged' = unlogged
    PROVE  PendingInv'
  <1>1. \A u \in Users : unlogged'[u] = unlogged[u] + Pending(q, u) - Pending(req[r], u)
    BY NothingPending DEF TypeInv, Types, HistoryOK
  <1> QED BY <1>1, PendingKept

\* A request that fails takes what it had pending with it.
LEMMA FailedPending ==
    ASSUME TypeInv, NEW r \in Requests,
           req' = [req EXCEPT ![r] = [NewRequest EXCEPT !.stage = "failed"]]
    PROVE  PendingInv'
  <1>1. req'[r].stage = "failed"
    BY DEF TypeInv, Types, RequestsOK, NewRequest
  <1> QED BY <1>1 DEF PendingInv, SomeFailed

LEMMA ContinueStages ==
    ASSUME NEW rq \in Request
    PROVE  Continue(rq).stage \in {"select", "log", "ingest", "done"}
  <1>1. \A stage : [rq EXCEPT !.stage = stage].stage = stage
    BY DEF Request
  <1>2. [NewRequest EXCEPT !.stage = "done"].stage = "done"
    BY DEF NewRequest
  <1>3. \A op, caller, user, inviter, wallet, entity, delta :
           Saving(op, caller, user, inviter, wallet, entity, delta).stage = "select"
    BY DEF Saving
  <1> QED BY <1>1, <1>2, <1>3 DEF Continue

LEMMA StartPending ==
    ASSUME TypeInv, PendingInv, NEW r \in Requests, NEW u \in Users, Start(r, u)
    PROVE  PendingInv'
  <1>1. unlogged' = unlogged /\ req[r].stage = "new"
    BY DEF Start, RecordChat, AdjustUserBalance, BackfillWallet, CreateUser, Accepts
  <1>2. req'[r] \in Request
    BY StartType DEF TypeInv, Types, RequestsOK
  <1>3. ASSUME NEW q, req' = [req EXCEPT ![r] = q], q.stage \in {"select", "insert"}
        PROVE  PendingInv'
    <2>1. q \in Request
      BY <1>2, <1>3 DEF TypeInv, Types, RequestsOK
    <2> QED BY <1>1, <1>3, <2>1, QuietPending
  <1>4. ASSUME NEW cost \in Costs, RecordChat(r, u, cost) PROVE PendingInv'
    <2> DEFINE q == Saving("chat", u, u, None, FALSE,
                           [users[u] EXCEPT !.ninjaBalance = @ - cost], -cost)
    <2>1. req' = [req EXCEPT ![r] = q] /\ q.stage = "select"
      BY <1>4 DEF RecordChat, Saving
    <2> HIDE DEF q
    <2> QED BY <1>3, <2>1
  <1>5. ASSUME NEW amount \in Adjustments, NEW mode \in {"set", "increment"},
               AdjustUserBalance(r, u, amount, mode)
        PROVE  PendingInv'
    <2>1. PICK entity, delta :
             req' = [req EXCEPT ![r] = Saving("admin", u, u, None, FALSE, entity, delta)]
      BY <1>5 DEF AdjustUserBalance
    <2> DEFINE q == Saving("admin", u, u, None, FALSE, entity, delta)
    <2>2. req' = [req EXCEPT ![r] = q] /\ q.stage = "select"
      BY <2>1 DEF Saving
    <2> HIDE DEF q
    <2> QED BY <1>3, <2>2
  <1>6. ASSUME NEW op \in {"register", "login", "webhook"}, BackfillWallet(r, u, op)
        PROVE  PendingInv'
    <2> DEFINE q == Saving(op, u, u, None, TRUE, [users[u] EXCEPT !.walletAddress = TRUE], 0)
    <2>1. req' = [req EXCEPT ![r] = q] /\ q.stage = "select"
      BY <1>6 DEF BackfillWallet, Saving
    <2> HIDE DEF q
    <2> QED BY <1>3, <2>1
  <1>7. ASSUME NEW op, NEW inviter, NEW wallet, CreateUser(r, u, op, inviter, wallet)
        PROVE  PendingInv'
    <2> DEFINE q == [Saving(op, u, u, inviter, wallet, NoRow, 0) EXCEPT !.stage = "insert"]
    <2>1. req' = [req EXCEPT ![r] = q] /\ q.stage = "insert"
      BY <1>7 DEF CreateUser, Saving
    <2> HIDE DEF q
    <2> QED BY <1>3, <2>1
  <1> QED BY <1>4, <1>5, <1>6, <1>7 DEF Start

LEMMA InsertPending ==
    ASSUME TypeInv, PendingInv, NEW r \in Requests, InsertUser(r)
    PROVE  PendingInv'
  <1>1. Active(req[r]) /\ req[r].stage = "insert"
    BY DEF InsertUser, Active
  <1>2. req[r] \in Request /\ req[r].caller \in Users
    BY <1>1, AtWork
  <1>3. CASE CredentialTaken(req[r].caller)
    BY <1>3, FailedPending DEF InsertUser, End
  <1>4. CASE ~CredentialTaken(req[r].caller)
    <2> DEFINE q == [req[r] EXCEPT !.stage = "bonus"]
    <2>1. /\ req' = [req EXCEPT ![r] = q]
          /\ unlogged' = [unlogged EXCEPT ![req[r].caller] = @ + INITIAL_BONUS]
      BY <1>4 DEF InsertUser, Advance
    <2>2. q.stage = "bonus" /\ q.caller = req[r].caller
      BY <1>2 DEF Request
    <2> HIDE DEF q
    <2>3. q \in Request
      BY <2>1, StepType DEF Step, TypeInv, Types, RequestsOK
    <2>4. ASSUME NEW u \in Users
          PROVE  unlogged'[u] = unlogged[u] + Pending(q, u) - Pending(req[r], u)
      <3>1. Pending(req[r], u) = 0
        BY <1>1, NothingPending
      <3>2. Pending(q, u) = IF u = req[r].caller THEN INITIAL_BONUS ELSE 0
        BY <2>2 DEF Pending
      <3>3. unlogged \in [Users -> Int] /\ INITIAL_BONUS \in Int
        BY ConstantsAssumption DEF TypeInv, Types, HistoryOK
      <3> QED BY <1>2, <2>1, <3>1, <3>2, <3>3
    <2> QED BY <1>1, <2>1, <2>2, <2>3, <2>4, PendingKept
  <1> QED BY <1>3, <1>4

LEMMA BonusPending ==
    ASSUME TypeInv, PendingInv, NEW r \in Requests, RecordBonus(r)
    PROVE  PendingInv'
  <1>1. Active(req[r]) /\ req[r].stage = "bonus"
    BY DEF RecordBonus, Active
  <1>2. req[r] \in Request /\ req[r].caller \in Users
    BY <1>1, AtWork
  <1>3. unlogged' = [unlogged EXCEPT ![req[r].caller] = @ - INITIAL_BONUS]
    BY DEF RecordBonus
  <1>4. AfterBonus(req[r]) \in {"inviter", "charge", "ingest", "done"}
    BY DEF AfterBonus
  <1>5. PICK q : req' = [req EXCEPT ![r] = q]
                 /\ q.stage \in {"inviter", "charge", "ingest", "done"}
    <2>1. [req[r] EXCEPT !.stage = AfterBonus(req[r])].stage = AfterBonus(req[r])
      BY <1>2 DEF Request
    <2>2. [NewRequest EXCEPT !.stage = "done"].stage = "done"
      BY DEF NewRequest
    <2>3. CASE AfterBonus(req[r]) = "done"
      BY <2>2, <2>3 DEF RecordBonus, End
    <2>4. CASE AfterBonus(req[r]) # "done"
      <3>1. req' = [req EXCEPT ![r] = [req[r] EXCEPT !.stage = AfterBonus(req[r])]]
        BY <2>4 DEF RecordBonus, Advance
      <3> QED BY <1>4, <2>1, <3>1
    <2> QED BY <2>3, <2>4
  <1>6. q \in Request
    BY <1>5, StepType DEF Step, TypeInv, Types, RequestsOK
  <1>7. ASSUME NEW u \in Users
        PROVE  unlogged'[u] = unlogged[u] + Pending(q, u) - Pending(req[r], u)
    <2>1. Pending(q, u) = 0
      BY <1>5, NothingPending
    <2>2. Pending(req[r], u) = IF u = req[r].caller THEN INITIAL_BONUS ELSE 0
      BY <1>1 DEF Pending
    <2>3. unlogged \in [Users -> Int] /\ INITIAL_BONUS \in Int
      BY ConstantsAssumption DEF TypeInv, Types, HistoryOK
    <2> QED BY <1>2, <1>3, <2>1, <2>2, <2>3
  <1> QED BY <1>1, <1>5, <1>6, <1>7, PendingKept

LEMMA UpdatePending ==
    ASSUME TypeInv, PendingInv, NEW r \in Requests, SaveUpdate(r)
    PROVE  PendingInv'
  <1> DEFINE q == AfterSave(req[r])
  <1>1. Active(req[r]) /\ req[r].stage = "update"
    BY DEF SaveUpdate, Active
  <1>2. req[r] \in Request /\ req[r].user \in Users /\ req[r].delta \in Int
    BY <1>1, AtWork DEF Request
  <1>3. /\ unlogged' = [unlogged EXCEPT ![req[r].user] = @ + ToLedger(req[r].delta)]
        /\ req' = [req EXCEPT ![r] = q]
    BY DEF SaveUpdate
  <1>4. q \in Request
    BY <1>3, StepType DEF Step, TypeInv, Types, RequestsOK
  <1>5. ASSUME NEW u \in Users
        PROVE  Pending(q, u) = IF u = req[r].user THEN ToLedger(req[r].delta) ELSE 0
    <2>1. CASE req[r].delta # 0
      <3>1. q = [req[r] EXCEPT !.stage = "ledger"]
        BY <2>1 DEF AfterSave
      <3>2. q.stage = "ledger" /\ q.user = req[r].user /\ q.delta = req[r].delta
        BY <1>2, <3>1 DEF Request
      <3> HIDE DEF q
      <3> QED BY <3>2 DEF Pending
    <2>2. CASE req[r].delta = 0
      <3>1. ToLedger(0) = 0
        BY LedgerFacts DEF Whole, Cent
      <3> QED BY <1>2, <2>2, <3>1, ContinueStages, NothingPending DEF AfterSave
    <2> QED BY <2>1, <2>2
  <1> HIDE DEF q
  <1>6. ASSUME NEW u \in Users
        PROVE  unlogged'[u] = unlogged[u] + Pending(q, u) - Pending(req[r], u)
    <2>1. Pending(req[r], u) = 0
      BY <1>1, NothingPending
    <2>2. unlogged \in [Users -> Int]
      BY DEF TypeInv, Types, HistoryOK
    <2>3. ToLedger(req[r].delta) \in Int
      BY <1>2, LedgerFacts
    <2> QED BY <1>2, <1>3, <1>5, <2>1, <2>2, <2>3
  <1> QED BY <1>1, <1>3, <1>4, <1>6, PendingKept

LEMMA PointsPending ==
    ASSUME TypeInv, PendingInv, NEW r \in Requests, RecordPoints(r)
    PROVE  PendingInv'
  <1> DEFINE q == Continue(req[r])
  <1>1. Active(req[r]) /\ req[r].stage = "ledger"
    BY DEF RecordPoints, Active
  <1>2. req[r] \in Request /\ req[r].user \in Users /\ req[r].delta \in Int
    BY <1>1, AtWork DEF Request
  <1>3. /\ unlogged' = [unlogged EXCEPT ![req[r].user] = @ - ToLedger(req[r].delta)]
        /\ req' = [req EXCEPT ![r] = q]
    BY DEF RecordPoints
  <1>4. q \in Request
    BY <1>3, StepType DEF Step, TypeInv, Types, RequestsOK
  <1>5. q.stage \notin {"bonus", "ledger"}
    BY <1>2, ContinueStages
  <1> HIDE DEF q
  <1>6. ASSUME NEW u \in Users
        PROVE  unlogged'[u] = unlogged[u] + Pending(q, u) - Pending(req[r], u)
    <2>1. Pending(q, u) = 0
      BY <1>5, NothingPending
    <2>2. Pending(req[r], u) = IF u = req[r].user THEN ToLedger(req[r].delta) ELSE 0
      BY <1>1 DEF Pending
    <2>3. unlogged \in [Users -> Int] /\ ToLedger(req[r].delta) \in Int
      BY <1>2, LedgerFacts DEF TypeInv, Types, HistoryOK
    <2> QED BY <1>2, <1>3, <2>1, <2>2, <2>3
  <1> QED BY <1>1, <1>3, <1>4, <1>6, PendingKept

LEMMA StepPending ==
    ASSUME TypeInv, PendingInv, NEW r \in Requests, Step(r)
    PROVE  PendingInv'
  <1>1. ASSUME NEW q, req' = [req EXCEPT ![r] = q], unlogged' = unlogged,
               req[r].stage \in {"inviter", "charge", "select", "log", "ingest"},
               q.stage \in {"select", "update", "done"}
        PROVE  PendingInv'
    <2>1. q \in Request
      BY <1>1, StepType DEF TypeInv, Types, RequestsOK
    <2> QED BY <1>1, <2>1, QuietPending
  <1>2. [NewRequest EXCEPT !.stage = "done"].stage = "done"
    BY DEF NewRequest
  <1>3. ASSUME ReadInviter(r) PROVE PendingInv'
    <2>1. PICK entity :
             req' = [req EXCEPT ![r] = Saving(req[r].op, req[r].caller, req[r].inviter,
                                              req[r].inviter, req[r].wallet, entity,
                                              INVITER_REWARD)]
      BY <1>3 DEF ReadInviter
    <2> DEFINE q == Saving(req[r].op, req[r].caller, req[r].inviter, req[r].inviter,
                           req[r].wallet, entity, INVITER_REWARD)
    <2>2. q.stage = "select" /\ req' = [req EXCEPT ![r] = q]
      BY <2>1 DEF Saving
    <2>3. req[r].stage = "inviter" /\ unlogged' = unlogged
      BY <1>3 DEF ReadInviter
    <2> HIDE DEF q
    <2> QED BY <1>1, <2>2, <2>3
  <1>4. ASSUME NEW cost \in Costs, ChargeNewUser(r, cost) PROVE PendingInv'
    <2> DEFINE u == req[r].caller
               entity == [InitialRow(FALSE) EXCEPT !.ninjaBalance = @ - cost]
               q == IF INITIAL_BONUS >= cost
                    THEN Saving("chat", u, u, None, FALSE, entity, -cost)
                    ELSE [NewRequest EXCEPT !.stage = "done"]
    <2>1. req' = [req EXCEPT ![r] = q] /\ req[r].stage = "charge" /\ unlogged' = unlogged
      BY <1>4 DEF ChargeNewUser, End
    <2>2. q.stage \in {"select", "done"}
      BY <1>2 DEF Saving
    <2> HIDE DEF q
    <2> QED BY <1>1, <2>1, <2>2
  <1>5. ASSUME SaveSelect(r) PROVE PendingInv'
    <2> DEFINE dirty == Dirty(req[r])
               q == [req[r] EXCEPT !.stage = "update", !.dirty = dirty]
    <2>1. Active(req[r]) /\ req[r].stage = "select"
      BY <1>5 DEF SaveSelect, Active
    <2>2. req[r] \in Request
      BY <2>1, AtWork
    <2>3. req' = [req EXCEPT ![r] = q] /\ unlogged' = unlogged
      BY <1>5 DEF SaveSelect, TypeInv, Types, RequestsOK
    <2> HIDE DEF dirty
    <2>4. q.stage = "update"
      BY <2>2 DEF Request
    <2> HIDE DEF q
    <2> QED BY <1>1, <2>1, <2>3, <2>4
  <1>6. ASSUME LogReferral(r) \/ \E p \in Purchases : IngestAfterEnsure(r, p)
        PROVE  PendingInv'
    <2>1. /\ req' = [req EXCEPT ![r] = [NewRequest EXCEPT !.stage = "done"]]
          /\ req[r].stage \in {"log", "ingest"} /\ unlogged' = unlogged
      BY <1>6 DEF LogReferral, IngestAfterEnsure, CreditPurchase, End
    <2> QED BY <1>1, <1>2, <2>1
  <1>7. ASSUME Crash(r) PROVE PendingInv'
    BY <1>7, FailedPending DEF Crash, End
  <1> QED BY <1>3, <1>4, <1>5, <1>6, <1>7, InsertPending, BonusPending, UpdatePending,
             PointsPending DEF Step

LEMMA PendingNext == TypeInv /\ PendingInv /\ [Next]_vars => PendingInv'
  <1> SUFFICES ASSUME TypeInv, PendingInv, [Next]_vars PROVE PendingInv'
    OBVIOUS
  <1>1. ASSUME UNCHANGED <<req, unlogged>> PROVE PendingInv'
    <2>1. SomeFailed' <=> SomeFailed
      BY <1>1 DEF SomeFailed
    <2>2. \A u \in Users : AccountedFor(u)' <=> AccountedFor(u)
      BY <1>1 DEF AccountedFor, Credits, Debits, Pending, Units
    <2> QED BY <2>1, <2>2 DEF PendingInv
  <1>2. ASSUME NEW u \in Users, LockedOn(u) PROVE PendingInv'
    BY <1>1, <1>2
    DEF LockedOn, SyncNinja, ConsumeChance, AdjustNinjaBalance, IssueMintVoucher
  <1>3. ASSUME NEW p \in Purchases, IngestChancePurchase(p) PROVE PendingInv'
    BY <1>1, <1>3 DEF IngestChancePurchase, CreditPurchase
  <1>4. CASE UNCHANGED vars
    BY <1>1, <1>4 DEF vars
  <1> QED BY <1>2, <1>3, <1>4, StartPending, StepPending DEF Next

LEMMA PendingZero ==
    ASSUME NEW u, \A r \in Requests : Pending(req[r], u) = 0
    PROVE  Units(Credits(u)) = {} /\ Units(Debits(u)) = {}
  <1>1. \A r \in Requests : Credits(u)[r] = 0 /\ Debits(u)[r] = 0
    BY DEF Credits, Debits
  <1>2. ASSUME NEW f, \A r \in Requests : f[r] = 0, NEW p \in Units(f) PROVE FALSE
    BY <1>2 DEF Units
  <1> QED BY <1>1, <1>2

(* recordChat, adjustUserBalance, createUser and its referral save a       *)
(* balance and insert its points row in two statements: once no request is *)
(* at work and none was cut off between the two, the points rows of every  *)
(* user not raced over add up to the balance, up to what the two columns   *)
(* have rounded off fractions of a cent.                                   *)
THEOREM SettledLedgerCorrect == Spec => []SettledLedger
  <1>1. Init => PendingInv
    <2> SUFFICES ASSUME Init PROVE PendingInv
      OBVIOUS
    <2>1. ASSUME NEW u \in Users PROVE AccountedFor(u)
      <3>1. \A r \in Requests : Pending(req[r], u) = 0
        BY NothingPending DEF Init, NewRequest
      <3>2. unlogged[u] = 0
        BY DEF Init
      <3> QED BY <3>1, <3>2, PendingZero, FS_EmptySet DEF AccountedFor
    <2> QED BY <2>1 DEF PendingInv
  <1>2. IInv /\ PendingInv /\ [Next]_vars => (IInv /\ PendingInv)'
    BY InvNext, PendingNext DEF IInv
  <1>3. IInv /\ PendingInv => SettledLedger
    <2> SUFFICES ASSUME IInv, PendingInv, Settled, NEW u \in Users \ raced
                 PROVE  WithinRounding(u, pointsTotal[u])
      BY DEF SettledLedger
    <2>1. \A r \in Requests : Pending(req[r], u) = 0
      BY NothingPending DEF Settled
    <2>2. AccountedFor(u)
      BY DEF PendingInv, SomeFailed, Settled
    <2>3. unlogged[u] = 0
      BY <2>1, <2>2, PendingZero, FS_EmptySet DEF AccountedFor
    <2>4. pointsTotal[u] + unlogged[u] = pointsTotal[u]
      BY <2>3 DEF IInv, TypeInv, Types, LedgersOK
    <2>5. WithinRounding(u, pointsTotal[u] + unlogged[u])
      BY DEF IInv, ConsistentUnlessRaced, Consistent
    <2> QED BY <2>4, <2>5
  <1> QED BY <1>1, <1>2, <1>3, InvInit, PTL DEF Spec

=============================================================================
