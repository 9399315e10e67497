---------------------------- MODULE ChanceWorker ----------------------------
(***************************************************************************)
(* The chance worker: a separate process that follows the ChancePurchased  *)
(* logs of the chain and notifies the backend's webhook of each.           *)
(*                                                                         *)
(* Its only durable state is a file with the last block processed.  It     *)
(* reads a range of confirmed blocks, posts the range's logs one by one,   *)
(* and saves the end of the range.  Any error drops the range; the next    *)
(* poll reads it again from the cursor, so that logs already credited are  *)
(* posted again and the webhook must recognise them.                       *)
(*                                                                         *)
(* The chain, the RPC node and the network are the environment.  The       *)
(* webhook is one step here; Accounts has its detail.                      *)
(***************************************************************************)
EXTENDS Integers

CONSTANTS
    Users,
    Purchases,             \* the logs the chain may hold
    BLOCK_CONFIRMATIONS,
    MAX_BLOCK_RANGE,
    RECEIPT_FALLBACK_BLOCK_RANGE,
    START_BLOCK,
    AUTO_CATCH_UP,
    AUTO_CATCH_UP_WINDOW,
    MAX_LAG_BEFORE_RESET,
    NodeLag,               \* how many blocks behind the chain an RPC node may be
    Gaps,                  \* whether the RPC may leave logs out of an answer
    MaxHeight,             \* bound: blocks of the chain
    MaxFaults              \* bound: errors, signals and crashes of a run

Purchase == [txHash : Nat, user : Users, chances : Nat, index : Nat]

ASSUME WorkerAssumption ==
    /\ Purchases \subseteq Purchase
    /\ \A p, q \in Purchases : p.txHash = q.txHash /\ p.index = q.index => p = q
    /\ BLOCK_CONFIRMATIONS \in Nat
    /\ MAX_BLOCK_RANGE \in Nat \ {0}
    /\ RECEIPT_FALLBACK_BLOCK_RANGE \in Nat \ {0}
    /\ START_BLOCK \in 0 .. MaxHeight
    /\ AUTO_CATCH_UP \in BOOLEAN
    /\ AUTO_CATCH_UP_WINDOW \in Nat
    /\ MAX_LAG_BEFORE_RESET \in Nat
    /\ NodeLag \in Nat
    /\ Gaps \in BOOLEAN
    /\ MaxHeight \in Nat
    /\ MaxFaults \in Nat

VARIABLES
    \* the chain and the backend
    height,        \* the newest block
    minedIn,       \* the block of each log, 0 while it is in none
    registered,    \* the users whose wallet the webhook can resolve
    credited,      \* chance_transactions
    chances,       \* what each user was credited in all
    inFlight,      \* notifications the worker gave up on, perhaps not yet handled
    \* the worker
    stateFile,     \* lastProcessedBlock on disk; 0 stands for no readable file
    stage,
    running,
    cursor,        \* state.lastProcessedBlock in memory
    target, fromBlock, toBlock,
    pending,       \* logs of the range still to post
    forceReceiptFallback,
    \* bookkeeping: nothing in the code reads these
    overlooked,    \* logs of the range the RPC did not show
    missed,        \* logs the cursor passed without the worker having seen them
    faults

chain == <<height, minedIn, registered>>
backend == <<credited, chances, inFlight>>
range == <<target, fromBlock, toBlock, pending, overlooked>>
vars == <<chain, backend, stateFile, stage, running, cursor, range,
          forceReceiptFallback, missed, faults>>

Heights == 0 .. MaxHeight
Stages == {"down", "idle", "range", "posting"}

ChainOK ==
    /\ height \in Heights
    /\ minedIn \in [Purchases -> Heights]
    /\ registered \subseteq Users

BackendOK ==
    /\ credited \subseteq Purchases
    /\ chances \in [Users -> Nat]
    /\ inFlight \subseteq Purchases

WorkerOK ==
    /\ stateFile \in Heights /\ cursor \in Heights
    /\ stage \in Stages
    /\ running \in BOOLEAN /\ forceReceiptFallback \in BOOLEAN
    /\ faults \in 0 .. MaxFaults
    /\ missed \subseteq Purchases

RangeOK ==
    /\ target \in Heights /\ fromBlock \in 0 .. MaxHeight + 1 /\ toBlock \in Heights
    /\ pending \subseteq Purchases /\ overlooked \subseteq Purchases

TypeOK == ChainOK /\ BackendOK /\ WorkerOK /\ RangeOK

Init ==
    /\ height = 0
    /\ minedIn = [p \in Purchases |-> 0]
    /\ registered = {}
    /\ credited = {}
    /\ chances = [u \in Users |-> 0]
    /\ inFlight = {}
    /\ stateFile = 0
    /\ stage = "down"
    /\ running = TRUE
    /\ cursor = 0
    /\ target = 0 /\ fromBlock = 0 /\ toBlock = 0
    /\ pending = {}
    /\ forceReceiptFallback = FALSE
    /\ overlooked = {}
    /\ missed = {}
    /\ faults = 0

-----------------------------------------------------------------------------
(* The environment.                                                        *)

Mined(p) == minedIn[p] > 0
LogsIn(from, to) == {p \in Purchases : Mined(p) /\ minedIn[p] >= from /\ minedIn[p] <= to}

\* A block; the logs of one transaction are in one block.
Mine(logs) ==
    /\ height < MaxHeight
    /\ \A p \in logs : ~Mined(p)
    /\ \A p \in logs, q \in Purchases : q.txHash = p.txHash => q \in logs
    /\ height' = height + 1
    /\ minedIn' = [p \in Purchases |-> IF p \in logs THEN height + 1 ELSE minedIn[p]]
    /\ UNCHANGED <<registered, backend, stateFile, stage, running, cursor, range,
                   forceReceiptFallback, missed, faults>>

Register(u) ==
    /\ u \notin registered
    /\ registered' = registered \cup {u}
    /\ UNCHANGED <<height, minedIn, backend, stateFile, stage, running, cursor, range,
                   forceReceiptFallback, missed, faults>>

\* What eth_blockNumber may answer.
ReportedHeights == {h \in Heights : h <= height /\ h >= height - NodeLag}

-----------------------------------------------------------------------------
(* The webhook, on a registered buyer.                                     *)

NeverDuplicate(p) == FALSE                     \* mutation: txHash not unique
Duplicate(p) == \E q \in credited : q.txHash = p.txHash

IngestChancePurchase(p) ==
    IF Duplicate(p)
    THEN UNCHANGED <<credited, chances>>
    ELSE /\ credited' = credited \cup {p}
         /\ chances' = [chances EXCEPT ![p.user] = @ + p.chances]

\* A notification the worker no longer waits for is handled after all, or
\* never.
LateDelivery(p) ==
    /\ p \in inFlight
    /\ inFlight' = inFlight \ {p}
    /\ \/ p.user \in registered /\ IngestChancePurchase(p)
       \/ UNCHANGED <<credited, chances>>
    /\ UNCHANGED <<chain, stateFile, stage, running, cursor, range,
                   forceReceiptFallback, missed, faults>>

-----------------------------------------------------------------------------
(* bootstrap: where a started worker goes on.                              *)

Larger(a, b) == IF a >= b THEN a ELSE b
Smaller(a, b) == IF a <= b THEN a ELSE b

Newest(latest) == latest                       \* mutation: no confirmations
Target(latest) == Larger(0, latest - BLOCK_CONFIRMATIONS)

BelowZero(t) == t - AUTO_CATCH_UP_WINDOW       \* mutation: no Math.max(0, ...)
CatchUpStart(t) == Larger(0, t - AUTO_CATCH_UP_WINDOW)

FromNow(saved, t) == IF saved <= 0 THEN t ELSE saved   \* mutation: no catch-up window
StartingCursor(saved, t) ==
    IF saved <= 0 THEN IF START_BLOCK > 0 THEN START_BLOCK ELSE CatchUpStart(t)
    ELSE IF saved > t THEN IF START_BLOCK > 0 THEN Smaller(START_BLOCK, t) ELSE CatchUpStart(t)
    ELSE IF AUTO_CATCH_UP /\ START_BLOCK <= 0 /\ t - saved > MAX_LAG_BEFORE_RESET
         THEN CatchUpStart(t)
    ELSE saved

Settled(p) == p \in missed \/ Duplicate(p)

\* Logs a cursor set by bootstrap passes unread.
Passed(c) == {p \in LogsIn(1, c) : ~Duplicate(p)}

Start ==
    /\ stage = "down"
    /\ \E latest \in ReportedHeights :
          LET c == StartingCursor(stateFile, Target(latest)) IN
          /\ cursor' = c
          /\ stateFile' = c
          /\ missed' = IF c = stateFile THEN missed ELSE missed \cup Passed(c)
    /\ stage' = "idle"
    /\ running' = TRUE
    /\ forceReceiptFallback' = FALSE
    /\ UNCHANGED <<chain, backend, range, faults>>

Fault == faults < MaxFaults /\ faults' = faults + 1

\* writeFileSync throws, or the process dies in it: the file is truncated.
StartFails ==
    /\ stage = "down"
    /\ \E latest \in ReportedHeights : StartingCursor(stateFile, Target(latest)) # stateFile
    /\ Fault
    /\ stateFile' = 0
    /\ UNCHANGED <<chain, backend, stage, running, cursor, range, forceReceiptFallback, missed>>

-----------------------------------------------------------------------------
(* The polling loop.                                                       *)

StrictlyBelow(from, t) == from < t             \* mutation: the last block waits
MoreBlocks(from, t) == from <= t

NoRange == /\ target' = 0 /\ fromBlock' = 0 /\ toBlock' = 0
           /\ pending' = {} /\ overlooked' = {}

Poll ==
    /\ stage = "idle"
    /\ running
    /\ \E latest \in ReportedHeights :
          /\ Target(latest) > cursor
          /\ MoreBlocks(cursor + 1, Target(latest))
          /\ target' = Target(latest)
    /\ fromBlock' = cursor + 1
    /\ stage' = "range"
    /\ UNCHANGED <<chain, backend, stateFile, running, cursor, toBlock, pending, overlooked,
                   forceReceiptFallback, missed, faults>>

\* The end of the next batch, with or without eth_getLogs.
RangeEnd(from, t) ==
    Smaller(t, from - 1 + (IF forceReceiptFallback THEN RECEIPT_FALLBACK_BLOCK_RANGE
                                                   ELSE MAX_BLOCK_RANGE))

(* processRange, up to its first post: the logs of the range, by           *)
(* eth_getLogs or, once a node refused that, receipt by receipt.  "block   *)
(* bloom event is not found", a null block, a null receipt and a node that *)
(* is behind all count as "no such logs".                                  *)
FetchRange ==
    LET to == RangeEnd(fromBlock, target)
        logs == LogsIn(fromBlock, to)
    IN
    /\ stage = "range"
    /\ toBlock' = to
    /\ \E found \in IF Gaps THEN SUBSET logs ELSE {logs} :
          /\ pending' = found
          /\ overlooked' = logs \ found
    /\ forceReceiptFallback' \in {forceReceiptFallback, TRUE}
    /\ stage' = "posting"
    /\ UNCHANGED <<chain, backend, stateFile, running, cursor, target, fromBlock,
                   missed, faults>>

\* Logs are posted in the order of the chain.
First(p) ==
    /\ p \in pending
    /\ \A q \in pending : \/ minedIn[p] < minedIn[q]
                          \/ minedIn[p] = minedIn[q] /\ p.index <= q.index

\* The error path of the loop: the range is dropped, the cursor stays.
Retry == stage' = "idle" /\ NoRange

PostPurchase(p) ==
    /\ stage = "posting"
    /\ First(p)
    /\ p.user \in registered
    /\ IngestChancePurchase(p)
    /\ pending' = pending \ {p}
    /\ UNCHANGED <<chain, inFlight, stateFile, stage, running, cursor, target, fromBlock,
                   toBlock, overlooked, forceReceiptFallback, missed, faults>>

\* The webhook answers that it knows no user with the buyer's wallet.
PostRejected(p) ==
    /\ stage = "posting"
    /\ First(p)
    /\ p.user \notin registered
    /\ Retry
    /\ UNCHANGED <<chain, backend, stateFile, running, cursor, forceReceiptFallback,
                   missed, faults>>

\* No answer: the notification may have arrived, may still arrive, or not.
PostFails(p) ==
    /\ stage = "posting"
    /\ First(p)
    /\ Fault
    /\ inFlight' = inFlight \cup {p}
    /\ Retry
    /\ UNCHANGED <<chain, credited, chances, stateFile, running, cursor,
                   forceReceiptFallback, missed>>

\* The RPC fails, when the range is read or between two receipts.
ReadFails ==
    /\ stage \in {"range", "posting"}
    /\ Fault
    /\ Retry
    /\ UNCHANGED <<chain, backend, stateFile, running, cursor, forceReceiptFallback, missed>>

Unawaited == TRUE                              \* mutation: posts not awaited
AllPosted == pending = {}

\* The loop's next batch, or its end.
NextBatch ==
    IF MoreBlocks(toBlock + 1, target)
    THEN /\ stage' = "range" /\ fromBlock' = toBlock + 1 /\ toBlock' = 0
         /\ pending' = {} /\ overlooked' = {} /\ UNCHANGED target
    ELSE stage' = "idle" /\ NoRange

FinishRange ==
    /\ stage = "posting"
    /\ AllPosted
    /\ cursor' = toBlock
    /\ stateFile' = toBlock
    /\ missed' = missed \cup overlooked
    /\ NextBatch
    /\ UNCHANGED <<chain, backend, running, forceReceiptFallback, faults>>

\* writeFileSync throws: the cursor in memory has moved, the file has not,
\* or was truncated.
SaveFails ==
    /\ stage = "posting"
    /\ AllPosted
    /\ Fault
    /\ cursor' = toBlock
    /\ stateFile' \in {stateFile, 0}
    /\ missed' = missed \cup overlooked
    /\ Retry
    /\ UNCHANGED <<chain, backend, running, forceReceiptFallback>>

\* SIGINT or SIGTERM: noticed when the batches at hand are done.
Signal ==
    /\ stage # "down"
    /\ running
    /\ Fault
    /\ running' = FALSE
    /\ UNCHANGED <<chain, backend, stateFile, stage, cursor, range,
                   forceReceiptFallback, missed>>

Stopped == stage' = "down" /\ cursor' = 0 /\ running' = TRUE /\ NoRange
           /\ forceReceiptFallback' = FALSE

Exit ==
    /\ stage = "idle"
    /\ ~running
    /\ Stopped
    /\ UNCHANGED <<chain, backend, stateFile, missed, faults>>

(* The process dies; while it writes the state file, the file is left      *)
(* truncated.  A request it was waiting for may still be handled.          *)
Crash ==
    /\ stage # "down"
    /\ Fault
    /\ inFlight' = inFlight \cup {p \in pending : stage = "posting" /\ First(p)}
    /\ stateFile' \in IF stage = "posting" /\ AllPosted THEN {stateFile, 0} ELSE {stateFile}
    /\ Stopped
    /\ UNCHANGED <<chain, credited, chances, missed>>

-----------------------------------------------------------------------------
Environment ==
    \/ \E logs \in SUBSET Purchases : Mine(logs)
    \/ \E u \in Users : Register(u)
    \/ \E p \in Purchases : LateDelivery(p)

Failure ==
    \/ StartFails \/ (\E p \in Purchases : PostFails(p))
    \/ ReadFails \/ SaveFails \/ Signal \/ Crash

Worker ==
    \/ Start \/ Poll \/ FetchRange
    \/ \E p \in Purchases : PostPurchase(p) \/ PostRejected(p)
    \/ FinishRange \/ Exit

Next == Environment \/ Failure \/ Worker

Spec == Init /\ [][Next]_vars

(* The worker's own steps happen: its loop never stops polling, its await- *)
(* ed calls end, and a worker that is down is started again.               *)
FairSpec == Spec /\ WF_vars(Worker)

-----------------------------------------------------------------------------
(* Properties.                                                             *)

\* Every log in a block up to c was credited or is in missed.  A worker with
\* a START_BLOCK is told to leave alone what is not after it.
Covered(c) == \A p \in LogsIn(START_BLOCK + 1, c) : Settled(p)

(* Neither the cursor in memory nor the one on disk ever passes a log that *)
(* was not credited, unless the RPC withheld it or bootstrap jumped over   *)
(* it: whatever fails between the first post of a range and the save of    *)
(* its end, and however often.                                             *)
NoPurchaseSkipped == Covered(cursor) /\ Covered(stateFile)

(* With an RPC that withholds nothing and a catch-up window that reaches   *)
(* back to the contract's deployment, no loss of the state file, lagging   *)
(* node, signal or crash ever makes the worker jump over a log.            *)
NothingMissed == missed = {}

(* Only logs BLOCK_CONFIRMATIONS deep are credited, from whichever node    *)
(* the height was read.                                                    *)
OnlyConfirmed ==
    \A p \in credited : Mined(p) /\ minedIn[p] <= height - BLOCK_CONFIRMATIONS

Ledger == INSTANCE PurchaseLedger

(* Retries, repeated ranges, late deliveries and restarts refine the       *)
(* promise of PurchaseLedger: each transaction hash credited at most once. *)
RefinesPurchaseLedger == Ledger!Spec

(* Once every buyer can be resolved, each log deep enough for every node   *)
(* to report it is credited, or the worker was made to jump over it: the   *)
(* errors of a range are retried until they stop.  (While one buyer cannot *)
(* be resolved, the worker retries that range and reads none after it.)    *)
EventuallyCredited ==
    \A p \in Purchases :
        /\ registered = Users
        /\ Mined(p)
        /\ minedIn[p] <= height - BLOCK_CONFIRMATIONS - NodeLag
        ~> Settled(p) \/ minedIn[p] <= START_BLOCK

=============================================================================
