------------------------- MODULE ChanceWorkerProofs -------------------------
(* Proofs about ChanceWorker, for every chain, range, window and number of *)
(* failures.                                                               *)
EXTENDS ChanceWorker, TLAPS

\* A cursor is on the chain, or where the operator told the worker to start.
Reached(c) == c <= height \/ c <= START_BLOCK

ChainInv == \A p \in Purchases : minedIn[p] <= height

CursorInv == Reached(cursor) /\ Reached(stateFile) /\ target <= height

\* Before its first post a range begins right after the cursor; while it is
\* posted, each of its logs is dealt with, still to post, or was not shown.
RangeInv ==
    /\ stage = "range" => fromBlock = cursor + 1
    /\ stage = "posting" =>
         /\ fromBlock = cursor + 1
         /\ toBlock <= target
         /\ \A p \in LogsIn(fromBlock, toBlock) :
               Settled(p) \/ p \in pending \/ p \in overlooked

IInv == TypeOK /\ ChainInv /\ CursorInv /\ RangeInv /\ NoPurchaseSkipped

\* What was settled stays settled.
Monotone == \A p \in Purchases : Settled(p) => Settled(p)'

blocks == <<height, minedIn>>
worker == <<stateFile, stage, running, cursor, range, forceReceiptFallback, missed, faults>>

LEMMA InvInit == Init => IInv
  <1> SUFFICES ASSUME Init PROVE IInv
    OBVIOUS
  <1>1. ChainOK
    BY WorkerAssumption DEF Init, ChainOK, Heights
  <1>2. BackendOK
    BY DEF Init, BackendOK
  <1>3. WorkerOK
    <2>1. 0 \in Heights /\ 0 \in 0 .. MaxFaults
      BY WorkerAssumption DEF Heights
    <2> QED BY <2>1, Zenon DEF Init, WorkerOK, Stages
  <1>4. RangeOK
    BY WorkerAssumption DEF Init, RangeOK, Heights
  <1>5. ChainInv /\ CursorInv /\ RangeInv
    BY DEF Init, ChainInv, CursorInv, Reached, RangeInv
  <1>6. NoPurchaseSkipped
    BY DEF Init, NoPurchaseSkipped, Covered, LogsIn, Mined
  <1> QED BY <1>1, <1>2, <1>3, <1>4, <1>5, <1>6 DEF IInv, TypeOK

-----------------------------------------------------------------------------
(* The webhook.                                                            *)

LEMMA IngestMonotone ==
    ASSUME NEW p, IngestChancePurchase(p) \/ UNCHANGED <<credited, chances>>, missed \subseteq missed'
    PROVE  Monotone
  BY DEF IngestChancePurchase, Monotone, Settled, Duplicate

LEMMA IngestSettles ==
    ASSUME NEW p, IngestChancePurchase(p)
    PROVE  Settled(p)'
  BY DEF IngestChancePurchase, Settled, Duplicate

LEMMA IngestType ==
    ASSUME BackendOK, NEW p \in Purchases, IngestChancePurchase(p) \/ UNCHANGED <<credited, chances>>,
           inFlight' \subseteq Purchases
    PROVE  BackendOK'
  <1>1. p.user \in Users /\ p.chances \in Nat
    BY WorkerAssumption DEF Purchase
  <1> QED BY <1>1 DEF IngestChancePurchase, BackendOK

-----------------------------------------------------------------------------
(* A step that leaves the chain and the cursors alone.                     *)
LEMMA CoverKept ==
    ASSUME NoPurchaseSkipped, Monotone, UNCHANGED <<blocks, cursor, stateFile>>
    PROVE  NoPurchaseSkipped'
  BY DEF NoPurchaseSkipped, Covered, LogsIn, Mined, Monotone, blocks

\* A step that leaves the worker alone, and the chain's blocks.
LEMMA WorkerKept ==
    ASSUME IInv, Monotone, ChainOK', BackendOK', UNCHANGED <<blocks, worker>>
    PROVE  IInv'
  <1>1. WorkerOK' /\ RangeOK'
    BY DEF IInv, TypeOK, WorkerOK, RangeOK, worker, range
  <1>2. ChainInv' /\ CursorInv'
    BY DEF IInv, ChainInv, CursorInv, Reached, blocks, worker, range
  <1>3. RangeInv'
    BY DEF IInv, RangeInv, LogsIn, Mined, Monotone, blocks, worker, range
  <1>4. NoPurchaseSkipped'
    BY CoverKept DEF IInv, worker
  <1> QED BY <1>1, <1>2, <1>3, <1>4 DEF IInv, TypeOK

-----------------------------------------------------------------------------
(* The environment.                                                        *)

\* New logs lie beyond the cursors and the range at hand.
LEMMA MineInv ==
    ASSUME IInv, NEW logs \in SUBSET Purchases, Mine(logs)
    PROVE  IInv'
  <1>1. /\ height \in Nat /\ height < MaxHeight /\ height' = height + 1
        /\ minedIn' = [p \in Purchases |-> IF p \in logs THEN height + 1 ELSE minedIn[p]]
        /\ \A p \in logs : ~(minedIn[p] > 0)
        /\ minedIn \in [Purchases -> Heights] /\ MaxHeight \in Nat
    BY WorkerAssumption DEF Mine, Mined, IInv, TypeOK, ChainOK, Heights
  <1>2. UNCHANGED <<registered, backend, worker>>
    BY DEF Mine, worker
  <1>3. ChainOK'
    BY <1>1, <1>2 DEF IInv, TypeOK, ChainOK, Heights
  <1>4. BackendOK' /\ WorkerOK' /\ RangeOK'
    BY <1>2 DEF IInv, TypeOK, BackendOK, WorkerOK, RangeOK, backend, worker, range
  <1>5. \A c \in Heights : Reached(c) =>
           \A p \in Purchases : minedIn'[p] > START_BLOCK /\ minedIn'[p] <= c => minedIn'[p] = minedIn[p]
    BY <1>1, WorkerAssumption DEF Reached, Heights
  <1>6. \A p \in Purchases : Settled(p)' = Settled(p)
    BY <1>2 DEF Settled, Duplicate, backend, worker
  <1>7. ASSUME NEW c \in Heights, Reached(c), Covered(c),
               NEW p \in Purchases, minedIn'[p] >= START_BLOCK + 1, minedIn'[p] <= c
        PROVE  Settled(p)
    <2>1. minedIn'[p] = minedIn[p] /\ minedIn[p] \in Nat
      BY <1>1, <1>5, <1>7, WorkerAssumption DEF Heights
    <2> QED BY <1>7, <2>1, WorkerAssumption DEF Covered, LogsIn, Mined
  <1>8. NoPurchaseSkipped'
    <2>1. cursor \in Heights /\ stateFile \in Heights /\ cursor' = cursor /\ stateFile' = stateFile
      BY <1>2 DEF IInv, TypeOK, WorkerOK, worker
    <2> QED BY <1>6, <1>7, <2>1 DEF IInv, CursorInv, NoPurchaseSkipped, Covered, LogsIn, Mined
  <1>9. RangeInv'
    <2>1. UNCHANGED <<stage, cursor, target, fromBlock, toBlock, pending, overlooked>>
      BY <1>2 DEF worker, range
    <2>2. CASE stage = "posting"
      <3>1. /\ toBlock <= height /\ toBlock \in Nat
            /\ \A p \in LogsIn(fromBlock, toBlock) : Settled(p) \/ p \in pending \/ p \in overlooked
        BY <1>1, <2>2, WorkerAssumption DEF IInv, CursorInv, RangeInv, TypeOK, RangeOK, Heights
      <3>2. ASSUME NEW p \in Purchases, minedIn'[p] > 0, minedIn'[p] >= fromBlock, minedIn'[p] <= toBlock
            PROVE  p \in LogsIn(fromBlock, toBlock)
        BY <1>1, <3>1, <3>2 DEF LogsIn, Mined, Heights
      <3> QED BY <1>6, <2>1, <2>2, <3>1, <3>2 DEF IInv, RangeInv, LogsIn, Mined
    <2>3. CASE stage # "posting"
      BY <2>1, <2>3 DEF IInv, RangeInv
    <2> QED BY <2>2, <2>3
  <1>10. ChainInv'
    BY <1>1 DEF IInv, ChainInv, Heights
  <1>11. CursorInv'
    <2>1. UNCHANGED <<cursor, stateFile, target>> /\ cursor \in Nat /\ stateFile \in Nat /\ target \in Nat
      BY <1>2, WorkerAssumption DEF worker, range, IInv, TypeOK, WorkerOK, RangeOK, Heights
    <2> QED BY <1>1, <2>1, WorkerAssumption DEF IInv, CursorInv, Reached
  <1> QED BY <1>3, <1>4, <1>8, <1>9, <1>10, <1>11 DEF IInv, TypeOK

LEMMA RegisterInv ==
    ASSUME IInv, NEW u \in Users, Register(u)
    PROVE  IInv'
  <1>1. UNCHANGED <<blocks, backend, worker>>
    BY DEF Register, blocks, worker
  <1>2. ChainOK' /\ BackendOK'
    BY <1>1 DEF Register, IInv, TypeOK, ChainOK, BackendOK, blocks, backend
  <1>3. Monotone
    BY <1>1 DEF Monotone, Settled, Duplicate, backend, worker
  <1> QED BY <1>1, <1>2, <1>3, WorkerKept

LEMMA LateDeliveryInv ==
    ASSUME IInv, NEW p \in Purchases, LateDelivery(p)
    PROVE  IInv'
  <1>1. UNCHANGED <<blocks, registered, worker>>
        /\ (IngestChancePurchase(p) \/ UNCHANGED <<credited, chances>>)
        /\ inFlight' \subseteq inFlight
    BY DEF LateDelivery, blocks, worker, chain
  <1>2. BackendOK'
    BY <1>1, IngestType DEF IInv, TypeOK, BackendOK
  <1>3. ChainOK'
    BY <1>1 DEF IInv, TypeOK, ChainOK, blocks
  <1>4. Monotone
    BY <1>1, IngestMonotone DEF worker
  <1> QED BY <1>1, <1>2, <1>3, <1>4, WorkerKept
-----------------------------------------------------------------------------
(* The worker.                                                             *)

LEMMA TargetReached ==
    ASSUME ChainOK, NEW latest \in ReportedHeights
    PROVE  Target(latest) \in Heights /\ Target(latest) <= height
  BY WorkerAssumption DEF ChainOK, ReportedHeights, Target, Larger, Heights

LEMMA CatchUpReached ==
    ASSUME NEW t \in Nat
    PROVE  CatchUpStart(t) \in 0 .. t
  BY WorkerAssumption DEF CatchUpStart, Larger

LEMMA StartingCursorReached ==
    ASSUME ChainOK, NEW saved \in Heights, Reached(saved), NEW t \in Heights, t <= height
    PROVE  StartingCursor(saved, t) \in Heights /\ Reached(StartingCursor(saved, t))
  <1>1. t \in Nat /\ saved \in Nat /\ height \in Nat /\ START_BLOCK \in Heights
    BY WorkerAssumption DEF Heights, ChainOK
  <1>2. CatchUpStart(t) \in 0 .. t
    BY <1>1, CatchUpReached
  <1>3. CatchUpStart(t) \in Heights /\ Reached(CatchUpStart(t))
    BY <1>1, <1>2, WorkerAssumption DEF Heights, Reached
  <1>4. Smaller(START_BLOCK, t) \in Heights /\ Reached(Smaller(START_BLOCK, t))
    BY <1>1 DEF Smaller, Reached
  <1> HIDE DEF CatchUpStart
  <1> QED BY <1>1, <1>3, <1>4 DEF StartingCursor, Reached

\* bootstrap puts what it jumps over into missed.
LEMMA StartInv ==
    ASSUME IInv, Start
    PROVE  IInv'
  <1>1. PICK latest \in ReportedHeights :
           LET c == StartingCursor(stateFile, Target(latest)) IN
           /\ cursor' = c
           /\ stateFile' = c
           /\ missed' = IF c = stateFile THEN missed ELSE missed \cup Passed(c)
    BY DEF Start
  <1>2. /\ stage' = "idle" /\ running' = TRUE /\ forceReceiptFallback' = FALSE
        /\ UNCHANGED <<chain, backend, range, faults>>
    BY DEF Start
  <1>3. PICK c \in Heights :
           /\ Reached(c) /\ cursor' = c /\ stateFile' = c
           /\ missed' = IF c = stateFile THEN missed ELSE missed \cup Passed(c)
    BY <1>1, TargetReached, StartingCursorReached DEF IInv, TypeOK, WorkerOK, CursorInv
  <1>4. ChainOK' /\ BackendOK' /\ RangeOK'
    BY <1>2 DEF IInv, TypeOK, ChainOK, BackendOK, RangeOK, chain, backend, range
  <1>5. WorkerOK'
    <2>1. missed' \subseteq Purchases
      BY <1>3 DEF IInv, TypeOK, WorkerOK, Passed, LogsIn
    <2> QED BY <1>2, <1>3, <2>1, Zenon DEF IInv, TypeOK, WorkerOK, Stages
  <1>6. ChainInv' /\ CursorInv' /\ RangeInv'
    BY <1>2, <1>3 DEF IInv, ChainInv, CursorInv, RangeInv, Reached, chain, range
  <1>7. Monotone
    BY <1>2, <1>3 DEF Monotone, Settled, Duplicate, backend
  <1>8. ASSUME NEW p \in Purchases, minedIn[p] > 0, minedIn[p] >= START_BLOCK + 1, minedIn[p] <= c
        PROVE  Settled(p)'
    <2>1. CASE c = stateFile
      BY <1>7, <1>8, <2>1 DEF Monotone, IInv, NoPurchaseSkipped, Covered, LogsIn, Mined
    <2>2. CASE c # stateFile
      <3>1. p \in Passed(c) \/ Duplicate(p)
        BY <1>8, WorkerAssumption DEF Passed, LogsIn, Mined, IInv, TypeOK, ChainOK, Heights
      <3> QED BY <1>2, <1>3, <2>2, <3>1 DEF Settled, Duplicate, backend
    <2> QED BY <2>1, <2>2
  <1>9. NoPurchaseSkipped'
    BY <1>2, <1>3, <1>8 DEF NoPurchaseSkipped, Covered, LogsIn, Mined, chain
  <1> QED BY <1>4, <1>5, <1>6, <1>7, <1>9 DEF IInv, TypeOK

\* A truncated state file is a cursor at block 0, which no log lies below.
LEMMA StartFailsInv ==
    ASSUME IInv, StartFails
    PROVE  IInv'
  <1>1. /\ stateFile' = 0 /\ faults < MaxFaults /\ faults' = faults + 1
        /\ UNCHANGED <<chain, backend, stage, running, cursor, range, forceReceiptFallback, missed>>
    BY DEF StartFails, Fault
  <1>2. ChainOK' /\ BackendOK' /\ RangeOK' /\ UNCHANGED blocks /\ Monotone
    BY <1>1 DEF IInv, TypeOK, ChainOK, BackendOK, RangeOK, chain, backend, range, blocks,
                Monotone, Settled, Duplicate
  <1>3. WorkerOK'
    <2>1. faults' \in 0 .. MaxFaults /\ 0 \in Heights
      BY <1>1, WorkerAssumption DEF IInv, TypeOK, WorkerOK, Heights
    <2> QED BY <1>1, <2>1, Zenon DEF IInv, TypeOK, WorkerOK
  <1>4. ChainInv' /\ CursorInv' /\ RangeInv'
    BY <1>1, <1>2, WorkerAssumption
    DEF IInv, TypeOK, ChainOK, ChainInv, CursorInv, RangeInv, Reached, LogsIn, Mined, Monotone,
        blocks, chain, range, Heights
  <1>5. Covered(cursor)'
    BY <1>1, <1>2 DEF IInv, NoPurchaseSkipped, Covered, LogsIn, Mined, blocks, Monotone
  <1>6. Covered(stateFile)'
    BY <1>1, <1>2, WorkerAssumption DEF Covered, LogsIn, Mined, blocks, IInv, TypeOK, ChainOK, Heights
  <1> QED BY <1>2, <1>3, <1>4, <1>5, <1>6 DEF NoPurchaseSkipped, IInv, TypeOK

LEMMA PollInv ==
    ASSUME IInv, Poll
    PROVE  IInv'
  <1>1. PICK latest \in ReportedHeights : target' = Target(latest) /\ Target(latest) > cursor
    BY DEF Poll
  <1>2. target' \in Heights /\ target' <= height
    BY <1>1, TargetReached DEF IInv, TypeOK
  <1>3. /\ fromBlock' = cursor + 1 /\ stage' = "range"
        /\ UNCHANGED <<chain, backend, stateFile, running, cursor, toBlock, pending, overlooked,
                       forceReceiptFallback, missed, faults>>
    BY DEF Poll
  <1>4. ChainOK' /\ BackendOK'
    BY <1>3 DEF IInv, TypeOK, ChainOK, BackendOK, chain, backend
  <1>5. WorkerOK'
    BY <1>3, Zenon DEF IInv, TypeOK, WorkerOK, Stages
  <1>6. RangeOK'
    BY <1>2, <1>3, WorkerAssumption DEF IInv, TypeOK, WorkerOK, RangeOK, Heights
  <1>7. ChainInv' /\ CursorInv' /\ RangeInv'
    BY <1>2, <1>3 DEF IInv, ChainInv, CursorInv, RangeInv, Reached, chain
  <1>8. NoPurchaseSkipped'
    <2>1. Monotone /\ UNCHANGED <<blocks, cursor, stateFile>>
      BY <1>3 DEF Monotone, Settled, Duplicate, backend, blocks, chain
    <2> QED BY <2>1, CoverKept DEF IInv
  <1> QED BY <1>4, <1>5, <1>6, <1>7, <1>8 DEF IInv, TypeOK

LEMMA RangeEndBounded ==
    ASSUME RangeOK, stage = "range" => fromBlock = cursor + 1
    PROVE  RangeEnd(fromBlock, target) \in Heights /\ RangeEnd(fromBlock, target) <= target
  BY WorkerAssumption DEF RangeOK, RangeEnd, Smaller, Heights

LEMMA FetchRangeInv ==
    ASSUME IInv, FetchRange
    PROVE  IInv'
  <1> DEFINE to == RangeEnd(fromBlock, target)
             logs == LogsIn(fromBlock, to)
  <1>1. to \in Heights /\ to <= target
    BY RangeEndBounded DEF IInv, TypeOK, RangeInv
  <1>2. /\ stage = "range" /\ stage' = "posting" /\ toBlock' = to
        /\ pending' \subseteq logs /\ overlooked' = logs \ pending'
        /\ forceReceiptFallback' \in {forceReceiptFallback, TRUE}
        /\ UNCHANGED <<chain, backend, stateFile, running, cursor, target, fromBlock, missed, faults>>
    BY DEF FetchRange
  <1>3. ChainOK' /\ BackendOK'
    BY <1>2 DEF IInv, TypeOK, ChainOK, BackendOK, chain, backend
  <1>4. WorkerOK'
    <2>1. forceReceiptFallback' \in BOOLEAN
      BY <1>2, Zenon DEF IInv, TypeOK, WorkerOK
    <2> QED BY <1>2, <2>1, Zenon DEF IInv, TypeOK, WorkerOK, Stages
  <1>5. RangeOK'
    BY <1>1, <1>2 DEF IInv, TypeOK, RangeOK, LogsIn
  <1>6. ChainInv' /\ CursorInv'
    BY <1>2 DEF IInv, ChainInv, CursorInv, Reached, chain
  <1>7. RangeInv'
    <2>1. \A p \in logs : p \in pending' \/ p \in overlooked'
      BY <1>2
    <2>2. LogsIn(fromBlock, toBlock)' = logs
      BY <1>2 DEF LogsIn, Mined, chain
    <2> HIDE DEF logs
    <2>3. \A p \in LogsIn(fromBlock, toBlock)' : p \in pending' \/ p \in overlooked'
      BY <2>1, <2>2
    <2>4. fromBlock' = cursor' + 1 /\ toBlock' <= target'
      BY <1>1, <1>2 DEF IInv, RangeInv
    <2> QED BY <1>2, <2>3, <2>4 DEF RangeInv
  <1>8. NoPurchaseSkipped'
    <2>1. Monotone /\ UNCHANGED <<blocks, cursor, stateFile>>
      BY <1>2 DEF Monotone, Settled, Duplicate, backend, blocks, chain
    <2> QED BY <2>1, CoverKept DEF IInv
  <1> QED BY <1>3, <1>4, <1>5, <1>6, <1>7, <1>8 DEF IInv, TypeOK

\* A step that leaves the range to be read again: nothing is owed.
LEMMA RetryInv ==
    ASSUME IInv, ChainOK', BackendOK', Monotone, NoRange, stage' \in {"idle", "down"},
           running' \in BOOLEAN, forceReceiptFallback' \in BOOLEAN, faults' \in 0 .. MaxFaults,
           missed' \subseteq Purchases, cursor' \in Heights, stateFile' \in Heights,
           Reached(cursor'), Reached(stateFile'), NoPurchaseSkipped', UNCHANGED blocks
    PROVE  IInv'
  <1>1. WorkerOK'
    BY Zenon DEF WorkerOK, Stages
  <1>2. RangeOK'
    BY WorkerAssumption DEF NoRange, RangeOK, Heights
  <1>3. ChainInv' /\ RangeInv'
    BY DEF IInv, ChainInv, RangeInv, blocks
  <1>4. CursorInv'
    BY DEF IInv, TypeOK, ChainOK, CursorInv, Reached, NoRange, Heights, blocks
  <1> QED BY <1>1, <1>2, <1>3, <1>4 DEF IInv, TypeOK

\* The range goes on, one log fewer.
LEMMA PostPurchaseInv ==
    ASSUME IInv, NEW p \in Purchases, PostPurchase(p)
    PROVE  IInv'
  <1>1. /\ stage = "posting" /\ IngestChancePurchase(p) /\ pending' = pending \ {p}
        /\ UNCHANGED <<chain, inFlight, stateFile, stage, running, cursor, target, fromBlock,
                       toBlock, overlooked, forceReceiptFallback, missed, faults>>
    BY DEF PostPurchase
  <1>2. BackendOK'
    BY <1>1, IngestType DEF IInv, TypeOK, BackendOK
  <1>3. ChainOK'
    BY <1>1 DEF IInv, TypeOK, ChainOK, chain
  <1>4. WorkerOK'
    BY <1>1 DEF IInv, TypeOK, WorkerOK
  <1>5. RangeOK'
    BY <1>1 DEF IInv, TypeOK, RangeOK
  <1>6. Monotone /\ Settled(p)'
    BY <1>1, IngestMonotone, IngestSettles
  <1>7. ChainInv' /\ CursorInv'
    BY <1>1 DEF IInv, ChainInv, CursorInv, Reached, chain
  <1>8. RangeInv'
    BY <1>1, <1>6 DEF IInv, RangeInv, LogsIn, Mined, Monotone, chain
  <1>9. NoPurchaseSkipped'
    BY <1>1, <1>6, CoverKept DEF IInv, blocks, chain
  <1> QED BY <1>2, <1>3, <1>4, <1>5, <1>7, <1>8, <1>9 DEF IInv, TypeOK

LEMMA PostRejectedInv ==
    ASSUME IInv, NEW p \in Purchases, PostRejected(p)
    PROVE  IInv'
  <1>1. Retry /\ UNCHANGED <<chain, backend, stateFile, running, cursor, forceReceiptFallback, missed, faults>>
    BY DEF PostRejected
  <1>2. ChainOK' /\ BackendOK' /\ UNCHANGED blocks /\ Monotone
    BY <1>1 DEF IInv, TypeOK, ChainOK, BackendOK, chain, backend, blocks, Monotone, Settled, Duplicate
  <1>3. NoPurchaseSkipped'
    BY <1>1, <1>2, CoverKept DEF IInv
  <1> QED BY <1>1, <1>2, <1>3, RetryInv DEF Retry, IInv, TypeOK, WorkerOK, CursorInv, Reached

LEMMA PostFailsInv ==
    ASSUME IInv, NEW p \in Purchases, PostFails(p)
    PROVE  IInv'
  <1>1. /\ Retry /\ inFlight' = inFlight \cup {p} /\ faults < MaxFaults /\ faults' = faults + 1
        /\ UNCHANGED <<chain, credited, chances, stateFile, running, cursor, forceReceiptFallback, missed>>
    BY DEF PostFails, Fault
  <1>2. ChainOK' /\ BackendOK' /\ UNCHANGED blocks /\ Monotone
    BY <1>1 DEF IInv, TypeOK, ChainOK, BackendOK, chain, blocks, Monotone, Settled, Duplicate
  <1>3. faults' \in 0 .. MaxFaults
    BY <1>1, WorkerAssumption DEF IInv, TypeOK, WorkerOK
  <1>4. NoPurchaseSkipped'
    BY <1>1, <1>2, CoverKept DEF IInv
  <1> QED BY <1>1, <1>2, <1>3, <1>4, RetryInv DEF Retry, IInv, TypeOK, WorkerOK, CursorInv, Reached

LEMMA ReadFailsInv ==
    ASSUME IInv, ReadFails
    PROVE  IInv'
  <1>1. /\ Retry /\ faults < MaxFaults /\ faults' = faults + 1
        /\ UNCHANGED <<chain, backend, stateFile, running, cursor, forceReceiptFallback, missed>>
    BY DEF ReadFails, Fault
  <1>2. ChainOK' /\ BackendOK' /\ UNCHANGED blocks /\ Monotone
    BY <1>1 DEF IInv, TypeOK, ChainOK, BackendOK, chain, backend, blocks, Monotone, Settled, Duplicate
  <1>3. faults' \in 0 .. MaxFaults
    BY <1>1, WorkerAssumption DEF IInv, TypeOK, WorkerOK
  <1>4. NoPurchaseSkipped'
    BY <1>1, <1>2, CoverKept DEF IInv
  <1> QED BY <1>1, <1>2, <1>3, <1>4, RetryInv DEF Retry, IInv, TypeOK, WorkerOK, CursorInv, Reached

-----------------------------------------------------------------------------
(* The end of a range.  Its logs are all settled, once the ones the RPC    *)
(* did not show are counted as missed: the cursor may move there.          *)
LEMMA RangeSettled ==
    ASSUME IInv, stage = "posting", AllPosted, UNCHANGED <<chain, backend>>,
           missed' = missed \cup overlooked,
           NEW p \in Purchases, minedIn[p] > 0, minedIn[p] >= START_BLOCK + 1, minedIn[p] <= toBlock
    PROVE  Settled(p)'
  <1>1. minedIn[p] \in Nat /\ cursor \in Nat /\ fromBlock = cursor + 1
    BY WorkerAssumption DEF IInv, TypeOK, ChainOK, WorkerOK, RangeInv, Heights
  <1>2. Settled(p) => Settled(p)'
    BY DEF Settled, Duplicate, backend
  <1>3. CASE minedIn[p] <= cursor
    BY <1>1, <1>2, <1>3 DEF IInv, NoPurchaseSkipped, Covered, LogsIn, Mined
  <1>4. CASE minedIn[p] >= fromBlock
    <2>1. Settled(p) \/ p \in pending \/ p \in overlooked
      BY <1>4 DEF IInv, RangeInv, LogsIn, Mined
    <2> QED BY <1>2, <2>1 DEF AllPosted, Settled
  <1> QED BY <1>1, <1>3, <1>4

LEMMA FinishRangeInv ==
    ASSUME IInv, FinishRange
    PROVE  IInv'
  <1>1. /\ stage = "posting" /\ AllPosted /\ cursor' = toBlock /\ stateFile' = toBlock
        /\ missed' = missed \cup overlooked /\ NextBatch
        /\ UNCHANGED <<chain, backend, running, forceReceiptFallback, faults>>
    BY DEF FinishRange
  <1>2. ChainOK' /\ BackendOK' /\ UNCHANGED blocks /\ Monotone
    BY <1>1 DEF IInv, TypeOK, ChainOK, BackendOK, chain, backend, blocks, Monotone, Settled, Duplicate
  <1>3. NoPurchaseSkipped'
    BY <1>1, <1>2, RangeSettled DEF NoPurchaseSkipped, Covered, LogsIn, Mined, blocks
  <1>4. /\ toBlock \in Heights /\ toBlock <= target /\ target <= height /\ Reached(toBlock)
        /\ missed' \subseteq Purchases
    BY <1>1, WorkerAssumption DEF IInv, CursorInv, TypeOK, ChainOK, WorkerOK, RangeOK, RangeInv, Reached, Heights
  <1>5. CASE MoreBlocks(toBlock + 1, target)
    <2>1. /\ stage' = "range" /\ fromBlock' = toBlock + 1 /\ toBlock' = 0
          /\ pending' = {} /\ overlooked' = {} /\ UNCHANGED target
      BY <1>1, <1>5 DEF NextBatch
    <2>2. WorkerOK'
      BY <1>1, <1>4, <2>1, Zenon DEF IInv, TypeOK, WorkerOK, Stages
    <2>3. RangeOK'
      BY <1>4, <2>1, WorkerAssumption DEF IInv, TypeOK, RangeOK, Heights
    <2>4. ChainInv' /\ CursorInv' /\ RangeInv'
      BY <1>1, <1>2, <1>4, <2>1 DEF IInv, ChainInv, CursorInv, RangeInv, Reached, blocks
    <2> QED BY <1>2, <1>3, <2>2, <2>3, <2>4 DEF IInv, TypeOK
  <1>6. CASE ~MoreBlocks(toBlock + 1, target)
    BY <1>1, <1>2, <1>3, <1>4, <1>6, RetryInv DEF NextBatch, IInv, TypeOK, WorkerOK
  <1> QED BY <1>5, <1>6

LEMMA SaveFailsInv ==
    ASSUME IInv, SaveFails
    PROVE  IInv'
  <1>1. /\ stage = "posting" /\ AllPosted /\ cursor' = toBlock /\ stateFile' \in {stateFile, 0}
        /\ missed' = missed \cup overlooked /\ Retry /\ faults < MaxFaults /\ faults' = faults + 1
        /\ UNCHANGED <<chain, backend, running, forceReceiptFallback>>
    BY DEF SaveFails, Fault
  <1>2. ChainOK' /\ BackendOK' /\ UNCHANGED blocks /\ Monotone
    BY <1>1 DEF IInv, TypeOK, ChainOK, BackendOK, chain, backend, blocks, Monotone, Settled, Duplicate
  <1>3. Covered(cursor)'
    BY <1>1, <1>2, RangeSettled DEF Covered, LogsIn, Mined, blocks
  <1>4. Covered(stateFile)'
    <2>1. CASE stateFile' = stateFile
      BY <1>2, <2>1 DEF IInv, NoPurchaseSkipped, Covered, LogsIn, Mined, blocks, Monotone
    <2>2. CASE stateFile' = 0
      BY <1>2, <2>2, WorkerAssumption DEF Covered, LogsIn, Mined, blocks, IInv, TypeOK, ChainOK, Heights
    <2> QED BY <1>1, <2>1, <2>2
  <1>5. /\ toBlock \in Heights /\ Reached(toBlock) /\ stateFile' \in Heights /\ Reached(stateFile')
        /\ missed' \subseteq Purchases /\ faults' \in 0 .. MaxFaults
    BY <1>1, WorkerAssumption DEF IInv, CursorInv, TypeOK, ChainOK, WorkerOK, RangeOK, RangeInv, Reached, Heights
  <1> QED BY <1>1, <1>2, <1>3, <1>4, <1>5, RetryInv DEF Retry, NoPurchaseSkipped, IInv, TypeOK, WorkerOK

-----------------------------------------------------------------------------
(* Stopping.                                                               *)

LEMMA SignalInv ==
    ASSUME IInv, Signal
    PROVE  IInv'
  <1>1. /\ running' = FALSE /\ faults < MaxFaults /\ faults' = faults + 1
        /\ UNCHANGED <<chain, backend, stateFile, stage, cursor, range, forceReceiptFallback, missed>>
    BY DEF Signal, Fault
  <1>2. ChainOK' /\ BackendOK' /\ RangeOK'
    BY <1>1 DEF IInv, TypeOK, ChainOK, BackendOK, RangeOK, chain, backend, range
  <1>3. WorkerOK'
    <2>1. faults' \in 0 .. MaxFaults
      BY <1>1, WorkerAssumption DEF IInv, TypeOK, WorkerOK
    <2> QED BY <1>1, <2>1, Zenon DEF IInv, TypeOK, WorkerOK
  <1>4. Monotone /\ UNCHANGED blocks
    BY <1>1 DEF chain, backend, blocks, Monotone, Settled, Duplicate
  <1>5. ChainInv' /\ CursorInv'
    BY <1>1 DEF IInv, ChainInv, CursorInv, Reached, chain, range
  <1>6. RangeInv'
    BY <1>1, <1>4 DEF IInv, RangeInv, LogsIn, Mined, Monotone, blocks, range
  <1>7. NoPurchaseSkipped'
    BY <1>1, <1>4, CoverKept DEF IInv
  <1> QED BY <1>2, <1>3, <1>5, <1>6, <1>7 DEF IInv, TypeOK

\* Nothing lies at or below block 0, where a stopped worker's cursor is.
LEMMA StoppedInv ==
    ASSUME IInv, Stopped, ChainOK', BackendOK', Monotone, UNCHANGED <<blocks, missed>>,
           stateFile' \in {stateFile, 0}, faults' \in 0 .. MaxFaults
    PROVE  IInv'
  <1>1. cursor' = 0 /\ 0 \in Heights /\ Reached(0) /\ stateFile' \in Heights /\ Reached(stateFile')
    BY WorkerAssumption DEF Stopped, IInv, CursorInv, TypeOK, WorkerOK, Reached, Heights
  <1>2. \A c \in {cursor', stateFile'} : c = 0 \/ c = stateFile
    BY <1>1
  <1>3. NoPurchaseSkipped'
    <2>1. ASSUME NEW p \in Purchases, minedIn[p] > 0, minedIn[p] >= START_BLOCK + 1, NEW c,
                 c = 0 \/ c = stateFile, minedIn[p] <= c
          PROVE  Settled(p)'
      <3>1. minedIn[p] \in Nat
        BY WorkerAssumption DEF IInv, TypeOK, ChainOK, Heights
      <3> QED BY <2>1, <3>1 DEF IInv, NoPurchaseSkipped, Covered, LogsIn, Mined, Monotone
    <2> QED BY <1>2, <2>1 DEF NoPurchaseSkipped, Covered, LogsIn, Mined, blocks
  <1> QED BY <1>1, <1>3, RetryInv DEF Stopped, IInv, TypeOK, WorkerOK

LEMMA ExitInv ==
    ASSUME IInv, Exit
    PROVE  IInv'
  <1>1. Stopped /\ UNCHANGED <<chain, backend, stateFile, missed, faults>>
    BY DEF Exit
  <1>2. ChainOK' /\ BackendOK' /\ UNCHANGED blocks /\ Monotone
    BY <1>1 DEF IInv, TypeOK, ChainOK, BackendOK, chain, backend, blocks, Monotone, Settled, Duplicate
  <1> QED BY <1>1, <1>2, StoppedInv DEF IInv, TypeOK, WorkerOK

LEMMA CrashInv ==
    ASSUME IInv, Crash
    PROVE  IInv'
  <1>1. /\ Stopped /\ faults < MaxFaults /\ faults' = faults + 1
        /\ inFlight' = inFlight \cup {p \in pending : stage = "posting" /\ First(p)}
        /\ stateFile' \in {stateFile, 0}
        /\ UNCHANGED <<chain, credited, chances, missed>>
    BY DEF Crash, Fault
  <1>2. ChainOK' /\ UNCHANGED blocks /\ Monotone
    BY <1>1 DEF IInv, TypeOK, ChainOK, chain, blocks, Monotone, Settled, Duplicate
  <1>3. BackendOK'
    BY <1>1 DEF IInv, TypeOK, BackendOK, RangeOK
  <1>4. faults' \in 0 .. MaxFaults
    BY <1>1, WorkerAssumption DEF IInv, TypeOK, WorkerOK
  <1> QED BY <1>1, <1>2, <1>3, <1>4, StoppedInv

-----------------------------------------------------------------------------
(* IInv is inductive.                                                      *)
LEMMA StutterInv ==
    ASSUME IInv, UNCHANGED vars
    PROVE  IInv'
  <1>1. ChainOK' /\ BackendOK' /\ Monotone /\ UNCHANGED <<blocks, worker>>
    BY DEF vars, IInv, TypeOK, ChainOK, BackendOK, Monotone, Settled, Duplicate, chain, backend, blocks, worker
  <1> QED BY <1>1, WorkerKept

LEMMA InvNext == IInv /\ [Next]_vars => IInv'
  <1> SUFFICES ASSUME IInv, [Next]_vars PROVE IInv'
    OBVIOUS
  <1>1. CASE Environment
    BY <1>1, MineInv, RegisterInv, LateDeliveryInv DEF Environment
  <1>2. CASE Failure
    BY <1>2, StartFailsInv, PostFailsInv, ReadFailsInv, SaveFailsInv, SignalInv, CrashInv DEF Failure
  <1>3. CASE Worker
    BY <1>3, StartInv, PollInv, FetchRangeInv, PostPurchaseInv, PostRejectedInv, FinishRangeInv, ExitInv
    DEF Worker
  <1>4. CASE UNCHANGED vars
    BY <1>4, StutterInv
  <1> QED BY <1>1, <1>2, <1>3, <1>4 DEF Next

LEMMA Invariance == Spec => []IInv
  BY InvInit, InvNext, PTL DEF Spec

(* Type correctness of the worker, the chain and the backend it notifies.  *)
THEOREM TypeCorrect == Spec => []TypeOK
  <1>1. IInv => TypeOK
    BY DEF IInv
  <1> QED BY <1>1, Invariance, PTL

(* Whatever fails and however often, neither cursor passes a log that was  *)
(* neither credited, withheld by the RPC, nor jumped over by bootstrap.    *)
THEOREM CursorCorrect == Spec => []NoPurchaseSkipped
  <1>1. IInv => NoPurchaseSkipped
    BY DEF IInv
  <1> QED BY <1>1, Invariance, PTL

-----------------------------------------------------------------------------
(* The promise to the buyers.                                              *)

LEMMA IngestImplements ==
    ASSUME NEW p \in Purchases, IngestChancePurchase(p) \/ UNCHANGED <<credited, chances>>
    PROVE  [Ledger!Next]_<<credited, chances>>
  BY DEF IngestChancePurchase, Duplicate, Ledger!Next, Ledger!Credit

LEMMA OthersCreditNothing ==
    ASSUME \/ \E logs \in SUBSET Purchases : Mine(logs)
           \/ \E u \in Users : Register(u)
           \/ Failure \/ Start \/ Poll \/ FetchRange \/ FinishRange \/ Exit
           \/ \E p \in Purchases : PostRejected(p)
           \/ UNCHANGED vars
    PROVE  UNCHANGED <<credited, chances>>
  <1>1. CASE \/ \E logs \in SUBSET Purchases : Mine(logs)
             \/ \E u \in Users : Register(u)
             \/ UNCHANGED vars
    BY <1>1 DEF Mine, Register, vars, backend
  <1>2. CASE Failure
    BY <1>2 DEF Failure, StartFails, PostFails, ReadFails, SaveFails, Signal, Crash, backend
  <1>3. CASE Start \/ Poll \/ FetchRange \/ FinishRange \/ Exit \/ \E p \in Purchases : PostRejected(p)
    BY <1>3 DEF Start, Poll, FetchRange, FinishRange, Exit, PostRejected, backend
  <1> QED BY <1>1, <1>2, <1>3

(* Every retry, repeated range, late delivery and restart of the worker    *)
(* is a step of PurchaseLedger or none.                                    *)
THEOREM WorkerImplementsPurchaseLedger == Spec => RefinesPurchaseLedger
  <1>1. Init => Ledger!Init
    BY DEF Init, Ledger!Init
  <1>2. [Next]_vars => [Ledger!Next]_<<credited, chances>>
    <2> SUFFICES ASSUME [Next]_vars PROVE [Ledger!Next]_<<credited, chances>>
      OBVIOUS
    <2>1. ASSUME NEW p \in Purchases, LateDelivery(p) \/ PostPurchase(p)
          PROVE  [Ledger!Next]_<<credited, chances>>
      BY <2>1, IngestImplements DEF LateDelivery, PostPurchase
    <2> QED BY <2>1, OthersCreditNothing DEF Next, Environment, Worker
  <1> QED BY <1>1, <1>2, PTL DEF Spec, RefinesPurchaseLedger, Ledger!Spec

-----------------------------------------------------------------------------
(* Confirmations.  What is credited was read in a range that ended at a    *)
(* target BLOCK_CONFIRMATIONS below some node's height, and stays as deep  *)
(* while it waits in pending or in a request nobody waits for any more.    *)
Deep(p) == minedIn[p] > 0 /\ minedIn[p] <= height - BLOCK_CONFIRMATIONS

DeepInv ==
    /\ \A p \in credited \cup pending \cup inFlight : Deep(p)
    /\ target > 0 => target <= height - BLOCK_CONFIRMATIONS

\* A step that mines nothing and finds no log keeps the depths.
LEMMA DeepKept ==
    ASSUME DeepInv, UNCHANGED blocks, target' \in {target, 0},
           credited' \cup pending' \cup inFlight' \subseteq credited \cup pending \cup inFlight
    PROVE  DeepInv'
  BY DEF DeepInv, Deep, blocks

LEMMA IngestDeep ==
    ASSUME NEW p, IngestChancePurchase(p) \/ UNCHANGED <<credited, chances>>
    PROVE  credited' \subseteq credited \cup {p}
  BY DEF IngestChancePurchase

LEMMA DeepMine ==
    ASSUME IInv, DeepInv, NEW logs \in SUBSET Purchases, Mine(logs)
    PROVE  DeepInv'
  <1>1. /\ height \in Nat /\ height' = height + 1
        /\ minedIn' = [p \in Purchases |-> IF p \in logs THEN height + 1 ELSE minedIn[p]]
        /\ \A p \in logs : ~(minedIn[p] > 0)
        /\ minedIn \in [Purchases -> Heights]
        /\ UNCHANGED <<backend, range>>
    BY WorkerAssumption DEF Mine, Mined, IInv, TypeOK, ChainOK, Heights
  <1>2. credited \cup pending \cup inFlight \subseteq Purchases /\ target \in Nat
    BY WorkerAssumption DEF IInv, TypeOK, BackendOK, RangeOK, Heights
  <1>3. ASSUME NEW p \in credited \cup pending \cup inFlight
        PROVE  Deep(p)'
    <2>1. Deep(p) /\ p \in Purchases /\ p \notin logs /\ minedIn[p] \in Nat
      BY <1>1, <1>2, <1>3, WorkerAssumption DEF DeepInv, Deep, Heights
    <2> QED BY <1>1, <2>1, WorkerAssumption DEF Deep
  <1>4. target' > 0 => target' <= height' - BLOCK_CONFIRMATIONS
    BY <1>1, <1>2, WorkerAssumption DEF DeepInv, range
  <1> QED BY <1>1, <1>3, <1>4 DEF DeepInv, backend, range

LEMMA DeepPoll ==
    ASSUME IInv, DeepInv, Poll
    PROVE  DeepInv'
  <1>1. PICK latest \in ReportedHeights : target' = Target(latest)
    BY DEF Poll
  <1>2. UNCHANGED <<blocks, backend, pending>>
    BY DEF Poll, blocks, chain
  <1>3. target' > 0 => target' <= height - BLOCK_CONFIRMATIONS
    BY <1>1, WorkerAssumption DEF IInv, TypeOK, ChainOK, ReportedHeights, Target, Larger, Heights
  <1> QED BY <1>2, <1>3 DEF DeepInv, Deep, blocks, backend

LEMMA DeepFetch ==
    ASSUME IInv, DeepInv, FetchRange
    PROVE  DeepInv'
  <1> DEFINE to == RangeEnd(fromBlock, target)
  <1>1. to \in Heights /\ to <= target
    BY RangeEndBounded DEF IInv, TypeOK, RangeInv
  <1>2. pending' \subseteq LogsIn(fromBlock, to) /\ UNCHANGED <<blocks, backend, target>>
    BY DEF FetchRange, blocks, chain
  <1> HIDE DEF to
  <1>3. ASSUME NEW p \in LogsIn(fromBlock, to)
        PROVE  Deep(p)
    <2>1. p \in Purchases /\ minedIn[p] \in Nat /\ minedIn[p] > 0 /\ minedIn[p] <= to
      BY WorkerAssumption DEF LogsIn, Mined, IInv, TypeOK, ChainOK, Heights
    <2>2. target \in Nat /\ to \in Nat /\ height \in Nat
      BY <1>1, WorkerAssumption DEF IInv, TypeOK, ChainOK, RangeOK, Heights
    <2> QED BY <1>1, <2>1, <2>2, WorkerAssumption DEF DeepInv, Deep
  <1> QED BY <1>2, <1>3 DEF DeepInv, Deep, blocks, backend

LEMMA DeepEnvironment ==
    ASSUME IInv, DeepInv, Environment
    PROVE  DeepInv'
  <1>1. ASSUME NEW u \in Users, Register(u) PROVE DeepInv'
    BY <1>1, DeepKept DEF Register, blocks, backend, range
  <1>2. ASSUME NEW p \in Purchases, LateDelivery(p) PROVE DeepInv'
    <2>1. p \in inFlight /\ inFlight' \subseteq inFlight /\ credited' \subseteq credited \cup {p}
          /\ UNCHANGED <<blocks, range>>
      BY <1>2, IngestDeep DEF LateDelivery, blocks, chain
    <2> QED BY <2>1, DeepKept DEF range
  <1> QED BY <1>1, <1>2, DeepMine DEF Environment

LEMMA DeepFailure ==
    ASSUME IInv, DeepInv, Failure
    PROVE  DeepInv'
  <1>1. ASSUME NEW p \in Purchases, PostFails(p) PROVE DeepInv'
    BY <1>1, DeepKept DEF PostFails, First, Retry, NoRange, blocks, chain
  <1>2. CASE ReadFails \/ SaveFails
    BY <1>2, DeepKept DEF ReadFails, SaveFails, Retry, NoRange, blocks, chain, backend
  <1>3. CASE Signal
    BY <1>3, DeepKept DEF Signal, blocks, chain, backend, range
  <1>4. CASE Crash
    BY <1>4, DeepKept DEF Crash, Stopped, NoRange, blocks, chain
  <1>5. CASE StartFails
    BY <1>5, DeepKept DEF StartFails, blocks, chain, backend, range
  <1> QED BY <1>1, <1>2, <1>3, <1>4, <1>5 DEF Failure

LEMMA DeepWorker ==
    ASSUME IInv, DeepInv, Worker
    PROVE  DeepInv'
  <1>1. CASE Start
    BY <1>1, DeepKept DEF Start, blocks, chain, backend, range
  <1>2. ASSUME NEW p \in Purchases, PostPurchase(p) PROVE DeepInv'
    <2>1. p \in pending /\ pending' \subseteq pending /\ credited' \subseteq credited \cup {p}
          /\ UNCHANGED <<blocks, inFlight, target>>
      BY <1>2, IngestDeep DEF PostPurchase, First, blocks, chain
    <2> QED BY <2>1, DeepKept
  <1>3. ASSUME NEW p \in Purchases, PostRejected(p) PROVE DeepInv'
    BY <1>3, DeepKept DEF PostRejected, Retry, NoRange, blocks, chain, backend
  <1>4. CASE FinishRange
    <2>1. target' \in {target, 0} /\ pending' = {} /\ UNCHANGED <<blocks, backend>>
      BY <1>4, Zenon DEF FinishRange, NextBatch, NoRange, blocks, chain
    <2> QED BY <2>1, DeepKept DEF backend
  <1>5. CASE Exit
    BY <1>5, DeepKept DEF Exit, Stopped, NoRange, blocks, chain, backend
  <1> QED BY <1>1, <1>2, <1>3, <1>4, <1>5, DeepPoll, DeepFetch DEF Worker

(* No log is credited before it is BLOCK_CONFIRMATIONS deep, from whichever *)
(* node the height was read and however late a notification is handled.     *)
THEOREM ConfirmationsCorrect == Spec => []OnlyConfirmed
  <1>1. Init => DeepInv
    BY DEF Init, DeepInv
  <1>2. IInv /\ DeepInv /\ [Next]_vars => DeepInv'
    <2> SUFFICES ASSUME IInv, DeepInv, [Next]_vars PROVE DeepInv'
      OBVIOUS
    <2>1. CASE UNCHANGED vars
      BY <2>1, DeepKept DEF vars, blocks, chain, backend, range
    <2> QED BY <2>1, DeepEnvironment, DeepFailure, DeepWorker DEF Next
  <1>3. DeepInv => OnlyConfirmed
    BY DEF DeepInv, Deep, OnlyConfirmed, Mined
  <1> QED BY <1>1, <1>2, <1>3, Invariance, PTL DEF Spec

-----------------------------------------------------------------------------
(* An RPC that withholds nothing, and a window over the whole chain.       *)

Honest == ~Gaps /\ START_BLOCK = 0 /\ AUTO_CATCH_UP_WINDOW >= MaxHeight

NothingOverlooked == missed = {} /\ overlooked = {}

LEMMA HonestStart ==
    ASSUME Honest, IInv, NothingOverlooked, Start
    PROVE  NothingOverlooked'
  <1>1. PICK latest \in ReportedHeights :
          LET c == StartingCursor(stateFile, Target(latest)) IN
          missed' = IF c = stateFile THEN missed ELSE missed \cup Passed(c)
    BY DEF Start
  <1> DEFINE t == Target(latest)
             c == StartingCursor(stateFile, t)
  <1>2. t \in Heights /\ stateFile \in Heights
    BY TargetReached DEF IInv, TypeOK, ChainOK, WorkerOK
  <1> HIDE DEF t
  <1>3. CatchUpStart(t) = 0
    BY <1>2, WorkerAssumption DEF Honest, CatchUpStart, Larger, Heights
  <1>4. c = stateFile \/ c = 0
    BY <1>3 DEF Honest, StartingCursor
  <1>5. Passed(0) = {}
    <2>1. \A p \in Purchases : minedIn[p] \in Nat
      BY WorkerAssumption DEF IInv, TypeOK, ChainOK, Heights
    <2> QED BY <2>1 DEF Passed, LogsIn, Mined
  <1>6. missed' = IF c = stateFile THEN missed ELSE missed \cup Passed(c)
    BY <1>1 DEF t
  <1> HIDE DEF c
  <1>7. missed' = {}
    BY <1>4, <1>5, <1>6 DEF NothingOverlooked
  <1>8. overlooked' = {}
    BY DEF Start, range, NothingOverlooked
  <1> QED BY <1>7, <1>8 DEF NothingOverlooked

LEMMA HonestNext ==
    ASSUME Honest, IInv, NothingOverlooked, [Next]_vars
    PROVE  NothingOverlooked'
  <1>1. CASE UNCHANGED vars
    BY <1>1 DEF vars, range, NothingOverlooked
  <1>2. CASE Environment
    BY <1>2 DEF Environment, Mine, Register, LateDelivery, range, NothingOverlooked
  <1>3. CASE Failure
    BY <1>3, Zenon
       DEF Failure, StartFails, PostFails, ReadFails, SaveFails, Signal, Crash, Retry, Stopped,
           NoRange, range, NothingOverlooked
  <1>4. CASE Worker
    <2>1. CASE Start
      BY <2>1, HonestStart
    <2>2. CASE Poll
      BY <2>2 DEF Poll, NothingOverlooked
    <2>3. CASE FetchRange
      <3>1. overlooked' = {}
        BY <2>3 DEF FetchRange, Honest
      <3> QED BY <2>3, <3>1 DEF FetchRange, NothingOverlooked
    <2>4. CASE \E p \in Purchases : PostPurchase(p) \/ PostRejected(p)
      BY <2>4 DEF PostPurchase, PostRejected, Retry, NoRange, NothingOverlooked
    <2>5. CASE FinishRange
      <3>1. missed' = {}
        BY <2>5 DEF FinishRange, NothingOverlooked
      <3>2. overlooked' = {}
        BY <2>5, Zenon DEF FinishRange, NextBatch, NoRange
      <3> QED BY <3>1, <3>2 DEF NothingOverlooked
    <2>6. CASE Exit
      BY <2>6 DEF Exit, Stopped, NoRange, NothingOverlooked
    <2> QED BY <1>4, <2>1, <2>2, <2>3, <2>4, <2>5, <2>6 DEF Worker
  <1> QED BY <1>1, <1>2, <1>3, <1>4 DEF Next

(* With an RPC that withholds nothing, no START_BLOCK and a catch-up       *)
(* window over the whole chain, the worker jumps over no log: when the     *)
(* state file is lost it starts again from the first block.                *)
THEOREM HonestWorkerMissesNothing ==
    ASSUME Honest
    PROVE  Spec => []NothingMissed
  <1>1. Init => NothingOverlooked
    BY DEF Init, NothingOverlooked
  <1>2. IInv /\ NothingOverlooked /\ [Next]_vars => NothingOverlooked'
    BY HonestNext
  <1>3. NothingOverlooked => NothingMissed
    BY DEF NothingOverlooked, NothingMissed
  <1> QED BY <1>1, <1>2, <1>3, Invariance, PTL DEF Spec
=============================================================================
