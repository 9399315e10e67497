--------------------------- MODULE CatMintsProofs ---------------------------
(***************************************************************************)
(* Proofs about CatMints, for any number of requests, tokens, batches and  *)
(* items: the types, and the three invariants that relate the items, their *)
(* marks and the records of mints.                                         *)
(***************************************************************************)
EXTENDS CatMints, TLAPS

USE MintAssumption

\* An item a report found: entered, and the token's own by number out of an
\* active batch, unless it was asked for.
Fits(t, k) ==
    /\ items[k] # Absent
    /\ k \in asked \/ (k.serial = t /\ batches[k.batch] = "active")

\* A mark an item has, or had when it was read, and which may be written back.
Marked(k, mark) ==
    mark \in Tokens => records[mark] \in Items /\ (k \in asked \/ k.serial = mark)

\* What a request holds at each step.
RequestOK(r) ==
    LET rq == req[r] IN
    /\ rq.pc \in {"asked", "search", "insert", "update", "mark"} => rq.token \in Tokens
    /\ rq.pc \in {"asked", "update", "mark", "create", "select", "write"} => rq.item \in Items
    /\ rq.pc \in {"asked"} => rq.item \in asked
    /\ rq.pc \in {"insert", "update", "mark"} =>
          rq.item = None \/ Fits(rq.token, rq.item)
    /\ rq.pc = "mark" => records[rq.token] \in Items
    /\ rq.pc \in {"select", "write"} =>
          /\ items[rq.item] # Absent /\ rq.copy # Absent
          /\ Marked(rq.item, rq.copy)

MarksOK == \A k \in Items : Marked(k, items[k])

RecordsFit == \A t \in Tokens : records[t] \in Items => Fits(t, records[t])

IInv ==
    /\ TypeOK
    /\ \A r \in Requests : RequestOK(r)
    /\ MarksOK
    /\ RecordsFit
    /\ RecordMarksItem

-----------------------------------------------------------------------------
(* What every step keeps.                                                  *)

\* Items do not go, recorded items stay on record, active batches active.
Kept ==
    /\ \A k \in Items : items[k] # Absent => items'[k] # Absent
    /\ \A t \in Tokens : records[t] \in Items => records'[t] \in Items
    /\ \A b \in 1 .. MaxBatches : batches[b] = "active" => batches'[b] = "active"
    /\ asked \subseteq asked'

\* A request that takes no step stands where it stood.
LEMMA RequestFrame ==
    ASSUME TypeOK, Kept, NEW q \in Requests, RequestOK(q), req'[q] = req[q]
    PROVE  RequestOK(q)'
<1> DEFINE k == req[q].item
           t == req[q].token
<1>1. req[q] \in Request
  BY DEF TypeOK
<1>2. k \in Items \cup {None} /\ t \in Tokens \cup {None}
  BY <1>1 DEF Request, Mark
<1>3. ASSUME req[q].pc \in {"insert", "update", "mark"}, k # None
      PROVE  Fits(t, k)'
  <2>1. Fits(t, k) /\ k \in Items
    BY <1>2, <1>3 DEF RequestOK
  <2>2. k.batch \in 1 .. MaxBatches
    BY <2>1 DEF Items
  <2>3. items'[k] # Absent
    BY <2>1 DEF Kept, Fits
  <2>4. k \in asked' \/ (k.serial = t /\ batches'[k.batch] = "active")
    BY <2>1, <2>2 DEF Kept, Fits
  <2> QED
    BY <2>3, <2>4 DEF Fits
<1>4. ASSUME req[q].pc \in {"select", "write"}
      PROVE  items'[k] # Absent /\ req[q].copy # Absent /\ Marked(k, req[q].copy)'
  <2>1. k \in Items /\ items[k] # Absent /\ req[q].copy # Absent /\ Marked(k, req[q].copy)
    BY <1>4 DEF RequestOK
  <2> QED
    BY <2>1 DEF Kept, Marked
<1> QED
  BY <1>2, <1>3, <1>4 DEF Kept, RequestOK

\* What is left to show of a step of r: its own part, and the tables.
LEMMA StepOK ==
    ASSUME IInv, TypeOK', Kept, NEW r \in Requests, \A q \in Requests \ {r} : req'[q] = req[q],
           RequestOK(r)', MarksOK', RecordsFit', RecordMarksItem'
    PROVE  IInv'
BY RequestFrame DEF IInv

\* Marks that did not change, under records that stayed.
LEMMA MarksFrame ==
    ASSUME MarksOK, Kept, UNCHANGED items
    PROVE  MarksOK'
BY DEF MarksOK, Marked, Kept

\* Records that did not change.
LEMMA RecordsFrame ==
    ASSUME RecordsFit, Kept, UNCHANGED records
    PROVE  RecordsFit'
<1> SUFFICES ASSUME NEW t \in Tokens, records[t] \in Items
             PROVE  Fits(t, records[t])'
  BY DEF RecordsFit
<1>1. Fits(t, records[t])
  BY DEF RecordsFit
<1>2. records[t].batch \in 1 .. MaxBatches
  BY DEF Items
<1> QED
  BY <1>1, <1>2 DEF Fits, Kept

\* A step of r that writes no item and no record; if it gives up a mark, its
\* token counts as cut off.
LEMMA QuietStep ==
    ASSUME IInv, TypeOK', NEW r \in Requests, \A q \in Requests \ {r} : req'[q] = req[q],
           UNCHANGED <<batches, items, records, stale>>,
           asked \subseteq asked', broken \subseteq broken',
           req[r].pc # "mark" \/ req[r].token \in broken', RequestOK(r)'
    PROVE  IInv'
<1>1. Kept
  BY DEF Kept
<1>2. MarksOK' /\ RecordsFit'
  BY <1>1, MarksFrame, RecordsFrame DEF IInv
<1>3. RecordMarksItem'
  <2> SUFFICES ASSUME NEW t \in Tokens, records[t] \in Items
               PROVE  \/ items'[records'[t]] = t
                      \/ \E q \in Requests : req'[q].pc = "mark" /\ req'[q].token = t
                                              /\ req'[q].item = records'[t]
                      \/ t \in broken' \/ records'[t] \in stale' \/ records'[t] \in asked'
    BY DEF RecordMarksItem
  <2>1. CASE \E q \in Requests : req[q].pc = "mark" /\ req[q].token = t
                                  /\ req[q].item = records[t]
    <3>1. PICK q \in Requests : req[q].pc = "mark" /\ req[q].token = t
                                 /\ req[q].item = records[t]
      BY <2>1
    <3> QED
      BY <3>1
  <2>2. CASE \/ items[records[t]] = t
             \/ t \in broken \/ records[t] \in stale \/ records[t] \in asked
    BY <2>2
  <2> QED
    BY <2>1, <2>2 DEF IInv, RecordMarksItem
<1> QED
  BY <1>1, <1>2, <1>3, StepOK

\* The request that takes a step.
LEMMA Others ==
    ASSUME TypeOK, NEW r \in Requests, NEW value \in Request,
           req' = [req EXCEPT ![r] = value]
    PROVE  /\ req' \in [Requests -> Request]
           /\ req'[r] = value
           /\ \A q \in Requests \ {r} : req'[q] = req[q]
BY DEF TypeOK

LEMMA IdleType == Idle \in Request
BY DEF Idle, Request, Steps, Mark

LEMMA EndFacts ==
    ASSUME TypeOK, NEW r \in Requests, End(r)
    PROVE  /\ req' \in [Requests -> Request]
           /\ req'[r] = Idle
           /\ \A q \in Requests \ {r} : req'[q] = req[q]
BY IdleType, Others DEF End

LEMMA GotoFacts ==
    ASSUME TypeOK, NEW r \in Requests, NEW pc \in Steps, Goto(r, pc)
    PROVE  /\ req' \in [Requests -> Request]
           /\ req'[r] = [req[r] EXCEPT !.pc = pc]
           /\ req'[r].pc = pc /\ req'[r].token = req[r].token /\ req'[r].item = req[r].item
           /\ req'[r].copy = req[r].copy
           /\ \A q \in Requests \ {r} : req'[q] = req[q]
<1>1. req[r] \in Request
  BY DEF TypeOK
<1>2. [req[r] EXCEPT !.pc = pc] \in Request
  BY <1>1 DEF Request
<1>3. req' = [req EXCEPT ![r] = [req[r] EXCEPT !.pc = pc]]
  BY DEF Goto
<1>4. req'[r] = [req[r] EXCEPT !.pc = pc]
  BY <1>2, <1>3, Others
<1> QED
  BY <1>1, <1>2, <1>3, <1>4, Others DEF Request

\* An idle request has nothing to show.
LEMMA IdleOK ==
    ASSUME NEW r \in Requests, req'[r] = Idle
    PROVE  RequestOK(r)'
BY DEF RequestOK, Idle

-----------------------------------------------------------------------------
(* Administration.                                                         *)

LEMMA InitIInv == Init => IInv
<1> SUFFICES ASSUME Init PROVE IInv
  OBVIOUS
<1>1. TypeOK
  BY IdleType DEF Init, TypeOK
<1>2. \A r \in Requests : RequestOK(r)
  BY DEF Init, Idle, RequestOK
<1>3. MarksOK
  BY DEF Init, MarksOK, Marked
<1>4. RecordsFit /\ RecordMarksItem
  BY DEF Init, RecordsFit, RecordMarksItem
<1> QED
  BY <1>1, <1>2, <1>3, <1>4 DEF IInv

LEMMA CreateBatchInv ==
    ASSUME IInv, NEW b \in 1 .. MaxBatches, NEW status \in {"active", "draft"},
           CreateBatch(b, status)
    PROVE  IInv'
<1>1. /\ batches[b] = Absent /\ batches' = [batches EXCEPT ![b] = status]
      /\ UNCHANGED <<items, records, req, asked, broken, stale>>
  BY DEF CreateBatch
<1>2. TypeOK'
  BY <1>1 DEF IInv, TypeOK
<1>3. Kept
  BY <1>1 DEF IInv, TypeOK, Kept
<1>4. \A q \in Requests : RequestOK(q)'
  BY <1>1, <1>3, RequestFrame DEF IInv
<1>5. MarksOK' /\ RecordsFit'
  BY <1>1, <1>3, MarksFrame, RecordsFrame DEF IInv
<1>6. RecordMarksItem'
  BY <1>1 DEF IInv, RecordMarksItem
<1> QED
  BY <1>2, <1>4, <1>5, <1>6 DEF IInv

LEMMA UpsertMetadataItemInv ==
    ASSUME IInv, NEW r \in Requests, NEW k \in Items, UpsertMetadataItem(r, k)
    PROVE  IInv'
<1> DEFINE value == [Idle EXCEPT
         !.pc = IF items[k] = Absent THEN "create" ELSE "select",
         !.item = k,
         !.copy = IF items[k] = Absent THEN None ELSE items[k]]
<1>1. /\ req[r].pc = "idle" /\ req' = [req EXCEPT ![r] = value]
      /\ UNCHANGED <<batches, items, records, asked, broken, stale>>
  BY DEF UpsertMetadataItem
<1>2. items[k] \in Mark \cup {Absent}
  BY DEF IInv, TypeOK
<1>3. value \in Request
  BY <1>2, IdleType DEF Idle, Request, Steps, Mark
<1>4. /\ req' \in [Requests -> Request] /\ req'[r] = value
      /\ \A q \in Requests \ {r} : req'[q] = req[q]
  BY <1>1, <1>3, Others DEF IInv
<1>5. TypeOK'
  BY <1>1, <1>4 DEF IInv, TypeOK
<1>6. /\ req'[r].item = k
      /\ \/ req'[r].pc = "create"
         \/ req'[r].pc = "select" /\ items[k] # Absent /\ req'[r].copy = items[k]
  BY <1>4 DEF Idle
<1>7. Marked(k, items[k])
  BY DEF IInv, MarksOK
<1>8. RequestOK(r)'
  BY <1>1, <1>6, <1>7 DEF RequestOK, Marked
<1> QED
  BY <1>1, <1>4, <1>5, <1>8, QuietStep

LEMMA CreateItemInv ==
    ASSUME IInv, NEW r \in Requests, CreateItem(r)
    PROVE  IInv'
<1> DEFINE k == req[r].item
<1>1. /\ req[r].pc = "create" /\ End(r)
      /\ items' = [items EXCEPT ![k] = IF @ = Absent THEN None ELSE @]
      /\ UNCHANGED <<batches, records, asked, broken, stale>>
  BY DEF CreateItem
<1>2. k \in Items
  BY <1>1 DEF IInv, RequestOK
<1>3. /\ req' \in [Requests -> Request] /\ req'[r] = Idle
      /\ \A q \in Requests \ {r} : req'[q] = req[q]
  BY <1>1, EndFacts DEF IInv
<1>4. \A j \in Items : items'[j] = items[j] \/ (items[j] = Absent /\ items'[j] = None)
  BY <1>1, <1>2 DEF IInv, TypeOK
<1>5. TypeOK'
  BY <1>1, <1>2, <1>3 DEF IInv, TypeOK, Mark
<1>6. Kept
  BY <1>1, <1>4 DEF Kept
<1>7. MarksOK'
  BY <1>1, <1>4 DEF IInv, MarksOK, Marked
<1>8. RecordsFit'
  BY <1>1, <1>6, RecordsFrame DEF IInv
<1>9. RecordMarksItem'
  <2> SUFFICES ASSUME NEW t \in Tokens, records[t] \in Items
               PROVE  \/ items'[records[t]] = t
                      \/ \E q \in Requests : req'[q].pc = "mark" /\ req'[q].token = t
                                              /\ req'[q].item = records[t]
                      \/ t \in broken \/ records[t] \in stale \/ records[t] \in asked
    BY <1>1 DEF RecordMarksItem
  <2>1. CASE \E q \in Requests : req[q].pc = "mark" /\ req[q].token = t
                                  /\ req[q].item = records[t]
    BY <1>1, <1>3, <2>1
  <2>2. CASE items[records[t]] = t
    BY <1>4, <2>2
  <2> QED
    BY <2>1, <2>2 DEF IInv, RecordMarksItem
<1> QED
  BY <1>3, <1>5, <1>6, <1>7, <1>8, <1>9, IdleOK, StepOK

LEMMA SaveSelectInv ==
    ASSUME IInv, NEW r \in Requests, SaveSelect(r)
    PROVE  IInv'
<1> DEFINE value == [req[r] EXCEPT !.pc = "write",
                                   !.changed = req[r].copy # items[req[r].item]]
<1>1. /\ req[r].pc = "select" /\ req' = [req EXCEPT ![r] = value]
      /\ UNCHANGED <<batches, items, records, asked, broken, stale>>
  BY DEF SaveSelect
<1>2. req[r] \in Request
  BY DEF IInv, TypeOK
<1>3. value \in Request
  BY <1>2 DEF Request, Steps
<1>4. /\ req' \in [Requests -> Request] /\ req'[r] = value
      /\ \A q \in Requests \ {r} : req'[q] = req[q]
  BY <1>1, <1>3, Others DEF IInv
<1>5. TypeOK'
  BY <1>1, <1>4 DEF IInv, TypeOK
<1>6. req'[r].pc = "write" /\ req'[r].item = req[r].item /\ req'[r].copy = req[r].copy
  BY <1>2, <1>4 DEF Request
<1>7. RequestOK(r)'
  BY <1>1, <1>6 DEF IInv, RequestOK, Marked
<1> QED
  BY <1>1, <1>4, <1>5, <1>7, QuietStep

LEMMA SaveWriteInv ==
    ASSUME IInv, NEW r \in Requests, SaveWrite(r)
    PROVE  IInv'
<1> DEFINE k == req[r].item
           copy == req[r].copy
<1>1. /\ req[r].pc = "write" /\ End(r)
      /\ UNCHANGED <<batches, records, asked, broken>>
  BY DEF SaveWrite
<1>2. /\ k \in Items /\ items[k] # Absent /\ copy # Absent /\ Marked(k, copy)
  BY <1>1 DEF IInv, RequestOK
<1>3. /\ req' \in [Requests -> Request] /\ req'[r] = Idle
      /\ \A q \in Requests \ {r} : req'[q] = req[q]
  BY <1>1, EndFacts DEF IInv
<1>4. copy \in Mark
  BY DEF IInv, TypeOK, Request
<1>5. CASE UNCHANGED <<items, stale>>
  <2>1. TypeOK'
    BY <1>1, <1>3, <1>5 DEF IInv, TypeOK
  <2> QED
    BY <1>1, <1>3, <1>5, <2>1, IdleOK, QuietStep
<1>6. CASE items' = [items EXCEPT ![k] = copy] /\ stale' = stale \cup {k}
  <2>1. TypeOK'
    BY <1>1, <1>2, <1>3, <1>4, <1>6 DEF IInv, TypeOK
  <2>2. items'[k] = copy /\ \A j \in Items \ {k} : items'[j] = items[j]
    BY <1>2, <1>6 DEF IInv, TypeOK
  <2>3. Kept
    BY <1>1, <1>2, <2>2 DEF Kept
  <2>4. MarksOK'
    BY <1>1, <1>2, <2>2 DEF IInv, MarksOK, Marked
  <2>5. RecordsFit'
    BY <1>1, <2>3, RecordsFrame DEF IInv
  <2>6. RecordMarksItem'
    <3> SUFFICES ASSUME NEW t \in Tokens, records[t] \in Items
                 PROVE  \/ items'[records[t]] = t
                        \/ \E q \in Requests : req'[q].pc = "mark" /\ req'[q].token = t
                                                /\ req'[q].item = records[t]
                        \/ t \in broken \/ records[t] \in stale' \/ records[t] \in asked
      BY <1>1 DEF RecordMarksItem
    <3>1. CASE \E q \in Requests : req[q].pc = "mark" /\ req[q].token = t
                                    /\ req[q].item = records[t]
      BY <1>1, <1>3, <3>1
    <3>2. CASE items[records[t]] = t
      BY <1>6, <2>2, <3>2
    <3> QED
      BY <1>6, <3>1, <3>2 DEF IInv, RecordMarksItem
  <2> QED
    BY <1>3, <2>1, <2>3, <2>4, <2>5, <2>6, IdleOK, StepOK
<1> QED
  BY <1>5, <1>6 DEF SaveWrite
-----------------------------------------------------------------------------
(* Reports of mints.                                                       *)

LEMMA RecordMintInv ==
    ASSUME IInv, NEW r \in Requests, NEW t \in Tokens, NEW k \in Askable \cup {None},
           RecordMint(r, t, k)
    PROVE  IInv'
<1> DEFINE value == [Idle EXCEPT !.pc = IF k = None THEN "search" ELSE "asked",
                                 !.token = t, !.item = k]
<1>1. /\ req[r].pc = "idle" /\ req' = [req EXCEPT ![r] = value]
      /\ asked' = IF k = None THEN asked ELSE asked \cup {k}
      /\ UNCHANGED <<batches, items, records, broken, stale>>
  BY DEF RecordMint
<1>2. k \in Items \cup {None} /\ (k # None => k \in Items)
  OBVIOUS
<1>3. value \in Request
  BY <1>2, IdleType DEF Idle, Request, Steps, Mark
<1>4. /\ req' \in [Requests -> Request] /\ req'[r] = value
      /\ \A q \in Requests \ {r} : req'[q] = req[q]
  BY <1>1, <1>3, Others DEF IInv
<1>5. TypeOK'
  BY <1>1, <1>2, <1>4 DEF IInv, TypeOK
<1>6. /\ req'[r].token = t /\ req'[r].item = k
      /\ \/ req'[r].pc = "search"
         \/ req'[r].pc = "asked" /\ k # None
  BY <1>4 DEF Idle
<1>7. RequestOK(r)'
  BY <1>1, <1>2, <1>6 DEF RequestOK
<1> QED
  BY <1>1, <1>4, <1>5, <1>7, QuietStep

LEMMA FindAskedInv ==
    ASSUME IInv, NEW r \in Requests, FindAsked(r)
    PROVE  IInv'
<1> DEFINE pc == IF items[req[r].item] = Absent THEN "search" ELSE "insert"
<1>1. /\ req[r].pc = "asked" /\ Goto(r, pc)
      /\ UNCHANGED <<batches, items, records, asked, broken, stale>>
  BY DEF FindAsked
<1>2. req[r].token \in Tokens /\ req[r].item \in Items /\ req[r].item \in asked
  BY <1>1 DEF IInv, RequestOK
<1>3. pc \in Steps
  BY DEF Steps
<1>4. /\ req' \in [Requests -> Request] /\ req'[r].pc = pc
      /\ req'[r].token = req[r].token /\ req'[r].item = req[r].item
      /\ \A q \in Requests \ {r} : req'[q] = req[q]
  BY <1>1, <1>3, GotoFacts DEF IInv
<1>5. TypeOK'
  BY <1>1, <1>4 DEF IInv, TypeOK
<1>6. RequestOK(r)'
  BY <1>1, <1>2, <1>4 DEF RequestOK, Fits
<1> QED
  BY <1>1, <1>4, <1>5, <1>6, QuietStep

LEMMA SearchItemInv ==
    ASSUME IInv, NEW r \in Requests, SearchItem(r)
    PROVE  IInv'
<1> DEFINE t == req[r].token
<1>1. /\ req[r].pc = "search"
      /\ UNCHANGED <<batches, items, records, asked, broken, stale>>
  BY DEF SearchItem
<1>2. t \in Tokens
  BY <1>1 DEF IInv, RequestOK
<1>3. ASSUME NEW k \in Items \cup {None}, Found(r, k), k = None \/ k \in Candidates(t)
      PROVE  IInv'
  <2> DEFINE value == [req[r] EXCEPT !.pc = "insert", !.item = k]
  <2>1. req[r] \in Request
    BY DEF IInv, TypeOK
  <2>2. value \in Request
    BY <2>1 DEF Request, Steps
  <2>3. req' = [req EXCEPT ![r] = value]
    BY <1>3 DEF Found
  <2>4. /\ req' \in [Requests -> Request] /\ req'[r] = value
        /\ \A q \in Requests \ {r} : req'[q] = req[q]
    BY <2>2, <2>3, Others DEF IInv
  <2>5. TypeOK'
    BY <1>1, <2>4 DEF IInv, TypeOK
  <2>6. req'[r].pc = "insert" /\ req'[r].token = t /\ req'[r].item = k
    BY <2>1, <2>4 DEF Request
  <2>7. k = None \/ Fits(t, k)
    BY <1>3 DEF Candidates, Fits
  <2>8. RequestOK(r)'
    BY <1>1, <1>2, <2>6, <2>7 DEF RequestOK, Fits
  <2> QED
    BY <1>1, <2>4, <2>5, <2>8, QuietStep
<1>4. CASE Found(r, None)
  BY <1>3, <1>4
<1>5. CASE \E k \in Newest(Candidates(t)) : Found(r, k)
  BY <1>3, <1>5 DEF Newest, Candidates
<1> QED
  BY <1>4, <1>5 DEF SearchItem

LEMMA InsertRecordInv ==
    ASSUME IInv, NEW r \in Requests, InsertRecord(r)
    PROVE  IInv'
<1> DEFINE t == req[r].token
           k == req[r].item
           next == IF records[t] = Absent THEN IF k = None THEN "idle" ELSE "mark"
                   ELSE AfterConflict(r, IF k = None THEN "idle" ELSE "update")
<1>1. /\ req[r].pc = "insert"
      /\ records' = [records EXCEPT ![t] = IF @ = Absent THEN k ELSE @]
      /\ IF next = "idle" THEN End(r) ELSE Goto(r, next)
      /\ broken' = IF next = "idle" /\ records'[t] = k THEN broken \ {t} ELSE broken
      /\ UNCHANGED <<batches, items, asked, stale>>
  BY DEF InsertRecord
<1>2. t \in Tokens /\ (k = None \/ Fits(t, k)) /\ k \in Items \cup {None}
  BY <1>1 DEF IInv, RequestOK, TypeOK, Request
<1>3. /\ records'[t] = IF records[t] = Absent THEN k ELSE records[t]
      /\ \A u \in Tokens \ {t} : records'[u] = records[u]
  BY <1>1, <1>2 DEF IInv, TypeOK
<1>4. \/ next = "idle" /\ k = None
      \/ next = "mark" /\ records[t] = Absent /\ k \in Items
      \/ next = "update" /\ records[t] # Absent /\ k \in Items
  BY <1>2 DEF AfterConflict
<1>5. /\ req' \in [Requests -> Request]
      /\ \A q \in Requests \ {r} : req'[q] = req[q]
      /\ \/ next = "idle" /\ req'[r] = Idle
         \/ /\ next # "idle" /\ req'[r].pc = next
            /\ req'[r].token = t /\ req'[r].item = k
  <2>1. next \in Steps
    BY <1>4 DEF Steps
  <2> QED
    BY <1>1, <2>1, EndFacts, GotoFacts DEF IInv
<1>6. TypeOK'
  <2>1. records' \in [Tokens -> Items \cup {None, Absent}]
    BY <1>1, <1>2 DEF IInv, TypeOK
  <2>2. broken' \subseteq Tokens
    BY <1>1 DEF IInv, TypeOK
  <2> QED
    BY <1>1, <1>5, <2>1, <2>2 DEF IInv, TypeOK
<1>7. Kept
  BY <1>1, <1>3 DEF Kept
<1>8. RequestOK(r)'
  <2>1. CASE next = "idle"
    BY <1>5, <2>1, IdleOK
  <2>2. CASE next = "mark"
    BY <1>1, <1>2, <1>3, <1>4, <1>5, <2>2 DEF RequestOK, Fits
  <2>3. CASE next = "update"
    BY <1>1, <1>2, <1>4, <1>5, <2>3 DEF RequestOK, Fits
  <2> QED
    BY <1>4, <2>1, <2>2, <2>3
<1>9. MarksOK'
  BY <1>1, <1>7, MarksFrame DEF IInv
<1>10. RecordsFit'
  BY <1>1, <1>2, <1>3 DEF IInv, RecordsFit, Fits
<1>11. RecordMarksItem'
  <2> SUFFICES ASSUME NEW u \in Tokens, records'[u] \in Items
               PROVE  \/ items[records'[u]] = u
                      \/ \E q \in Requests : req'[q].pc = "mark" /\ req'[q].token = u
                                              /\ req'[q].item = records'[u]
                      \/ u \in broken' \/ records'[u] \in stale \/ records'[u] \in asked
    BY <1>1 DEF RecordMarksItem
  <2>1. CASE u = t /\ records[t] = Absent
    BY <1>3, <1>4, <1>5, <2>1
  <2>2. CASE u # t \/ records[t] # Absent
    <3>1. records'[u] = records[u] /\ records[u] \in Items
      BY <1>3, <2>2
    <3>2. u \in broken => u \in broken'
      BY <1>1, <1>4, <3>1
    <3>3. CASE \E q \in Requests : req[q].pc = "mark" /\ req[q].token = u
                                    /\ req[q].item = records[u]
      BY <1>1, <1>5, <3>1, <3>3
    <3> QED
      BY <3>1, <3>2, <3>3 DEF IInv, RecordMarksItem
  <2> QED
    BY <2>1, <2>2
<1> QED
  BY <1>5, <1>6, <1>7, <1>8, <1>9, <1>10, <1>11, StepOK

LEMMA UpdateRecordInv ==
    ASSUME IInv, NEW r \in Requests, UpdateRecord(r)
    PROVE  IInv'
<1> DEFINE t == req[r].token
           k == req[r].item
<1>1. /\ req[r].pc = "update" /\ Goto(r, "mark")
      /\ records' = [records EXCEPT ![t] = k]
      /\ UNCHANGED <<batches, items, asked, broken, stale>>
  BY DEF UpdateRecord
<1>2. t \in Tokens /\ k \in Items /\ Fits(t, k)
  BY <1>1 DEF IInv, RequestOK
<1>3. records'[t] = k /\ \A u \in Tokens \ {t} : records'[u] = records[u]
  BY <1>1, <1>2 DEF IInv, TypeOK
<1>4. /\ req' \in [Requests -> Request] /\ req'[r].pc = "mark"
      /\ req'[r].token = t /\ req'[r].item = k
      /\ \A q \in Requests \ {r} : req'[q] = req[q]
  BY <1>1, GotoFacts DEF IInv, Steps
<1>5. TypeOK'
  BY <1>1, <1>2, <1>4 DEF IInv, TypeOK
<1>6. Kept
  BY <1>1, <1>2, <1>3 DEF Kept
<1>7. RequestOK(r)'
  BY <1>1, <1>2, <1>3, <1>4 DEF RequestOK, Fits
<1>8. MarksOK'
  BY <1>1, <1>6, MarksFrame DEF IInv
<1>9. RecordsFit'
  BY <1>1, <1>2, <1>3 DEF IInv, RecordsFit, Fits
<1>10. RecordMarksItem'
  <2> SUFFICES ASSUME NEW u \in Tokens, records'[u] \in Items
               PROVE  \/ items[records'[u]] = u
                      \/ \E q \in Requests : req'[q].pc = "mark" /\ req'[q].token = u
                                              /\ req'[q].item = records'[u]
                      \/ u \in broken \/ records'[u] \in stale \/ records'[u] \in asked
    BY <1>1 DEF RecordMarksItem
  <2>1. CASE u = t
    BY <1>3, <1>4, <2>1
  <2>2. CASE u # t
    <3>1. records'[u] = records[u] /\ records[u] \in Items
      BY <1>3, <2>2
    <3>2. CASE \E q \in Requests : req[q].pc = "mark" /\ req[q].token = u
                                    /\ req[q].item = records[u]
      BY <1>1, <1>4, <3>1, <3>2
    <3> QED
      BY <3>1, <3>2 DEF IInv, RecordMarksItem
  <2> QED
    BY <2>1, <2>2
<1> QED
  BY <1>4, <1>5, <1>6, <1>7, <1>8, <1>9, <1>10, StepOK

LEMMA MarkItemInv ==
    ASSUME IInv, NEW r \in Requests, MarkItem(r)
    PROVE  IInv'
<1> DEFINE t == req[r].token
           k == req[r].item
<1>1. /\ req[r].pc = "mark" /\ End(r)
      /\ items' = [items EXCEPT ![k] = t]
      /\ broken' = IF records[t] = k THEN broken \ {t} ELSE broken
      /\ stale' = stale \ {k}
      /\ UNCHANGED <<batches, records, asked>>
  BY DEF MarkItem, MarkReached
<1>2. /\ t \in Tokens /\ k \in Items /\ records[t] \in Items
      /\ k \in asked \/ (k.serial = t /\ batches[k.batch] = "active")
  BY <1>1 DEF IInv, RequestOK, Fits
<1>3. items'[k] = t /\ \A j \in Items \ {k} : items'[j] = items[j]
  BY <1>1, <1>2 DEF IInv, TypeOK
<1>4. /\ req' \in [Requests -> Request] /\ req'[r] = Idle
      /\ \A q \in Requests \ {r} : req'[q] = req[q]
  BY <1>1, EndFacts DEF IInv
<1>5. TypeOK'
  BY <1>1, <1>2, <1>4 DEF IInv, TypeOK, Mark
<1>6. Kept
  BY <1>1, <1>2, <1>3 DEF Kept
<1>7. MarksOK'
  BY <1>1, <1>2, <1>3 DEF IInv, MarksOK, Marked
<1>8. RecordsFit'
  BY <1>1, <1>6, RecordsFrame DEF IInv
<1>9. RecordMarksItem'
  <2> SUFFICES ASSUME NEW u \in Tokens, records[u] \in Items
               PROVE  \/ items'[records[u]] = u
                      \/ \E q \in Requests : req'[q].pc = "mark" /\ req'[q].token = u
                                              /\ req'[q].item = records[u]
                      \/ u \in broken' \/ records[u] \in stale' \/ records[u] \in asked
    BY <1>1 DEF RecordMarksItem
  <2>1. CASE records[u] = k
    <3>1. k \in asked \/ k.serial = u
      BY <2>1 DEF IInv, RecordsFit, Fits
    <3> QED
      BY <1>2, <1>3, <2>1, <3>1
  <2>2. CASE records[u] # k
    <3>1. items'[records[u]] = items[records[u]]
      BY <1>3, <2>2
    <3>2. (u \in broken => u \in broken') /\ (records[u] \in stale => records[u] \in stale')
      BY <1>1, <2>2
    <3>3. CASE \E q \in Requests : req[q].pc = "mark" /\ req[q].token = u
                                    /\ req[q].item = records[u]
      BY <1>4, <2>2, <3>3
    <3> QED
      BY <3>1, <3>2, <3>3 DEF IInv, RecordMarksItem
  <2> QED
    BY <2>1, <2>2
<1> QED
  BY <1>4, <1>5, <1>6, <1>7, <1>8, <1>9, IdleOK, StepOK

LEMMA CrashInv ==
    ASSUME IInv, NEW r \in Requests, Crash(r)
    PROVE  IInv'
<1>1. /\ End(r) /\ UNCHANGED <<batches, items, records, asked, stale>>
      /\ broken' = IF req[r].pc = "mark" THEN broken \cup {req[r].token} ELSE broken
  BY DEF Crash
<1>2. req[r].pc = "mark" => req[r].token \in Tokens
  BY DEF IInv, RequestOK
<1>3. /\ req' \in [Requests -> Request] /\ req'[r] = Idle
      /\ \A q \in Requests \ {r} : req'[q] = req[q]
  BY <1>1, EndFacts DEF IInv
<1>4. TypeOK'
  BY <1>1, <1>2, <1>3 DEF IInv, TypeOK
<1> QED
  BY <1>1, <1>3, <1>4, IdleOK, QuietStep

-----------------------------------------------------------------------------
(* The invariants.                                                         *)

LEMMA NextIInv == IInv /\ [Next]_vars => IInv'
<1> SUFFICES ASSUME IInv, [Next]_vars PROVE IInv'
  OBVIOUS
<1>1. CASE \E b \in 1 .. MaxBatches, status \in {"active", "draft"} : CreateBatch(b, status)
  BY <1>1, CreateBatchInv
<1>2. CASE \E r \in Requests : Step(r)
  <2>1. PICK r \in Requests : Step(r)
    BY <1>2
  <2>2. CASE \/ \E k \in Items : UpsertMetadataItem(r, k)
             \/ CreateItem(r) \/ SaveSelect(r) \/ SaveWrite(r)
    BY <2>2, UpsertMetadataItemInv, CreateItemInv, SaveSelectInv, SaveWriteInv
  <2>3. CASE \/ \E t \in Tokens, k \in Askable \cup {None} : RecordMint(r, t, k)
             \/ FindAsked(r) \/ SearchItem(r)
    BY <2>3, RecordMintInv, FindAskedInv, SearchItemInv
  <2>4. CASE InsertRecord(r) \/ UpdateRecord(r) \/ MarkItem(r) \/ Crash(r)
    BY <2>4, InsertRecordInv, UpdateRecordInv, MarkItemInv, CrashInv
  <2> QED
    BY <2>1, <2>2, <2>3, <2>4 DEF Step
<1>3. CASE UNCHANGED vars
  <2>1. UNCHANGED <<batches, items, records, req, asked, broken, stale>>
    BY <1>3 DEF vars
  <2>2. TypeOK' /\ RecordMarksItem'
    BY <2>1 DEF IInv, TypeOK, RecordMarksItem
  <2>3. Kept
    BY <2>1 DEF Kept
  <2>4. \A q \in Requests : RequestOK(q)'
    BY <2>1, <2>3, RequestFrame DEF IInv
  <2>5. MarksOK' /\ RecordsFit'
    BY <2>1, <2>3, MarksFrame, RecordsFrame DEF IInv
  <2> QED
    BY <2>2, <2>4, <2>5 DEF IInv
<1> QED
  BY <1>1, <1>2, <1>3 DEF Next

\* The inductive invariant: what requests hold, and which marks, copies of
\* marks and records belong together.
THEOREM MintsInvariant == Spec => []IInv
<1> QED
  BY InitIInv, NextIInv, PTL DEF Spec

(* Type correctness of batches, items, records and requests.               *)
THEOREM MintsTypeCorrect == Spec => []TypeOK
<1>1. IInv => TypeOK
  BY DEF IInv
<1> QED
  BY <1>1, MintsInvariant, PTL

(* An item is never marked for a mint that is not on record with an item.  *)
THEOREM MarksAreOnRecord == Spec => []MarkedOnRecord
<1>1. IInv => MarkedOnRecord
  BY DEF IInv, MarksOK, Marked, MarkedOnRecord
<1> QED
  BY <1>1, MintsInvariant, PTL

(* A record's item carries its mark, but for the exceptions that           *)
(* RecordMarksItem names.                                                  *)
THEOREM RecordsAreMarked == Spec => []RecordMarksItem
<1>1. IInv => RecordMarksItem
  BY DEF IInv
<1> QED
  BY <1>1, MintsInvariant, PTL

(* An item nobody asked for by its id belongs to the token of its number,  *)
(* and to no other.                                                        *)
THEOREM ItemsGoByNumber == Spec => []ItemsGivenByNumber
<1>1. ASSUME IInv, NEW t \in Tokens, records[t] \in Items \ asked
      PROVE  /\ batches[records[t].batch] = "active"
             /\ items[records[t]] \in {t, None}
             /\ \A u \in Tokens : records[u] = records[t] => u = t
  <2>1. /\ items[records[t]] # Absent /\ records[t].serial = t
        /\ batches[records[t].batch] = "active"
    BY <1>1 DEF IInv, RecordsFit, Fits
  <2>2. items[records[t]] \in Tokens => items[records[t]] = t
    BY <1>1, <2>1 DEF IInv, MarksOK, Marked
  <2>3. items[records[t]] \in {t, None}
    BY <1>1, <2>1, <2>2 DEF IInv, TypeOK, Mark
  <2>4. ASSUME NEW u \in Tokens, records[u] = records[t]
        PROVE  u = t
    BY <1>1, <2>1, <2>4 DEF IInv, RecordsFit, Fits
  <2> QED
    BY <2>1, <2>3, <2>4
<1>2. IInv => ItemsGivenByNumber
  BY <1>1 DEF ItemsGivenByNumber
<1> QED
  BY <1>2, MintsInvariant, PTL

=============================================================================
