------------------------------ MODULE CatMints ------------------------------
(***************************************************************************)
(* Which metadata item belongs to which minted token: the batches and      *)
(* items an administrator enters, the records of mints that clients and    *)
(* administrators report, and the mark a mint leaves on its item.          *)
(*                                                                         *)
(* A reported mint did happen: its token is one of its transaction's, and  *)
(* a token is minted once, so a record (unique by txHash and tokenId) is   *)
(* named by its token.  Its owner, user, source and copy of the item's     *)
(* texts are left out, and so are the texts of the items.                  *)
(***************************************************************************)
EXTENDS Integers

CONSTANTS
    None,          \* NULL
    Absent,        \* no row
    Requests,      \* requests served at a time
    Tokens,        \* ids of the minted tokens
    Serials,       \* numbers of the items that are entered
    MaxBatches,    \* bound: batches that are created
    Askable        \* items that reports ask for by metadataItemId

\* An item: its id stands for its unique batchId and serialNo.
Items == [batch : 1 .. MaxBatches, serial : Serials]

ASSUME MintAssumption ==
    /\ Tokens \subseteq Nat \ {0} /\ Serials \subseteq Nat \ {0}
    /\ MaxBatches \in Nat
    /\ Askable \subseteq Items
    /\ None \notin Tokens \cup Items
    /\ Absent \notin Tokens \cup Items \cup {None, "active", "draft"}

VARIABLES
    batches,       \* cat_asset_batches: the status of each
    items,         \* cat_metadata_items: the token an item was minted as, or None
    records,       \* cat_mint_records: the metadataItemId of each token's record
    req,           \* the requests in flight
    \* bookkeeping: nothing in the code reads these
    asked,         \* items some report asked for by their id
    broken,        \* tokens whose last record was cut off before its mark
    stale          \* items whose mark an overtaken copy has overwritten

vars == <<batches, items, records, req, asked, broken, stale>>

Steps == {"idle", "asked", "search", "insert", "update", "mark",
          "create", "select", "write"}
Mark == Tokens \cup {None}

\* A report has a token and, maybe, an item; an edit has an item and its copy.
Request == [pc : Steps, token : Mark, item : Items \cup {None}, copy : Mark,
            changed : BOOLEAN]
Idle == [pc |-> "idle", token |-> None, item |-> None, copy |-> None, changed |-> FALSE]

Init ==
    /\ batches = [b \in 1 .. MaxBatches |-> Absent]
    /\ items = [k \in Items |-> Absent]
    /\ records = [t \in Tokens |-> Absent]
    /\ req = [r \in Requests |-> Idle]
    /\ asked = {} /\ broken = {} /\ stale = {}

-----------------------------------------------------------------------------
(* Administration.                                                         *)

End(r) == req' = [req EXCEPT ![r] = Idle]
Goto(r, pc) == req' = [req EXCEPT ![r].pc = pc]

(* createBatch.  A metadataCid that exists throws and changes nothing.     *)
CreateBatch(b, status) ==
    /\ batches[b] = Absent
    /\ \A c \in 1 .. b - 1 : batches[c] # Absent
    /\ batches' = [batches EXCEPT ![b] = status]
    /\ UNCHANGED <<items, records, req, asked, broken, stale>>

(* upsertMetadataItems, which saves its items one after the other: here    *)
(* each is an edit of its own.  Nothing checks that the batch exists.      *)
UpsertMetadataItem(r, k) ==
    /\ req[r].pc = "idle"
    /\ req' = [req EXCEPT ![r] = [Idle EXCEPT
         !.pc = IF items[k] = Absent THEN "create" ELSE "select",
         !.item = k,
         !.copy = IF items[k] = Absent THEN None ELSE items[k]]]
    /\ UNCHANGED <<batches, items, records, asked, broken, stale>>

\* The INSERT fails on (batchId, serialNo) when the item has appeared since.
CreateItem(r) ==
    LET k == req[r].item IN
    /\ req[r].pc = "create"
    /\ items' = [items EXCEPT ![k] = IF @ = Absent THEN None ELSE @]
    /\ End(r)
    /\ UNCHANGED <<batches, records, asked, broken, stale>>

(* save({...existing, ...payload}) selects the row again, and updates the  *)
(* columns in which existing, read before, differs from it.                *)
SaveSelect(r) ==
    /\ req[r].pc = "select"
    /\ req' = [req EXCEPT ![r].pc = "write", ![r].changed = req[r].copy # items[req[r].item]]
    /\ UNCHANGED <<batches, items, records, asked, broken, stale>>

SaveWrite(r) ==
    LET k == req[r].item IN
    /\ req[r].pc = "write"
    /\ IF req[r].changed
       THEN items' = [items EXCEPT ![k] = req[r].copy] /\ stale' = stale \cup {k}
       ELSE UNCHANGED <<items, stale>>
    /\ End(r)
    /\ UNCHANGED <<batches, records, asked, broken>>

-----------------------------------------------------------------------------
(* recordMint and backfillMintRecord, which end in persistMintRecord.  A   *)
(* report without tokenId gets its token from the receipt, or throws.      *)
RecordMint(r, t, k) ==
    /\ req[r].pc = "idle"
    /\ req' = [req EXCEPT ![r] = [Idle EXCEPT
         !.pc = IF k = None THEN "search" ELSE "asked", !.token = t, !.item = k]]
    /\ asked' = IF k = None THEN asked ELSE asked \cup {k}
    /\ UNCHANGED <<batches, items, records, broken, stale>>

(* resolveMetadataItemForTokenId: the item asked for, if it exists; else   *)
(* the item with the token's number in the newest active batch that has    *)
(* one.                                                                    *)
FindAsked(r) ==
    /\ req[r].pc = "asked"
    /\ Goto(r, IF items[req[r].item] = Absent THEN "search" ELSE "insert")
    /\ UNCHANGED <<batches, items, records, asked, broken, stale>>

AnyBatch(t) ==                                       \* mutation: drafts too
    {k \in Items : k.serial = t /\ items[k] # Absent}
Candidates(t) ==
    {k \in Items : k.serial = t /\ items[k] # Absent /\ batches[k.batch] = "active"}

OneBefore(keys) ==                                   \* mutation: off by one batch
    {[k EXCEPT !.batch = @ - 1] : k \in {k \in keys : \A j \in keys : j.batch <= k.batch}}
Newest(keys) == {k \in keys : \A other \in keys : other.batch <= k.batch}

Found(r, k) == req' = [req EXCEPT ![r].pc = "insert", ![r].item = k]

SearchItem(r) ==
    LET keys == Candidates(req[r].token) IN
    /\ req[r].pc = "search"
    /\ \/ keys = {} /\ Found(r, None)
       \/ \E k \in Newest(keys) : Found(r, k)
    /\ UNCHANGED <<batches, items, records, asked, broken, stale>>

InsertedOnly(r, next) == "idle"                      \* mutation: known mints are skipped
AfterConflict(r, next) == next

(* INSERT ... ON CONFLICT DO NOTHING.                                      *)
InsertRecord(r) ==
    LET t == req[r].token
        k == req[r].item
        next == IF records[t] = Absent THEN IF k = None THEN "idle" ELSE "mark"
                ELSE AfterConflict(r, IF k = None THEN "idle" ELSE "update")
    IN
    /\ req[r].pc = "insert"
    /\ records' = [records EXCEPT ![t] = IF @ = Absent THEN k ELSE @]
    /\ IF next = "idle" THEN End(r) ELSE Goto(r, next)
    /\ broken' = IF next = "idle" /\ records'[t] = k THEN broken \ {t} ELSE broken
    /\ UNCHANGED <<batches, items, asked, stale>>

\* A record that was there gets the item that was found now.
UpdateRecord(r) ==
    /\ req[r].pc = "update"
    /\ records' = [records EXCEPT ![req[r].token] = req[r].item]
    /\ Goto(r, "mark")
    /\ UNCHANGED <<batches, items, asked, broken, stale>>

MarkFirst(r) ==                                      \* mutation: marked, then recorded
    req[r].pc = "insert" /\ req[r].item # None
MarkReached(r) == req[r].pc = "mark"

MarkItem(r) ==
    LET t == req[r].token
        k == req[r].item
    IN
    /\ MarkReached(r)
    /\ items' = [items EXCEPT ![k] = t]
    /\ End(r)
    /\ broken' = IF records[t] = k THEN broken \ {t} ELSE broken
    /\ stale' = stale \ {k}
    /\ UNCHANGED <<batches, records, asked>>

\* The instance dies, or a statement throws.
Crash(r) ==
    /\ req[r].pc # "idle"
    /\ End(r)
    /\ broken' = IF req[r].pc = "mark" THEN broken \cup {req[r].token} ELSE broken
    /\ UNCHANGED <<batches, items, records, asked, stale>>

-----------------------------------------------------------------------------
Step(r) ==
    \/ \E k \in Items : UpsertMetadataItem(r, k)
    \/ CreateItem(r) \/ SaveSelect(r) \/ SaveWrite(r)
    \/ \E t \in Tokens, k \in Askable \cup {None} : RecordMint(r, t, k)
    \/ FindAsked(r) \/ SearchItem(r) \/ InsertRecord(r) \/ UpdateRecord(r) \/ MarkItem(r)
    \/ Crash(r)

Next ==
    \/ \E b \in 1 .. MaxBatches, status \in {"active", "draft"} : CreateBatch(b, status)
    \/ \E r \in Requests : Step(r)

Spec == Init /\ [][Next]_vars

-----------------------------------------------------------------------------
(* Properties.                                                             *)

\* The type of the state.
TypeOK ==
    /\ batches \in [1 .. MaxBatches -> {Absent, "active", "draft"}]
    /\ items \in [Items -> Mark \cup {Absent}]
    /\ records \in [Tokens -> Items \cup {None, Absent}]
    /\ req \in [Requests -> Request]
    /\ asked \subseteq Items /\ broken \subseteq Tokens /\ stale \subseteq Items

(* An item is marked as minted only for a mint on record, whose record     *)
(* names an item: the record comes first, and nothing takes it back,       *)
(* neither a crash between the two nor an overtaken edit of the item.      *)
MarkedOnRecord ==
    \A k \in Items : items[k] \in Tokens => records[items[k]] \in Items

(* The item a record names carries the mark of its token: whatever calls   *)
(* were repeated, overlapped or cut off and repaired since.  The exceptions *)
(* are the record being written, one cut off and not reported again, an    *)
(* item whose mark an overtaken edit has undone, and one asked for by id.  *)
RecordMarksItem ==
    \A t \in Tokens : records[t] \in Items =>
        LET k == records[t] IN
        \/ items[k] = t
        \/ \E r \in Requests : req[r].pc = "mark" /\ req[r].token = t /\ req[r].item = k
        \/ t \in broken \/ k \in stale \/ k \in asked

(* Unless somebody asked for it by its id, an item is only given to the    *)
(* token of its number, to one token at most, and out of an active batch.  *)
ItemsGivenByNumber ==
    \A t \in Tokens : records[t] \in Items \ asked =>
        LET k == records[t] IN
        /\ batches[k.batch] = "active"
        /\ items[k] \in {t, None}
        /\ \A u \in Tokens : records[u] = k => u = t

=============================================================================
