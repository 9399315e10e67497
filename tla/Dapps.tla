-------------------------------- MODULE Dapps --------------------------------
(***************************************************************************)
(* The directory of dapps and its tabs, which administrators edit and the  *)
(* wallet agent reads to decide which tools a conversation may use.        *)
(*                                                                         *)
(* Both live in Redis, each a JSON document under one key.  An edit reads  *)
(* whole documents, checks, and writes one of them back; nothing locks     *)
(* them, and a request is a sequence of Redis calls next to those of other *)
(* requests.  A document that cannot be read is deleted by whoever meets   *)
(* it.                                                                     *)
(*                                                                         *)
(* Texts, icons and the order of the list are one value, the edit that     *)
(* brought them.  Base tools, which every conversation has, are left out   *)
(* of Tools.                                                               *)
(***************************************************************************)
EXTENDS Integers, FiniteSets

CONSTANTS
    NoDapp,         \* no entry with this id
    Ids,            \* ids of dapps
    Categories,     \* categories other than ai-driven; a tab is named by its own
    Tools,          \* STORED_DAPP_TOOL_IDS but the base tools
    Capabilities,   \* what older entries list in place of toolIds
    Infers,         \* the tools each of them stands for
    Legacy,         \* entries that older versions stored
    Requests,       \* requests served at a time
    MaxEdits        \* bound: calls of upsertDapp in a run

AiDriven == "ai-driven"

ASSUME DappsAssumption ==
    /\ AiDriven \notin Categories
    /\ Infers \in [Capabilities -> SUBSET Tools]
    /\ MaxEdits \in Nat

\* An entry of the stored list; "edit" is 0 for those of older versions.
Dapp == [edit : 0 .. MaxEdits, categories : SUBSET (Categories \cup {AiDriven}),
         aiDriven : BOOLEAN, tools : SUBSET Tools, capabilities : SUBSET Capabilities]
ASSUME LegacyAssumption == Legacy \subseteq {d \in Dapp : d.edit = 0 /\ d.tools = {}}
ASSUME NoDappAssumption == NoDapp \notin Dapp /\ NoDapp \notin Ids /\ NoDapp \notin Tools

\* What readers get: nothing of older versions is left, and tools are for AI-driven dapps.
Entry == {d \in Dapp : /\ d.capabilities = {} /\ AiDriven \notin d.categories
                       /\ d.tools # {} => d.aiDriven}

Directory == [Ids -> Legacy \cup Entry \cup {NoDapp}]
Empty == [id \in Ids |-> NoDapp]

VARIABLES
    dapps,      \* inj-pass:dapps:directory:v1; a missing key is an empty list
    tabs,       \* inj-pass:dapps:tabs:v1
    broken,     \* which of the two documents cannot be read; what it holds counts as nothing
    req,        \* the requests in flight
    edits,      \* calls of upsertDapp so far
    \* bookkeeping: nothing in the code reads these
    acked,      \* for each id, the entry its last edit answered with
    lost,       \* ids whose entry a request wrote back as it was before an edit
    mixed       \* the two documents were written by requests that overlapped

vars == <<dapps, tabs, broken, req, edits, acked, lost, mixed>>

-----------------------------------------------------------------------------
(* normalizeStoredDapp, on the way out of Redis.                           *)

inferToolIdsFromLegacyCapabilities(capabilities, aiDriven) ==
    IF aiDriven THEN UNION {Infers[c] : c \in capabilities} ELSE {}

KeepCapabilities(d) ==                             \* mutation: the old field stays
    LET aiDriven == d.aiDriven \/ AiDriven \in d.categories IN
    [d EXCEPT !.aiDriven = aiDriven, !.categories = @ \ {AiDriven},
              !.tools = IF @ # {} THEN @
                        ELSE inferToolIdsFromLegacyCapabilities(d.capabilities, aiDriven)]
normalizeStoredDapp(d) ==
    LET aiDriven == d.aiDriven \/ AiDriven \in d.categories IN
    [edit |-> d.edit, aiDriven |-> aiDriven, categories |-> d.categories \ {AiDriven},
     tools |-> IF d.tools # {} THEN d.tools
               ELSE inferToolIdsFromLegacyCapabilities(d.capabilities, aiDriven),
     capabilities |-> {}]

Normalized(list) ==
    [id \in Ids |-> IF list[id] = NoDapp THEN NoDapp ELSE normalizeStoredDapp(list[id])]

Stored(list) == {id \in Ids : list[id] # NoDapp}
UsedCategories(list) == UNION {list[id].categories : id \in Stored(list)}

\* buildToolPolicy for a conversation that mentions these dapps.
buildToolPolicy(list, mentions) ==
    UNION {list[id].tools : id \in {m \in mentions \cap Stored(list) : list[m].aiDriven}}

-----------------------------------------------------------------------------
(* Requests, one Redis call at a time.                                     *)

Ops == {"none", "upsert", "saveTabs", "list", "tool"}
Steps == {"idle", "tabs", "delTabs", "dapps", "delDapps", "write", "offer", "run"}

(* A request: what it is asked to store, the dapps the conversation        *)
(* mentions and the tool the model calls, and the list it has read.        *)
(* Bookkeeping, since it began to read: "missed" are the ids others        *)
(* edited, "crossed" says that others changed the document it checks       *)
(* against, "since" are the tools the directory allowed at some time.      *)
Request ==
    [pc : Steps, op : Ops, id : Ids \cup {NoDapp}, entry : Dapp \cup {NoDapp},
     tabs : SUBSET Categories, mentions : SUBSET Ids, tool : Tools \cup {NoDapp},
     list : [Ids -> Entry \cup {NoDapp}], missed : SUBSET Ids, crossed : BOOLEAN, since : SUBSET Tools]
Idle == [pc |-> "idle", op |-> "none", id |-> NoDapp, entry |-> NoDapp, tabs |-> {},
         mentions |-> {}, tool |-> NoDapp, list |-> Empty, missed |-> {},
         crossed |-> FALSE, since |-> {}]

Init ==
    /\ broken \in SUBSET {"dapps", "tabs"}
    /\ dapps \in [Ids -> Legacy \cup {NoDapp}] /\ ("dapps" \in broken => dapps = Empty)
    /\ tabs \in SUBSET Categories /\ ("tabs" \in broken => tabs = {})
    /\ req = [r \in Requests |-> Idle]
    /\ edits = 0
    /\ acked = Normalized(dapps)
    /\ lost = {}
    /\ mixed = ~(UsedCategories(Normalized(dapps)) \subseteq tabs)

Begin(r, request) == req[r].pc = "idle" /\ req' = [req EXCEPT ![r] = request]
Goto(r, pc) == req' = [req EXCEPT ![r].pc = pc]
End(r) == req' = [req EXCEPT ![r] = Idle]

documents == <<dapps, tabs, broken>>
history == <<acked, lost, mixed>>

\* Requests that go on with what they have read of a document.
HoldsTabs(q) == req[q].op = "upsert" /\ req[q].pc \in {"delTabs", "dapps", "delDapps", "write"}
HoldsDapps(q) == req[q].op \in {"upsert", "saveTabs"} /\ req[q].pc \in {"delDapps", "write"}
Executing(q) == req[q].op = "tool" /\ req[q].tool # NoDapp /\ req[q].pc \in {"dapps", "delDapps"}

\* Request q when another one stores this list, with a new entry for id.
SeesDapps(q, list, id) ==
    [req[q] EXCEPT
        !.missed = IF HoldsDapps(q) THEN @ \cup {id} ELSE @,
        !.crossed = @ \/ (HoldsDapps(q) /\ req[q].op = "saveTabs"),
        !.since = IF Executing(q) THEN @ \cup buildToolPolicy(Normalized(list), req[q].mentions)
                  ELSE @]
\* Request q when another one stores tabs.
SeesTabs(q) == [req[q] EXCEPT !.crossed = @ \/ HoldsTabs(q)]

(* POST dapps/admin, PUT dapps/admin/:id, with what the body comes to.     *)
UpsertDapp(r, id, categories, aiDriven, tools) ==
    /\ edits < MaxEdits
    /\ edits' = edits + 1
    /\ categories # {}
    /\ Begin(r, [Idle EXCEPT !.pc = "tabs", !.op = "upsert", !.id = id,
            !.entry = [edit |-> edits + 1, categories |-> categories, aiDriven |-> aiDriven,
                       tools |-> tools, capabilities |-> {}]])
    /\ UNCHANGED <<documents, history>>

\* PUT dapps/admin/tabs
SaveTabs(r, new) ==
    /\ Begin(r, [Idle EXCEPT !.pc = "dapps", !.op = "saveTabs", !.tabs = new])
    /\ UNCHANGED <<documents, edits, history>>

(* GET dapps reads both documents at once: either read is a request here.  *)
List(r, document) ==
    /\ Begin(r, [Idle EXCEPT !.pc = document, !.op = "list"])
    /\ UNCHANGED <<documents, edits, history>>

(* A turn of the agent.  The model is offered the tools of the dapps that  *)
(* the conversation mentions; what it calls, now or once the user has      *)
(* confirmed it, is checked by executeTool against the directory of then.  *)
Turn(r, mentions) ==
    /\ Begin(r, [Idle EXCEPT !.pc = "dapps", !.op = "tool", !.mentions = mentions])
    /\ UNCHANGED <<documents, edits, history>>

CallTool(r, tool) ==
    /\ req[r].pc = "offer"
    /\ req' = [req EXCEPT ![r].pc = "dapps", ![r].tool = tool,
                          ![r].since = buildToolPolicy(Normalized(dapps), req[r].mentions)]
    /\ UNCHANGED <<documents, edits, history>>

ToolsForAll(entry, allowed) ==                     \* mutation: tools for any dapp
    entry.categories \subseteq allowed
ValidEntry(entry, allowed) ==
    /\ entry.categories \subseteq allowed
    /\ entry.tools = {} \/ entry.aiDriven

(* upsertDapp once it has the tabs: ai-driven is a flag and no category.   *)
Checked(request, allowed) ==
    LET given == request.entry
        entry == [given EXCEPT !.aiDriven = @ \/ AiDriven \in given.categories,
                               !.categories = @ \ {AiDriven}]
    IN IF ValidEntry(entry, allowed)
       THEN [request EXCEPT !.pc = "dapps", !.entry = entry]
       ELSE Idle

AfterTabs(request, allowed) == IF request.op = "upsert" THEN Checked(request, allowed) ELSE Idle

\* getStoredTabs
ReadTabs(r) ==
    /\ req[r].pc = "tabs"
    /\ IF "tabs" \in broken THEN Goto(r, "delTabs")
       ELSE req' = [req EXCEPT ![r] = AfterTabs(@, tabs)]
    /\ UNCHANGED <<documents, edits, history>>

DeleteTabs(r) ==
    /\ req[r].pc = "delTabs"
    /\ tabs' = {}
    /\ broken' = broken \ {"tabs"}
    /\ req' = [q \in Requests |-> IF q = r THEN AfterTabs(req[r], {})
                                  ELSE IF tabs = {} THEN req[q] ELSE SeesTabs(q)]
    /\ mixed' = (mixed \/ tabs # {})
    /\ UNCHANGED <<dapps, edits, acked, lost>>

AnyTabs(list, new) == TRUE                         \* mutation: dapps are not looked at
CoversDapps(list, new) == UsedCategories(list) \subseteq new

AnyTool(tool, allowed) == TRUE                     \* mutation: the policy is only for the prompt
isToolAllowed(tool, allowed) == tool \in allowed

(* What a request does with the list.                                      *)
AfterDapps(request, list) ==
    CASE request.op = "upsert" -> [request EXCEPT !.pc = "write", !.list = list]
      [] request.op = "saveTabs" ->
            IF CoversDapps(list, request.tabs) THEN [request EXCEPT !.pc = "write"] ELSE Idle
      [] request.op = "tool" /\ request.tool = NoDapp -> [request EXCEPT !.pc = "offer"]
      [] request.op = "tool" /\ request.tool # NoDapp ->
            IF isToolAllowed(request.tool, buildToolPolicy(list, request.mentions))
            THEN [request EXCEPT !.pc = "run"] ELSE Idle
      [] OTHER -> Idle

\* getStoredDapps
ReadDapps(r) ==
    /\ req[r].pc = "dapps"
    /\ IF "dapps" \in broken THEN Goto(r, "delDapps")
       ELSE req' = [req EXCEPT ![r] = AfterDapps(@, Normalized(dapps))]
    /\ UNCHANGED <<documents, edits, history>>

DeleteDapps(r) ==
    /\ req[r].pc = "delDapps"
    /\ dapps' = Empty
    /\ broken' = broken \ {"dapps"}
    /\ req' = [req EXCEPT ![r] = AfterDapps(@, Empty)]
    /\ lost' = lost \cup Stored(dapps)
    /\ UNCHANGED <<tabs, edits, acked, mixed>>

\* { ...dapps[index], ...nextDapp }, or nextDapp in front of the list
Merged(list, id, entry) ==
    IF list[id] = NoDapp THEN entry
    ELSE [entry EXCEPT !.capabilities = list[id].capabilities]

\* saveStoredDapps, and the answer
StoreDapp(r) ==
    LET id == req[r].id
        entry == Merged(req[r].list, id, req[r].entry)
        list == [req[r].list EXCEPT ![id] = entry]
    IN
    /\ req[r].pc = "write"
    /\ req[r].op = "upsert"
    /\ dapps' = list
    /\ broken' = broken \ {"dapps"}
    /\ req' = [q \in Requests |-> IF q = r THEN Idle ELSE SeesDapps(q, list, id)]
    /\ acked' = [acked EXCEPT ![id] = entry]
    /\ lost' = (lost \cup req[r].missed) \ {id}
    /\ mixed' = (mixed \/ req[r].crossed)
    /\ UNCHANGED <<tabs, edits>>

StoreTabs(r) ==
    /\ req[r].pc = "write"
    /\ req[r].op = "saveTabs"
    /\ tabs' = req[r].tabs
    /\ broken' = broken \ {"tabs"}
    /\ req' = [q \in Requests |-> IF q = r THEN Idle ELSE SeesTabs(q)]
    /\ mixed' = req[r].crossed
    /\ UNCHANGED <<dapps, edits, acked, lost>>

\* The tool is done; Redis fails, or the instance dies.
Finish(r) ==
    /\ req[r].pc # "idle"
    /\ End(r)
    /\ UNCHANGED <<documents, edits, history>>

-----------------------------------------------------------------------------
Step(r) ==
    \/ \E id \in Ids, categories \in SUBSET (Categories \cup {AiDriven}),
          aiDriven \in BOOLEAN, tools \in SUBSET Tools :
             UpsertDapp(r, id, categories, aiDriven, tools)
    \/ \E new \in SUBSET Categories : SaveTabs(r, new)
    \/ \E document \in {"tabs", "dapps"} : List(r, document)
    \/ \E mentions \in SUBSET Ids : Turn(r, mentions)
    \/ \E tool \in Tools : CallTool(r, tool)
    \/ ReadTabs(r) \/ DeleteTabs(r) \/ ReadDapps(r) \/ DeleteDapps(r)
    \/ StoreDapp(r) \/ StoreTabs(r)
    \/ Finish(r)

Next == \E r \in Requests : Step(r)

Spec == Init /\ [][Next]_vars

-----------------------------------------------------------------------------
(* Properties.                                                             *)

\* The type of the state.
TypeOK ==
    /\ dapps \in Directory
    /\ tabs \in SUBSET Categories
    /\ broken \subseteq {"dapps", "tabs"}
    /\ req \in [Requests -> Request]
    /\ edits \in 0 .. MaxEdits
    /\ acked \in [Ids -> Entry \cup {NoDapp}]
    /\ lost \subseteq Ids
    /\ mixed \in BOOLEAN

(* What an administrator saved is what everybody reads from then on, until *)
(* the entry is edited again or written back by a request that had read    *)
(* the list before.  An edit of another entry, which rewrites the list, or *)
(* the move from capabilities to toolIds that comes with it, changes       *)
(* nothing that a reader sees: tools that were taken away stay away.       *)
(* Excepted are the entries of a list that a reader deleted because it did *)
(* not parse (getStoredDapps): lost holds those too.                       *)
EditsKept == \A id \in Ids \ lost : Normalized(dapps)[id] = acked[id]

(* A dapp's categories are among the tabs: upsertDapp and saveTabs check   *)
(* one document each and write the other, and agree unless they overlap.   *)
(* A save of the tabs on its own repairs what an overlap has left.         *)
CategoriesHaveTabs == mixed \/ UsedCategories(Normalized(dapps)) \subseteq tabs

(* A tool beyond the base ones runs only if a dapp that the conversation   *)
(* mentions had it while the execution was being decided: not because it   *)
(* was offered to the model or waits for its confirmation.                 *)
RunToolsGranted == \A r \in Requests : req[r].pc = "run" => req[r].tool \in req[r].since
=============================================================================
