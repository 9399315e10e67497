---------------------------- MODULE DappsProofs ----------------------------
(***************************************************************************)
(* Proofs about Dapps, for any number of administrators, readers, dapps    *)
(* and tabs: the types, and that edits, tabs and granted tools are what    *)
(* the requests that did not overlap made them.                            *)
(***************************************************************************)
EXTENDS Dapps, TLAPS

USE DappsAssumption, LegacyAssumption, NoDappAssumption

Lists == [Ids -> Entry \cup {NoDapp}]

\* A list whose categories all have tabs.
Within(list, set) == UsedCategories(list) \subseteq set

\* A list that agrees with the answers, but for ids that were edited since.
Agrees(list, except) == \A id \in Ids \ except : list[id] = acked[id]

\* What a request that edits a dapp has checked and read.
EditorOK(r) ==
    LET rq == req[r] IN
    rq.op = "upsert" =>
        /\ rq.id \in Ids /\ rq.entry \in Dapp /\ rq.entry.capabilities = {}
        /\ rq.pc \in {"dapps", "delDapps", "write"} =>
              /\ rq.entry \in Entry
              /\ rq.crossed \/ rq.entry.categories \subseteq tabs
        /\ rq.pc = "delDapps" => Agrees(Empty, rq.missed \cup lost)
        /\ rq.pc = "write" =>
              /\ Agrees(rq.list, rq.missed \cup lost)
              /\ mixed \/ rq.crossed \/ Within(rq.list, tabs)

\* What a request that saves tabs has checked.
SaverOK(r) ==
    LET rq == req[r] IN
    (rq.op = "saveTabs" /\ rq.pc \in {"delDapps", "write"} /\ ~rq.crossed) =>
        Within(Normalized(dapps), IF rq.pc = "write" THEN rq.tabs ELSE {})

\* What the directory has granted since an execution began.
RunnerOK(r) ==
    LET rq == req[r] IN
    /\ Executing(r) => buildToolPolicy(Normalized(dapps), rq.mentions) \subseteq rq.since
    /\ rq.pc = "offer" => rq.op = "tool"
    /\ rq.pc = "run" => rq.op = "tool" /\ rq.tool \in rq.since

Unreadable ==
    /\ "dapps" \in broken => dapps = Empty
    /\ "tabs" \in broken => tabs = {}

RequestOK(r) == EditorOK(r) /\ SaverOK(r) /\ RunnerOK(r)

IInv ==
    /\ TypeOK
    /\ Unreadable
    /\ EditsKept
    /\ CategoriesHaveTabs
    /\ \A r \in Requests : RequestOK(r)

-----------------------------------------------------------------------------
(* normalizeStoredDapp.                                                    *)

LEMMA InferredTools ==
    ASSUME NEW c \in SUBSET Capabilities, NEW aiDriven \in BOOLEAN
    PROVE  inferToolIdsFromLegacyCapabilities(c, aiDriven) \subseteq Tools
BY DEF inferToolIdsFromLegacyCapabilities

\* Whatever is stored, a reader gets an entry of today's form.
LEMMA NormalizedEntry ==
    ASSUME NEW d \in Legacy \cup Entry
    PROVE  normalizeStoredDapp(d) \in Entry
<1> DEFINE aiDriven == d.aiDriven \/ AiDriven \in d.categories
           tools == IF d.tools # {} THEN d.tools
                    ELSE inferToolIdsFromLegacyCapabilities(d.capabilities, aiDriven)
           n == normalizeStoredDapp(d)
<1>1. d.edit \in 0 .. MaxEdits /\ d.categories \in SUBSET (Categories \cup {AiDriven})
      /\ d.tools \in SUBSET Tools /\ d.capabilities \in SUBSET Capabilities
      /\ aiDriven \in BOOLEAN
  BY DEF Dapp, Entry
<1>2. tools \in SUBSET Tools
  BY <1>1, InferredTools
<1>3. n \in Dapp
  BY <1>1, <1>2 DEF normalizeStoredDapp, Dapp
<1>4. /\ n.capabilities = {} /\ n.categories = d.categories \ {AiDriven}
      /\ n.tools = tools /\ n.aiDriven = aiDriven
  BY DEF normalizeStoredDapp
<1>5. n.tools # {} => n.aiDriven
  <2>1. ASSUME ~aiDriven PROVE tools = {}
    <3>1. inferToolIdsFromLegacyCapabilities(d.capabilities, aiDriven) = {}
      BY <2>1 DEF inferToolIdsFromLegacyCapabilities
    <3>2. d.tools = {}
      BY <2>1 DEF Entry
    <3> QED
      BY <3>1, <3>2
  <2> QED
    BY <1>4, <2>1
<1>6. n.capabilities = {} /\ AiDriven \notin n.categories
  BY <1>4
<1>7. ASSUME NEW e \in Dapp, e.capabilities = {}, AiDriven \notin e.categories,
             e.tools # {} => e.aiDriven
      PROVE  e \in Entry
  BY <1>7 DEF Entry
<1> HIDE DEF n
<1>8. n \in Entry
  BY <1>3, <1>5, <1>6, <1>7
<1> QED
  BY <1>8 DEF n

\* Once in today's form, an entry is read as it is stored.
LEMMA NormalizedTwice ==
    ASSUME NEW d \in Entry
    PROVE  normalizeStoredDapp(d) = d
<1>1. d \in Dapp /\ d.capabilities = {} /\ AiDriven \notin d.categories
  BY DEF Entry
<1>2. inferToolIdsFromLegacyCapabilities({}, d.aiDriven) = {}
  BY DEF inferToolIdsFromLegacyCapabilities
<1>3. (d.aiDriven \/ AiDriven \in d.categories) = d.aiDriven
  BY <1>1 DEF Dapp
<1>4. d.categories \ {AiDriven} = d.categories
  BY <1>1
<1>5. d = [edit |-> d.edit, aiDriven |-> d.aiDriven, categories |-> d.categories,
           tools |-> d.tools, capabilities |-> {}]
  BY <1>1 DEF Dapp
<1>6. (IF d.tools # {} THEN d.tools
       ELSE inferToolIdsFromLegacyCapabilities({}, d.aiDriven)) = d.tools
  BY <1>2
<1> QED
  BY <1>1, <1>3, <1>4, <1>5, <1>6 DEF normalizeStoredDapp

LEMMA EmptyList == Empty \in Lists /\ Empty \in Directory /\ Normalized(Empty) = Empty
BY DEF Empty, Lists, Directory, Normalized

LEMMA NoEntry == NoDapp \notin Entry /\ NoDapp \notin Legacy
BY DEF Entry

LEMMA NormalizedList ==
    ASSUME NEW list \in Directory
    PROVE  Normalized(list) \in Lists
BY NormalizedEntry DEF Normalized, Directory, Lists

LEMMA ReadAgain ==
    ASSUME NEW list \in Lists
    PROVE  Normalized(list) = list
<1>1. \A id \in Ids : (IF list[id] = NoDapp THEN NoDapp ELSE normalizeStoredDapp(list[id])) = list[id]
  BY NormalizedTwice DEF Lists
<1> QED
  BY <1>1 DEF Normalized, Lists

LEMMA ListStored ==
    ASSUME NEW list \in Lists
    PROVE  list \in Directory
BY DEF Lists, Directory

-----------------------------------------------------------------------------
(* Categories of a list.                                                   *)

LEMMA WithinPointwise ==
    ASSUME NEW list, NEW set
    PROVE  Within(list, set) <=> \A id \in Ids : list[id] # NoDapp => list[id].categories \subseteq set
BY DEF Within, UsedCategories, Stored

LEMMA EmptyWithin == \A set : Within(Empty, set)
BY DEF Within, UsedCategories, Stored, Empty

LEMMA EmptyPolicy == \A mentions : buildToolPolicy(Empty, mentions) = {}
BY DEF buildToolPolicy, Stored, Empty

LEMMA PolicyTools ==
    ASSUME NEW list \in Lists, NEW mentions
    PROVE  buildToolPolicy(list, mentions) \subseteq Tools
<1>1. \A id \in Stored(list) : list[id].tools \subseteq Tools
  BY DEF Stored, Lists, Entry, Dapp
<1> QED
  BY <1>1 DEF buildToolPolicy
-----------------------------------------------------------------------------
(* What a request makes of what it reads.                                  *)

LEMMA IdleRequest == Idle \in Request
BY EmptyList DEF Idle, Request, Ops, Steps, Lists

\* A request that is over has nothing to keep.
LEMMA IdleOK ==
    ASSUME NEW r \in Requests, req[r] = Idle
    PROVE  RequestOK(r)
BY DEF RequestOK, EditorOK, SaverOK, RunnerOK, Executing, Idle

LEMMA AfterTabsGives ==
    ASSUME NEW x \in Request, NEW allowed \in SUBSET Categories,
           x.op = "upsert" => x.id \in Ids /\ x.entry \in Dapp /\ x.entry.capabilities = {}
    PROVE  LET y == AfterTabs(x, allowed) IN
           /\ y \in Request
           /\ \/ y = Idle
              \/ /\ x.op = "upsert" /\ y.op = "upsert" /\ y.pc = "dapps" /\ y.id = x.id
                 /\ y.entry \in Entry /\ y.entry.categories \subseteq allowed
<1>1. CASE x.op # "upsert"
  BY <1>1, IdleRequest DEF AfterTabs
<1>2. CASE x.op = "upsert"
  <2> DEFINE given == x.entry
             aiDriven == given.aiDriven \/ AiDriven \in given.categories
             categories == given.categories \ {AiDriven}
             entry == [given EXCEPT !.aiDriven = aiDriven, !.categories = categories]
  <2>1. given \in Dapp /\ given.capabilities = {}
    BY <1>2
  <2>2. aiDriven \in BOOLEAN /\ categories \in SUBSET (Categories \cup {AiDriven})
    BY <2>1 DEF Dapp
  <2>3. entry \in Dapp
    BY <2>1, <2>2 DEF Dapp
  <2>4. /\ entry.capabilities = {} /\ entry.categories = categories
        /\ entry.tools = given.tools /\ entry.aiDriven = aiDriven
    BY <2>1 DEF Dapp
  <2>5. AfterTabs(x, allowed) =
            IF ValidEntry(entry, allowed) THEN [x EXCEPT !.pc = "dapps", !.entry = entry] ELSE Idle
    BY <1>2 DEF AfterTabs, Checked
  <2>6. CASE ~ValidEntry(entry, allowed)
    BY <2>5, <2>6, IdleRequest
  <2>7. CASE ValidEntry(entry, allowed)
    <3>1. entry \in Entry
      <4>1. ASSUME NEW e \in Dapp, e.capabilities = {}, AiDriven \notin e.categories,
                   ValidEntry(e, allowed)
            PROVE  e \in Entry
        BY <4>1 DEF Entry, ValidEntry, Dapp
      <4>2. AiDriven \notin entry.categories
        BY <2>4
      <4> HIDE DEF entry
      <4> QED
        BY <2>3, <2>4, <2>7, <4>1, <4>2
    <3>2. entry.categories \subseteq allowed
      BY <2>7 DEF ValidEntry
    <3> HIDE DEF entry
    <3>3. [x EXCEPT !.pc = "dapps", !.entry = entry] \in Request
      BY <2>3 DEF Request, Steps
    <3> QED
      BY <1>2, <2>5, <2>7, <3>1, <3>2, <3>3 DEF Request
  <2> QED
    BY <2>6, <2>7
<1> QED
  BY <1>1, <1>2

LEMMA AfterDappsGives ==
    ASSUME NEW x \in Request, NEW list \in Lists
    PROVE  LET y == AfterDapps(x, list) IN
           /\ y \in Request
           /\ \/ y = Idle
              \/ x.op = "upsert" /\ y = [x EXCEPT !.pc = "write", !.list = list]
              \/ x.op = "saveTabs" /\ Within(list, x.tabs) /\ y = [x EXCEPT !.pc = "write"]
              \/ x.op = "tool" /\ y = [x EXCEPT !.pc = "offer"]
              \/ /\ x.op = "tool" /\ x.tool \in Tools
                 /\ x.tool \in buildToolPolicy(list, x.mentions)
                 /\ y = [x EXCEPT !.pc = "run"]
<1> DEFINE y == AfterDapps(x, list)
<1>1. x.op \in Ops /\ x.tool \in Tools \cup {NoDapp}
  BY DEF Request
<1>2. \/ y = Idle
      \/ x.op = "upsert" /\ y = [x EXCEPT !.pc = "write", !.list = list]
      \/ x.op = "saveTabs" /\ Within(list, x.tabs) /\ y = [x EXCEPT !.pc = "write"]
      \/ x.op = "tool" /\ y = [x EXCEPT !.pc = "offer"]
      \/ /\ x.op = "tool" /\ x.tool \in Tools
         /\ x.tool \in buildToolPolicy(list, x.mentions)
         /\ y = [x EXCEPT !.pc = "run"]
  <2>1. CASE x.op = "upsert"
    BY <2>1 DEF AfterDapps
  <2>2. CASE x.op = "saveTabs"
    BY <2>2 DEF AfterDapps, CoversDapps, Within
  <2>3. CASE x.op = "tool" /\ x.tool = NoDapp
    BY <2>3 DEF AfterDapps
  <2>4. CASE x.op = "tool" /\ x.tool # NoDapp
    BY <1>1, <2>4 DEF AfterDapps, isToolAllowed
  <2>5. CASE x.op \in {"none", "list"}
    BY <2>5 DEF AfterDapps
  <2> QED
    BY <1>1, <2>1, <2>2, <2>3, <2>4, <2>5 DEF Ops
<1>3. y \in Request
  <2>1. \A pc \in Steps : [x EXCEPT !.pc = pc] \in Request
    BY DEF Request
  <2>2. [x EXCEPT !.pc = "write", !.list = list] \in Request
    BY DEF Request, Steps, Lists
  <2> QED
    BY <1>2, <2>1, <2>2, IdleRequest DEF Steps
<1> QED
  BY <1>2, <1>3
-----------------------------------------------------------------------------
(* Steps that only a request sees.                                         *)

LEMMA Unseen ==
    ASSUME NEW q \in Requests, RequestOK(q), req'[q] = req[q],
           UNCHANGED <<dapps, tabs, acked, lost, mixed>>
    PROVE  RequestOK(q)'
BY DEF RequestOK, EditorOK, SaverOK, RunnerOK, Executing, Agrees, Within

LEMMA QuietStep ==
    ASSUME IInv, NEW r \in Requests, NEW x \in Request, req' = [req EXCEPT ![r] = x],
           UNCHANGED <<documents, history>>, edits' \in 0 .. MaxEdits, RequestOK(r)'
    PROVE  IInv'
<1>1. TypeOK'
  BY DEF IInv, TypeOK, documents, history
<1>2. ASSUME NEW q \in Requests PROVE RequestOK(q)'
  <2>1. CASE q = r
    BY <2>1
  <2>2. CASE q # r
    <3>1. req'[q] = req[q]
      BY <2>2 DEF IInv, TypeOK
    <3> QED
      BY <3>1, Unseen DEF IInv, documents, history
  <2> QED
    BY <2>1, <2>2
<1>3. Unreadable' /\ EditsKept' /\ CategoriesHaveTabs'
  BY DEF IInv, Unreadable, EditsKept, CategoriesHaveTabs, documents, history
<1> QED
  BY <1>1, <1>2, <1>3 DEF IInv

LEMMA BeginStep ==
    ASSUME IInv, NEW r \in Requests, NEW x \in Request, Begin(r, x),
           UNCHANGED <<documents, history>>, edits' \in 0 .. MaxEdits,
           \/ x.op = "upsert" /\ x.pc = "tabs" /\ x.id \in Ids /\ x.entry \in Dapp
              /\ x.entry.capabilities = {}
           \/ x.op = "saveTabs" /\ x.pc = "dapps"
           \/ x.op = "list" /\ x.pc \in {"tabs", "dapps"}
           \/ x.op = "tool" /\ x.pc = "dapps" /\ x.tool = NoDapp
    PROVE  IInv'
<1>1. req' = [req EXCEPT ![r] = x] /\ req'[r] = x
  BY DEF Begin, IInv, TypeOK
<1>2. RequestOK(r)'
  BY <1>1 DEF RequestOK, EditorOK, SaverOK, RunnerOK, Executing
<1> QED
  BY <1>1, <1>2, QuietStep

LEMMA EndStep ==
    ASSUME IInv, NEW r \in Requests, End(r), UNCHANGED <<documents, edits, history>>
    PROVE  IInv'
<1>1. req' = [req EXCEPT ![r] = Idle] /\ req'[r] = Idle
  BY DEF End, IInv, TypeOK
<1>2. RequestOK(r)'
  BY <1>1 DEF RequestOK, EditorOK, SaverOK, RunnerOK, Executing, Idle
<1>3. edits' \in 0 .. MaxEdits
  BY DEF IInv, TypeOK
<1> QED
  BY <1>1, <1>2, <1>3, QuietStep, IdleRequest

LEMMA UpsertDappStep ==
    ASSUME IInv, NEW r \in Requests, NEW id \in Ids,
           NEW categories \in SUBSET (Categories \cup {AiDriven}), NEW aiDriven \in BOOLEAN,
           NEW tools \in SUBSET Tools, UpsertDapp(r, id, categories, aiDriven, tools)
    PROVE  IInv'
<1> DEFINE entry == [edit |-> edits + 1, categories |-> categories, aiDriven |-> aiDriven,
                     tools |-> tools, capabilities |-> {}]
           x == [Idle EXCEPT !.pc = "tabs", !.op = "upsert", !.id = id, !.entry = entry]
<1>1. edits + 1 \in 0 .. MaxEdits
  BY DEF IInv, TypeOK, UpsertDapp
<1>2. entry \in Dapp /\ entry.capabilities = {}
  BY <1>1 DEF Dapp
<1> HIDE DEF entry
<1>3. x \in Request
  BY <1>2, IdleRequest DEF Idle, Request, Ops, Steps
<1>4. x.op = "upsert" /\ x.pc = "tabs" /\ x.id = id /\ x.entry = entry
  BY DEF Idle
<1>5. Begin(r, x) /\ UNCHANGED <<documents, history>> /\ edits' = edits + 1
  BY DEF UpsertDapp, entry
<1> HIDE DEF x
<1> QED
  BY <1>1, <1>2, <1>3, <1>4, <1>5, BeginStep

LEMMA SaveTabsStep ==
    ASSUME IInv, NEW r \in Requests, NEW new \in SUBSET Categories, SaveTabs(r, new)
    PROVE  IInv'
<1> DEFINE x == [Idle EXCEPT !.pc = "dapps", !.op = "saveTabs", !.tabs = new]
<1>1. x \in Request /\ x.op = "saveTabs" /\ x.pc = "dapps"
  BY IdleRequest DEF Idle, Request, Ops, Steps
<1>2. Begin(r, x) /\ UNCHANGED <<documents, history>> /\ edits' \in 0 .. MaxEdits
  BY DEF SaveTabs, IInv, TypeOK
<1> HIDE DEF x
<1> QED
  BY <1>1, <1>2, BeginStep

LEMMA ListStep ==
    ASSUME IInv, NEW r \in Requests, NEW document \in {"tabs", "dapps"}, List(r, document)
    PROVE  IInv'
<1> DEFINE x == [Idle EXCEPT !.pc = document, !.op = "list"]
<1>1. x \in Request /\ x.op = "list" /\ x.pc \in {"tabs", "dapps"}
  BY IdleRequest DEF Idle, Request, Ops, Steps
<1>2. Begin(r, x) /\ UNCHANGED <<documents, history>> /\ edits' \in 0 .. MaxEdits
  BY DEF List, IInv, TypeOK
<1> HIDE DEF x
<1> QED
  BY <1>1, <1>2, BeginStep

LEMMA TurnStep ==
    ASSUME IInv, NEW r \in Requests, NEW mentions \in SUBSET Ids, Turn(r, mentions)
    PROVE  IInv'
<1> DEFINE x == [Idle EXCEPT !.pc = "dapps", !.op = "tool", !.mentions = mentions]
<1>1. x \in Request /\ x.op = "tool" /\ x.pc = "dapps" /\ x.tool = NoDapp
  BY IdleRequest DEF Idle, Request, Ops, Steps
<1>2. Begin(r, x) /\ UNCHANGED <<documents, history>> /\ edits' \in 0 .. MaxEdits
  BY DEF Turn, IInv, TypeOK
<1> HIDE DEF x
<1> QED
  BY <1>1, <1>2, BeginStep

LEMMA CallToolStep ==
    ASSUME IInv, NEW r \in Requests, NEW tool \in Tools, CallTool(r, tool)
    PROVE  IInv'
<1> DEFINE since == buildToolPolicy(Normalized(dapps), req[r].mentions)
           x == [req[r] EXCEPT !.pc = "dapps", !.tool = tool, !.since = since]
<1>1. req[r] \in Request /\ dapps \in Directory
  BY DEF IInv, TypeOK
<1>2. since \subseteq Tools
  BY <1>1, NormalizedList, PolicyTools
<1>3. x \in Request /\ x.pc = "dapps" /\ x.since = since /\ x.mentions = req[r].mentions
      /\ x.op = req[r].op
  BY <1>1, <1>2 DEF Request, Steps
<1>4. x.op = "tool"
  BY <1>3 DEF IInv, RequestOK, RunnerOK, CallTool
<1>5. req' = [req EXCEPT ![r] = x] /\ UNCHANGED <<documents, edits, history>>
  BY DEF CallTool
<1> HIDE DEF x
<1>6. req'[r] = x /\ edits' \in 0 .. MaxEdits
  BY <1>5 DEF IInv, TypeOK
<1>7. RequestOK(r)'
  BY <1>3, <1>4, <1>5, <1>6
     DEF RequestOK, EditorOK, SaverOK, RunnerOK, Executing, documents, history
<1> QED
  BY <1>3, <1>5, <1>6, <1>7, QuietStep

\* The entry an editor holds, wherever it stands.
LEMMA EditorHolds ==
    ASSUME IInv, NEW r \in Requests
    PROVE  req[r].op = "upsert" => /\ req[r].id \in Ids /\ req[r].entry \in Dapp
                                   /\ req[r].entry.capabilities = {}
BY DEF IInv, RequestOK, EditorOK

LEMMA ReadTabsStep ==
    ASSUME IInv, NEW r \in Requests, ReadTabs(r)
    PROVE  IInv'
<1>1. req[r] \in Request /\ tabs \in SUBSET Categories
  BY DEF IInv, TypeOK
<1>2. UNCHANGED <<documents, history>> /\ edits' \in 0 .. MaxEdits
  BY DEF ReadTabs, IInv, TypeOK
<1>3. CASE "tabs" \in broken
  <2> DEFINE x == [req[r] EXCEPT !.pc = "delTabs"]
  <2>1. req' = [req EXCEPT ![r] = x]
    BY <1>3 DEF ReadTabs, Goto, IInv, TypeOK
  <2>2. x \in Request /\ req'[r] = x
    BY <1>1, <2>1 DEF Request, Steps, IInv, TypeOK
  <2>3. RequestOK(r)'
    <3>1. req[r].pc = "tabs" /\ RequestOK(r)
      BY DEF ReadTabs, IInv
    <3>2. x.pc = "delTabs" /\ x.op = req[r].op /\ x.id = req[r].id /\ x.entry = req[r].entry
      BY <1>1 DEF Request
    <3> QED
      BY <2>2, <3>1, <3>2 DEF RequestOK, EditorOK, SaverOK, RunnerOK, Executing
  <2> QED
    BY <1>2, <2>1, <2>2, <2>3, QuietStep
<1>4. CASE "tabs" \notin broken
  <2> DEFINE x == AfterTabs(req[r], tabs)
  <2>1. req' = [req EXCEPT ![r] = x]
    BY <1>4 DEF ReadTabs
  <2>2. x \in Request /\ \/ x = Idle
                         \/ /\ x.op = "upsert" /\ x.pc = "dapps" /\ x.id \in Ids
                            /\ x.entry \in Entry /\ x.entry.categories \subseteq tabs
    BY <1>1, EditorHolds, AfterTabsGives
  <2>3. req'[r] = x
    BY <2>1 DEF IInv, TypeOK
  <2> HIDE DEF x
  <2>4. RequestOK(r)'
    BY <1>2, <2>2, <2>3, IdleOK
       DEF RequestOK, EditorOK, SaverOK, RunnerOK, Executing, documents, Idle, Entry
  <2> QED
    BY <1>2, <2>1, <2>2, <2>4, QuietStep
<1> QED
  BY <1>3, <1>4

LEMMA ReadDappsStep ==
    ASSUME IInv, NEW r \in Requests, ReadDapps(r)
    PROVE  IInv'
<1> DEFINE list == Normalized(dapps)
<1>1. req[r] \in Request /\ list \in Lists
  BY NormalizedList DEF IInv, TypeOK
<1>2. UNCHANGED <<documents, history>> /\ edits' \in 0 .. MaxEdits
  BY DEF ReadDapps, IInv, TypeOK
<1>3. req[r].pc = "dapps" /\ RequestOK(r)
  BY DEF ReadDapps, IInv
<1>4. CASE "dapps" \in broken
  <2> DEFINE x == [req[r] EXCEPT !.pc = "delDapps"]
  <2>1. req' = [req EXCEPT ![r] = x]
    BY <1>4 DEF ReadDapps, Goto, IInv, TypeOK
  <2>2. x \in Request /\ req'[r] = x
    BY <1>1, <2>1 DEF Request, Steps, IInv, TypeOK
  <2>3. /\ x.pc = "delDapps" /\ x.op = req[r].op /\ x.id = req[r].id /\ x.entry = req[r].entry
        /\ x.crossed = req[r].crossed /\ x.tool = req[r].tool /\ x.since = req[r].since
        /\ x.mentions = req[r].mentions
    BY <1>1 DEF Request
  <2>4. dapps = Empty /\ list = Empty
    BY <1>4, EmptyList DEF IInv, Unreadable
  <2>5. Agrees(Empty, lost)
    BY <2>4 DEF IInv, EditsKept, Agrees
  <2> HIDE DEF x
  <2>6. EditorOK(r)'
    BY <1>2, <1>3, <2>2, <2>3, <2>5 DEF RequestOK, EditorOK, Agrees, documents, history
  <2>7. SaverOK(r)'
    BY <1>2, <2>2, <2>3, <2>4, EmptyWithin DEF SaverOK, Within, documents
  <2>8. RunnerOK(r)'
    BY <1>2, <1>3, <2>2, <2>3 DEF RequestOK, RunnerOK, Executing, documents
  <2> QED
    BY <1>2, <2>1, <2>2, <2>6, <2>7, <2>8, QuietStep DEF RequestOK
<1>5. CASE "dapps" \notin broken
  <2> DEFINE x == AfterDapps(req[r], list)
  <2>1. req' = [req EXCEPT ![r] = x]
    BY <1>5 DEF ReadDapps
  <2>2. x \in Request /\ req'[r] = x
    BY <1>1, <2>1, AfterDappsGives DEF IInv, TypeOK
  <2>3. RequestOK(r)'
    <3>1. CASE x = Idle
      BY <2>2, <3>1, IdleOK DEF RequestOK, EditorOK, SaverOK, RunnerOK, Executing, Idle
    <3>2. CASE req[r].op = "upsert" /\ x = [req[r] EXCEPT !.pc = "write", !.list = list]
      <4>1. /\ x.pc = "write" /\ x.op = "upsert" /\ x.id = req[r].id /\ x.entry = req[r].entry
            /\ x.crossed = req[r].crossed /\ x.list = list /\ x.missed = req[r].missed
        BY <1>1, <3>2 DEF Request
      <4>2. Agrees(list, lost)
        BY DEF IInv, EditsKept, Agrees
      <4>3. mixed \/ Within(list, tabs)
        BY DEF IInv, CategoriesHaveTabs, Within
      <4> HIDE DEF x
      <4>4. EditorOK(r)'
        BY <1>2, <1>3, <2>2, <3>2, <4>1, <4>2, <4>3
           DEF RequestOK, EditorOK, Agrees, Within, documents, history
      <4> QED
        BY <2>2, <4>1, <4>4 DEF RequestOK, SaverOK, RunnerOK, Executing
    <3>3. CASE /\ req[r].op = "saveTabs" /\ Within(list, req[r].tabs)
               /\ x = [req[r] EXCEPT !.pc = "write"]
      <4>1. x.pc = "write" /\ x.op = "saveTabs" /\ x.tabs = req[r].tabs
        BY <1>1, <3>3 DEF Request
      <4> HIDE DEF x
      <4> QED
        BY <1>2, <2>2, <3>3, <4>1
           DEF RequestOK, EditorOK, SaverOK, RunnerOK, Executing, Within, documents
    <3>4. CASE req[r].op = "tool" /\ x = [req[r] EXCEPT !.pc = "offer"]
      <4>1. x.pc = "offer" /\ x.op = "tool"
        BY <1>1, <3>4 DEF Request
      <4> HIDE DEF x
      <4> QED
        BY <2>2, <4>1 DEF RequestOK, EditorOK, SaverOK, RunnerOK, Executing
    <3>5. CASE /\ req[r].op = "tool" /\ req[r].tool \in Tools
               /\ req[r].tool \in buildToolPolicy(list, req[r].mentions)
               /\ x = [req[r] EXCEPT !.pc = "run"]
      <4>1. x.pc = "run" /\ x.op = "tool" /\ x.tool = req[r].tool /\ x.since = req[r].since
        BY <1>1, <3>5 DEF Request
      <4>2. x.tool \in x.since
        BY <1>3, <3>5, <4>1 DEF RequestOK, RunnerOK, Executing
      <4> HIDE DEF x
      <4> QED
        BY <2>2, <4>1, <4>2 DEF RequestOK, EditorOK, SaverOK, RunnerOK, Executing
    <3> QED
      BY <1>1, <3>1, <3>2, <3>3, <3>4, <3>5, AfterDappsGives
  <2> QED
    BY <1>2, <2>1, <2>2, <2>3, QuietStep
<1> QED
  BY <1>4, <1>5

LEMMA FinishStep ==
    ASSUME IInv, NEW r \in Requests, Finish(r)
    PROVE  IInv'
BY EndStep DEF Finish
-----------------------------------------------------------------------------
(* Steps that write a document.                                            *)

\* Another request once tabs were stored or deleted.
LEMMA SeesTabsOK ==
    ASSUME IInv, NEW q \in Requests, req'[q] = SeesTabs(q), UNCHANGED <<dapps, acked, lost>>
    PROVE  req'[q] \in Request /\ RequestOK(q)'
<1>1. req[q] \in Request /\ RequestOK(q)
  BY DEF IInv, TypeOK
<1> DEFINE x == SeesTabs(q)
<1>2. x \in Request
  BY <1>1 DEF SeesTabs, Request
<1>3. /\ x.pc = req[q].pc /\ x.op = req[q].op /\ x.id = req[q].id /\ x.entry = req[q].entry
      /\ x.tabs = req[q].tabs /\ x.list = req[q].list /\ x.missed = req[q].missed
      /\ x.tool = req[q].tool /\ x.since = req[q].since /\ x.mentions = req[q].mentions
      /\ x.crossed = (req[q].crossed \/ HoldsTabs(q))
  BY <1>1 DEF SeesTabs, Request
<1> HIDE DEF x
<1>4. EditorOK(q)'
  <2>1. ASSUME x.op = "upsert", x.pc \in {"dapps", "delDapps", "write"} PROVE x.crossed
    BY <1>3, <2>1 DEF HoldsTabs
  <2> QED
    BY <1>1, <1>3, <2>1 DEF x, RequestOK, EditorOK, Agrees
<1>5. SaverOK(q)'
  BY <1>1, <1>3 DEF x, RequestOK, SaverOK, Within
<1>6. RunnerOK(q)'
  BY <1>1, <1>3 DEF x, RequestOK, RunnerOK, Executing
<1> QED
  BY <1>2, <1>4, <1>5, <1>6 DEF x, RequestOK

LEMMA DeleteTabsStep ==
    ASSUME IInv, NEW r \in Requests, DeleteTabs(r)
    PROVE  IInv'
<1> DEFINE x == AfterTabs(req[r], {})
<1>1. req[r] \in Request /\ tabs \in SUBSET Categories
  BY DEF IInv, TypeOK
<1>2. x \in Request /\ \/ x = Idle
                       \/ /\ x.op = "upsert" /\ x.pc = "dapps" /\ x.id \in Ids
                          /\ x.entry \in Entry /\ x.entry.categories \subseteq {}
  BY <1>1, EditorHolds, AfterTabsGives
<1>3. req'[r] = x
  BY DEF DeleteTabs
<1>4. \A q \in Requests \ {r} : req'[q] = IF tabs = {} THEN req[q] ELSE SeesTabs(q)
  BY DEF DeleteTabs
<1>5. tabs' = {} /\ UNCHANGED <<dapps, edits, acked, lost>>
  BY DEF DeleteTabs
<1> HIDE DEF x
<1>6. RequestOK(r)'
  BY <1>2, <1>3, <1>5
     DEF RequestOK, EditorOK, SaverOK, RunnerOK, Executing, Idle, Entry
<1>7. ASSUME NEW q \in Requests PROVE req'[q] \in Request /\ RequestOK(q)'
  <2>1. CASE q = r
    BY <1>2, <1>3, <1>6, <2>1
  <2>2. CASE q # r /\ tabs = {}
    <3>1. req'[q] = req[q] /\ req[q] \in Request /\ RequestOK(q)
      BY <1>4, <2>2 DEF IInv, TypeOK
    <3>2. UNCHANGED <<tabs, mixed>>
      BY <1>5, <2>2 DEF DeleteTabs, IInv, TypeOK
    <3> QED
      BY <1>5, <3>1, <3>2, Unseen
  <2>3. CASE q # r /\ tabs # {}
    BY <1>4, <1>5, <2>3, SeesTabsOK
  <2> QED
    BY <2>1, <2>2, <2>3
<1>8. TypeOK'
  <2>1. req' \in [Requests -> Request]
    BY <1>7 DEF DeleteTabs
  <2> QED
    BY <1>5, <2>1 DEF DeleteTabs, IInv, TypeOK
<1>9. Unreadable' /\ EditsKept' /\ CategoriesHaveTabs'
  BY DEF DeleteTabs, IInv, Unreadable, EditsKept, CategoriesHaveTabs
<1> QED
  BY <1>7, <1>8, <1>9 DEF IInv

LEMMA StoreTabsStep ==
    ASSUME IInv, NEW r \in Requests, StoreTabs(r)
    PROVE  IInv'
<1>1. req[r] \in Request /\ RequestOK(r)
  BY DEF IInv, TypeOK
<1>2. req'[r] = Idle /\ \A q \in Requests \ {r} : req'[q] = SeesTabs(q)
  BY DEF StoreTabs
<1>3. tabs' = req[r].tabs /\ UNCHANGED <<dapps, edits, acked, lost>>
  BY DEF StoreTabs
<1>4. ASSUME NEW q \in Requests PROVE req'[q] \in Request /\ RequestOK(q)'
  <2>1. CASE q = r
    BY <1>2, <2>1, IdleRequest DEF RequestOK, EditorOK, SaverOK, RunnerOK, Executing, Idle
  <2>2. CASE q # r
    BY <1>2, <1>3, <2>2, SeesTabsOK
  <2> QED
    BY <2>1, <2>2
<1>5. TypeOK'
  <2>1. req' \in [Requests -> Request]
    BY <1>4 DEF StoreTabs
  <2>2. tabs' \in SUBSET Categories /\ mixed' \in BOOLEAN
    BY <1>1 DEF StoreTabs, Request
  <2> QED
    BY <1>3, <2>1, <2>2 DEF StoreTabs, IInv, TypeOK
<1>6. CategoriesHaveTabs'
  BY <1>1, <1>3 DEF StoreTabs, RequestOK, SaverOK, CategoriesHaveTabs, Within
<1>7. Unreadable' /\ EditsKept'
  BY DEF StoreTabs, IInv, Unreadable, EditsKept
<1> QED
  BY <1>4, <1>5, <1>6, <1>7 DEF IInv

LEMMA DeleteDappsStep ==
    ASSUME IInv, NEW r \in Requests, DeleteDapps(r)
    PROVE  IInv'
<1> DEFINE x == AfterDapps(req[r], Empty)
<1>1. req[r] \in Request /\ RequestOK(r) /\ req[r].pc = "delDapps"
  BY DEF IInv, TypeOK, DeleteDapps
<1>2. req' = [req EXCEPT ![r] = x] /\ dapps' = Empty /\ UNCHANGED <<tabs, edits, acked, mixed>>
  BY DEF DeleteDapps
<1>3. x \in Request
  BY <1>1, EmptyList, AfterDappsGives
<1>4. req'[r] = x /\ \A q \in Requests \ {r} : req'[q] = req[q]
  BY <1>2 DEF IInv, TypeOK
<1>5. lost \subseteq lost' /\ lost' \subseteq Ids
  BY DEF DeleteDapps, Stored, IInv, TypeOK
<1>6. Normalized(dapps)' = Empty
  BY <1>2, EmptyList
<1>7. RequestOK(r)'
  <2>1. CASE x = Idle
    BY <1>4, <2>1 DEF RequestOK, EditorOK, SaverOK, RunnerOK, Executing, Idle
  <2>2. CASE req[r].op = "upsert" /\ x = [req[r] EXCEPT !.pc = "write", !.list = Empty]
    <3>1. /\ x.pc = "write" /\ x.op = "upsert" /\ x.id = req[r].id /\ x.entry = req[r].entry
          /\ x.crossed = req[r].crossed /\ x.list = Empty /\ x.missed = req[r].missed
      BY <1>1, <2>2 DEF Request
    <3> HIDE DEF x
    <3>2. Agrees(Empty, req[r].missed \cup lost)
      BY <1>1, <2>2 DEF RequestOK, EditorOK
    <3>3. EditorOK(r)'
      BY <1>1, <1>2, <1>4, <1>5, <2>2, <3>1, <3>2, EmptyWithin
         DEF RequestOK, EditorOK, Agrees, Within
    <3> QED
      BY <1>4, <3>1, <3>3 DEF RequestOK, SaverOK, RunnerOK, Executing
  <2>3. CASE /\ req[r].op = "saveTabs" /\ Within(Empty, req[r].tabs)
             /\ x = [req[r] EXCEPT !.pc = "write"]
    <3>1. x.pc = "write" /\ x.op = "saveTabs"
      BY <1>1, <2>3 DEF Request
    <3> HIDE DEF x
    <3> QED
      BY <1>4, <1>6, <3>1, EmptyWithin
         DEF RequestOK, EditorOK, SaverOK, RunnerOK, Executing, Within
  <2>4. CASE req[r].op = "tool" /\ x = [req[r] EXCEPT !.pc = "offer"]
    <3>1. x.pc = "offer" /\ x.op = "tool"
      BY <1>1, <2>4 DEF Request
    <3> HIDE DEF x
    <3> QED
      BY <1>4, <3>1 DEF RequestOK, EditorOK, SaverOK, RunnerOK, Executing
  <2>5. ~ req[r].tool \in buildToolPolicy(Empty, req[r].mentions)
    BY EmptyPolicy
  <2> QED
    BY <1>1, <2>1, <2>2, <2>3, <2>4, <2>5, EmptyList, AfterDappsGives
<1>8. ASSUME NEW q \in Requests PROVE RequestOK(q)'
  <2>1. CASE q = r
    BY <1>7, <2>1
  <2>2. CASE q # r
    <3>1. req'[q] = req[q] /\ RequestOK(q)
      BY <1>4, <2>2 DEF IInv
    <3>2. EditorOK(q)'
      BY <1>2, <1>5, <3>1 DEF RequestOK, EditorOK, Agrees, Within
    <3>3. SaverOK(q)'
      BY <1>6, <3>1, EmptyWithin DEF SaverOK, Within
    <3>4. RunnerOK(q)'
      BY <1>6, <3>1, EmptyPolicy DEF RequestOK, RunnerOK, Executing
    <3> QED
      BY <3>2, <3>3, <3>4 DEF RequestOK
  <2> QED
    BY <2>1, <2>2
<1>9. TypeOK'
  BY <1>2, <1>3, <1>5, EmptyList DEF DeleteDapps, IInv, TypeOK
<1>10. Unreadable' /\ CategoriesHaveTabs'
  BY <1>2, <1>6, EmptyWithin
     DEF DeleteDapps, IInv, Unreadable, CategoriesHaveTabs, Within
<1>11. EditsKept'
  <2>1. ASSUME NEW id \in Ids \ lost' PROVE Empty[id] = acked[id]
    <3>1. id \in Ids \ lost /\ dapps[id] = NoDapp
      BY <2>1 DEF DeleteDapps, Stored
    <3> QED
      BY <3>1 DEF IInv, EditsKept, Normalized, Empty
  <2> QED
    BY <1>2, <1>6, <2>1 DEF EditsKept
<1> QED
  BY <1>8, <1>9, <1>10, <1>11 DEF IInv
\* Another request once a list was stored.
LEMMA SeesDappsOK ==
    ASSUME IInv, NEW q \in Requests, NEW list \in Lists, NEW id \in Ids,
           req'[q] = SeesDapps(q, list, id), dapps' = list, tabs' = tabs,
           \A i \in Ids \ {id} : acked'[i] = acked[i],
           lost \ {id} \subseteq lost', mixed => mixed'
    PROVE  req'[q] \in Request /\ RequestOK(q)'
<1>1. req[q] \in Request /\ RequestOK(q)
  BY DEF IInv, TypeOK
<1> DEFINE x == SeesDapps(q, list, id)
           granted == buildToolPolicy(list, req[q].mentions)
<1>2. Normalized(list) = list /\ granted \subseteq Tools
  BY ReadAgain, PolicyTools
<1>3. /\ x.pc = req[q].pc /\ x.op = req[q].op /\ x.id = req[q].id /\ x.entry = req[q].entry
      /\ x.tabs = req[q].tabs /\ x.list = req[q].list /\ x.tool = req[q].tool
      /\ x.mentions = req[q].mentions
      /\ x.missed = (IF HoldsDapps(q) THEN req[q].missed \cup {id} ELSE req[q].missed)
      /\ x.crossed = (req[q].crossed \/ (HoldsDapps(q) /\ req[q].op = "saveTabs"))
      /\ x.since = (IF Executing(q) THEN req[q].since \cup granted ELSE req[q].since)
  BY <1>1, <1>2 DEF SeesDapps, Request
<1>4. x \in Request
  BY <1>1, <1>2 DEF SeesDapps, Request
<1> HIDE DEF x, granted
<1>5. EditorOK(q)'
  <2> SUFFICES ASSUME x.op = "upsert"
               PROVE  /\ x.id \in Ids /\ x.entry \in Dapp /\ x.entry.capabilities = {}
                      /\ x.pc \in {"dapps", "delDapps", "write"} =>
                            /\ x.entry \in Entry
                            /\ x.crossed \/ x.entry.categories \subseteq tabs
                      /\ x.pc = "delDapps" =>
                            \A i \in Ids \ (x.missed \cup lost') : Empty[i] = acked'[i]
                      /\ x.pc = "write" =>
                            /\ \A i \in Ids \ (x.missed \cup lost') : x.list[i] = acked'[i]
                            /\ mixed' \/ x.crossed \/ Within(x.list, tabs)
    BY DEF x, EditorOK, Agrees, Within
  <2>1. x.pc \in {"delDapps", "write"} => id \in x.missed /\ req[q].missed \subseteq x.missed
    BY <1>3 DEF HoldsDapps
  <2> QED
    BY <1>1, <1>3, <2>1 DEF RequestOK, EditorOK, Agrees
<1>6. SaverOK(q)'
  <2>1. ASSUME x.op = "saveTabs", x.pc \in {"delDapps", "write"} PROVE x.crossed
    BY <1>3, <2>1 DEF HoldsDapps
  <2> QED
    BY <2>1 DEF x, SaverOK
<1>7. RunnerOK(q)'
  <2>1. Executing(q)' => Executing(q)
    BY <1>3 DEF x, Executing
  <2>2. ASSUME Executing(q) PROVE granted \subseteq x.since
    BY <1>3, <2>2
  <2>3. ASSUME Executing(q)'
        PROVE  buildToolPolicy(Normalized(dapps), req[q].mentions)' \subseteq req'[q].since
    BY <1>2, <1>3, <2>1, <2>2, <2>3 DEF x, granted
  <2>4. /\ req'[q].pc = "offer" => req'[q].op = "tool"
        /\ req'[q].pc = "run" => req'[q].op = "tool" /\ req'[q].tool \in req'[q].since
    BY <1>1, <1>3 DEF x, RequestOK, RunnerOK
  <2> QED
    BY <2>3, <2>4 DEF RunnerOK
<1> QED
  BY <1>4, <1>5, <1>6, <1>7 DEF x, RequestOK

LEMMA StoreDappStep ==
    ASSUME IInv, NEW r \in Requests, StoreDapp(r)
    PROVE  IInv'
<1> DEFINE id == req[r].id
           held == req[r].list
           entry == Merged(held, id, req[r].entry)
           list == [held EXCEPT ![id] = entry]
<1>1. req[r] \in Request /\ RequestOK(r) /\ req[r].pc = "write" /\ req[r].op = "upsert"
  BY DEF IInv, TypeOK, StoreDapp
<1>2. id \in Ids /\ req[r].entry \in Entry /\ held \in Lists
  BY <1>1 DEF RequestOK, EditorOK, Request, Lists
<1>3. entry = req[r].entry
  <2>1. CASE held[id] = NoDapp
    BY <2>1 DEF Merged
  <2>2. CASE held[id] # NoDapp
    <3>1. held[id].capabilities = {} /\ req[r].entry.capabilities = {}
      BY <1>2, <2>2 DEF Lists, Entry
    <3>2. [req[r].entry EXCEPT !.capabilities = {}] = req[r].entry
      BY <1>2, <3>1 DEF Entry, Dapp
    <3> QED
      BY <2>2, <3>1, <3>2 DEF Merged
  <2> QED
    BY <2>1, <2>2
<1> HIDE DEF entry
<1>4. list \in Lists
  BY <1>2, <1>3 DEF Lists
<1>5. /\ dapps' = list /\ broken' = broken \ {"dapps"}
      /\ req' = [q \in Requests |-> IF q = r THEN Idle ELSE SeesDapps(q, list, id)]
      /\ acked' = [acked EXCEPT ![id] = entry]
      /\ lost' = (lost \cup req[r].missed) \ {id}
      /\ mixed' = (mixed \/ req[r].crossed)
      /\ UNCHANGED <<tabs, edits>>
  BY DEF StoreDapp, entry
<1>6. acked'[id] = entry /\ \A i \in Ids \ {id} : acked'[i] = acked[i]
  BY <1>2, <1>5 DEF IInv, TypeOK
<1>7. Normalized(dapps)' = list
  BY <1>4, <1>5, ReadAgain
<1>8. list[id] = entry /\ \A i \in Ids \ {id} : list[i] = held[i]
  BY <1>2 DEF Lists
<1> HIDE DEF list
<1>9. ASSUME NEW q \in Requests PROVE req'[q] \in Request /\ RequestOK(q)'
  <2>1. CASE q = r
    <3>1. req'[q] = Idle
      BY <1>5, <2>1
    <3> QED
      BY <3>1, IdleRequest DEF RequestOK, EditorOK, SaverOK, RunnerOK, Executing, Idle
  <2>2. CASE q # r
    <3>1. req'[q] = SeesDapps(q, list, id)
      BY <1>5, <2>2
    <3> QED
      BY <1>2, <1>4, <1>5, <1>6, <3>1, SeesDappsOK
  <2> QED
    BY <2>1, <2>2
<1>10. TypeOK'
  <2>1. req' \in [Requests -> Request]
    BY <1>5, <1>9
  <2>2. acked' \in [Ids -> Entry \cup {NoDapp}]
    BY <1>2, <1>3, <1>5 DEF IInv, TypeOK
  <2>3. lost' \subseteq Ids /\ mixed' \in BOOLEAN
    BY <1>1, <1>5 DEF IInv, TypeOK, Request
  <2> QED
    BY <1>4, <1>5, <2>1, <2>2, <2>3, ListStored DEF IInv, TypeOK
<1>11. Unreadable'
  BY <1>5 DEF IInv, Unreadable
<1>12. EditsKept'
  <2>1. ASSUME NEW i \in Ids \ lost' PROVE list[i] = acked'[i]
    <3>1. CASE i = id
      BY <1>6, <1>8, <3>1
    <3>2. CASE i # id
      <4>1. i \notin lost \cup req[r].missed
        BY <1>5, <2>1, <3>2
      <4>2. held[i] = acked[i]
        BY <1>1, <2>1, <4>1 DEF RequestOK, EditorOK, Agrees
      <4> QED
        BY <1>6, <1>8, <2>1, <3>2, <4>2
    <3> QED
      BY <3>1, <3>2
  <2> QED
    BY <1>7, <2>1 DEF EditsKept
<1>13. CategoriesHaveTabs'
  <2>1. ASSUME ~mixed' PROVE Within(list, tabs)
    <3>1. ~mixed /\ ~req[r].crossed
      BY <1>5, <2>1
    <3>2. entry.categories \subseteq tabs /\ Within(held, tabs)
      BY <1>1, <1>3, <3>1 DEF RequestOK, EditorOK
    <3>3. ASSUME NEW i \in Ids, list[i] # NoDapp PROVE list[i].categories \subseteq tabs
      BY <1>8, <3>2, <3>3, WithinPointwise
    <3> QED
      BY <3>3, WithinPointwise
  <2> QED
    BY <1>5, <1>7, <2>1 DEF CategoriesHaveTabs, Within
<1> QED
  BY <1>9, <1>10, <1>11, <1>12, <1>13 DEF IInv

-----------------------------------------------------------------------------
(* The invariant, and what it says.                                        *)

LEMMA InitIInv == Init => IInv
<1> SUFFICES ASSUME Init PROVE IInv
  OBVIOUS
<1>1. dapps \in Directory /\ Normalized(dapps) \in Lists
  <2>1. dapps \in Directory
    BY DEF Init, Directory
  <2> QED
    BY <2>1, NormalizedList
<1>2. TypeOK
  <2>1. req \in [Requests -> Request]
    BY IdleRequest DEF Init
  <2>2. acked \in [Ids -> Entry \cup {NoDapp}]
    BY <1>1 DEF Init, Lists
  <2> QED
    BY <1>1, <2>1, <2>2 DEF Init, TypeOK
<1>3. \A r \in Requests : RequestOK(r)
  BY DEF Init, RequestOK, EditorOK, SaverOK, RunnerOK, Executing, Idle
<1>4. Unreadable /\ EditsKept /\ CategoriesHaveTabs
  BY DEF Init, Unreadable, EditsKept, CategoriesHaveTabs
<1> QED
  BY <1>2, <1>3, <1>4 DEF IInv

LEMMA NextIInv == IInv /\ [Next]_vars => IInv'
<1> SUFFICES ASSUME IInv, [Next]_vars PROVE IInv'
  OBVIOUS
<1>1. CASE UNCHANGED vars
  BY <1>1 DEF vars, IInv, TypeOK, Unreadable, EditsKept, CategoriesHaveTabs, RequestOK,
              EditorOK, SaverOK, RunnerOK, Executing, Agrees, Within
<1>2. ASSUME NEW r \in Requests, Step(r) PROVE IInv'
  BY <1>2, UpsertDappStep, SaveTabsStep, ListStep, TurnStep, CallToolStep, ReadTabsStep,
     DeleteTabsStep, ReadDappsStep, DeleteDappsStep, StoreDappStep, StoreTabsStep, FinishStep
     DEF Step
<1> QED
  BY <1>1, <1>2 DEF Next

\* The inductive invariant: what each request has read still agrees with the
\* documents, but for what others have written since.
THEOREM DappsInvariant == Spec => []IInv
<1> QED
  BY InitIInv, NextIInv, PTL DEF Spec

(* Type correctness; what readers get is of today's form, with tools for   *)
(* AI-driven dapps only.                                                   *)
THEOREM DappsTypeCorrect == Spec => []TypeOK
<1>1. IInv => TypeOK
  BY DEF IInv
<1> QED
  BY <1>1, DappsInvariant, PTL

(* An edit is undone by overlapping edits and by nothing else.             *)
THEOREM EditsAreKept == Spec => []EditsKept
<1>1. IInv => EditsKept
  BY DEF IInv
<1> QED
  BY <1>1, DappsInvariant, PTL

(* The two documents agree, unless requests that write them overlapped.    *)
THEOREM CategoriesAreTabs == Spec => []CategoriesHaveTabs
<1>1. IInv => CategoriesHaveTabs
  BY DEF IInv
<1> QED
  BY <1>1, DappsInvariant, PTL

(* A tool that runs was granted while its execution was being decided.     *)
THEOREM ToolsAreGranted == Spec => []RunToolsGranted
<1>1. IInv => RunToolsGranted
  BY DEF IInv, RequestOK, RunnerOK, RunToolsGranted
<1> QED
  BY <1>1, DappsInvariant, PTL

=============================================================================
