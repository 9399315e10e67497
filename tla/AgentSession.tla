---------------------------- MODULE AgentSession ----------------------------
(***************************************************************************)
(* One conversation with the wallet agent: its agent_sessions row, its     *)
(* agent_tool_logs rows, and the requests that work on it.                 *)
(*                                                                         *)
(* A request loads the row into a copy, runs the model and the tools on    *)
(* that copy, and writes the copy back at every turn.  A destructive tool  *)
(* is proposed: the copy's pendingConfirmation names it, and the request   *)
(* ends.  A later request confirms, rejects or supersedes it.  Nothing     *)
(* locks the row: a save is a SELECT of the row by its id and an UPDATE of *)
(* the columns in which the copy differs from what was selected, and two   *)
(* requests of one conversation may be anywhere in these steps.            *)
(*                                                                         *)
(* A message is its author, and the tool calls it makes or answers.        *)
(***************************************************************************)
EXTENDS Integers, Sequences, SequencesExt

CONSTANTS
    Requests,      \* how many requests may be served at a time
    ToolKinds,     \* the kinds of tool the model may call
    MultiRounds,   \* rounds of play_hash_mahjong_multi, clamped to 1 .. 20
    MAX_PLAY_SEND_RETRIES,
    MaxUses,       \* bound: tool calls of a run
    MaxTurns,      \* bound: user messages and model answers of a run
    MaxFaults      \* bound: errors and crashes of a run

\* get_* tools; execute_swap and send_token; the two Hash Mahjong tools.
Tools == {"safe", "wallet", "play", "multi"}

ASSUME AgentAssumption ==
    /\ ToolKinds \subseteq Tools
    /\ MultiRounds \in 1 .. 20
    /\ MAX_PLAY_SEND_RETRIES \in Nat \ {0}
    /\ MaxUses \in Nat /\ MaxTurns \in Nat /\ MaxFaults \in Nat

VARIABLES
    row,        \* the agent_sessions row
    logs,       \* the status of each call's agent_tool_logs row
    req,        \* the requests in flight
    sends,      \* payments sent to the chain for each call
    runs,       \* how often each destructive call was run
    nextUse,    \* the next fresh tool_use id
    turns, faults,
    \* bookkeeping: nothing in the code reads these
    contested,  \* calls two overlapping requests both found pending
    disturbed   \* calls whose request ended, or whose session went, half-way

vars == <<row, logs, req, sends, runs, nextUse, turns, faults, contested, disturbed>>

Use == [id : 1 .. MaxUses, tool : Tools]
NoUse == [id |-> 0, tool |-> "none"]
Ids == 1 .. MaxUses

Destructive(u) == u.tool # "safe"
Game(u) == u.tool \in {"play", "multi"}
Rounds(u) == IF u.tool = "multi" THEN MultiRounds ELSE 1

\* pendingConfirmation
Modes == {"backend_sandbox", "client_wallet"}
Pending == [use : Use, mode : Modes]
NoPending == [use |-> NoUse, mode |-> "none"]

resolveDestructiveExecutionMode(sandbox, u) ==
    IF sandbox = "on" \/ Game(u) THEN "backend_sandbox" ELSE "client_wallet"

Message == [kind : {"user", "assistant", "results"}, uses : SUBSET Use]
UserMessage == [kind |-> "user", uses |-> {}]
AssistantMessage(uses) == [kind |-> "assistant", uses |-> uses]
Results(uses) == [kind |-> "results", uses |-> uses]

Session == [history : Seq(Message), pending : Pending \cup {NoPending}, sandbox : {"on", "off"}]
NoSession == [history |-> <<>>, pending |-> NoPending, sandbox |-> "none"]

Statuses == {"none", "started", "pending_confirmation", "completed", "failed", "cancelled"}
Steps == {"idle", "compose", "repair", "model", "tools", "run", "sent", "complete",
          "snapshot", "save", "write"}

Request == [
    pc : Steps,
    next : Steps,                        \* where a save goes on
    copy : Session \cup {NoSession},     \* the session in memory
    base : Session \cup {NoSession},     \* what the SELECT of a save returned
    todo : Seq(Use),                     \* tool calls of the turn still to handle
    use : Use \cup {NoUse},              \* the call being run
    confirmed : BOOLEAN,                 \* it is run because the user approved it
    left : 0 .. 20,                      \* rounds still to play
    attempt : 0 .. MAX_PLAY_SEND_RETRIES,
    outcome : {"none", "completed", "failed"},
    saw : Use \cup {NoUse}]              \* found pending, and not yet written back

Idle == [pc |-> "idle", next |-> "idle", copy |-> NoSession, base |-> NoSession,
         todo |-> <<>>, use |-> NoUse, confirmed |-> FALSE, left |-> 0, attempt |-> 0,
         outcome |-> "none", saw |-> NoUse]

TypeOK ==
    /\ row \in Session \cup {NoSession}
    /\ logs \in [Ids -> Statuses]
    /\ req \in [Requests -> Request]
    /\ sends \in [Ids -> Nat] /\ runs \in [Ids -> Nat]
    /\ nextUse \in 1 .. MaxUses + 1
    /\ turns \in 0 .. MaxTurns /\ faults \in 0 .. MaxFaults
    /\ contested \subseteq Ids /\ disturbed \subseteq Ids

Init ==
    /\ row = NoSession
    /\ logs = [i \in Ids |-> "none"]
    /\ req = [r \in Requests |-> Idle]
    /\ sends = [i \in Ids |-> 0] /\ runs = [i \in Ids |-> 0]
    /\ nextUse = 1
    /\ turns = 0 /\ faults = 0
    /\ contested = {} /\ disturbed = {}

-----------------------------------------------------------------------------
(* The history as the model provider requires it.                          *)

\* mutation: only the message right after h[i] is looked at
NextOnly(h, i) == IF i < Len(h) /\ h[i + 1].kind = "results" THEN h[i + 1].uses ELSE {}

\* The calls of h[i] answered in the run of tool results right after it.
Answered(h, i) ==
    UNION {h[j].uses : j \in {k \in i + 1 .. Len(h) :
                                 \A l \in i + 1 .. k : h[l].kind = "results"}}

Missing(h, i) ==
    IF h[i].kind = "assistant" THEN h[i].uses \ Answered(h, i) ELSE {}

Unrepaired(h) == h                            \* mutation: calls stay unanswered
repairMissingToolResults(h) ==
    FlattenSeq([i \in 1 .. Len(h) |->
                  IF Missing(h, i) = {} THEN <<h[i]>> ELSE <<h[i], Results(Missing(h, i))>>])

-----------------------------------------------------------------------------
(* AgentSessionService.                                                    *)

Found(p) == {p.use.id} \ {0}

\* A request that loads the row finds what another one found as well.
Load(r) ==
    contested' = contested \cup {i \in Found(row.pending) :
                                    \E q \in Requests \ {r} : req[q].saw.id = i}

Become(r, state) == req' = [req EXCEPT ![r] = state]

\* saveSession(copy), then on to step next.
Saving(state, copy, next) == [state EXCEPT !.pc = "save", !.copy = copy, !.next = next]

SaveSelect(r) ==
    /\ req[r].pc = "save"
    /\ Become(r, [req[r] EXCEPT !.pc = "write", !.base = row])
    /\ UNCHANGED <<row, logs, sends, runs, nextUse, turns, faults, contested, disturbed>>

\* mutation: a null is not written, as TypeORM does with an undefined
SkipNull(copy, base) ==
    LET isNull(c) == c = "pending" /\ copy.pending = NoPending IN
    [c \in DOMAIN row |-> IF copy[c] # base[c] /\ ~isNull(c) THEN copy[c] ELSE row[c]]
ChangedColumns(copy, base) ==
    [c \in DOMAIN row |-> IF copy[c] # base[c] THEN copy[c] ELSE row[c]]

\* Calls a request was about to write about.
Unsaved(s) == Found([use |-> s.saw]) \cup
              (IF s.pc \in {"save", "write"} THEN Found(s.copy.pending) ELSE {})

\* An error ends the request: its reply says so, its copy is dropped.
Abandon(r) ==
    /\ Become(r, Idle)
    /\ disturbed' = disturbed \cup Unsaved(req[r])

SaveWrite(r) ==
    LET s == req[r] IN
    /\ s.pc = "write"
    /\ IF s.base = NoSession /\ row # NoSession
       THEN Abandon(r) /\ UNCHANGED row          \* INSERT: duplicate key
       ELSE /\ row' = IF s.base = NoSession THEN s.copy
                      ELSE IF row = NoSession THEN row   \* UPDATE: no such row
                      ELSE ChangedColumns(s.copy, s.base)
            /\ Become(r, [s EXCEPT !.pc = s.next, !.next = "idle", !.base = NoSession,
                             !.saw = IF s.copy.pending.use = s.saw THEN @ ELSE NoUse])
            /\ UNCHANGED disturbed
    /\ UNCHANGED <<logs, sends, runs, nextUse, turns, faults, contested>>

-----------------------------------------------------------------------------
(* AgentToolLogService.  complete() leaves a call alone that has no row.   *)

createPending(u, status) == logs' = [logs EXCEPT ![u.id] = status]
complete(u, status) == logs' = [logs EXCEPT ![u.id] = IF @ = "none" THEN @ ELSE status]

KeepPending(session) == session               \* mutation: the pending call is not cleared
ClearPending(session) == [session EXCEPT !.pending = NoPending]

-----------------------------------------------------------------------------
(* POST agent/chat.                                                        *)

\* createOrLoadSession; an existing session is saved when its model or
\* wallet address is not the request's.
Chat(r) ==
    LET loaded == [Idle EXCEPT !.copy = row, !.saw = row.pending.use] IN
    /\ req[r].pc = "idle"
    /\ turns < MaxTurns
    /\ turns' = turns + 1
    /\ IF row = NoSession
       THEN \E sandbox \in {"on", "off"} :
               Become(r, Saving(Idle, [NoSession EXCEPT !.sandbox = sandbox], "compose"))
       ELSE \/ Become(r, Saving(loaded, row, "compose"))
            \/ Become(r, [loaded EXCEPT !.pc = "compose"])
    /\ Load(r)
    /\ UNCHANGED <<row, logs, sends, runs, nextUse, faults, disturbed>>

\* A new message cancels what is pending.
Compose(r) ==
    LET s == req[r]
        pending == s.copy.pending
        cancelled == IF pending = NoPending THEN <<>> ELSE <<Results({pending.use})>>
    IN
    /\ s.pc = "compose"
    /\ IF pending = NoPending THEN UNCHANGED logs ELSE complete(pending.use, "cancelled")
    /\ Become(r, Saving(s, [ClearPending(s.copy) EXCEPT
                                !.history = @ \o cancelled \o <<UserMessage>>], "repair"))
    /\ UNCHANGED <<row, sends, runs, nextUse, turns, faults, contested, disturbed>>

-----------------------------------------------------------------------------
(* continueLoop.                                                           *)

Repair(r) ==
    LET s == req[r]
        repaired == repairMissingToolResults(s.copy.history)
    IN
    /\ s.pc = "repair"
    /\ IF repaired = s.copy.history
       THEN Become(r, [s EXCEPT !.pc = "model"])
       ELSE Become(r, Saving(s, [s.copy EXCEPT !.history = repaired], "model"))
    /\ UNCHANGED <<row, logs, sends, runs, nextUse, turns, faults, contested, disturbed>>

\* messages.create answers with text, and perhaps with tool calls.
AskModel(r) ==
    LET s == req[r] IN
    /\ s.pc = "model"
    /\ turns < MaxTurns
    /\ turns' = turns + 1
    /\ \E kinds \in UNION {[1 .. n -> ToolKinds] : n \in 0 .. MaxUses + 1 - nextUse} :
          LET uses == [n \in DOMAIN kinds |-> [id |-> nextUse + n - 1, tool |-> kinds[n]]] IN
          /\ nextUse' = nextUse + Len(uses)
          /\ Become(r, [Saving(s, [s.copy EXCEPT !.history = Append(@, AssistantMessage(ToSet(uses)))],
                               IF uses = <<>> THEN "snapshot" ELSE "tools")
                        EXCEPT !.todo = uses])
    /\ UNCHANGED <<row, logs, sends, runs, faults, contested, disturbed>>

ModelFails(r) ==
    /\ req[r].pc = "model"
    /\ Abandon(r)
    /\ UNCHANGED <<row, logs, sends, runs, nextUse, turns, faults, contested>>

\* The calls after a destructive one are answered as deferred.
Deferred(rest) == [n \in DOMAIN rest |-> Results({rest[n]})]

ProposeTool(r) ==
    LET s == req[r]
        u == Head(s.todo)
    IN
    /\ s.pc = "tools"
    /\ Destructive(u)
    /\ createPending(u, "pending_confirmation")
    /\ Become(r, [Saving(s, [s.copy EXCEPT
                                !.history = @ \o Deferred(Tail(s.todo)),
                                !.pending = [use |-> u, mode |->
                                    resolveDestructiveExecutionMode(s.copy.sandbox, u)]],
                         "snapshot")
                  EXCEPT !.todo = <<>>])
    /\ UNCHANGED <<row, sends, runs, nextUse, turns, faults, contested, disturbed>>

StartTool(r) ==
    LET s == req[r]
        u == Head(s.todo)
    IN
    /\ s.pc = "tools"
    /\ ~Destructive(u)
    /\ createPending(u, "started")
    /\ Become(r, [s EXCEPT !.pc = "run", !.use = u, !.todo = Tail(@)])
    /\ UNCHANGED <<row, sends, runs, nextUse, turns, faults, contested, disturbed>>

\* persistSessionSnapshot, successful or not, and the reply.
Reply(r) ==
    /\ req[r].pc = "snapshot"
    /\ Become(r, Idle)
    /\ UNCHANGED <<row, logs, sends, runs, nextUse, turns, faults, contested, disturbed>>

-----------------------------------------------------------------------------
(* POST agent/confirm and agent/client-tool-result.                        *)

HasPending == row # NoSession /\ row.pending # NoPending

\* With client_wallet nothing is stored: the client signs, and reports.
Approve(r) ==
    LET u == row.pending.use IN
    /\ req[r].pc = "idle"
    /\ HasPending
    /\ row.pending.mode = "backend_sandbox"
    /\ Become(r, [Idle EXCEPT !.pc = "run", !.copy = ClearPending(row),
                              !.use = u, !.confirmed = TRUE, !.saw = u])
    /\ Load(r)
    /\ UNCHANGED <<row, logs, sends, runs, nextUse, turns, faults, disturbed>>

Reject(r) ==
    LET u == row.pending.use IN
    /\ req[r].pc = "idle"
    /\ HasPending
    /\ complete(u, "cancelled")
    /\ Become(r, Saving([Idle EXCEPT !.saw = u],
                        [ClearPending(row) EXCEPT
                            !.history = @ \o <<Results({u}), AssistantMessage({})>>],
                        "snapshot"))
    /\ Load(r)
    /\ UNCHANGED <<row, sends, runs, nextUse, turns, faults, disturbed>>

SubmitClientToolResult(r, status) ==
    LET u == row.pending.use IN
    /\ req[r].pc = "idle"
    /\ HasPending
    /\ complete(u, status)
    /\ Become(r, Saving([Idle EXCEPT !.saw = u],
                        [ClearPending(row) EXCEPT !.history = Append(@, Results({u}))],
                        "repair"))
    /\ Load(r)
    /\ UNCHANGED <<row, sends, runs, nextUse, turns, faults, disturbed>>

-----------------------------------------------------------------------------
(* executeTool, of a safe call in the loop or of a confirmed one.          *)

Outcome(s, outcome) ==
    [s EXCEPT !.pc = "complete", !.outcome = outcome, !.left = 0, !.attempt = 0]

(* A safe tool reads.  Any tool may return an error before it sends: it is *)
(* blocked by the policy of the dapps, has no sandbox key, or the chain    *)
(* refuses.                                                                *)
RunTool(r) ==
    LET s == req[r] IN
    /\ s.pc = "run"
    /\ s.left = 0
    /\ \/ ~Destructive(s.use) /\ Become(r, Outcome(s, "completed"))
       \/ Become(r, Outcome(s, "failed"))
    /\ UNCHANGED <<row, logs, sends, runs, nextUse, turns, faults, contested, disturbed>>

\* The tool gets as far as its first payment.
BeginTool(r) ==
    LET s == req[r] IN
    /\ s.pc = "run"
    /\ s.left = 0
    /\ Destructive(s.use) /\ s.copy.sandbox = "on"
    /\ runs' = [runs EXCEPT ![s.use.id] = @ + 1]
    /\ Become(r, [s EXCEPT !.left = Rounds(s.use), !.attempt = 1])
    /\ UNCHANGED <<row, logs, sends, nextUse, turns, faults, contested, disturbed>>

\* wallet.sendTransaction
Send(r) ==
    LET s == req[r] IN
    /\ s.pc = "run"
    /\ s.left > 0
    /\ sends' = [sends EXCEPT ![s.use.id] = @ + 1]
    /\ Become(r, [s EXCEPT !.pc = "sent"])
    /\ UNCHANGED <<row, logs, runs, nextUse, turns, faults, contested, disturbed>>

\* tx.wait() returns: the next round, or the tool's result.
Mined(r) ==
    LET s == req[r] IN
    /\ s.pc = "sent"
    /\ Become(r, IF s.left = 1 THEN Outcome(s, "completed")
                 ELSE [s EXCEPT !.pc = "run", !.left = @ - 1, !.attempt = 1])
    /\ UNCHANGED <<row, logs, sends, runs, nextUse, turns, faults, contested, disturbed>>

Fault == faults < MaxFaults /\ faults' = faults + 1

AnyTool(s) == s.attempt < MAX_PLAY_SEND_RETRIES                     \* mutation: swaps retry too
OneMore(s) == Game(s.use) /\ s.attempt <= MAX_PLAY_SEND_RETRIES     \* mutation: one retry too many
MayRetry(s) == Game(s.use) /\ s.attempt < MAX_PLAY_SEND_RETRIES

(* sendTransaction or wait throws.  playOnce starts the round again after  *)
(* an error that looks transient, whichever of the two threw it.           *)
ChainFails(r) ==
    LET s == req[r] IN
    /\ s.pc = "sent" \/ (s.pc = "run" /\ s.left > 0)
    /\ Fault
    /\ \/ Become(r, Outcome(s, "failed"))
       \/ /\ MayRetry(s)
          /\ Become(r, [s EXCEPT !.pc = "run", !.attempt = @ + 1])
    /\ UNCHANGED <<row, logs, sends, runs, nextUse, turns, contested, disturbed>>

\* The result is logged and put into the history.
CompleteTool(r) ==
    LET s == req[r] IN
    /\ s.pc = "complete"
    /\ complete(s.use, s.outcome)
    /\ Become(r, [Saving(s, [s.copy EXCEPT !.history = Append(@, Results({s.use}))],
                         IF s.confirmed THEN "repair"
                         ELSE IF s.todo = <<>> THEN "model" ELSE "tools")
                  EXCEPT !.use = NoUse, !.confirmed = FALSE, !.outcome = "none"])
    /\ UNCHANGED <<row, sends, runs, nextUse, turns, faults, contested, disturbed>>

\* The dapps, the sandbox key or the log cannot be had: executeTool throws.
ToolThrows(r) ==
    LET s == req[r] IN
    /\ s.pc = "complete" \/ (s.pc = "run" /\ s.left = 0)
    /\ Fault
    /\ complete(s.use, "failed") \/ UNCHANGED logs
    /\ Abandon(r)
    /\ UNCHANGED <<row, sends, runs, nextUse, turns, contested>>

-----------------------------------------------------------------------------
(* DELETE conversations/:id; the process that serves a request dies.       *)

DeleteSession(r) ==
    /\ req[r].pc = "idle"
    /\ row # NoSession
    /\ row' = NoSession
    /\ disturbed' = disturbed \cup Found(row.pending)
    /\ UNCHANGED <<logs, req, sends, runs, nextUse, turns, faults, contested>>

Crash(r) ==
    /\ req[r].pc # "idle"
    /\ Fault
    /\ Abandon(r)
    /\ UNCHANGED <<row, logs, sends, runs, nextUse, turns, contested>>

-----------------------------------------------------------------------------
Step(r) ==
    \/ SaveSelect(r) \/ SaveWrite(r)
    \/ Chat(r) \/ Compose(r) \/ Repair(r) \/ AskModel(r) \/ ModelFails(r)
    \/ ProposeTool(r) \/ StartTool(r) \/ Reply(r)
    \/ Approve(r) \/ Reject(r)
    \/ \E status \in {"completed", "failed"} : SubmitClientToolResult(r, status)
    \/ RunTool(r) \/ BeginTool(r) \/ Send(r) \/ Mined(r) \/ ChainFails(r)
    \/ CompleteTool(r) \/ ToolThrows(r)
    \/ DeleteSession(r) \/ Crash(r)

Next == \E r \in Requests : Step(r)

Spec == Init /\ [][Next]_vars

-----------------------------------------------------------------------------
(* Properties.                                                             *)

\* The calls nothing happened to but what their requests meant to do.
Undisturbed == Ids \ (contested \cup disturbed)

(* Whatever requests overlap, are lost or fail half-way, the model is only *)
(* ever asked with a history in which each of its tool calls is answered   *)
(* before anybody speaks again.                                            *)
PromptsAnswered ==
    \A r \in Requests : req[r].pc = "model" =>
        \A i \in DOMAIN req[r].copy.history : Missing(req[r].copy.history, i) = {}

(* While requests are served one at a time, crashes included, each answer  *)
(* in a prompt follows the call it answers, and answers it only once.      *)
PromptsMatched ==
    \A r \in Requests : req[r].pc = "model" =>
        LET h == req[r].copy.history IN
        \A j \in DOMAIN h : h[j].kind = "results" =>
            /\ \A k \in DOMAIN h : h[k].kind = "results" /\ h[j].uses \cap h[k].uses # {} => k = j
            /\ \E i \in 1 .. j - 1 :
                  /\ h[j].uses \subseteq h[i].uses
                  /\ h[i].kind = "assistant"
                  /\ \A k \in i + 1 .. j - 1 : h[k].kind = "results"

(* A destructive call runs again, or runs although it was cancelled, only  *)
(* if two requests held it at once or one of them died half-way: never by  *)
(* a stale copy written back later, a repair, or an overwritten row.       *)
RunOnce == \A i \in Undisturbed : runs[i] <= 1
CancelledNotRun == \A i \in Undisturbed : logs[i] = "cancelled" => runs[i] = 0

(* While requests are served one at a time, the log says a call awaits its *)
(* confirmation exactly while the session does.                            *)
LogFollowsSession ==
    (\A r \in Requests : req[r].pc = "idle") =>
        \A i \in Undisturbed : logs[i] = "pending_confirmation" <=> row.pending.use.id = i

(* Each round of Hash Mahjong the user confirms is paid for once.          *)
OnePaymentPerRound ==
    \A r \in Requests : Game(req[r].use) /\ req[r].pc = "sent" =>
        sends[req[r].use.id] <= runs[req[r].use.id] * Rounds(req[r].use)

(* A confirmed call that nothing disturbed pays no more than its rounds    *)
(* times the retries of a round, whatever fails between sending and        *)
(* waiting; a swap or a transfer pays once.                                *)
PaymentsBounded ==
    \A r \in Requests :
        LET u == req[r].use IN
        req[r].pc = "sent" /\ u.id \in Undisturbed =>
            sends[u.id] <= IF Game(u) THEN Rounds(u) * MAX_PLAY_SEND_RETRIES ELSE 1

(* The promise of ToolCalls: a call that nothing disturbed is opened, runs *)
(* at most once while it is open, and ends once.                           *)
CallStatus(i) ==
    IF i \notin Undisturbed THEN "waived"
    ELSE IF logs[i] \in {"started", "pending_confirmation"} THEN "open"
    ELSE logs[i]

Promise == INSTANCE ToolCalls WITH
    Calls <- Ids,
    status <- [i \in Ids |-> CallStatus(i)],
    ran <- [i \in Ids |-> IF i \in Undisturbed THEN runs[i] ELSE 0]

RefinesToolCalls == Promise!Spec
=============================================================================
