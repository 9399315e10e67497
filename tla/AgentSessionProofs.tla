------------------------- MODULE AgentSessionProofs -------------------------
(***************************************************************************)
(* Proofs about the wallet agent's conversations, for any number of        *)
(* requests, calls and turns.                                              *)
(*                                                                         *)
(* 1. A destructive call runs at most once and never after it was          *)
(*    cancelled, unless two requests held it at once or one of them died   *)
(*    half-way.  What the history holds plays no part in it.               *)
(* 2. One request at a time: the tool log follows the session.             *)
(* 3. repairMissingToolResults leaves no call unanswered, answers none a   *)
(*    second time, and changes nothing more when it is applied again.      *)
(* 4. Every state has its type.                                            *)
(* 5. The model is only asked with a history whose calls are answered;     *)
(*    and, one request at a time, with one whose answers match the calls.  *)
(* 6. ToolCalls is implemented: a call that nothing disturbed is opened,   *)
(*    runs at most once while it is open, and ends once.                   *)
(* 7. What a confirmed call pays is bounded by its rounds and retries.     *)
(***************************************************************************)
EXTENDS AgentSession, FiniteSetTheorems, WellFoundedInduction, TLAPS

USE AgentAssumption

\* Request state s holds call i as pending; is about to write it as pending;
\* has it among the calls of its turn.
Saw(s, i) == s.saw.id = i
Carries(s, i) == s.pc \in {"save", "write"} /\ s.copy.pending.use.id = i
Planned(s, i) == \E n \in 1 .. Len(s.todo) : s.todo[n].id = i
Held(i) == \E r \in Requests : Saw(req[r], i)

\* It has dealt with the pending call and saves that; it has gone as far as
\* the payments.
Closing(s) == s.pc \in {"save", "write"} /\ s.next # "compose"
Begun(s) == Closing(s) \/ s.pc \in {"sent", "complete"} \/ (s.pc = "run" /\ s.left > 0)

IsSession(x) ==
    /\ DOMAIN x = {"history", "pending", "sandbox"}
    /\ x.pending \in Pending \cup {NoPending}

Fields == {"pc", "next", "copy", "base", "todo", "use", "confirmed", "left", "attempt",
           "outcome", "saw"}

Typed(s) ==
    /\ DOMAIN s = Fields
    /\ s.pc \in Steps
    /\ IsSession(s.copy) /\ IsSession(s.base)
    /\ s.todo \in Seq(Use)
    /\ s.use \in Use \cup {NoUse} /\ s.saw \in Use \cup {NoUse}
    /\ s.left \in Int /\ s.outcome # "cancelled"

\* Where a request stands, and what it holds there.
Shape(s) ==
    /\ s.pc \in {"save", "write"} =>
          s.next \in {"compose", "repair", "model", "tools", "snapshot"}
    /\ s.saw # NoUse =>
          \/ s.pc \in {"compose", "save", "write"}
          \/ s.pc \in {"run", "sent", "complete"} /\ s.confirmed /\ s.use = s.saw
    /\ s.pc = "compose" \/ (s.pc \in {"save", "write"} /\ s.next = "compose") =>
          s.copy.pending.use = s.saw
    /\ Closing(s) /\ (s.next # "snapshot" \/ s.saw # NoUse) => s.copy.pending = NoPending
    /\ s.pc \in {"repair", "model", "tools", "run", "sent", "complete"} =>
          s.copy.pending = NoPending
    /\ s.pc \in {"run", "sent", "complete"} =>
          s.use \in Use /\ (Destructive(s.use) => s.confirmed /\ s.use = s.saw)
    /\ s.pc = "sent" => s.left > 0
    /\ s.pc = "tools" \/ (s.pc \in {"save", "write"} /\ s.next = "tools") => s.todo # <<>>

\* Nothing has happened to call i.
New(i) ==
    /\ row.pending.use.id # i
    /\ \A r \in Requests : ~Saw(req[r], i) /\ ~Carries(req[r], i)
    /\ runs[i] = 0
    /\ logs[i] = "none"

Distinct(todo) == \A m, n \in 1 .. Len(todo) : todo[m].id = todo[n].id => m = n

FreshInv ==
    /\ \A i \in Ids : i >= nextUse => New(i) /\ \A r \in Requests : ~Planned(req[r], i)
    /\ \A i \in Ids, r \in Requests : Planned(req[r], i) =>
          New(i) /\ \A q \in Requests \ {r} : ~Planned(req[q], i)
    /\ \A r \in Requests : Distinct(req[r].todo)

(* An undisturbed call has one holder.  A request that writes it as        *)
(* pending holds it or proposes it, and then nobody else knows of it.  A   *)
(* holder that closes it will write over the row where the row still names *)
(* it.  Once run, or cancelled, it is in the row only while its one holder *)
(* is about to write it off.                                               *)
UseOK(i) ==
    /\ \A r, q \in Requests : Saw(req[r], i) /\ Saw(req[q], i) => r = q
    /\ \A q \in Requests : Carries(req[q], i) /\ ~Saw(req[q], i) =>
          /\ row.pending.use.id # i /\ ~Held(i)
          /\ runs[i] = 0 /\ logs[i] # "cancelled"
          /\ \A r \in Requests : Carries(req[r], i) => r = q
    /\ \A r \in Requests :
          Saw(req[r], i) /\ Closing(req[r]) /\ req[r].pc = "write" /\ row.pending.use.id = i
             => req[r].base.pending.use.id = i
    /\ runs[i] <= 1
    /\ runs[i] # 0 => /\ \A r \in Requests : Saw(req[r], i) => Begun(req[r])
                      /\ row.pending.use.id = i => Held(i)
    /\ logs[i] = "cancelled" => /\ runs[i] = 0
                                /\ \A r \in Requests : Saw(req[r], i) => Closing(req[r])
                                /\ row.pending.use.id = i => Held(i)

Typing ==
    /\ IsSession(row)
    /\ DOMAIN req = Requests
    /\ \A r \in Requests : Typed(req[r])
    /\ runs \in [Ids -> Nat] /\ DOMAIN logs = Ids
    /\ nextUse \in 1 .. MaxUses + 1

IInv ==
    /\ Typing
    /\ \A r \in Requests : Shape(req[r])
    /\ FreshInv
    /\ \A i \in Undisturbed : UseOK(i)

-----------------------------------------------------------------------------
(* Records.                                                                *)

LEMMA UseFacts ==
    /\ \A u \in Use \cup {NoUse} : u.id \in Int /\ (u = NoUse <=> u.id = 0)
    /\ \A u \in Use : u.id \in Ids
    /\ \A i \in Ids : i # 0 /\ i \in Int
    /\ NoUse \notin Use
  BY DEF Use, NoUse, Ids

LEMMA PendingFacts ==
    /\ NoPending.use = NoUse
    /\ \A p \in Pending \cup {NoPending} :
          p.use \in Use \cup {NoUse} /\ (p = NoPending <=> p.use = NoUse)
  BY UseFacts DEF Pending, NoPending

LEMMA SessionFacts ==
    ASSUME NEW x, IsSession(x), NEW h
    PROVE  /\ IsSession([x EXCEPT !.history = h])
           /\ [x EXCEPT !.history = h].pending = x.pending
           /\ IsSession(ClearPending(x)) /\ ClearPending(x).pending = NoPending
  BY DEF IsSession, ClearPending

LEMMA NoSessionFacts ==
    /\ IsSession(NoSession) /\ NoSession.pending = NoPending
    /\ \A sandbox : /\ IsSession([NoSession EXCEPT !.sandbox = sandbox])
                    /\ [NoSession EXCEPT !.sandbox = sandbox].pending = NoPending
  BY DEF IsSession, NoSession

LEMMA SavingFacts ==
    ASSUME NEW s, DOMAIN s = Fields, NEW copy, NEW next
    PROVE  LET n == Saving(s, copy, next) IN
           /\ DOMAIN n = Fields
           /\ n.pc = "save" /\ n.copy = copy /\ n.next = next
           /\ n.base = s.base /\ n.todo = s.todo /\ n.use = s.use /\ n.saw = s.saw
           /\ n.confirmed = s.confirmed /\ n.left = s.left /\ n.outcome = s.outcome
  BY DEF Saving, Fields

LEMMA IdleFacts ==
    /\ Typed(Idle) /\ Shape(Idle)
    /\ Idle.pc = "idle" /\ Idle.saw = NoUse /\ Idle.todo = <<>> /\ Idle.left = 0
    /\ DOMAIN Idle = Fields
  BY NoSessionFacts DEF Idle, Typed, Shape, Closing, Fields, Steps

\* Become gives r its new state and leaves the others theirs.
LEMMA BecomeFacts ==
    ASSUME Typing, NEW r \in Requests, NEW s, Become(r, s)
    PROVE  /\ req'[r] = s /\ DOMAIN req' = Requests
           /\ \A q \in Requests \ {r} : req'[q] = req[q]
  BY DEF Typing, Become

LEMMA EmptyTodo ==
    ASSUME NEW s, s.todo = <<>>
    PROVE  Distinct(s.todo) /\ \A i : ~Planned(s, i)
  BY DEF Distinct, Planned

-----------------------------------------------------------------------------
(* Steps of one request that bring no call to anybody's notice.            *)

\* What r may do to its own state: plan fresh calls, propose a planned one,
\* go on with the call it holds, or give up.
QuietState(r, s) ==
    /\ Typed(s) /\ Shape(s)
    /\ s.saw = req[r].saw \/ (s.saw = NoUse /\ \A i \in Undisturbed' : ~Saw(req[r], i))
    /\ Distinct(s.todo)
    /\ \A i \in Ids : Planned(s, i) => Planned(req[r], i) \/ (i >= nextUse /\ i < nextUse')
    /\ \A i \in Ids : Carries(s, i) =>
          Carries(req[r], i) \/ (Planned(req[r], i) /\ ~Planned(s, i))
    /\ s.saw # NoUse => /\ Begun(req[r]) => Begun(s)
                        /\ Closing(req[r]) => Closing(s)
                        /\ s.pc = "write" => s.base = row

\* Logs change for calls that had one, or that r has just taken up.
QuietLogs(r, s) ==
    /\ DOMAIN logs' = Ids
    /\ \A i \in Ids : \/ logs'[i] = logs[i]
                      \/ /\ logs'[i] # "cancelled"
                         /\ logs[i] # "none" \/ (Planned(req[r], i) /\ ~Planned(s, i))

Quiet(r, s) ==
    /\ Become(r, s)
    /\ row' = row /\ runs' = runs
    /\ nextUse' \in nextUse .. MaxUses + 1
    /\ contested \subseteq contested' /\ disturbed \subseteq disturbed'
    /\ QuietState(r, s) /\ QuietLogs(r, s)

LEMMA QuietTyping ==
    ASSUME IInv, NEW r \in Requests, NEW s, Quiet(r, s)
    PROVE  Typing' /\ \A q \in Requests : Shape(req[q])'
  <1>1. req'[r] = s /\ DOMAIN req' = Requests /\ \A q \in Requests \ {r} : req'[q] = req[q]
    BY BecomeFacts DEF IInv, Quiet
  <1>2. \A q \in Requests : Typed(req'[q]) /\ Shape(req'[q])
    BY <1>1 DEF IInv, Typing, Quiet, QuietState
  <1> QED BY <1>1, <1>2 DEF IInv, Typing, Quiet, QuietLogs

LEMMA QuietFresh ==
    ASSUME IInv, NEW r \in Requests, NEW s, Quiet(r, s)
    PROVE  FreshInv'
  <1>1. req'[r] = s /\ \A q \in Requests \ {r} : req'[q] = req[q]
    BY BecomeFacts DEF IInv, Quiet
  <1>2. ASSUME NEW i \in Ids, New(i), \A q \in Requests \ {r} : ~Planned(req[q], i),
               Planned(req[r], i) => Planned(s, i)
        PROVE  New(i)'
    <2>1. i # 0 /\ NoUse.id = 0
      BY UseFacts DEF NoUse
    <2>2. ~Saw(s, i) /\ ~Carries(s, i)
      BY <1>2, <2>1 DEF New, Saw, Quiet, QuietState
    <2>3. logs'[i] = "none"
      BY <1>2 DEF New, Quiet, QuietLogs
    <2> QED BY <1>1, <1>2, <2>2, <2>3 DEF New, Quiet
  <1>3. ASSUME NEW i \in Ids, i >= nextUse'
        PROVE  New(i)' /\ \A q \in Requests : ~Planned(req[q], i)'
    <2>1. i >= nextUse
      BY <1>3, UseFacts DEF Quiet, IInv, Typing
    <2>2. New(i) /\ \A q \in Requests : ~Planned(req[q], i)
      BY <2>1 DEF IInv, FreshInv
    <2>3. ~Planned(s, i)
      BY <1>3, <2>2, UseFacts DEF Quiet, QuietState, IInv, Typing
    <2> QED BY <1>1, <1>2, <2>2, <2>3
  <1>4. ASSUME NEW i \in Ids, NEW p \in Requests, Planned(req'[p], i)
        PROVE  New(i)' /\ \A q \in Requests \ {p} : ~Planned(req'[q], i)
    <2>1. CASE p = r
      <3>1. Planned(s, i)
        BY <1>1, <1>4, <2>1
      <3>2. New(i) /\ \A q \in Requests \ {r} : ~Planned(req[q], i)
        BY <3>1 DEF IInv, FreshInv, Quiet, QuietState
      <3> QED BY <1>1, <1>2, <2>1, <3>1, <3>2
    <2>2. CASE p # r
      <3>1. Planned(req[p], i)
        BY <1>1, <1>4, <2>2
      <3>2. New(i) /\ \A q \in Requests \ {p} : ~Planned(req[q], i)
        BY <3>1 DEF IInv, FreshInv
      <3>3. ~Planned(s, i)
        <4>1. ~Planned(req[r], i)
          BY <2>2, <3>2
        <4>2. ~(i >= nextUse)
          BY <3>1 DEF IInv, FreshInv
        <4> QED BY <4>1, <4>2 DEF Quiet, QuietState
      <3>4. New(i)'
        <4>1. i # 0 /\ NoUse.id = 0
          BY UseFacts DEF NoUse
        <4>2. ~Planned(req[r], i)
          BY <2>2, <3>2
        <4>3. ~Saw(s, i) /\ ~Carries(s, i)
          BY <3>2, <4>1, <4>2 DEF New, Saw, Quiet, QuietState
        <4>4. logs'[i] = "none"
          BY <3>2, <4>2 DEF New, Quiet, QuietLogs
        <4> QED BY <1>1, <3>2, <4>3, <4>4 DEF New, Quiet
      <3> QED BY <1>1, <2>2, <3>2, <3>3, <3>4
    <2> QED BY <2>1, <2>2
  <1>5. \A q \in Requests : Distinct(req'[q].todo)
    BY <1>1 DEF IInv, FreshInv, Quiet, QuietState
  <1> QED BY <1>3, <1>4, <1>5 DEF FreshInv, Planned, Distinct

LEMMA QuietUse ==
    ASSUME IInv, NEW r \in Requests, NEW s, Quiet(r, s), NEW i \in Undisturbed'
    PROVE  UseOK(i)'
  <1>1. req'[r] = s /\ \A q \in Requests \ {r} : req'[q] = req[q]
    BY BecomeFacts DEF IInv, Quiet
  <1>2. i \in Ids /\ UseOK(i)
    BY DEF IInv, Quiet, Undisturbed
  <1>3. i # 0 /\ NoUse.id = 0
    BY <1>2, UseFacts DEF NoUse
  <1>4. Saw(s, i) <=> Saw(req[r], i)
    BY <1>3 DEF Quiet, QuietState, Saw
  <1>5. \A q \in Requests : Saw(req'[q], i) <=> Saw(req[q], i)
    BY <1>1, <1>4
  <1>6. Held(i)' <=> Held(i)
    BY <1>5 DEF Held, Saw
  <1>7. row' = row /\ runs' = runs
    BY DEF Quiet
  <1>8. logs'[i] = "cancelled" => logs[i] = "cancelled"
    BY <1>2 DEF Quiet, QuietLogs
  <1>9. Saw(s, i) => /\ Begun(req[r]) => Begun(s)
                     /\ Closing(req[r]) => Closing(s)
                     /\ s.pc = "write" => s.base = row
    BY <1>3 DEF Quiet, QuietState, Saw
  <1>10. ASSUME NEW q \in Requests, Carries(req'[q], i), ~Saw(req'[q], i)
         PROVE  /\ row.pending.use.id # i /\ ~Held(i)
                /\ runs[i] = 0 /\ logs'[i] # "cancelled"
                /\ \A p \in Requests : Carries(req'[p], i) => p = q
    <2>1. CASE \E p \in Requests : Carries(req[p], i) /\ ~Saw(req[p], i)
      <3>1. PICK p \in Requests : Carries(req[p], i) /\ ~Saw(req[p], i)
        BY <2>1
      <3>2. /\ row.pending.use.id # i /\ ~Held(i)
            /\ runs[i] = 0 /\ logs[i] # "cancelled"
            /\ \A o \in Requests : Carries(req[o], i) => o = p
        BY <1>2, <3>1 DEF UseOK
      <3>3. ~Planned(req[r], i)
        BY <1>2, <3>1 DEF IInv, FreshInv, New
      <3>4. Carries(s, i) => Carries(req[r], i)
        BY <1>2, <3>3 DEF Quiet, QuietState
      <3>5. \A o \in Requests : Carries(req'[o], i) => Carries(req[o], i)
        BY <1>1, <3>4
      <3> QED BY <1>8, <1>10, <3>2, <3>5
    <2>2. CASE ~\E p \in Requests : Carries(req[p], i) /\ ~Saw(req[p], i)
      <3>1. q = r /\ Planned(req[r], i) /\ Carries(s, i)
        BY <1>1, <1>2, <1>5, <1>10, <2>2 DEF Quiet, QuietState
      <3>2. New(i)
        BY <1>2, <3>1 DEF IInv, FreshInv
      <3> QED BY <1>1, <1>8, <3>1, <3>2 DEF New, Held
    <2> QED BY <2>1, <2>2
  <1>11. ASSUME NEW q \in Requests, Saw(req'[q], i), Closing(req'[q]), req'[q].pc = "write",
                row.pending.use.id = i
         PROVE  req'[q].base.pending.use.id = i
    <2>1. CASE q = r
      BY <1>1, <1>9, <1>11, <2>1
    <2>2. CASE q # r
      BY <1>1, <1>2, <1>11, <2>2 DEF UseOK
    <2> QED BY <2>1, <2>2
  <1>12. \A q \in Requests : Saw(req'[q], i) =>
            /\ Begun(req[q]) => Begun(req'[q])
            /\ Closing(req[q]) => Closing(req'[q])
    BY <1>1, <1>9
  <1>a. \A p, q \in Requests : Saw(req'[p], i) /\ Saw(req'[q], i) => p = q
    BY <1>2, <1>5 DEF UseOK
  <1>b. runs'[i] <= 1
    BY <1>2, <1>7 DEF UseOK
  <1>c. runs'[i] # 0 => /\ \A q \in Requests : Saw(req'[q], i) => Begun(req'[q])
                        /\ row'.pending.use.id = i => Held(i)'
    BY <1>2, <1>5, <1>6, <1>7, <1>12 DEF UseOK
  <1>d. logs'[i] = "cancelled" =>
           /\ runs'[i] = 0
           /\ \A q \in Requests : Saw(req'[q], i) => Closing(req'[q])
           /\ row'.pending.use.id = i => Held(i)'
    BY <1>2, <1>5, <1>6, <1>7, <1>8, <1>12 DEF UseOK
  <1> HIDE DEF Quiet
  <1> QED
    BY <1>6, <1>7, <1>10, <1>11, <1>a, <1>b, <1>c, <1>d DEF UseOK, Saw, Carries, Closing, Begun

LEMMA QuietInv ==
    ASSUME IInv, NEW r \in Requests, NEW s, Quiet(r, s)
    PROVE  IInv'
  BY QuietTyping, QuietFresh, QuietUse DEF IInv

(* A request that ends: what it held or was about to write is disturbed.   *)
LEMMA AbandonInv ==
    ASSUME IInv, NEW r \in Requests, Abandon(r), UNCHANGED <<row, runs, nextUse, contested>>,
           QuietLogs(r, Idle)
    PROVE  IInv'
  <1>1. \A i \in Undisturbed' : ~Saw(req[r], i)
    <2>1. Found([use |-> req[r].saw]) \subseteq disturbed'
      BY DEF Abandon, Unsaved
    <2> QED BY <2>1, UseFacts DEF Undisturbed, Found, Saw
  <1>2. \A i : ~Planned(Idle, i) /\ ~Carries(Idle, i)
    BY IdleFacts, EmptyTodo DEF Carries
  <1>3. QuietState(r, Idle)
    BY <1>1, <1>2, IdleFacts, EmptyTodo DEF QuietState
  <1>4. nextUse' \in nextUse .. MaxUses + 1
    BY DEF IInv, Typing
  <1> QED BY <1>3, <1>4, QuietInv DEF Quiet, Abandon

\* Logs of calls that have one, and have not just been cancelled.
LEMMA CompleteLogs ==
    ASSUME IInv, NEW r \in Requests, NEW s, NEW u, NEW status \in {"completed", "failed"},
           complete(u, status) \/ UNCHANGED logs
    PROVE  QuietLogs(r, s)
  BY DEF IInv, Typing, QuietLogs, complete

LEMMA SameLogs ==
    ASSUME IInv, NEW r \in Requests, NEW s, UNCHANGED logs
    PROVE  QuietLogs(r, s)
  BY DEF IInv, Typing, QuietLogs

LEMMA FailuresInv ==
    ASSUME IInv, NEW r \in Requests, ModelFails(r) \/ ToolThrows(r) \/ Crash(r)
    PROVE  IInv'
  <1>1. CASE ModelFails(r)
    BY <1>1, AbandonInv, SameLogs DEF ModelFails
  <1>2. CASE ToolThrows(r)
    BY <1>2, AbandonInv, CompleteLogs DEF ToolThrows
  <1>3. CASE Crash(r)
    BY <1>3, AbandonInv, SameLogs DEF Crash
  <1> QED BY <1>1, <1>2, <1>3

(* A step in memory: the calls planned and held are the same.              *)
LEMMA MemoryStep ==
    ASSUME IInv, NEW r \in Requests, NEW s, Become(r, s),
           UNCHANGED <<row, runs, nextUse, contested, disturbed>>, QuietLogs(r, s),
           Typed(s), Shape(s), s.saw = req[r].saw, s.todo = req[r].todo,
           \A i \in Ids : Carries(s, i) => Carries(req[r], i),
           s.saw # NoUse => /\ Begun(req[r]) => Begun(s)
                            /\ Closing(req[r]) => Closing(s)
                            /\ s.pc = "write" => s.base = row
    PROVE  IInv'
  <1>1. nextUse' \in nextUse .. MaxUses + 1
    BY DEF IInv, Typing
  <1>2. QuietState(r, s)
    BY DEF QuietState, Planned, IInv, FreshInv
  <1> QED BY <1>1, <1>2, QuietInv DEF Quiet

LEMMA SaveSelectInv ==
    ASSUME IInv, NEW r \in Requests, SaveSelect(r)
    PROVE  IInv'
  <1> DEFINE s == [req[r] EXCEPT !.pc = "write", !.base = row]
  <1>1. Typed(req[r]) /\ Shape(req[r]) /\ req[r].pc = "save" /\ IsSession(row)
    BY DEF IInv, Typing, SaveSelect
  <1>2. /\ DOMAIN s = Fields /\ s.pc = "write" /\ s.base = row
        /\ s.copy = req[r].copy /\ s.next = req[r].next /\ s.todo = req[r].todo
        /\ s.use = req[r].use /\ s.saw = req[r].saw /\ s.left = req[r].left /\ s.outcome = req[r].outcome
    BY <1>1 DEF Typed, Fields
  <1>3. Typed(s)
    BY <1>1, <1>2 DEF Typed, Steps
  <1>4. Shape(s)
    BY <1>1, <1>2 DEF Shape, Closing
  <1>5. /\ \A i \in Ids : Carries(s, i) => Carries(req[r], i)
        /\ Begun(req[r]) => Begun(s)
        /\ Closing(req[r]) => Closing(s)
    BY <1>1, <1>2 DEF Carries, Begun, Closing
  <1>6. Become(r, s)
    BY DEF SaveSelect
  <1> HIDE DEF s
  <1> QED BY <1>2, <1>3, <1>4, <1>5, <1>6, MemoryStep, SameLogs DEF SaveSelect

LEMMA RepairInv ==
    ASSUME IInv, NEW r \in Requests, Repair(r)
    PROVE  IInv'
  <1> DEFINE repaired == repairMissingToolResults(req[r].copy.history)
             in == [req[r] EXCEPT !.pc = "model"]
             copy == [req[r].copy EXCEPT !.history = repaired]
             out == Saving(req[r], copy, "model")
  <1>1. /\ Typed(req[r]) /\ Shape(req[r]) /\ req[r].pc = "repair"
        /\ req[r].saw = NoUse /\ req[r].copy.pending = NoPending
    BY DEF IInv, Typing, Repair, Shape
  <1>2. CASE Become(r, in)
    <2>1. /\ DOMAIN in = Fields /\ in.pc = "model"
          /\ in.copy = req[r].copy /\ in.base = req[r].base /\ in.todo = req[r].todo
          /\ in.use = req[r].use /\ in.saw = NoUse /\ in.left = req[r].left /\ in.outcome = req[r].outcome
      BY <1>1 DEF Typed, Fields
    <2>2. Typed(in) /\ Shape(in) /\ \A i \in Ids : ~Carries(in, i)
      BY <1>1, <2>1 DEF Typed, Shape, Steps, Closing, Carries
    <2> HIDE DEF in
    <2> QED BY <1>1, <1>2, <2>1, <2>2, MemoryStep, SameLogs DEF Repair
  <1>3. CASE Become(r, out)
    <2>1. IsSession(copy) /\ copy.pending = NoPending
      BY <1>1, SessionFacts DEF Typed
    <2> HIDE DEF copy
    <2>2. /\ DOMAIN out = Fields /\ out.pc = "save" /\ out.copy = copy /\ out.next = "model"
          /\ out.base = req[r].base /\ out.todo = req[r].todo
          /\ out.use = req[r].use /\ out.saw = NoUse /\ out.left = req[r].left /\ out.outcome = req[r].outcome
      BY <1>1, SavingFacts DEF Typed
    <2>3. Typed(out) /\ Shape(out)
      BY <1>1, <2>1, <2>2 DEF Typed, Shape, Steps, Closing
    <2>4. \A i \in Ids : ~Carries(out, i)
      BY <2>1, <2>2, PendingFacts, UseFacts DEF Carries
    <2> HIDE DEF out
    <2> QED BY <1>1, <1>3, <2>2, <2>3, <2>4, MemoryStep, SameLogs DEF Repair
  <1> QED BY <1>2, <1>3 DEF Repair

LEMMA ReplyInv ==
    ASSUME IInv, NEW r \in Requests, Reply(r)
    PROVE  IInv'
  <1>1. Typed(req[r]) /\ Shape(req[r]) /\ req[r].pc = "snapshot" /\ req[r].saw = NoUse
    BY DEF IInv, Typing, Reply, Shape
  <1>2. \A i : ~Planned(Idle, i) /\ ~Carries(Idle, i)
    BY IdleFacts, EmptyTodo DEF Carries
  <1>3. QuietState(r, Idle)
    BY <1>1, <1>2, IdleFacts, EmptyTodo DEF QuietState
  <1>4. nextUse' \in nextUse .. MaxUses + 1
    BY DEF IInv, Typing, Reply
  <1> QED BY <1>3, <1>4, QuietInv, SameLogs DEF Quiet, Reply

LEMMA AskModelInv ==
    ASSUME IInv, NEW r \in Requests, AskModel(r)
    PROVE  IInv'
  <1>1. /\ Typed(req[r]) /\ Shape(req[r]) /\ req[r].pc = "model"
        /\ req[r].saw = NoUse /\ req[r].copy.pending = NoPending
    BY DEF IInv, Typing, AskModel, Shape
  <1>2. nextUse \in 1 .. MaxUses + 1
    BY DEF IInv, Typing
  <1>3. PICK kinds \in UNION {[1 .. m -> ToolKinds] : m \in 0 .. MaxUses + 1 - nextUse} :
          LET uses == [k \in DOMAIN kinds |-> [id |-> nextUse + k - 1, tool |-> kinds[k]]] IN
          /\ nextUse' = nextUse + Len(uses)
          /\ Become(r, [Saving(req[r], [req[r].copy EXCEPT !.history =
                                           Append(@, AssistantMessage(ToSet(uses)))],
                               IF uses = <<>> THEN "snapshot" ELSE "tools")
                        EXCEPT !.todo = uses])
    BY DEF AskModel
  <1>n. PICK n \in 0 .. MaxUses + 1 - nextUse : kinds \in [1 .. n -> ToolKinds]
    OBVIOUS
  <1> DEFINE uses == [k \in 1 .. n |-> [id |-> nextUse + k - 1, tool |-> kinds[k]]]
             copy == [req[r].copy EXCEPT !.history =
                         Append(req[r].copy.history, AssistantMessage(ToSet(uses)))]
             next == IF uses = <<>> THEN "snapshot" ELSE "tools"
             s == [Saving(req[r], copy, next) EXCEPT !.todo = uses]
  <1>4. DOMAIN kinds = 1 .. n
    BY <1>n
  <1>5. nextUse' = nextUse + Len(uses) /\ Become(r, s)
    BY <1>3, <1>4
  <1>6. \A k \in 1 .. n : uses[k] \in Use /\ uses[k].id = nextUse + k - 1
    BY <1>2, <1>n DEF Use
  <1>7. uses \in Seq(Use) /\ Len(uses) = n
    BY <1>6
  <1>8. IsSession(copy) /\ copy.pending = NoPending
    BY <1>1, SessionFacts DEF Typed
  <1> HIDE DEF copy
  <1>9. next \in {"snapshot", "tools"} /\ (next = "tools" => uses # <<>>)
    OBVIOUS
  <1> HIDE DEF uses, next
  <1>10. /\ DOMAIN s = Fields /\ s.pc = "save" /\ s.copy = copy /\ s.next = next
         /\ s.base = req[r].base /\ s.todo = uses /\ s.use = req[r].use
         /\ s.saw = NoUse /\ s.left = req[r].left /\ s.outcome = req[r].outcome
    BY <1>1 DEF Saving, Typed, Fields
  <1> HIDE DEF s
  <1>11. Typed(s) /\ Shape(s)
    BY <1>1, <1>7, <1>8, <1>9, <1>10 DEF Typed, Shape, Steps, Closing
  <1>12. \A i \in Ids : ~Carries(s, i)
    BY <1>8, <1>10, PendingFacts, UseFacts DEF Carries
  <1>13. Distinct(s.todo)
    BY <1>2, <1>6, <1>7, <1>10 DEF Distinct
  <1>14. nextUse' \in nextUse .. MaxUses + 1
    BY <1>2, <1>5, <1>7
  <1>15. \A i \in Ids : Planned(s, i) => i >= nextUse /\ i < nextUse'
    <2>1. nextUse' = nextUse + n /\ nextUse \in Nat
      BY <1>2, <1>5, <1>7
    <2>2. ASSUME NEW i \in Ids, Planned(s, i)
          PROVE  i >= nextUse /\ i < nextUse'
      <3>1. PICK k \in 1 .. n : uses[k].id = i
        BY <1>7, <1>10, <2>2 DEF Planned
      <3>2. i = nextUse + k - 1
        BY <1>6, <3>1
      <3> QED BY <2>1, <3>2
    <2> QED BY <2>2
  <1>16. QuietState(r, s)
    BY <1>1, <1>10, <1>11, <1>12, <1>13, <1>15 DEF QuietState
  <1> QED BY <1>5, <1>14, <1>16, QuietInv, SameLogs DEF Quiet, AskModel

\* The first of the planned calls, and the others.
LEMMA TodoFacts ==
    ASSUME IInv, NEW r \in Requests, req[r].todo # <<>>
    PROVE  LET todo == req[r].todo IN
           /\ Head(todo) \in Use /\ Head(todo).id \in Ids /\ Planned(req[r], Head(todo).id)
           /\ Tail(todo) \in Seq(Use) /\ Distinct(Tail(todo))
           /\ \A s : s.todo = Tail(todo) =>
                 /\ ~Planned(s, Head(todo).id)
                 /\ \A i : Planned(s, i) => Planned(req[r], i)
  <1> DEFINE todo == req[r].todo
  <1>1. todo \in Seq(Use) /\ Distinct(todo)
    BY DEF IInv, Typing, Typed, FreshInv
  <1>2. Len(todo) \in Nat \ {0} /\ Head(todo) = todo[1] /\ todo[1] \in Use
    BY <1>1
  <1>3. /\ Tail(todo) \in Seq(Use) /\ Len(Tail(todo)) = Len(todo) - 1
        /\ \A n \in 1 .. Len(todo) - 1 : Tail(todo)[n] = todo[n + 1]
    BY <1>1
  <1> HIDE DEF todo
  <1>4. Distinct(Tail(todo))
    <2>1. SUFFICES ASSUME NEW m \in 1 .. Len(todo) - 1, NEW n \in 1 .. Len(todo) - 1,
                          todo[m + 1].id = todo[n + 1].id
                   PROVE  m = n
      BY <1>3 DEF Distinct
    <2>2. m + 1 = n + 1
      BY <1>1, <1>2, <2>1 DEF Distinct
    <2> QED BY <2>2
  <1>5. ASSUME NEW s, s.todo = Tail(todo)
        PROVE  ~Planned(s, Head(todo).id)
    <2>1. \A n \in 1 .. Len(todo) - 1 : todo[n + 1].id # todo[1].id
      BY <1>1, <1>2 DEF Distinct
    <2> QED BY <1>2, <1>3, <1>5, <2>1 DEF Planned
  <1>6. ASSUME NEW s, s.todo = Tail(todo), NEW i, Planned(s, i)
        PROVE  Planned(req[r], i)
    <2>1. PICK n \in 1 .. Len(todo) - 1 : todo[n + 1].id = i
      BY <1>3, <1>6 DEF Planned
    <2>2. n + 1 \in 1 .. Len(todo)
      BY <1>2
    <2> QED BY <2>1, <2>2 DEF Planned, todo
  <1>7. Planned(req[r], Head(todo).id)
    BY <1>2 DEF Planned, todo
  <1> QED BY <1>2, <1>3, <1>4, <1>5, <1>6, <1>7, UseFacts DEF todo

\* createPending for the first of the planned calls.
LEMMA FirstLogs ==
    ASSUME IInv, NEW r \in Requests, req[r].todo # <<>>, NEW s,
           ~Planned(s, Head(req[r].todo).id),
           NEW status \in {"started", "pending_confirmation"},
           createPending(Head(req[r].todo), status)
    PROVE  QuietLogs(r, s)
  <1>1. Planned(req[r], Head(req[r].todo).id)
    BY TodoFacts
  <1> QED BY <1>1 DEF IInv, Typing, QuietLogs, createPending

LEMMA ProposeToolInv ==
    ASSUME IInv, NEW r \in Requests, ProposeTool(r)
    PROVE  IInv'
  <1> DEFINE u == Head(req[r].todo)
             pending == [use |-> u, mode |-> resolveDestructiveExecutionMode(req[r].copy.sandbox, u)]
             copy == [req[r].copy EXCEPT !.history = @ \o Deferred(Tail(req[r].todo)),
                                         !.pending = pending]
             s == [Saving(req[r], copy, "snapshot") EXCEPT !.todo = <<>>]
  <1>1. /\ Typed(req[r]) /\ Shape(req[r]) /\ req[r].pc = "tools"
        /\ req[r].saw = NoUse /\ req[r].todo # <<>>
    BY DEF IInv, Typing, ProposeTool, Shape
  <1>2. u \in Use /\ u.id \in Ids /\ Planned(req[r], u.id)
    BY <1>1, TodoFacts
  <1>3. pending \in Pending /\ pending.use = u
    BY <1>2 DEF resolveDestructiveExecutionMode, Pending, Modes
  <1>4. Become(r, s) /\ createPending(u, "pending_confirmation")
    BY DEF ProposeTool
  <1> HIDE DEF u, pending
  <1>5. IsSession(copy) /\ copy.pending = pending
    BY <1>1, <1>3 DEF Typed, IsSession
  <1> HIDE DEF copy
  <1>6. /\ DOMAIN s = Fields /\ s.pc = "save" /\ s.copy = copy /\ s.next = "snapshot"
        /\ s.base = req[r].base /\ s.todo = <<>> /\ s.use = req[r].use
        /\ s.saw = NoUse /\ s.left = req[r].left /\ s.outcome = req[r].outcome
    BY <1>1 DEF Saving, Typed, Fields
  <1> HIDE DEF s
  <1>7. Typed(s) /\ Shape(s)
    BY <1>1, <1>5, <1>6 DEF Typed, Shape, Steps, Closing
  <1>8. Distinct(s.todo) /\ \A i : ~Planned(s, i)
    BY <1>6, EmptyTodo
  <1>9. \A i \in Ids : Carries(s, i) => Planned(req[r], i)
    BY <1>2, <1>3, <1>5, <1>6 DEF Carries
  <1>10. QuietState(r, s)
    BY <1>1, <1>6, <1>7, <1>8, <1>9 DEF QuietState
  <1>11. QuietLogs(r, s)
    BY <1>1, <1>4, <1>8, FirstLogs DEF u
  <1>12. nextUse' \in nextUse .. MaxUses + 1
    BY DEF IInv, Typing, ProposeTool
  <1> QED BY <1>4, <1>10, <1>11, <1>12, QuietInv DEF Quiet, ProposeTool

LEMMA StartToolInv ==
    ASSUME IInv, NEW r \in Requests, StartTool(r)
    PROVE  IInv'
  <1> DEFINE u == Head(req[r].todo)
             s == [req[r] EXCEPT !.pc = "run", !.use = u, !.todo = Tail(@)]
  <1>1. /\ Typed(req[r]) /\ Shape(req[r]) /\ req[r].pc = "tools"
        /\ req[r].saw = NoUse /\ req[r].todo # <<>> /\ req[r].copy.pending = NoPending
    BY DEF IInv, Typing, StartTool, Shape
  <1>2. Become(r, s) /\ createPending(u, "started") /\ ~Destructive(u)
    BY DEF StartTool
  <1>3. /\ DOMAIN s = Fields /\ s.pc = "run" /\ s.copy = req[r].copy /\ s.next = req[r].next
        /\ s.base = req[r].base /\ s.todo = Tail(req[r].todo) /\ s.use = u
        /\ s.saw = NoUse /\ s.left = req[r].left /\ s.outcome = req[r].outcome
    BY <1>1 DEF Typed, Fields
  <1>4. u \in Use /\ Tail(req[r].todo) \in Seq(Use)
    BY <1>1, TodoFacts
  <1>5. ~Planned(s, u.id) /\ Distinct(s.todo) /\ \A i \in Ids : Planned(s, i) => Planned(req[r], i)
    <2>1. s.todo = Tail(req[r].todo) /\ u = Head(req[r].todo)
      BY <1>3
    <2> HIDE DEF s, u
    <2>2. \A t : t.todo = Tail(req[r].todo) =>
                 ~Planned(t, Head(req[r].todo).id) /\ \A i : Planned(t, i) => Planned(req[r], i)
      BY <1>1, TodoFacts
    <2>3. ~Planned(s, u.id) /\ \A i : Planned(s, i) => Planned(req[r], i)
      BY <2>1, <2>2
    <2>4. Distinct(s.todo)
      BY <1>1, <2>1, TodoFacts
    <2> QED BY <2>3, <2>4
  <1> HIDE DEF s, u
  <1>6. QuietLogs(r, s)
    <2>1. createPending(Head(req[r].todo), "started")
      BY <1>2 DEF u
    <2>2. ~Planned(s, Head(req[r].todo).id)
      BY <1>5 DEF u
    <2> QED BY <1>1, <2>1, <2>2, FirstLogs
  <1>7. Typed(s) /\ Shape(s)
    BY <1>1, <1>2, <1>3, <1>4 DEF Typed, Shape, Steps, Closing
  <1>8. QuietState(r, s)
    BY <1>1, <1>3, <1>5, <1>7 DEF QuietState, Carries
  <1>9. nextUse' \in nextUse .. MaxUses + 1
    BY DEF IInv, Typing, StartTool
  <1> QED BY <1>2, <1>6, <1>8, <1>9, QuietInv DEF Quiet, StartTool

-----------------------------------------------------------------------------
(* A tool runs.                                                            *)

LEMMA OutcomeFacts ==
    ASSUME NEW s, Typed(s), Shape(s), s.pc \in {"run", "sent"},
           NEW outcome \in {"completed", "failed"}
    PROVE  LET n == Outcome(s, outcome) IN
           /\ Typed(n) /\ Shape(n) /\ n.saw = s.saw /\ n.todo = s.todo
           /\ Begun(n) /\ ~Closing(s) /\ \A i : ~Carries(n, i)
           /\ n.pc = "complete"
  <1> DEFINE n == Outcome(s, outcome)
  <1>1. /\ DOMAIN n = Fields /\ n.pc = "complete" /\ n.copy = s.copy /\ n.next = s.next
        /\ n.base = s.base /\ n.todo = s.todo /\ n.use = s.use
        /\ n.saw = s.saw /\ n.left = 0 /\ n.confirmed = s.confirmed
        /\ n.outcome = outcome
    BY DEF Outcome, Typed, Fields
  <1> HIDE DEF n
  <1>2. Typed(n) /\ Shape(n)
    BY <1>1 DEF Typed, Shape, Steps, Closing
  <1>3. Begun(n) /\ ~Closing(s) /\ \A i : ~Carries(n, i)
    BY <1>1 DEF Begun, Closing, Carries
  <1> QED BY <1>1, <1>2, <1>3 DEF n

LEMMA OutcomeInv ==
    ASSUME IInv, NEW r \in Requests, req[r].pc \in {"run", "sent"},
           NEW outcome \in {"completed", "failed"},
           Become(r, Outcome(req[r], outcome)),
           UNCHANGED <<row, logs, runs, nextUse, contested, disturbed>>
    PROVE  IInv'
  <1> DEFINE n == Outcome(req[r], outcome)
  <1>1. Typed(req[r]) /\ Shape(req[r])
    BY DEF IInv, Typing
  <1>2. /\ Typed(n) /\ Shape(n) /\ n.saw = req[r].saw /\ n.todo = req[r].todo
        /\ Begun(n) /\ ~Closing(req[r]) /\ \A i : ~Carries(n, i)
        /\ n.pc = "complete"
    BY <1>1, OutcomeFacts
  <1> HIDE DEF n
  <1> QED BY <1>2, MemoryStep, SameLogs DEF n

(* Between the payments of one run.                                        *)
LEMMA PayingInv ==
    ASSUME IInv, NEW r \in Requests, NEW s, Become(r, s), req[r].pc \in {"run", "sent"},
           DOMAIN s = Fields, s.pc \in {"run", "sent"}, s.left \in Int, s.left > 0,
           s.copy = req[r].copy, s.base = req[r].base, s.todo = req[r].todo,
           s.use = req[r].use, s.saw = req[r].saw, s.confirmed = req[r].confirmed,
           s.outcome = req[r].outcome,
           UNCHANGED <<row, logs, runs, nextUse, contested, disturbed>>
    PROVE  IInv'
  <1>1. Typed(req[r]) /\ Shape(req[r])
    BY DEF IInv, Typing
  <1>2. Typed(s) /\ Shape(s)
    BY <1>1 DEF Typed, Shape, Steps, Closing
  <1>3. Begun(s) /\ ~Closing(req[r]) /\ \A i \in Ids : ~Carries(s, i)
    BY DEF Begun, Closing, Carries
  <1> QED BY <1>2, <1>3, MemoryStep, SameLogs

LEMMA ChainInv ==
    ASSUME IInv, NEW r \in Requests, RunTool(r) \/ Send(r) \/ Mined(r) \/ ChainFails(r)
    PROVE  IInv'
  <1>1. Typed(req[r]) /\ Shape(req[r])
    BY DEF IInv, Typing
  <1>2. CASE RunTool(r)
    BY <1>2, OutcomeInv DEF RunTool
  <1>3. CASE Send(r)
    BY <1>1, <1>3, PayingInv DEF Send, Typed, Fields
  <1>4. CASE Mined(r)
    <2>1. CASE req[r].left = 1
      BY <1>4, <2>1, OutcomeInv DEF Mined
    <2>2. CASE req[r].left # 1
      <3>1. req[r].left - 1 \in Int /\ req[r].left - 1 > 0
        BY <1>1, <1>4, <2>2 DEF Mined, Typed, Shape
      <3> QED BY <1>1, <1>4, <2>2, <3>1, PayingInv DEF Mined, Typed, Fields
    <2> QED BY <2>1, <2>2
  <1>5. CASE ChainFails(r)
    <2>1. req[r].pc \in {"run", "sent"} /\ req[r].left > 0
      BY <1>1, <1>5 DEF ChainFails, Shape
    <2>2. CASE Become(r, Outcome(req[r], "failed"))
      BY <1>5, <2>1, <2>2, OutcomeInv DEF ChainFails
    <2>3. CASE Become(r, [req[r] EXCEPT !.pc = "run", !.attempt = @ + 1])
      BY <1>1, <1>5, <2>1, <2>3, PayingInv DEF ChainFails, Typed, Fields
    <2> QED BY <1>5, <2>2, <2>3 DEF ChainFails
  <1> QED BY <1>2, <1>3, <1>4, <1>5

LEMMA CompleteToolInv ==
    ASSUME IInv, NEW r \in Requests, CompleteTool(r)
    PROVE  IInv'
  <1> DEFINE copy == [req[r].copy EXCEPT !.history = Append(@, Results({req[r].use}))]
             next == IF req[r].confirmed THEN "repair"
                     ELSE IF req[r].todo = <<>> THEN "model" ELSE "tools"
             s == [Saving(req[r], copy, next)
                   EXCEPT !.use = NoUse, !.confirmed = FALSE, !.outcome = "none"]
  <1>1. /\ Typed(req[r]) /\ Shape(req[r]) /\ req[r].pc = "complete"
        /\ req[r].copy.pending = NoPending
    BY DEF IInv, Typing, CompleteTool, Shape
  <1>2. Become(r, s)
    BY DEF CompleteTool
  <1>3. IsSession(copy) /\ copy.pending = NoPending
    BY <1>1 DEF Typed, IsSession
  <1>4. next \in {"repair", "model", "tools"} /\ (next = "tools" => req[r].todo # <<>>)
    OBVIOUS
  <1> HIDE DEF copy, next
  <1>5. /\ DOMAIN s = Fields /\ s.pc = "save" /\ s.copy = copy /\ s.next = next
        /\ s.base = req[r].base /\ s.todo = req[r].todo /\ s.use = NoUse
        /\ s.saw = req[r].saw /\ s.left = req[r].left /\ s.outcome = "none"
    BY <1>1 DEF Saving, Typed, Fields
  <1> HIDE DEF s
  <1>6. Typed(s) /\ Shape(s)
    BY <1>1, <1>3, <1>4, <1>5 DEF Typed, Shape, Steps, Closing
  <1>7. Begun(s) /\ ~Closing(req[r])
    BY <1>1, <1>4, <1>5 DEF Begun, Closing
  <1>8. \A i \in Ids : ~Carries(s, i)
    BY <1>3, <1>5, PendingFacts, UseFacts DEF Carries
  <1>9. QuietLogs(r, s)
    BY <1>1 DEF CompleteTool, QuietLogs, complete, IInv, Typing, Typed
  <1> QED BY <1>2, <1>5, <1>6, <1>7, <1>8, <1>9, MemoryStep DEF CompleteTool

-----------------------------------------------------------------------------
(* Requests that find a call in the row.                                   *)

\* r starts in state s, having loaded the row.
Loading(r, s) ==
    /\ req[r].pc = "idle" /\ Become(r, s) /\ Load(r)
    /\ UNCHANGED <<row, runs, disturbed>> /\ nextUse' = nextUse
    /\ Typed(s) /\ Shape(s) /\ s.todo = <<>>
    /\ s.saw = row.pending.use /\ s.pc # "write" /\ ~Begun(req[r])
    /\ \A i \in Ids : Carries(s, i) => Saw(s, i)
    /\ DOMAIN logs' = Ids
    /\ \A i \in Ids : \/ logs'[i] = logs[i]
                      \/ /\ Saw(s, i) /\ logs[i] # "none"
                         /\ logs'[i] = "cancelled" => Closing(s)

LEMMA LoadingFresh ==
    ASSUME IInv, NEW r \in Requests, NEW s, Loading(r, s)
    PROVE  FreshInv'
  <1>1. req'[r] = s /\ \A q \in Requests \ {r} : req'[q] = req[q]
    BY BecomeFacts DEF IInv, Loading
  <1>2. Distinct(s.todo) /\ \A i : ~Planned(s, i)
    BY EmptyTodo DEF Loading
  <1>3. ASSUME NEW i \in Ids, New(i)
        PROVE  New(i)'
    <2>1. ~Saw(s, i) /\ ~Carries(s, i)
      BY <1>3 DEF New, Saw, Loading
    <2>2. logs'[i] = "none"
      BY <1>3, <2>1 DEF New, Loading
    <2> QED BY <1>1, <1>3, <2>1, <2>2 DEF New, Loading
  <1>4. \A q \in Requests, i \in Ids : Planned(req'[q], i) => q # r /\ Planned(req[q], i)
    BY <1>1, <1>2
  <1>5. \A i \in Ids : i >= nextUse' => New(i)' /\ \A q \in Requests : ~Planned(req'[q], i)
    BY <1>3, <1>4 DEF IInv, FreshInv, Loading
  <1>6. \A i \in Ids, p \in Requests : Planned(req'[p], i) =>
           New(i)' /\ \A q \in Requests \ {p} : ~Planned(req'[q], i)
    BY <1>3, <1>4 DEF IInv, FreshInv
  <1>7. \A q \in Requests : Distinct(req'[q].todo)
    BY <1>1, <1>2 DEF IInv, FreshInv
  <1> QED BY <1>5, <1>6, <1>7 DEF FreshInv, Planned, Distinct

LEMMA LoadingUse ==
    ASSUME IInv, NEW r \in Requests, NEW s, Loading(r, s), NEW i \in Undisturbed'
    PROVE  UseOK(i)'
  <1>1. req'[r] = s /\ \A q \in Requests \ {r} : req'[q] = req[q]
    BY BecomeFacts DEF IInv, Loading
  <1>2. i \in Ids /\ UseOK(i) /\ i # 0 /\ NoUse.id = 0
    BY UseFacts DEF IInv, Loading, Load, Undisturbed, NoUse
  <1>3. ~Saw(req[r], i) /\ ~Carries(req[r], i)
    BY <1>2 DEF IInv, Shape, Loading, Saw, Carries
  <1>4. row' = row /\ runs' = runs /\ s.pc # "write"
    BY DEF Loading
  <1>5. CASE row.pending.use.id = i
    <2>1. ~Held(i)
      <3>1. \A q \in Requests \ {r} : ~Saw(req[q], i)
        BY <1>2, <1>5 DEF Loading, Load, Found, Undisturbed, Saw
      <3> QED BY <1>3, <3>1 DEF Held
    <2>2. runs[i] = 0 /\ logs[i] # "cancelled"
      BY <1>2, <1>5, <2>1 DEF UseOK
    <2>3. Saw(s, i)
      BY <1>5 DEF Loading, Saw
    <2>4. \A q \in Requests : Saw(req'[q], i) <=> q = r
      BY <1>1, <2>1, <2>3 DEF Held
    <2>5. Held(i)'
      BY <2>4 DEF Held, Saw
    <2>6. \A q \in Requests : Carries(req'[q], i) => q = r
      BY <1>1, <1>2, <1>5, <2>1 DEF UseOK, Held
    <2>7. logs'[i] = "cancelled" => Closing(s)
      BY <1>2, <2>2 DEF Loading
    <2> QED BY <1>1, <1>4, <2>2, <2>4, <2>5, <2>6, <2>7 DEF UseOK, Saw, Carries, Closing, Begun
  <1>6. CASE row.pending.use.id # i
    <2>1. ~Saw(s, i) /\ ~Carries(s, i) /\ logs'[i] = logs[i]
      BY <1>2, <1>6 DEF Loading, Saw
    <2>2. \A q \in Requests : /\ Saw(req'[q], i) => q # r /\ Saw(req[q], i)
                              /\ Carries(req'[q], i) => q # r /\ Carries(req[q], i)
      BY <1>1, <2>1
    <2>3. Held(i)' => Held(i)
      BY <2>2 DEF Held, Saw
    <2>4. \A q \in Requests : Saw(req'[q], i) => req'[q] = req[q]
      BY <1>1, <2>1
    <2>5. \A p, q \in Requests : Saw(req'[p], i) /\ Saw(req'[q], i) => p = q
      BY <1>2, <2>2 DEF UseOK
    <2>6. ASSUME NEW q \in Requests, Carries(req'[q], i), ~Saw(req'[q], i)
          PROVE  /\ ~Held(i)'
                 /\ runs[i] = 0 /\ logs'[i] # "cancelled"
                 /\ \A p \in Requests : Carries(req'[p], i) => p = q
      <3>1. q # r /\ Carries(req[q], i) /\ ~Saw(req[q], i)
        BY <1>1, <2>2, <2>6
      <3> QED BY <1>2, <2>1, <2>2, <2>3, <3>1 DEF UseOK
    <2>7. /\ runs[i] # 0 => \A q \in Requests : Saw(req'[q], i) => Begun(req'[q])
          /\ logs'[i] = "cancelled" =>
                runs[i] = 0 /\ \A q \in Requests : Saw(req'[q], i) => Closing(req'[q])
      BY <1>2, <2>1, <2>2, <2>4 DEF UseOK
    <2>8. runs[i] <= 1
      BY <1>2 DEF UseOK
    <2> QED BY <1>4, <1>6, <2>5, <2>6, <2>7, <2>8 DEF UseOK, Saw, Carries, Closing, Begun
  <1> QED BY <1>5, <1>6

LEMMA LoadingInv ==
    ASSUME IInv, NEW r \in Requests, NEW s, Loading(r, s)
    PROVE  IInv'
  <1>1. req'[r] = s /\ DOMAIN req' = Requests /\ \A q \in Requests \ {r} : req'[q] = req[q]
    BY BecomeFacts DEF IInv, Loading
  <1>2. \A q \in Requests : Typed(req'[q]) /\ Shape(req'[q])
    BY <1>1 DEF IInv, Typing, Loading
  <1>3. Typing'
    BY <1>1, <1>2 DEF IInv, Typing, Loading
  <1> QED BY <1>2, <1>3, LoadingFresh, LoadingUse DEF IInv

LEMMA IdleStart ==
    ASSUME IInv, NEW r \in Requests, req[r].pc = "idle"
    PROVE  /\ ~Begun(req[r])
           /\ IsSession(row) /\ DOMAIN logs = Ids /\ IsSession(ClearPending(row))
           /\ ClearPending(row).pending = NoPending
           /\ row.pending.use \in Use \cup {NoUse}
           /\ row.pending # NoPending => row.pending.use \in Use
    BY SessionFacts, PendingFacts DEF IInv, Typing, Begun, Closing, IsSession

\* complete() for the call in the row.
LEMMA LoadingLogs ==
    ASSUME IInv, NEW s, s.saw = row.pending.use, NEW status, complete(row.pending.use, status),
           status = "cancelled" => Closing(s)
    PROVE  /\ DOMAIN logs' = Ids
           /\ \A i \in Ids : \/ logs'[i] = logs[i]
                             \/ /\ Saw(s, i) /\ logs[i] # "none"
                                /\ logs'[i] = "cancelled" => Closing(s)
    BY DEF IInv, Typing, complete, Saw

LEMMA ChatInv ==
    ASSUME IInv, NEW r \in Requests, Chat(r)
    PROVE  IInv'
  <1> DEFINE loaded == [Idle EXCEPT !.copy = row, !.saw = row.pending.use]
             saved == Saving(loaded, row, "compose")
             unsaved == [loaded EXCEPT !.pc = "compose"]
  <1>1. req[r].pc = "idle" /\ Load(r) /\ UNCHANGED <<row, logs, runs, nextUse, disturbed>>
    BY DEF Chat
  <1>2. /\ ~Begun(req[r]) /\ IsSession(row) /\ DOMAIN logs = Ids
        /\ row.pending.use \in Use \cup {NoUse}
    BY <1>1, IdleStart
  <1>3. ASSUME row = NoSession, NEW sandbox,
               Become(r, Saving(Idle, [NoSession EXCEPT !.sandbox = sandbox], "compose"))
        PROVE  IInv'
    <2> DEFINE copy == [NoSession EXCEPT !.sandbox = sandbox]
               s == Saving(Idle, copy, "compose")
    <2>1. IsSession(copy) /\ copy.pending = NoPending /\ NoSession.pending = NoPending
      BY NoSessionFacts
    <2> HIDE DEF copy
    <2>2. /\ DOMAIN s = Fields /\ s.pc = "save" /\ s.copy = copy /\ s.next = "compose"
          /\ s.base = Idle.base /\ s.todo = <<>> /\ s.use = Idle.use
          /\ s.saw = NoUse /\ s.left = Idle.left /\ s.outcome = Idle.outcome
      BY SavingFacts, IdleFacts
    <2> HIDE DEF s
    <2>3. Typed(s) /\ Shape(s)
      BY <2>1, <2>2, IdleFacts, PendingFacts DEF Typed, Shape, Steps, Closing
    <2>4. \A i \in Ids : ~Carries(s, i)
      BY <2>1, <2>2, PendingFacts, UseFacts DEF Carries
    <2>5. s.saw = row.pending.use
      BY <1>3, <2>1, <2>2, PendingFacts
    <2>6. Become(r, s)
      BY <1>3 DEF s, copy
    <2>7. Loading(r, s)
      BY <1>1, <1>2, <2>2, <2>3, <2>4, <2>5, <2>6 DEF Loading
    <2> QED BY <2>7, LoadingInv
  <1>4. /\ DOMAIN loaded = Fields /\ loaded.copy = row /\ loaded.saw = row.pending.use
        /\ loaded.base = Idle.base /\ loaded.todo = <<>> /\ loaded.use = Idle.use
        /\ loaded.left = Idle.left /\ loaded.outcome = Idle.outcome
    BY DEF Idle, Fields
  <1>5. CASE Become(r, saved)
    <2>1. /\ DOMAIN saved = Fields /\ saved.pc = "save" /\ saved.copy = row
          /\ saved.next = "compose" /\ saved.base = Idle.base /\ saved.todo = <<>>
          /\ saved.use = Idle.use /\ saved.saw = row.pending.use
          /\ saved.left = Idle.left /\ saved.outcome = Idle.outcome
      BY <1>4 DEF Saving, Fields
    <2> HIDE DEF saved
    <2>2. Typed(saved) /\ Shape(saved) /\ \A i \in Ids : Carries(saved, i) => Saw(saved, i)
      BY <1>2, <2>1, IdleFacts DEF Typed, Shape, Steps, Closing, Carries, Saw
    <2>3. Loading(r, saved)
      BY <1>1, <1>2, <1>5, <2>1, <2>2 DEF Loading
    <2> QED BY <2>3, LoadingInv
  <1>6. CASE Become(r, unsaved)
    <2>1. /\ DOMAIN unsaved = Fields /\ unsaved.pc = "compose" /\ unsaved.copy = row
          /\ unsaved.base = Idle.base /\ unsaved.todo = <<>>
          /\ unsaved.use = Idle.use /\ unsaved.saw = row.pending.use
          /\ unsaved.left = Idle.left /\ unsaved.outcome = Idle.outcome
      BY <1>4 DEF Fields
    <2> HIDE DEF unsaved
    <2>2. Typed(unsaved) /\ Shape(unsaved) /\ \A i \in Ids : ~Carries(unsaved, i)
      BY <1>2, <2>1, IdleFacts DEF Typed, Shape, Steps, Closing, Carries
    <2>3. Loading(r, unsaved)
      BY <1>1, <1>2, <1>6, <2>1, <2>2 DEF Loading
    <2> QED BY <2>3, LoadingInv
  <1> QED BY <1>3, <1>5, <1>6 DEF Chat

LEMMA ApproveInv ==
    ASSUME IInv, NEW r \in Requests, Approve(r)
    PROVE  IInv'
  <1> DEFINE u == row.pending.use
             s == [Idle EXCEPT !.pc = "run", !.copy = ClearPending(row),
                               !.use = u, !.confirmed = TRUE, !.saw = u]
  <1>1. /\ req[r].pc = "idle" /\ Load(r) /\ row.pending # NoPending
        /\ Become(r, s) /\ UNCHANGED <<row, logs, runs, nextUse, disturbed>>
    BY DEF Approve, HasPending
  <1>2. /\ ~Begun(req[r]) /\ DOMAIN logs = Ids /\ u \in Use
        /\ IsSession(ClearPending(row)) /\ ClearPending(row).pending = NoPending
    BY <1>1, IdleStart
  <1>3. /\ DOMAIN s = Fields /\ s.pc = "run" /\ s.copy = ClearPending(row)
        /\ s.base = Idle.base /\ s.todo = <<>> /\ s.use = u /\ s.saw = u
        /\ s.confirmed = TRUE /\ s.left = Idle.left /\ s.outcome = Idle.outcome
    BY DEF Idle, Fields
  <1> HIDE DEF s
  <1>4. Typed(s) /\ Shape(s) /\ \A i \in Ids : ~Carries(s, i)
    BY <1>2, <1>3, IdleFacts DEF Typed, Shape, Steps, Closing, Carries
  <1>5. Loading(r, s)
    BY <1>1, <1>2, <1>3, <1>4 DEF Loading
  <1> QED BY <1>5, LoadingInv

\* The pending call is rejected, or its result comes from the client.
LEMMA CloseInv ==
    ASSUME IInv, NEW r \in Requests, req[r].pc = "idle", HasPending, NEW status,
           complete(row.pending.use, status), NEW history, NEW next \in {"snapshot", "repair"},
           Become(r, Saving([Idle EXCEPT !.saw = row.pending.use],
                            [ClearPending(row) EXCEPT !.history = history], next)),
           Load(r), UNCHANGED <<row, runs, nextUse, disturbed>>
    PROVE  IInv'
  <1> DEFINE u == row.pending.use
             copy == [ClearPending(row) EXCEPT !.history = history]
             s == Saving([Idle EXCEPT !.saw = u], copy, next)
  <1>1. ~Begun(req[r]) /\ u \in Use
    BY IdleStart DEF HasPending
  <1>2. IsSession(copy) /\ copy.pending = NoPending
    BY IdleStart, SessionFacts
  <1>3. Become(r, s)
    OBVIOUS
  <1> HIDE DEF copy
  <1>4. /\ DOMAIN s = Fields /\ s.pc = "save" /\ s.copy = copy /\ s.next = next
        /\ s.base = Idle.base /\ s.todo = <<>> /\ s.use = Idle.use
        /\ s.saw = u /\ s.left = Idle.left /\ s.outcome = Idle.outcome
    BY DEF Saving, Idle, Fields
  <1> HIDE DEF s
  <1>5. Typed(s) /\ Shape(s) /\ Closing(s)
    BY <1>1, <1>2, <1>4, IdleFacts DEF Typed, Shape, Steps, Closing
  <1>6. \A i \in Ids : ~Carries(s, i)
    BY <1>2, <1>4, PendingFacts, UseFacts DEF Carries
  <1>7. /\ DOMAIN logs' = Ids
        /\ \A i \in Ids : \/ logs'[i] = logs[i]
                          \/ /\ Saw(s, i) /\ logs[i] # "none"
                             /\ logs'[i] = "cancelled" => Closing(s)
    BY <1>4, <1>5, LoadingLogs
  <1>8. Loading(r, s)
    BY <1>1, <1>3, <1>4, <1>5, <1>6, <1>7 DEF Loading
  <1> QED BY <1>8, LoadingInv

LEMMA RejectInv ==
    ASSUME IInv, NEW r \in Requests, Reject(r)
    PROVE  IInv'
  <1> DEFINE u == row.pending.use
             history == ClearPending(row).history \o <<Results({u}), AssistantMessage({})>>
  <1>1. Become(r, Saving([Idle EXCEPT !.saw = u], [ClearPending(row) EXCEPT !.history = history],
                         "snapshot"))
    BY DEF Reject
  <1>2. /\ req[r].pc = "idle" /\ HasPending /\ complete(u, "cancelled") /\ Load(r)
        /\ UNCHANGED <<row, runs, nextUse, disturbed>>
    BY DEF Reject
  <1> HIDE DEF history
  <1> QED BY <1>1, <1>2, CloseInv

LEMMA SubmitInv ==
    ASSUME IInv, NEW r \in Requests, NEW status \in {"completed", "failed"},
           SubmitClientToolResult(r, status)
    PROVE  IInv'
  <1> DEFINE u == row.pending.use
             history == Append(ClearPending(row).history, Results({u}))
  <1>1. Become(r, Saving([Idle EXCEPT !.saw = u], [ClearPending(row) EXCEPT !.history = history],
                         "repair"))
    BY DEF SubmitClientToolResult
  <1>2. /\ req[r].pc = "idle" /\ HasPending /\ complete(u, status) /\ Load(r)
        /\ UNCHANGED <<row, runs, nextUse, disturbed>>
    BY DEF SubmitClientToolResult
  <1> HIDE DEF history
  <1> QED BY <1>1, <1>2, CloseInv

-----------------------------------------------------------------------------
(* The steps that write calls off, run them, and write the row.            *)

LEMMA ComposeInv ==
    ASSUME IInv, NEW r \in Requests, Compose(r)
    PROVE  IInv'
  <1> DEFINE p == req[r].copy.pending
             history == req[r].copy.history \o
                           (IF p = NoPending THEN <<>> ELSE <<Results({p.use})>>) \o <<UserMessage>>
             copy == [ClearPending(req[r].copy) EXCEPT !.history = history]
             s == Saving(req[r], copy, "repair")
  <1>1. /\ Typed(req[r]) /\ Shape(req[r]) /\ req[r].pc = "compose"
        /\ p.use = req[r].saw /\ IsSession(req[r].copy)
    BY DEF IInv, Typing, Compose, Shape, Typed
  <1>2. /\ logs' = logs \/ complete(p.use, "cancelled")
        /\ UNCHANGED <<row, runs, nextUse, contested, disturbed>>
    BY DEF Compose
  <1>3. Become(r, s)
    <2>1. ClearPending(req[r].copy).history = req[r].copy.history
      BY <1>1 DEF ClearPending, IsSession
    <2> QED BY <1>1, <2>1 DEF Compose, IsSession, ClearPending
  <1> HIDE DEF history
  <1>4. IsSession(copy) /\ copy.pending = NoPending
    BY <1>1, SessionFacts
  <1> HIDE DEF copy
  <1>5. /\ DOMAIN s = Fields /\ s.pc = "save" /\ s.copy = copy /\ s.next = "repair"
        /\ s.base = req[r].base /\ s.todo = req[r].todo /\ s.use = req[r].use
        /\ s.saw = req[r].saw /\ s.left = req[r].left /\ s.outcome = req[r].outcome
    BY <1>1 DEF Saving, Typed, Fields
  <1> HIDE DEF s
  <1>6. Typed(s) /\ Shape(s) /\ Closing(s) /\ Begun(s) /\ ~Begun(req[r]) /\ ~Closing(req[r])
    BY <1>1, <1>4, <1>5 DEF Typed, Shape, Steps, Closing, Begun
  <1>7. /\ \A i \in Ids : ~Carries(s, i) /\ ~Carries(req[r], i)
        /\ \A i : Saw(s, i) <=> Saw(req[r], i)
        /\ \A i : Planned(s, i) <=> Planned(req[r], i)
    BY <1>1, <1>4, <1>5, PendingFacts, UseFacts DEF Carries, Saw, Planned
  <1>8. /\ DOMAIN logs' = Ids
        /\ \A i \in Ids : \/ logs'[i] = logs[i]
                          \/ Saw(req[r], i) /\ logs[i] # "none"
    BY <1>1, <1>2 DEF IInv, Typing, complete, Saw
  <1>9. req'[r] = s /\ DOMAIN req' = Requests /\ \A q \in Requests \ {r} : req'[q] = req[q]
    BY <1>3, BecomeFacts DEF IInv
  <1>10. \A q \in Requests : Typed(req'[q]) /\ Shape(req'[q])
    BY <1>6, <1>9 DEF IInv, Typing
  <1>11. Typing'
    BY <1>2, <1>8, <1>9, <1>10 DEF IInv, Typing
  <1>12. \A q \in Requests, i \in Ids :
            /\ Saw(req'[q], i) <=> Saw(req[q], i)
            /\ Planned(req'[q], i) <=> Planned(req[q], i)
            /\ Carries(req'[q], i) <=> Carries(req[q], i)
    BY <1>7, <1>9
  <1>13. FreshInv'
    <2>1. ASSUME NEW i \in Ids, New(i) PROVE New(i)'
      BY <1>2, <1>8, <1>12, <2>1 DEF New
    <2>2. \A q \in Requests : Distinct(req'[q].todo)
      BY <1>5, <1>9 DEF IInv, FreshInv
    <2>3. \A i \in Ids : i >= nextUse' => New(i)' /\ \A q \in Requests : ~Planned(req'[q], i)
      BY <1>2, <1>12, <2>1 DEF IInv, FreshInv
    <2>4. \A i \in Ids, o \in Requests : Planned(req'[o], i) =>
             New(i)' /\ \A q \in Requests \ {o} : ~Planned(req'[q], i)
      BY <1>12, <2>1 DEF IInv, FreshInv
    <2> QED BY <2>2, <2>3, <2>4 DEF FreshInv, Planned, Distinct
  <1>14. ASSUME NEW i \in Undisturbed' PROVE UseOK(i)'
    <2>1. i \in Ids /\ UseOK(i)
      BY <1>2 DEF IInv, Undisturbed
    <2>2. Held(i)' <=> Held(i)
      BY <1>12, <2>1 DEF Held, Saw
    <2>3. \A q \in Requests \ {r} : req'[q] = req[q]
      BY <1>9
    <2>4. ASSUME Saw(req[r], i)
          PROVE  /\ runs[i] = 0 /\ Held(i)
                 /\ \A q \in Requests : Saw(req'[q], i) => q = r
                 /\ \A q \in Requests : Carries(req'[q], i) => Saw(req'[q], i)
      <3>1. Held(i) /\ \A q \in Requests : Saw(req[q], i) => q = r
        BY <2>1, <2>4 DEF UseOK, Held
      <3>2. runs[i] = 0
        BY <1>6, <2>1, <2>4 DEF UseOK
      <3>3. \A q \in Requests : Carries(req[q], i) => Saw(req[q], i)
        BY <2>1, <3>1 DEF UseOK
      <3> QED BY <1>12, <2>1, <3>1, <3>2, <3>3
    <2>5. CASE Saw(req[r], i)
      BY <1>2, <1>5, <1>6, <1>9, <2>2, <2>4, <2>5 DEF UseOK, Saw, Carries, Closing, Begun
    <2>6. CASE ~Saw(req[r], i)
      <3>1. logs'[i] = logs[i] /\ row' = row /\ runs' = runs
        BY <1>2, <1>8, <2>1, <2>6
      <3>2. \A q \in Requests : Saw(req'[q], i) => req'[q] = req[q]
        BY <1>9, <1>12, <2>1, <2>6
      <3>3. \A o, q \in Requests : Saw(req'[o], i) /\ Saw(req'[q], i) => o = q
        BY <1>12, <2>1 DEF UseOK
      <3>4. \A q \in Requests : Carries(req'[q], i) /\ ~Saw(req'[q], i) =>
               /\ row.pending.use.id # i /\ ~Held(i)
               /\ runs[i] = 0 /\ logs[i] # "cancelled"
               /\ \A o \in Requests : Carries(req'[o], i) => o = q
        BY <1>12, <2>1 DEF UseOK
      <3>5. \A q \in Requests :
               Saw(req'[q], i) /\ Closing(req'[q]) /\ req'[q].pc = "write" /\ row.pending.use.id = i
                  => req'[q].base.pending.use.id = i
        BY <2>1, <3>2 DEF UseOK
      <3>6. /\ runs[i] <= 1
            /\ runs[i] # 0 => /\ \A q \in Requests : Saw(req'[q], i) => Begun(req'[q])
                              /\ row.pending.use.id = i => Held(i)
            /\ logs[i] = "cancelled" =>
                  /\ runs[i] = 0
                  /\ \A q \in Requests : Saw(req'[q], i) => Closing(req'[q])
                  /\ row.pending.use.id = i => Held(i)
        BY <1>12, <2>1, <3>2 DEF UseOK
      <3> QED
        BY <2>2, <3>1, <3>3, <3>4, <3>5, <3>6 DEF UseOK, Saw, Carries, Closing, Begun
    <2> QED BY <2>5, <2>6
  <1> QED BY <1>10, <1>11, <1>13, <1>14 DEF IInv

LEMMA BeginToolInv ==
    ASSUME IInv, NEW r \in Requests, BeginTool(r)
    PROVE  IInv'
  <1> DEFINE u == req[r].use
             s == [req[r] EXCEPT !.left = Rounds(u), !.attempt = 1]
  <1>1. /\ Typed(req[r]) /\ Shape(req[r]) /\ req[r].pc = "run" /\ req[r].left = 0
        /\ u \in Use /\ u = req[r].saw /\ req[r].confirmed
    BY DEF IInv, Typing, BeginTool, Shape
  <1>2. /\ Become(r, s) /\ runs' = [runs EXCEPT ![u.id] = @ + 1]
        /\ UNCHANGED <<row, logs, nextUse, contested, disturbed>>
    BY DEF BeginTool
  <1>3. Rounds(u) \in Nat \ {0}
    BY DEF Rounds
  <1>4. /\ DOMAIN s = Fields /\ s.pc = "run" /\ s.copy = req[r].copy /\ s.next = req[r].next
        /\ s.base = req[r].base /\ s.todo = req[r].todo /\ s.use = u
        /\ s.saw = req[r].saw /\ s.left = Rounds(u) /\ s.outcome = req[r].outcome
        /\ s.confirmed = req[r].confirmed
    BY <1>1 DEF Typed, Fields
  <1> HIDE DEF s
  <1>5. Typed(s) /\ Shape(s) /\ Begun(s) /\ ~Begun(req[r]) /\ ~Closing(s) /\ ~Closing(req[r])
    BY <1>1, <1>3, <1>4 DEF Typed, Shape, Steps, Closing, Begun
  <1>6. req'[r] = s /\ DOMAIN req' = Requests /\ \A q \in Requests \ {r} : req'[q] = req[q]
    BY <1>2, BecomeFacts DEF IInv
  <1>7. \A q \in Requests : Typed(req'[q]) /\ Shape(req'[q])
    BY <1>5, <1>6 DEF IInv, Typing
  <1>8. u.id \in Ids /\ Saw(req[r], u.id)
    BY <1>1, UseFacts DEF Saw
  <1>9. runs' \in [Ids -> Nat] /\ runs'[u.id] = runs[u.id] + 1
        /\ \A i \in Ids \ {u.id} : runs'[i] = runs[i]
    BY <1>2, <1>8 DEF IInv, Typing
  <1>10. Typing'
    BY <1>2, <1>6, <1>7, <1>9 DEF IInv, Typing
  <1>11. \A q \in Requests, i \in Ids :
            /\ Saw(req'[q], i) <=> Saw(req[q], i)
            /\ Planned(req'[q], i) <=> Planned(req[q], i)
            /\ Carries(req'[q], i) <=> Carries(req[q], i)
    BY <1>1, <1>4, <1>6 DEF Saw, Planned, Carries
  <1>12. FreshInv'
    <2>1. ASSUME NEW i \in Ids, New(i) PROVE New(i)'
      BY <1>2, <1>8, <1>9, <1>11, <2>1 DEF New
    <2>2. \A q \in Requests : Distinct(req'[q].todo)
      BY <1>4, <1>6 DEF IInv, FreshInv
    <2>3. \A i \in Ids : i >= nextUse' => New(i)' /\ \A q \in Requests : ~Planned(req'[q], i)
      BY <1>2, <1>11, <2>1 DEF IInv, FreshInv
    <2>4. \A i \in Ids, o \in Requests : Planned(req'[o], i) =>
             New(i)' /\ \A q \in Requests \ {o} : ~Planned(req'[q], i)
      BY <1>11, <2>1 DEF IInv, FreshInv
    <2> QED BY <2>2, <2>3, <2>4 DEF FreshInv, Planned, Distinct
  <1>13. ASSUME NEW i \in Undisturbed' PROVE UseOK(i)'
    <2>1. i \in Ids /\ UseOK(i)
      BY <1>2 DEF IInv, Undisturbed
    <2>2. Held(i)' <=> Held(i)
      BY <1>11, <2>1 DEF Held, Saw
    <2>3. \A o, q \in Requests : Saw(req'[o], i) /\ Saw(req'[q], i) => o = q
      BY <1>11, <2>1 DEF UseOK
    <2>4. \A q \in Requests \ {r} : req'[q] = req[q]
      BY <1>6
    <2>5. \A q \in Requests :
             Saw(req'[q], i) /\ Closing(req'[q]) /\ req'[q].pc = "write" /\ row.pending.use.id = i
                => req'[q].base.pending.use.id = i
      BY <1>5, <1>6, <2>1 DEF UseOK
    <2>6. CASE i = u.id
      <3>1. Saw(req[r], i) /\ Held(i)
        BY <1>8, <2>6 DEF Held
      <3>2. runs[i] = 0 /\ logs[i] # "cancelled"
        BY <1>5, <2>1, <3>1 DEF UseOK
      <3>3. \A q \in Requests : Carries(req'[q], i) => Saw(req'[q], i)
        BY <1>11, <2>1, <3>1 DEF UseOK
      <3>4. \A q \in Requests : Saw(req'[q], i) => Begun(req'[q])
        BY <1>5, <1>6, <1>11, <2>1, <2>3, <3>1
      <3>5. runs'[i] = 1
        BY <1>9, <2>6, <3>2
      <3> QED
        BY <1>2, <2>2, <2>3, <2>5, <3>1, <3>2, <3>3, <3>4, <3>5
           DEF UseOK, Saw, Carries, Closing, Begun
    <2>7. CASE i # u.id
      <3>1. ~Saw(req[r], i) /\ runs'[i] = runs[i]
        BY <1>1, <1>9, <2>1, <2>7 DEF Saw
      <3>2. \A q \in Requests : Saw(req'[q], i) => req'[q] = req[q]
        BY <1>6, <1>11, <2>1, <3>1
      <3>3. \A q \in Requests : Carries(req'[q], i) /\ ~Saw(req'[q], i) =>
               /\ row.pending.use.id # i /\ ~Held(i)
               /\ runs[i] = 0 /\ logs[i] # "cancelled"
               /\ \A o \in Requests : Carries(req'[o], i) => o = q
        BY <1>11, <2>1 DEF UseOK
      <3>4. /\ runs[i] <= 1
            /\ runs[i] # 0 => /\ \A q \in Requests : Saw(req'[q], i) => Begun(req'[q])
                              /\ row.pending.use.id = i => Held(i)
            /\ logs[i] = "cancelled" =>
                  /\ runs[i] = 0
                  /\ \A q \in Requests : Saw(req'[q], i) => Closing(req'[q])
                  /\ row.pending.use.id = i => Held(i)
        BY <1>11, <2>1, <3>2 DEF UseOK
      <3> QED
        BY <1>2, <2>2, <2>3, <2>5, <3>1, <3>3, <3>4 DEF UseOK, Saw, Carries, Closing, Begun
    <2> QED BY <2>6, <2>7
  <1> QED BY <1>7, <1>10, <1>12, <1>13 DEF IInv

\* What a save makes of the row's pending call.
LEMMA WrittenRow ==
    ASSUME IInv, NEW r \in Requests,
           row' = IF req[r].base = NoSession THEN req[r].copy
                  ELSE IF row = NoSession THEN row
                  ELSE ChangedColumns(req[r].copy, req[r].base)
    PROVE  /\ IsSession(row')
           /\ \/ row'.pending = req[r].copy.pending
              \/ /\ row'.pending = row.pending
                 /\ req[r].base.pending = req[r].copy.pending \/ row.pending = NoPending
  <1> DEFINE copy == req[r].copy
             base == req[r].base
  <1>1. IsSession(copy) /\ IsSession(base) /\ IsSession(row)
    BY DEF IInv, Typing, Typed
  <1>2. CASE base = NoSession
    BY <1>1, <1>2
  <1>3. CASE base # NoSession /\ row = NoSession
    BY <1>1, <1>3, NoSessionFacts
  <1>4. CASE base # NoSession /\ row # NoSession
    <2>1. row' = ChangedColumns(copy, base)
      BY <1>4
    <2> HIDE DEF copy, base
    <2>2. /\ DOMAIN row' = {"history", "pending", "sandbox"}
          /\ row'.pending = IF copy.pending # base.pending THEN copy.pending ELSE row.pending
      BY <1>1, <2>1 DEF ChangedColumns, IsSession
    <2>3. IsSession(row')
      BY <1>1, <2>2 DEF IsSession
    <2> QED BY <2>2, <2>3 DEF copy, base
  <1> QED BY <1>2, <1>3, <1>4

LEMMA SaveWriteInv ==
    ASSUME IInv, NEW r \in Requests, SaveWrite(r)
    PROVE  IInv'
  <1> DEFINE s == req[r]
             n == [s EXCEPT !.pc = s.next, !.next = "idle", !.base = NoSession,
                            !.saw = IF s.copy.pending.use = s.saw THEN @ ELSE NoUse]
  <1>1. /\ Typed(s) /\ Shape(s) /\ s.pc = "write"
        /\ UNCHANGED <<logs, runs, nextUse, contested>>
    BY DEF IInv, Typing, SaveWrite
  <1>2. CASE Abandon(r) /\ UNCHANGED row
    BY <1>1, <1>2, AbandonInv, SameLogs
  <1>3. CASE /\ row' = IF s.base = NoSession THEN s.copy
                       ELSE IF row = NoSession THEN row
                       ELSE ChangedColumns(s.copy, s.base)
             /\ Become(r, n) /\ UNCHANGED disturbed
    <2>1. /\ IsSession(row')
          /\ \/ row'.pending = s.copy.pending
             \/ /\ row'.pending = row.pending
                /\ s.base.pending = s.copy.pending \/ row.pending = NoPending
      BY <1>3, WrittenRow
    <2>2. /\ req'[r] = n /\ DOMAIN req' = Requests
          /\ \A q \in Requests \ {r} : req'[q] = req[q]
      BY <1>3, BecomeFacts DEF IInv
    <2> HIDE DEF s
    <2>3. /\ DOMAIN n = Fields /\ n.pc = s.next /\ n.copy = s.copy
          /\ n.base = NoSession /\ n.todo = s.todo /\ n.use = s.use
          /\ n.saw = IF s.copy.pending.use = s.saw THEN s.saw ELSE NoUse
          /\ n.left = s.left /\ n.outcome = s.outcome
      BY <1>1 DEF Typed, Fields
    <2> HIDE DEF n
    <2>4. s.next \in {"compose", "repair", "model", "tools", "snapshot"}
      BY <1>1 DEF Shape
    <2>5. s.saw # NoUse /\ s.copy.pending.use = s.saw <=> s.saw # NoUse /\ s.next = "compose"
      BY <1>1, PendingFacts DEF Shape, Closing
    <2>6. Typed(n)
      BY <1>1, <2>3, <2>4, NoSessionFacts DEF Typed, Steps
    <2>7. Shape(n)
      BY <1>1, <2>3, <2>4, <2>5 DEF Shape, Closing
    <2>8. /\ \A i \in Ids : ~Carries(n, i)
          /\ \A i \in Ids : Planned(n, i) <=> Planned(s, i)
          /\ \A i \in Ids : Saw(n, i) <=> Saw(s, i) /\ s.next = "compose"
      BY <1>1, <2>3, <2>4, <2>5, UseFacts DEF Carries, Planned, Saw, NoUse
    <2>9. \A q \in Requests : Typed(req'[q]) /\ Shape(req'[q])
      BY <2>2, <2>6, <2>7 DEF IInv, Typing
    <2>10. Typing'
      BY <1>1, <2>1, <2>2, <2>9 DEF IInv, Typing
    <2>11. \A q \in Requests, i \in Ids :
              /\ Saw(req'[q], i) => Saw(req[q], i)
              /\ Planned(req'[q], i) <=> Planned(req[q], i)
              /\ Carries(req'[q], i) => q # r /\ Carries(req[q], i)
      BY <2>2, <2>8 DEF s
    <2>12. \A i \in Ids : row'.pending.use.id = i =>
              row.pending.use.id = i \/ Carries(s, i)
      BY <1>1, <2>1 DEF Carries
    <2>13. FreshInv'
      <3>1. ASSUME NEW i \in Ids, New(i) PROVE New(i)'
        BY <1>1, <2>11, <2>12, <3>1 DEF New, s
      <3>2. \A q \in Requests : Distinct(req'[q].todo)
        BY <2>2, <2>3 DEF IInv, FreshInv, s
      <3>3. \A i \in Ids : i >= nextUse' => New(i)' /\ \A q \in Requests : ~Planned(req'[q], i)
        BY <1>1, <2>11, <3>1 DEF IInv, FreshInv
      <3>4. \A i \in Ids, o \in Requests : Planned(req'[o], i) =>
               New(i)' /\ \A q \in Requests \ {o} : ~Planned(req'[q], i)
        BY <2>11, <3>1 DEF IInv, FreshInv
      <3> QED BY <3>2, <3>3, <3>4 DEF FreshInv, Planned, Distinct
    <2>14. ASSUME NEW i \in Undisturbed' PROVE UseOK(i)'
      <3>1. i \in Ids /\ UseOK(i) /\ i # 0 /\ NoPending.use.id = 0
        BY <1>1, <1>3, UseFacts DEF IInv, Undisturbed, NoPending, NoUse
      <3>2. logs'[i] = logs[i] /\ runs'[i] = runs[i]
        BY <1>1
      <3>3. \A o, q \in Requests : Saw(req'[o], i) /\ Saw(req'[q], i) => o = q
        BY <2>11, <3>1 DEF UseOK
      <3>4. CASE Saw(s, i) /\ s.next = "compose"
        \* the call is written back by its holder, which goes on to cancel it
        <4>1. ~Begun(s) /\ ~Closing(s) /\ Held(i)
          BY <1>1, <3>4 DEF Begun, Closing, Held, s
        <4>2. runs[i] = 0 /\ logs[i] # "cancelled"
          BY <3>1, <3>4, <4>1 DEF UseOK, s
        <4>3. \A q \in Requests : Carries(req'[q], i) => Saw(req'[q], i)
          BY <2>2, <2>11, <3>1, <4>1 DEF UseOK
        <4>4. \A q \in Requests : Saw(req'[q], i) => q = r
          BY <2>11, <3>1, <3>4 DEF UseOK, s
        <4> QED
          BY <2>2, <2>3, <3>2, <3>3, <3>4, <4>2, <4>3, <4>4
             DEF UseOK, Saw, Carries, Closing, Begun
      <3>5. CASE Saw(s, i) /\ s.next # "compose"
        \* the call has been dealt with: the row does not name it any more
        <4>1. Closing(s) /\ s.copy.pending = NoPending
          BY <1>1, <3>1, <3>5, UseFacts DEF Closing, Shape, Saw, NoUse
        <4>2. row.pending.use.id = i => s.base.pending.use.id = i
          BY <1>1, <3>1, <3>5, <4>1 DEF UseOK, s
        <4>3. row'.pending.use.id # i
          BY <2>1, <3>1, <4>1, <4>2
        <4>4. \A q \in Requests : ~Saw(req'[q], i)
          BY <2>2, <2>8, <2>11, <3>1, <3>5 DEF UseOK, s
        <4>5. \A q \in Requests : ~Carries(req'[q], i)
          <5>1. Held(i)
            BY <3>5 DEF Held, s
          <5>2. \A q \in Requests : Carries(req[q], i) => Saw(req[q], i)
            BY <3>1, <5>1 DEF UseOK
          <5>3. \A q \in Requests : Saw(req[q], i) => q = r
            BY <3>1, <3>5 DEF UseOK, s
          <5> QED BY <2>11, <3>1, <5>2, <5>3
        <4> QED
          BY <3>1, <3>2, <4>3, <4>4, <4>5 DEF UseOK, Saw, Carries, Closing, Begun, Held
      <3>6. CASE ~Saw(s, i) /\ Carries(s, i)
        \* the call is proposed
        <4>1. /\ ~Held(i) /\ runs[i] = 0 /\ logs[i] # "cancelled"
              /\ \A q \in Requests : Carries(req[q], i) => q = r
          BY <3>1, <3>6 DEF UseOK, s
        <4>2. \A q \in Requests : ~Saw(req'[q], i) /\ ~Carries(req'[q], i)
          BY <2>11, <3>1, <4>1 DEF Held
        <4> QED BY <3>2, <4>1, <4>2 DEF UseOK, Saw, Carries, Closing, Begun
      <3>7. CASE ~Saw(s, i) /\ ~Carries(s, i)
        <4>1. row'.pending.use.id = i => row.pending.use.id = i
          BY <2>12, <3>1, <3>7
        <4>2. \A q \in Requests : Saw(req[q], i) => q # r /\ req'[q] = req[q]
          BY <2>2, <3>7 DEF s
        <4>3. Held(i)' <=> Held(i)
          BY <2>11, <3>1, <4>2 DEF Held, Saw
        <4>4. \A q \in Requests : Saw(req'[q], i) => Saw(req[q], i) /\ req'[q] = req[q]
          BY <2>11, <3>1, <4>2
        <4>5. \A q \in Requests : Carries(req'[q], i) /\ ~Saw(req'[q], i) =>
                 /\ row.pending.use.id # i /\ ~Held(i)
                 /\ runs[i] = 0 /\ logs[i] # "cancelled"
                 /\ \A o \in Requests : Carries(req'[o], i) => o = q
          <5>1. SUFFICES ASSUME NEW q \in Requests, Carries(req'[q], i), ~Saw(req'[q], i)
                         PROVE  /\ row.pending.use.id # i /\ ~Held(i)
                                /\ runs[i] = 0 /\ logs[i] # "cancelled"
                                /\ \A o \in Requests : Carries(req'[o], i) => o = q
            OBVIOUS
          <5>2. Carries(req[q], i) /\ ~Saw(req[q], i)
            BY <2>2, <2>11, <3>1, <5>1
          <5> QED BY <2>11, <3>1, <5>2 DEF UseOK
        <4>6. \A q \in Requests :
                 Saw(req'[q], i) /\ Closing(req'[q]) /\ req'[q].pc = "write"
                    /\ row'.pending.use.id = i
                 => req'[q].base.pending.use.id = i
          BY <3>1, <4>1, <4>4 DEF UseOK
        <4>7. /\ runs[i] <= 1
              /\ runs[i] # 0 => /\ \A q \in Requests : Saw(req'[q], i) => Begun(req'[q])
                                /\ row'.pending.use.id = i => Held(i)
              /\ logs[i] = "cancelled" =>
                    /\ runs[i] = 0
                    /\ \A q \in Requests : Saw(req'[q], i) => Closing(req'[q])
                    /\ row'.pending.use.id = i => Held(i)
          BY <3>1, <4>1, <4>4 DEF UseOK
        <4> QED
          BY <3>2, <3>3, <4>1, <4>3, <4>5, <4>6, <4>7 DEF UseOK, Saw, Carries, Closing, Begun
      <3> QED BY <3>4, <3>5, <3>6, <3>7
    <2> QED BY <2>9, <2>10, <2>13, <2>14 DEF IInv
  <1> QED BY <1>1, <1>2, <1>3 DEF SaveWrite

LEMMA DeleteSessionInv ==
    ASSUME IInv, NEW r \in Requests, DeleteSession(r)
    PROVE  IInv'
  <1>1. /\ row' = NoSession /\ disturbed' = disturbed \cup Found(row.pending)
        /\ UNCHANGED <<logs, req, runs, nextUse, contested>>
    BY DEF DeleteSession
  <1>2. IsSession(row') /\ row'.pending = NoPending /\ NoPending.use.id = 0
    BY <1>1, NoSessionFacts DEF NoPending, NoUse
  <1>3. Typing' /\ \A q \in Requests : Shape(req[q])'
    BY <1>1, <1>2 DEF IInv, Typing
  <1>4. \A i \in Ids : New(i) => New(i)'
    BY <1>1, <1>2, UseFacts DEF New, Saw, Carries
  <1>5. FreshInv'
    <2>1. \A i \in Ids : i >= nextUse' => New(i)' /\ \A q \in Requests : ~Planned(req'[q], i)
      BY <1>1, <1>4 DEF IInv, FreshInv
    <2>2. \A i \in Ids, o \in Requests : Planned(req'[o], i) =>
             New(i)' /\ \A q \in Requests \ {o} : ~Planned(req'[q], i)
      BY <1>1, <1>4 DEF IInv, FreshInv
    <2> QED BY <1>1, <2>1, <2>2 DEF IInv, FreshInv, Planned, Distinct
  <1>6. ASSUME NEW i \in Undisturbed' PROVE UseOK(i)'
    <2>1. i \in Ids /\ UseOK(i) /\ i # 0
      BY <1>1, UseFacts DEF IInv, Undisturbed
    <2> QED BY <1>1, <1>2, <2>1 DEF UseOK, Saw, Carries, Closing, Begun, Held
  <1> QED BY <1>3, <1>5, <1>6 DEF IInv

-----------------------------------------------------------------------------
(* The theorems.                                                           *)

LEMMA InitInv == Init => IInv
  <1> SUFFICES ASSUME Init PROVE IInv
    OBVIOUS
  <1>1. \A r \in Requests : req[r] = Idle
    BY DEF Init
  <1>2. IsSession(row) /\ row.pending = NoPending /\ NoPending.use.id = 0 /\ NoUse.id = 0
    BY NoSessionFacts DEF Init, NoPending, NoUse
  <1>3. Typing
    BY <1>1, <1>2, IdleFacts DEF Typing, Init
  <1>4. \A r \in Requests, i \in Ids :
           ~Saw(req[r], i) /\ ~Carries(req[r], i) /\ ~Planned(req[r], i)
    BY <1>1, <1>2, IdleFacts, EmptyTodo, UseFacts DEF Saw, Carries
  <1>5. \A i \in Ids : New(i)
    BY <1>2, <1>4, UseFacts DEF New, Init
  <1>6. FreshInv
    BY <1>1, <1>4, <1>5, IdleFacts, EmptyTodo DEF FreshInv
  <1>7. \A i \in Undisturbed : UseOK(i)
    BY <1>4, <1>5 DEF UseOK, New, Undisturbed
  <1> QED BY <1>1, <1>3, <1>6, <1>7, IdleFacts DEF IInv

LEMMA StutterInv ==
    ASSUME IInv, UNCHANGED vars
    PROVE  IInv'
  BY DEF vars, IInv, Typing, FreshInv, New, Undisturbed, UseOK, Held

LEMMA NextInv ==
    ASSUME IInv, [Next]_vars
    PROVE  IInv'
  <1>1. ASSUME NEW r \in Requests, Step(r)
        PROVE  IInv'
    <2>1. CASE SaveSelect(r) \/ SaveWrite(r)
      BY <2>1, SaveSelectInv, SaveWriteInv
    <2>2. CASE Chat(r) \/ Compose(r) \/ Repair(r) \/ AskModel(r)
      BY <2>2, ChatInv, ComposeInv, RepairInv, AskModelInv
    <2>3. CASE ModelFails(r) \/ ToolThrows(r) \/ Crash(r)
      BY <2>3, FailuresInv
    <2>4. CASE ProposeTool(r) \/ StartTool(r) \/ Reply(r)
      BY <2>4, ProposeToolInv, StartToolInv, ReplyInv
    <2>5. CASE Approve(r) \/ Reject(r)
      BY <2>5, ApproveInv, RejectInv
    <2>6. CASE \E status \in {"completed", "failed"} : SubmitClientToolResult(r, status)
      BY <2>6, SubmitInv
    <2>7. CASE RunTool(r) \/ Send(r) \/ Mined(r) \/ ChainFails(r)
      BY <2>7, ChainInv
    <2>8. CASE BeginTool(r) \/ CompleteTool(r) \/ DeleteSession(r)
      BY <2>8, BeginToolInv, CompleteToolInv, DeleteSessionInv
    <2> QED BY <1>1, <2>1, <2>2, <2>3, <2>4, <2>5, <2>6, <2>7, <2>8 DEF Step
  <1> QED BY <1>1, StutterInv DEF Next

\* The invariant: who knows of a call, and what became of it.
THEOREM AgentInvariant == Spec => []IInv
  <1>1. IInv /\ [Next]_vars => IInv'
    BY NextInv
  <1> QED BY InitInv, <1>1, PTL DEF Spec

(* A destructive call runs once, however many requests of the conversation *)
(* overlap: confirm, chat and client-tool-result save copies of the row,   *)
(* and a copy that is stale never brings back a call that has been run.    *)
THEOREM RunsOnce == Spec => []RunOnce
  <1>1. IInv => RunOnce
    BY DEF IInv, UseOK, RunOnce
  <1> QED BY AgentInvariant, <1>1, PTL

(* A call that was rejected, or superseded by a new message, is not run,   *)
(* then or later.                                                          *)
THEOREM CancelledStays == Spec => []CancelledNotRun
  <1>1. IInv => CancelledNotRun
    BY DEF IInv, UseOK, CancelledNotRun
  <1> QED BY AgentInvariant, <1>1, PTL

-----------------------------------------------------------------------------
(* One request at a time: the log and the session.                         *)

Serial == \E r \in Requests : Requests = {r}

\* The call that awaits its confirmation when the request's save is done.
Awaiting(s) == IF s.pc \in {"save", "write"} THEN s.copy.pending.use ELSE row.pending.use

(* Until it has written the row, a request that holds a call is the one    *)
(* that the row names, and the log follows what it is about to write.      *)
LogOK(r) ==
    /\ req[r].pc \notin {"idle", "snapshot"} => row.pending.use = req[r].saw
    /\ req[r].pc = "write" => req[r].base = row
    /\ req[r].pc = "complete" => req[r].outcome \in {"completed", "failed"}
    /\ \A i \in Undisturbed : logs[i] = "pending_confirmation" <=> Awaiting(req[r]).id = i

\* A step to state s that leaves the row alone.
LEMMA LogStep ==
    ASSUME IInv, NEW r \in Requests, NEW s, Become(r, s), row' = row,
           s.pc \notin {"idle", "snapshot"} => row.pending.use = s.saw,
           s.pc = "write" => s.base = row,
           s.pc = "complete" => s.outcome \in {"completed", "failed"},
           \A i \in Undisturbed' : logs'[i] = "pending_confirmation" <=> Awaiting(s).id = i
    PROVE  LogOK(r)'
  <1>1. req'[r] = s
    BY BecomeFacts DEF IInv
  <1>2. Awaiting(req[r])' = Awaiting(s)
    BY <1>1 DEF Awaiting
  <1> QED BY <1>1, <1>2 DEF LogOK

\* The same, when neither the log nor what awaits confirmation changes.
LEMMA LogSame ==
    ASSUME IInv, NEW r \in Requests, LogOK(r), NEW s, Become(r, s),
           UNCHANGED <<row, logs>>, Undisturbed' \subseteq Undisturbed,
           s.pc \notin {"idle", "snapshot"} => row.pending.use = s.saw,
           s.pc = "write" => s.base = row,
           s.pc = "complete" => s.outcome \in {"completed", "failed"},
           \A i \in Undisturbed' : Awaiting(req[r]).id = i <=> Awaiting(s).id = i
    PROVE  LogOK(r)'
  BY LogStep DEF LogOK

\* A call that is completed, or cancelled, awaits nothing.
LEMMA LogClosed ==
    ASSUME IInv, NEW u, NEW status \in {"completed", "failed", "cancelled"}, complete(u, status)
    PROVE  \A i \in Ids : logs'[i] = "pending_confirmation" <=>
                             logs[i] = "pending_confirmation" /\ u.id # i
  BY DEF IInv, Typing, complete

LEMMA LogAbandon ==
    ASSUME IInv, NEW r \in Requests, LogOK(r), req[r].pc # "idle", Abandon(r),
           UNCHANGED <<row, contested>>,
           \/ UNCHANGED logs
           \/ req[r].pc \in {"run", "complete"} /\ complete(req[r].use, "failed")
    PROVE  LogOK(r)'
  <1>1. Typed(req[r]) /\ Shape(req[r]) /\ req[r].saw \in Use \cup {NoUse}
    BY DEF IInv, Typing, Typed
  <1>2. Idle.pc = "idle" /\ Undisturbed' \subseteq Undisturbed /\ Undisturbed \subseteq Ids
    BY IdleFacts DEF Abandon, Undisturbed
  <1>3. ASSUME NEW i \in Undisturbed'
        PROVE  logs'[i] = "pending_confirmation" <=> row.pending.use.id = i
    <2>1. i # 0 /\ req[r].saw.id # i
      BY UseFacts DEF Abandon, Unsaved, Found, Undisturbed
    <2>2. i \in Ids /\ (logs[i] = "pending_confirmation" <=> Awaiting(req[r]).id = i)
      BY <1>2 DEF LogOK
    <2>3. CASE req[r].pc \in {"save", "write"}
      <3>1. req[r].copy.pending.use.id # i
        BY <2>1, <2>3 DEF Abandon, Unsaved, Found, Undisturbed
      <3> QED BY <2>1, <2>2, <2>3, <3>1 DEF LogOK, Awaiting
    <2>4. CASE req[r].pc \notin {"save", "write"} /\ UNCHANGED logs
      BY <2>2, <2>4 DEF Awaiting
    <2>5. CASE req[r].pc \in {"run", "complete"} /\ complete(req[r].use, "failed")
      <3>1. row.pending.use.id # i
        BY <2>1, <2>5 DEF LogOK
      <3>2. logs[i] # "pending_confirmation"
        BY <2>2, <2>5, <3>1 DEF Awaiting
      <3> QED BY <2>2, <2>5, <3>1, <3>2, LogClosed
    <2> QED BY <2>3, <2>4, <2>5
  <1>4. Become(r, Idle)
    BY DEF Abandon
  <1>5. Awaiting(Idle) = row.pending.use
    BY <1>2 DEF Awaiting
  <1> QED BY <1>2, <1>3, <1>4, <1>5, LogStep

\* Saves.
LEMMA LogSave ==
    ASSUME IInv, NEW r \in Requests, LogOK(r), SaveSelect(r) \/ SaveWrite(r)
    PROVE  LogOK(r)'
  <1>1. Typed(req[r]) /\ Shape(req[r]) /\ IsSession(row) /\ IsSession(req[r].copy)
    BY DEF IInv, Typing, Typed
  <1>2. CASE SaveSelect(r)
    <2> DEFINE s == [req[r] EXCEPT !.pc = "write", !.base = row]
    <2>1. /\ s.pc = "write" /\ s.base = row /\ s.saw = req[r].saw /\ s.copy = req[r].copy
          /\ req[r].pc = "save" /\ Become(r, s)
      BY <1>1, <1>2 DEF Typed, Fields, SaveSelect
    <2>2. UNCHANGED <<row, logs, contested, disturbed>>
      BY <1>2 DEF SaveSelect
    <2>3. row.pending.use = s.saw /\ Awaiting(s) = Awaiting(req[r])
      BY <2>1 DEF LogOK, Awaiting
    <2> HIDE DEF s
    <2> QED BY <2>1, <2>2, <2>3, LogSame DEF Undisturbed
  <1>3. CASE SaveWrite(r)
    <2> DEFINE s == req[r]
               n == [s EXCEPT !.pc = s.next, !.next = "idle", !.base = NoSession,
                              !.saw = IF s.copy.pending.use = s.saw THEN @ ELSE NoUse]
    <2>1. s.pc = "write" /\ s.base = row /\ UNCHANGED <<logs, contested, disturbed>>
      BY <1>3 DEF SaveWrite, LogOK
    <2>2. row' = IF row = NoSession THEN s.copy ELSE ChangedColumns(s.copy, row)
      BY <1>3, <2>1 DEF SaveWrite
    <2>3. Become(r, n)
      BY <1>3, <2>1 DEF SaveWrite
    <2>4. row'.pending = s.copy.pending
      BY <1>1, <2>2 DEF ChangedColumns, IsSession
    <2>5. req'[r] = n
      BY <2>3, BecomeFacts DEF IInv
    <2>6. /\ n.pc = s.next /\ n.saw = IF s.copy.pending.use = s.saw THEN s.saw ELSE NoUse
          /\ s.next \in {"compose", "repair", "model", "tools", "snapshot"}
      BY <1>1, <2>1 DEF Typed, Fields, Shape
    <2>7. s.next # "snapshot" => row'.pending.use = n.saw
      <3>1. CASE s.next = "compose"
        BY <1>1, <2>1, <2>4, <2>6, <3>1 DEF Shape
      <3>2. CASE s.next \in {"repair", "model", "tools"}
        <4>1. s.copy.pending = NoPending
          BY <1>1, <2>1, <3>2 DEF Shape, Closing
        <4> QED BY <2>4, <2>6, <4>1, PendingFacts
      <3> QED BY <2>6, <3>1, <3>2
    <2> HIDE DEF n
    <2>8. Awaiting(req[r])' = Awaiting(s)
      BY <2>1, <2>4, <2>5, <2>6 DEF Awaiting
    <2> QED BY <2>1, <2>5, <2>6, <2>7, <2>8 DEF LogOK, Undisturbed
  <1> QED BY <1>2, <1>3

\* The actions that take up the row.
LEMMA LogBegin ==
    ASSUME IInv, NEW r \in Requests, LogOK(r),
           Chat(r) \/ Approve(r) \/ Reject(r)
             \/ \E status \in {"completed", "failed"} : SubmitClientToolResult(r, status)
    PROVE  LogOK(r)'
  <1>1. /\ req[r].pc = "idle" /\ UNCHANGED <<row, disturbed>> /\ contested \subseteq contested'
        /\ Undisturbed' \subseteq Undisturbed /\ Undisturbed \subseteq Ids
    BY DEF Chat, Approve, Reject, SubmitClientToolResult, Load, Undisturbed
  <1>2. IsSession(row) /\ DOMAIN Idle = Fields /\ Idle.pc = "idle"
        /\ Idle.saw = NoUse
    BY IdleFacts DEF IInv, Typing
  <1>3. Awaiting(req[r]) = row.pending.use
    BY <1>1 DEF Awaiting
  <1>4. CASE Chat(r)
    <2> DEFINE loaded == [Idle EXCEPT !.copy = row, !.saw = row.pending.use]
               saved == Saving(loaded, row, "compose")
               unsaved == [loaded EXCEPT !.pc = "compose"]
    <2>1. UNCHANGED logs
      BY <1>4 DEF Chat
    <2>2. ASSUME row = NoSession, NEW sandbox,
                 Become(r, Saving(Idle, [NoSession EXCEPT !.sandbox = sandbox], "compose"))
          PROVE  LogOK(r)'
      <3> DEFINE copy == [NoSession EXCEPT !.sandbox = sandbox]
                 s == Saving(Idle, copy, "compose")
      <3>1. copy.pending = NoPending /\ row.pending = NoPending
        BY <2>2, NoSessionFacts
      <3> HIDE DEF copy
      <3>2. s.pc = "save" /\ s.saw = NoUse /\ s.copy = copy
        BY <1>2, SavingFacts
      <3>3. Become(r, s)
        BY <2>2 DEF copy
      <3> HIDE DEF s
      <3> QED BY <1>1, <1>3, <2>1, <3>1, <3>2, <3>3, LogSame, PendingFacts DEF Awaiting
    <2>3. /\ DOMAIN loaded = Fields /\ loaded.saw = row.pending.use
          /\ unsaved.pc = "compose" /\ unsaved.saw = row.pending.use
      BY <1>2 DEF Fields
    <2> HIDE DEF loaded
    <2>4. saved.pc = "save" /\ saved.saw = row.pending.use /\ saved.copy = row
      BY <2>3, SavingFacts
    <2> HIDE DEF saved, unsaved
    <2>5. Awaiting(saved) = row.pending.use /\ Awaiting(unsaved) = row.pending.use
      BY <2>3, <2>4 DEF Awaiting
    <2>6. ASSUME Become(r, saved) \/ Become(r, unsaved)
          PROVE  LogOK(r)'
      BY <1>1, <1>3, <2>1, <2>3, <2>4, <2>5, <2>6, LogSame
    <2> QED BY <1>4, <2>2, <2>6 DEF Chat, loaded, saved, unsaved
  <1>5. CASE Approve(r)
    <2> DEFINE s == [Idle EXCEPT !.pc = "run", !.copy = ClearPending(row),
                              !.use = row.pending.use, !.confirmed = TRUE,
                              !.saw = row.pending.use]
    <2>1. s.pc = "run" /\ s.saw = row.pending.use
      BY <1>2 DEF Fields
    <2>2. Become(r, s) /\ UNCHANGED logs
      BY <1>5 DEF Approve
    <2> HIDE DEF s
    <2> QED BY <1>1, <1>3, <2>1, <2>2, LogSame DEF Awaiting
  <1>6. ASSUME NEW status \in {"completed", "failed", "cancelled"},
               complete(row.pending.use, status), NEW history, NEW next,
               Become(r, Saving([Idle EXCEPT !.saw = row.pending.use],
                                [ClearPending(row) EXCEPT !.history = history], next))
        PROVE  LogOK(r)'
    <2> DEFINE copy == [ClearPending(row) EXCEPT !.history = history]
               held == [Idle EXCEPT !.saw = row.pending.use]
               s == Saving(held, copy, next)
    <2>1. copy.pending = NoPending
      BY <1>2, SessionFacts
    <2>2. DOMAIN held = Fields /\ held.saw = row.pending.use
      BY <1>2 DEF Fields
    <2> HIDE DEF copy, held
    <2>3. s.pc = "save" /\ s.saw = row.pending.use /\ s.copy = copy
      BY <2>2, SavingFacts
    <2>4. Become(r, s)
      BY <1>6 DEF copy, held
    <2> HIDE DEF s
    <2>5. \A i \in Ids : Awaiting(s).id # i
      BY <2>1, <2>3, PendingFacts, UseFacts DEF Awaiting
    <2>6. \A i \in Undisturbed' : logs'[i] # "pending_confirmation"
      BY <1>1, <1>3, <1>6, LogClosed DEF LogOK
    <2> QED BY <1>1, <2>3, <2>4, <2>5, <2>6, LogStep
  <1>7. CASE Reject(r)
    <2> DEFINE copy == [ClearPending(row) EXCEPT
                           !.history = @ \o <<Results({row.pending.use}), AssistantMessage({})>>]
    <2>1. copy = [ClearPending(row) EXCEPT !.history = ClearPending(row).history
                     \o <<Results({row.pending.use}), AssistantMessage({})>>]
      OBVIOUS
    <2> QED BY <1>6, <1>7, <2>1 DEF Reject
  <1>8. CASE \E status \in {"completed", "failed"} : SubmitClientToolResult(r, status)
    <2> PICK status \in {"completed", "failed"} : SubmitClientToolResult(r, status)
      BY <1>8
    <2> DEFINE copy == [ClearPending(row) EXCEPT !.history = Append(@, Results({row.pending.use}))]
    <2>1. copy = [ClearPending(row) EXCEPT !.history =
                     Append(ClearPending(row).history, Results({row.pending.use}))]
      OBVIOUS
    <2> QED BY <1>6, <2>1 DEF SubmitClientToolResult
  <1> QED BY <1>4, <1>5, <1>7, <1>8

\* A new message, the model's answer, and its calls.
LEMMA LogTurn ==
    ASSUME IInv, NEW r \in Requests, LogOK(r),
           Compose(r) \/ Repair(r) \/ AskModel(r) \/ Reply(r)
    PROVE  LogOK(r)'
  <1>1. /\ Typed(req[r]) /\ Shape(req[r]) /\ IsSession(req[r].copy) /\ DOMAIN req[r] = Fields
        /\ Undisturbed \subseteq Ids
    BY DEF IInv, Typing, Typed, Undisturbed
  <1>2. UNCHANGED <<row, contested, disturbed>> /\ Undisturbed' = Undisturbed
    BY DEF Compose, Repair, AskModel, Reply, Undisturbed
  <1>3. CASE Compose(r)
    <2> DEFINE pending == req[r].copy.pending
               cancelled == IF pending = NoPending THEN <<>> ELSE <<Results({pending.use})>>
               copy == [ClearPending(req[r].copy) EXCEPT !.history = @ \o cancelled \o <<UserMessage>>]
               s == Saving(req[r], copy, "repair")
    <2>1. req[r].pc = "compose" /\ row.pending.use = req[r].saw /\ pending.use = req[r].saw
      BY <1>1, <1>3 DEF Compose, LogOK, Shape
    <2>2. IF pending = NoPending THEN UNCHANGED logs ELSE complete(pending.use, "cancelled")
      BY <1>3 DEF Compose
    <2>3. Become(r, s)
      BY <1>3 DEF Compose
    <2>4. copy.pending = NoPending
      BY <1>1 DEF IsSession, ClearPending
    <2>5. \A i \in Undisturbed : logs[i] = "pending_confirmation" <=> pending.use.id = i
      BY <2>1 DEF LogOK, Awaiting
    <2>6. \A i \in Undisturbed : logs'[i] # "pending_confirmation"
      <3>1. CASE pending = NoPending
        BY <1>1, <2>2, <2>5, <3>1, PendingFacts, UseFacts
      <3>2. CASE pending # NoPending
        BY <1>1, <2>2, <2>5, <3>2, LogClosed
      <3> QED BY <3>1, <3>2
    <2> HIDE DEF copy
    <2>7. s.pc = "save" /\ s.saw = req[r].saw /\ s.copy = copy
      BY <1>1, SavingFacts
    <2> HIDE DEF s
    <2>8. \A i \in Ids : Awaiting(s).id # i
      BY <2>4, <2>7, PendingFacts, UseFacts DEF Awaiting
    <2> QED BY <1>1, <1>2, <2>1, <2>3, <2>6, <2>7, <2>8, LogStep
  <1>4. ASSUME req[r].pc \in {"repair", "model"}, NEW s, Become(r, s), UNCHANGED logs,
               s.saw = req[r].saw, s.copy.pending = req[r].copy.pending, s.pc \in {"model", "save"}
        PROVE  LogOK(r)'
    <2>1. row.pending.use = req[r].saw /\ req[r].saw = NoUse /\ req[r].copy.pending = NoPending
      BY <1>1, <1>4 DEF LogOK, Shape
    <2>2. Awaiting(s) = NoUse /\ Awaiting(req[r]) = NoUse
      BY <1>4, <2>1, PendingFacts DEF Awaiting
    <2> QED BY <1>2, <1>4, <2>1, <2>2, LogSame
  <1>5. CASE Repair(r)
    <2> DEFINE repaired == repairMissingToolResults(req[r].copy.history)
               in == [req[r] EXCEPT !.pc = "model"]
               copy == [req[r].copy EXCEPT !.history = repaired]
               out == Saving(req[r], copy, "model")
    <2>1. in.pc = "model" /\ in.saw = req[r].saw /\ in.copy = req[r].copy
      BY <1>1 DEF Fields
    <2>2. copy.pending = req[r].copy.pending
      BY <1>1, SessionFacts
    <2> HIDE DEF copy
    <2>3. out.pc = "save" /\ out.saw = req[r].saw /\ out.copy = copy
      BY <1>1, SavingFacts
    <2>4. /\ req[r].pc = "repair" /\ UNCHANGED logs
          /\ Become(r, in) \/ Become(r, out)
      BY <1>5 DEF Repair, copy
    <2> HIDE DEF in, out
    <2> QED BY <1>4, <2>1, <2>2, <2>3, <2>4
  <1>6. CASE AskModel(r)
    <2>1. PICK kinds \in UNION {[1 .. n -> ToolKinds] : n \in 0 .. MaxUses + 1 - nextUse} :
             LET uses == [n \in DOMAIN kinds |-> [id |-> nextUse + n - 1, tool |-> kinds[n]]] IN
             Become(r, [Saving(req[r], [req[r].copy EXCEPT !.history =
                                            Append(@, AssistantMessage(ToSet(uses)))],
                               IF uses = <<>> THEN "snapshot" ELSE "tools")
                        EXCEPT !.todo = uses])
      BY <1>6 DEF AskModel
    <2> DEFINE uses == [n \in DOMAIN kinds |-> [id |-> nextUse + n - 1, tool |-> kinds[n]]]
               copy == [req[r].copy EXCEPT !.history = Append(@, AssistantMessage(ToSet(uses)))]
               saving == Saving(req[r], copy, IF uses = <<>> THEN "snapshot" ELSE "tools")
               s == [saving EXCEPT !.todo = uses]
    <2>2. Become(r, s)
      BY <2>1
    <2>3. copy.pending = req[r].copy.pending
      BY <1>1 DEF IsSession
    <2> HIDE DEF copy, uses
    <2>4. DOMAIN saving = Fields /\ saving.pc = "save" /\ saving.saw = req[r].saw
          /\ saving.copy = copy
      BY <1>1, SavingFacts
    <2> HIDE DEF saving
    <2>5. s.pc = "save" /\ s.saw = req[r].saw /\ s.copy = copy
      BY <2>4 DEF Fields
    <2> HIDE DEF s
    <2>6. req[r].pc = "model" /\ UNCHANGED logs
      BY <1>6 DEF AskModel
    <2> QED BY <1>4, <2>2, <2>3, <2>5, <2>6
  <1>7. CASE Reply(r)
    <2>1. req[r].pc = "snapshot" /\ Become(r, Idle) /\ UNCHANGED logs /\ Idle.pc = "idle"
      BY <1>7, IdleFacts DEF Reply
    <2>2. Awaiting(req[r]) = Awaiting(Idle)
      BY <2>1 DEF Awaiting
    <2> QED BY <1>2, <2>1, <2>2, LogSame
  <1> QED BY <1>3, <1>5, <1>6, <1>7

\* The first of the calls that are left.
LEMMA LogPropose ==
    ASSUME IInv, NEW r \in Requests, LogOK(r), ProposeTool(r) \/ StartTool(r)
    PROVE  LogOK(r)'
  <1> DEFINE u == Head(req[r].todo)
  <1>1. /\ Typed(req[r]) /\ Shape(req[r]) /\ req[r].pc = "tools"
        /\ DOMAIN req[r] = Fields /\ IsSession(req[r].copy) /\ DOMAIN logs = Ids
        /\ UNCHANGED <<row, contested, disturbed>>
    BY DEF IInv, Typing, Typed, ProposeTool, StartTool
  <1>2. /\ Undisturbed' = Undisturbed /\ Undisturbed \subseteq Ids
        /\ req[r].saw = NoUse /\ row.pending.use = NoUse
    BY <1>1 DEF Shape, LogOK, Undisturbed
  <1>3. \A i \in Undisturbed : logs[i] # "pending_confirmation"
    BY <1>1, <1>2, UseFacts DEF LogOK, Awaiting
  <1>4. u \in Use /\ u.id \in Ids
    BY <1>1, TodoFacts, UseFacts DEF Typed, Shape
  <1>5. CASE ProposeTool(r)
    <2> DEFINE pending == [use |-> u, mode |-> resolveDestructiveExecutionMode(req[r].copy.sandbox, u)]
               copy == [req[r].copy EXCEPT !.history = @ \o Deferred(Tail(req[r].todo)),
                                           !.pending = pending]
               saving == Saving(req[r], copy, "snapshot")
               s == [saving EXCEPT !.todo = <<>>]
    <2>1. copy.pending.use = u
      BY <1>1 DEF IsSession
    <2>2. Become(r, s) /\ logs' = [logs EXCEPT ![u.id] = "pending_confirmation"]
      BY <1>5 DEF ProposeTool, createPending
    <2> HIDE DEF copy, u
    <2>3. DOMAIN saving = Fields /\ saving.pc = "save" /\ saving.saw = NoUse /\ saving.copy = copy
      BY <1>1, <1>2, SavingFacts
    <2> HIDE DEF saving
    <2>4. s.pc = "save" /\ s.saw = NoUse /\ s.copy = copy
      BY <2>3 DEF Fields
    <2> HIDE DEF s
    <2>5. \A i \in Undisturbed : logs'[i] = "pending_confirmation" <=> u.id = i
      BY <1>1, <1>2, <1>3, <2>2
    <2>6. Awaiting(s) = u
      BY <2>1, <2>4 DEF Awaiting
    <2> QED BY <1>1, <1>2, <2>2, <2>4, <2>5, <2>6, LogStep
  <1>6. CASE StartTool(r)
    <2> DEFINE s == [req[r] EXCEPT !.pc = "run", !.use = u, !.todo = Tail(@)]
    <2>1. s.pc = "run" /\ s.saw = NoUse
      BY <1>1, <1>2 DEF Fields
    <2>2. Become(r, s) /\ logs' = [logs EXCEPT ![u.id] = "started"]
      BY <1>6 DEF StartTool, createPending
    <2> HIDE DEF s, u
    <2>3. \A i \in Undisturbed : logs'[i] # "pending_confirmation"
      BY <1>1, <1>2, <1>3, <2>2
    <2>4. \A i \in Ids : Awaiting(s).id # i
      BY <1>2, <2>1, UseFacts DEF Awaiting
    <2> QED BY <1>1, <1>2, <2>1, <2>2, <2>3, <2>4, LogStep
  <1> QED BY <1>5, <1>6

\* While a tool runs, nothing is logged.
LEMMA LogRun ==
    ASSUME IInv, NEW r \in Requests, LogOK(r),
           RunTool(r) \/ BeginTool(r) \/ Send(r) \/ Mined(r) \/ ChainFails(r)
    PROVE  LogOK(r)'
  <1>1. /\ DOMAIN req[r] = Fields /\ req[r].pc \in {"run", "sent"}
        /\ UNCHANGED <<row, logs, contested, disturbed>>
    BY DEF IInv, Typing, Typed, RunTool, BeginTool, Send, Mined, ChainFails
  <1>2. ASSUME NEW s, Become(r, s), s.saw = req[r].saw, s.pc \in {"run", "sent", "complete"},
               s.pc = "complete" => s.outcome \in {"completed", "failed"}
        PROVE  LogOK(r)'
    <2>1. Awaiting(s) = Awaiting(req[r])
      BY <1>1, <1>2 DEF Awaiting
    <2>2. row.pending.use = s.saw
      BY <1>1, <1>2 DEF LogOK
    <2> QED BY <1>1, <1>2, <2>1, <2>2, LogSame DEF Undisturbed
  <1>3. ASSUME NEW outcome \in {"completed", "failed"}, Become(r, Outcome(req[r], outcome))
        PROVE  LogOK(r)'
    <2> DEFINE s == Outcome(req[r], outcome)
    <2>1. s.pc = "complete" /\ s.outcome = outcome /\ s.saw = req[r].saw
      BY <1>1 DEF Outcome, Fields
    <2> HIDE DEF s
    <2> QED BY <1>2, <1>3, <2>1 DEF s
  <1>4. ASSUME NEW pc \in {"run", "sent"}, NEW left, NEW attempt,
               Become(r, [req[r] EXCEPT !.pc = pc, !.left = left, !.attempt = attempt])
        PROVE  LogOK(r)'
    <2> DEFINE s == [req[r] EXCEPT !.pc = pc, !.left = left, !.attempt = attempt]
    <2>1. s.pc = pc /\ s.saw = req[r].saw
      BY <1>1 DEF Fields
    <2> HIDE DEF s
    <2> QED BY <1>2, <1>4, <2>1 DEF s
  <1>5. CASE RunTool(r)
    BY <1>3, <1>5 DEF RunTool
  <1>6. CASE BeginTool(r)
    <2>1. [req[r] EXCEPT !.left = Rounds(req[r].use), !.attempt = 1]
          = [req[r] EXCEPT !.pc = "run", !.left = Rounds(req[r].use), !.attempt = 1]
      BY <1>1, <1>6 DEF BeginTool, Fields
    <2> QED BY <1>4, <1>6, <2>1 DEF BeginTool
  <1>7. CASE Send(r)
    <2>1. [req[r] EXCEPT !.pc = "sent"]
          = [req[r] EXCEPT !.pc = "sent", !.left = req[r].left, !.attempt = req[r].attempt]
      BY <1>1 DEF Fields
    <2> QED BY <1>4, <1>7, <2>1 DEF Send
  <1>8. CASE Mined(r)
    <2>1. CASE Become(r, Outcome(req[r], "completed"))
      BY <1>3, <2>1
    <2>2. CASE Become(r, [req[r] EXCEPT !.pc = "run", !.left = @ - 1, !.attempt = 1])
      BY <1>4, <2>2
    <2> QED BY <1>8, <2>1, <2>2 DEF Mined
  <1>9. CASE ChainFails(r)
    <2>1. CASE Become(r, Outcome(req[r], "failed"))
      BY <1>3, <2>1
    <2>2. CASE Become(r, [req[r] EXCEPT !.pc = "run", !.attempt = @ + 1])
      <3>1. [req[r] EXCEPT !.pc = "run", !.attempt = @ + 1]
            = [req[r] EXCEPT !.pc = "run", !.left = req[r].left, !.attempt = @ + 1]
        BY <1>1 DEF Fields
      <3> QED BY <1>4, <2>2, <3>1
    <2> QED BY <1>9, <2>1, <2>2 DEF ChainFails
  <1> QED BY <1>5, <1>6, <1>7, <1>8, <1>9

\* Its result.
LEMMA LogComplete ==
    ASSUME IInv, NEW r \in Requests, LogOK(r), CompleteTool(r)
    PROVE  LogOK(r)'
  <1> DEFINE copy == [req[r].copy EXCEPT !.history = Append(@, Results({req[r].use}))]
             next == IF req[r].confirmed THEN "repair"
                     ELSE IF req[r].todo = <<>> THEN "model" ELSE "tools"
             saving == Saving(req[r], copy, next)
             s == [saving EXCEPT !.use = NoUse, !.confirmed = FALSE, !.outcome = "none"]
  <1>1. /\ Typed(req[r]) /\ Shape(req[r]) /\ req[r].pc = "complete" /\ DOMAIN req[r] = Fields
        /\ IsSession(req[r].copy) /\ req[r].copy.pending = NoPending
        /\ UNCHANGED <<row, contested, disturbed>>
    BY DEF IInv, Typing, Typed, CompleteTool, Shape
  <1>2. /\ Undisturbed' = Undisturbed /\ Undisturbed \subseteq Ids
        /\ row.pending.use = req[r].saw /\ req[r].outcome \in {"completed", "failed"}
        /\ req[r].saw = NoUse \/ req[r].saw = req[r].use
    BY <1>1 DEF Undisturbed, LogOK, Shape
  <1>3. Become(r, s) /\ complete(req[r].use, req[r].outcome)
    BY DEF CompleteTool
  <1>4. copy.pending = NoPending
    BY <1>1 DEF IsSession
  <1> HIDE DEF copy, next
  <1>5. DOMAIN saving = Fields /\ saving.pc = "save" /\ saving.saw = req[r].saw /\ saving.copy = copy
    BY <1>1, SavingFacts
  <1> HIDE DEF saving
  <1>6. s.pc = "save" /\ s.saw = req[r].saw /\ s.copy = copy
    BY <1>5 DEF Fields
  <1> HIDE DEF s
  <1>7. \A i \in Undisturbed : logs[i] = "pending_confirmation" <=> req[r].saw.id = i
    BY <1>1, <1>2 DEF LogOK, Awaiting
  <1>8. \A i \in Undisturbed : logs'[i] # "pending_confirmation"
    BY <1>2, <1>3, <1>7, LogClosed, UseFacts
  <1>9. \A i \in Ids : Awaiting(s).id # i
    BY <1>4, <1>6, PendingFacts, UseFacts DEF Awaiting
  <1> QED BY <1>1, <1>2, <1>3, <1>6, <1>8, <1>9, LogStep

\* What ends a request, or the session.
LEMMA LogEnds ==
    ASSUME IInv, NEW r \in Requests, LogOK(r),
           ModelFails(r) \/ ToolThrows(r) \/ Crash(r) \/ DeleteSession(r)
    PROVE  LogOK(r)'
  <1>1. CASE ModelFails(r) \/ Crash(r)
    BY <1>1, LogAbandon DEF ModelFails, Crash
  <1>2. CASE ToolThrows(r)
    BY <1>2, LogAbandon DEF ToolThrows
  <1>3. CASE DeleteSession(r)
    <2>1. /\ req[r].pc = "idle" /\ row' = NoSession /\ UNCHANGED <<logs, req, contested>>
          /\ disturbed' = disturbed \cup Found(row.pending)
      BY <1>3 DEF DeleteSession
    <2>2. \A i \in Undisturbed' : i \in Undisturbed /\ i \in Ids /\ row.pending.use.id # i
      BY <2>1, UseFacts DEF Undisturbed, Found
    <2>3. \A i \in Ids : row'.pending.use.id # i
      BY <2>1, NoSessionFacts, PendingFacts, UseFacts
    <2> QED BY <2>1, <2>2, <2>3 DEF LogOK, Awaiting
  <1> QED BY <1>1, <1>2, <1>3

LogsOK == \A r \in Requests : LogOK(r)

LEMMA LogsInit == Init => LogsOK
  <1>1. ASSUME Init, NEW r \in Requests PROVE LogOK(r)
    <2>1. req[r].pc = "idle" /\ row.pending.use = NoUse /\ \A i \in Ids : logs[i] = "none"
      BY <1>1, IdleFacts, NoSessionFacts, PendingFacts DEF Init
    <2> QED BY <2>1, UseFacts DEF LogOK, Awaiting, Undisturbed
  <1> QED BY <1>1 DEF LogsOK

LEMMA LogsNext ==
    ASSUME Serial, IInv, LogsOK, [Next]_vars
    PROVE  LogsOK'
  <1>1. ASSUME NEW r \in Requests, Step(r)
        PROVE  LogOK(r)'
    <2>1. LogOK(r)
      BY DEF LogsOK
    <2>2. CASE SaveSelect(r) \/ SaveWrite(r)
      BY <2>1, <2>2, LogSave
    <2>3. CASE Chat(r) \/ Approve(r) \/ Reject(r)
                 \/ \E status \in {"completed", "failed"} : SubmitClientToolResult(r, status)
      BY <2>1, <2>3, LogBegin
    <2>4. CASE Compose(r) \/ Repair(r) \/ AskModel(r) \/ Reply(r)
      BY <2>1, <2>4, LogTurn
    <2>5. CASE ProposeTool(r) \/ StartTool(r) \/ CompleteTool(r)
      BY <2>1, <2>5, LogPropose, LogComplete
    <2>6. CASE RunTool(r) \/ BeginTool(r) \/ Send(r) \/ Mined(r) \/ ChainFails(r)
      BY <2>1, <2>6, LogRun
    <2>7. CASE ModelFails(r) \/ ToolThrows(r) \/ Crash(r) \/ DeleteSession(r)
      BY <2>1, <2>7, LogEnds
    <2> QED BY <1>1, <2>2, <2>3, <2>4, <2>5, <2>6, <2>7 DEF Step
  <1>2. ASSUME NEW r \in Requests, LogOK(r), UNCHANGED vars PROVE LogOK(r)'
    BY <1>2 DEF vars, LogOK, Awaiting, Undisturbed
  <1> QED BY <1>1, <1>2 DEF Next, Serial, LogsOK

(* While requests are served one at a time, crashes included, the tool log *)
(* says that a call awaits its confirmation exactly while the session      *)
(* does, for every call whose request was not cut off before it saved.     *)
THEOREM LogFollows ==
    ASSUME Serial
    PROVE  Spec => []LogFollowsSession
  <1>1. IInv /\ LogsOK /\ [Next]_vars => LogsOK'
    BY LogsNext
  <1>2. LogsOK => LogFollowsSession
    BY DEF Serial, LogsOK, LogOK, LogFollowsSession, Awaiting
  <1> QED BY LogsInit, <1>1, <1>2, AgentInvariant, PTL DEF Spec

-----------------------------------------------------------------------------
(* Flattening.  The induction theorems of the library cannot be            *)
(* instantiated here; the least counterexample of LeastNatural stands in   *)
(* for them.                                                               *)

LEMMA LeastNatural ==
    ASSUME NEW T \in SUBSET Nat, T # {}
    PROVE  \E m \in T : \A n \in T : m <= n
  <1> DEFINE U == {0 .. n : n \in T}
  <1>1. U \subseteq FiniteSubsetsOf(Nat) /\ U # {}
    <2>1. ASSUME NEW n \in T PROVE IsFiniteSet(0 .. n) /\ 0 .. n \subseteq Nat
      <3>1. n \in Nat
        OBVIOUS
      <3> QED BY <3>1, FS_Interval
    <2> QED BY <2>1 DEF FiniteSubsetsOf
  <1>2. PICK x \in U : \A y \in U : <<y, x>> \notin StrictSubsetOrdering(Nat)
    <2> HIDE DEF U
    <2> QED BY <1>1, FS_StrictSubsetOrderingWellFounded, WFMin
  <1>3. PICK m \in T : x = 0 .. m
    BY <1>2
  <1>4. ASSUME NEW n \in T, n < m PROVE FALSE
    <2>1. m \in Nat /\ n \in Nat
      OBVIOUS
    <2>2. 0 .. n \subseteq 0 .. m /\ 0 .. n # 0 .. m
      BY <1>4, <2>1
    <2>3. <<0 .. n, x>> \in StrictSubsetOrdering(Nat)
      BY <1>3, <2>2 DEF StrictSubsetOrdering
    <2> QED BY <1>2, <2>3
  <1> QED BY <1>4

\* f flattens the first n pieces.
Flat(pieces, n, f) ==
    f = [i \in 1 .. n |-> IF i = 1 THEN pieces[i] ELSE f[i - 1] \o pieces[i]]

LEMMA FlatExists ==
    ASSUME NEW pieces
    PROVE  \A n \in Nat : \E f : Flat(pieces, n, f)
  <1> DEFINE T == {n \in Nat : ~\E f : Flat(pieces, n, f)}
  <1>1. ASSUME T # {} PROVE FALSE
    <2>1. PICK m \in T : \A n \in T : m <= n
      <3> HIDE DEF T
      <3>1. T \in SUBSET Nat
        BY DEF T
      <3> QED BY <1>1, <3>1, LeastNatural
    <2>2. m # 0
      <3>1. Flat(pieces, 0, [i \in 1 .. 0 |-> pieces[i]])
        BY DEF Flat
      <3> QED BY <3>1
    <2>3. PICK f : Flat(pieces, m - 1, f)
      BY <2>1, <2>2
    <2> DEFINE g == [i \in 1 .. m |-> IF i = 1 THEN pieces[i] ELSE f[i - 1] \o pieces[i]]
    <2>4. ASSUME NEW i \in 1 .. m - 1 PROVE g[i] = f[i]
      <3>1. i \in 1 .. m
        BY <2>1
      <3>2. g[i] = IF i = 1 THEN pieces[i] ELSE f[i - 1] \o pieces[i]
        BY <3>1
      <3>3. f[i] = IF i = 1 THEN pieces[i] ELSE f[i - 1] \o pieces[i]
        BY <2>3 DEF Flat
      <3> QED BY <3>2, <3>3
    <2>5. ASSUME NEW i \in 1 .. m
          PROVE  (IF i = 1 THEN pieces[i] ELSE f[i - 1] \o pieces[i])
                 = (IF i = 1 THEN pieces[i] ELSE g[i - 1] \o pieces[i])
      <3>1. CASE i = 1
        BY <3>1
      <3>2. CASE i # 1
        <4>1. i - 1 \in 1 .. m - 1
          BY <2>1, <3>2
        <4>2. g[i - 1] = f[i - 1]
          BY <2>4, <4>1
        <4> HIDE DEF g
        <4> QED BY <4>2
      <3> QED BY <3>1, <3>2
    <2>6. Flat(pieces, m, g)
      <3>1. g = [i \in 1 .. m |-> IF i = 1 THEN pieces[i] ELSE f[i - 1] \o pieces[i]]
        OBVIOUS
      <3> HIDE DEF g
      <3> QED BY <3>1, <2>5 DEF Flat
    <2> QED BY <2>1, <2>6
  <1> QED BY <1>1

\* What the community module's recursion computes.
LEMMA FlattenFacts ==
    ASSUME NEW S, NEW pieces \in Seq(Seq(S)), pieces # <<>>
    PROVE  \E f : Flat(pieces, Len(pieces), f) /\ FlattenSeq(pieces) = f[Len(pieces)]
  <1> DEFINE f == CHOOSE f : f = [i \in 1 .. Len(pieces) |->
                          IF i = 1 THEN pieces[i] ELSE f[i - 1] \o pieces[i]]
  <1>1. Flat(pieces, Len(pieces), f)
    <2>1. Len(pieces) \in Nat
      OBVIOUS
    <2>2. \E h : Flat(pieces, Len(pieces), h)
      BY <2>1, FlatExists
    <2>3. \E h : h = [i \in 1 .. Len(pieces) |->
                          IF i = 1 THEN pieces[i] ELSE h[i - 1] \o pieces[i]]
      BY <2>2 DEF Flat
    <2> QED BY <2>3 DEF Flat
  <1>2. FlattenSeq(pieces) = f[Len(pieces)]
    BY DEF FlattenSeq
  <1> QED BY <1>1, <1>2

LEMMA ConcatFacts ==
    ASSUME NEW S, NEW a \in Seq(S), NEW b \in Seq(S)
    PROVE  /\ a \o b \in Seq(S)
           /\ Len(a \o b) = Len(a) + Len(b) /\ Len(a) \in Nat /\ Len(b) \in Nat
           /\ \A q \in 1 .. Len(a) : (a \o b)[q] = a[q]
           /\ \A q \in 1 .. Len(b) : (a \o b)[Len(a) + q] = b[q]
  <1>1. Len(a \o b) = Len(a) + Len(b) /\ Len(a) \in Nat /\ Len(b) \in Nat /\ a \o b \in Seq(S)
    OBVIOUS
  <1>2. ASSUME NEW q \in 1 .. Len(a) PROVE (a \o b)[q] = a[q]
    OBVIOUS
  <1>3. ASSUME NEW q \in 1 .. Len(b) PROVE (a \o b)[Len(a) + q] = b[q]
    OBVIOUS
  <1> QED BY <1>1, <1>2, <1>3

\* The prefixes of a flattened sequence, piece by piece.
JoinedUpTo(pieces, g) ==
    /\ g[0] = <<>>
    /\ g[Len(pieces)] = FlattenSeq(pieces)
    /\ \A i \in 1 .. Len(pieces) : g[i] = g[i - 1] \o pieces[i]

LEMMA FlattenSteps ==
    ASSUME NEW S, NEW pieces \in Seq(Seq(S))
    PROVE  \E g : JoinedUpTo(pieces, g) /\ \A i \in 0 .. Len(pieces) : g[i] \in Seq(S)
  <1> DEFINE n == Len(pieces)
  <1>1. n \in Nat /\ (n = 0 <=> pieces = <<>>)
    OBVIOUS
  <1>2. PICK f : n # 0 => Flat(pieces, n, f) /\ FlattenSeq(pieces) = f[n]
    BY <1>1, FlattenFacts
  <1> DEFINE g == [i \in 0 .. n |-> IF i = 0 THEN <<>> ELSE f[i]]
  <1>3. g[0] = <<>>
    BY <1>1
  <1>4. ASSUME NEW i \in 1 .. n PROVE g[i] = g[i - 1] \o pieces[i] /\ g[i - 1] = (IF i = 1 THEN <<>> ELSE f[i - 1])
    <2>1. n # 0 /\ i \in 0 .. n /\ i - 1 \in 0 .. n /\ i \in Nat
      BY <1>1
    <2>2. f[i] = IF i = 1 THEN pieces[i] ELSE f[i - 1] \o pieces[i]
      BY <1>2, <2>1 DEF Flat
    <2>3. g[i] = f[i] /\ g[i - 1] = (IF i = 1 THEN <<>> ELSE f[i - 1])
      BY <2>1
    <2>4. pieces[i] \in Seq(S) /\ <<>> \o pieces[i] = pieces[i]
      OBVIOUS
    <2> HIDE DEF g
    <2> QED BY <2>2, <2>3, <2>4
  <1>5. g[n] = FlattenSeq(pieces)
    <2>1. CASE n = 0
      BY <1>1, <2>1 DEF FlattenSeq
    <2>2. CASE n # 0
      BY <1>1, <1>2, <2>2
    <2> QED BY <2>1, <2>2
  <1>6. \A i \in 0 .. n : g[i] \in Seq(S)
    <2> HIDE DEF g
    <2> DEFINE T == {i \in 0 .. n : g[i] \notin Seq(S)}
    <2>1. ASSUME T # {} PROVE FALSE
      <3>1. PICK m \in T : \A k \in T : m <= k
        <4>1. T \in SUBSET Nat
          OBVIOUS
        <4> HIDE DEF T
        <4> QED BY <2>1, <4>1, LeastNatural
      <3>2. m # 0
        <4>1. g[0] \in Seq(S)
          BY <1>3
        <4> QED BY <3>1, <4>1
      <3>3. m \in 1 .. n /\ m - 1 \in 0 .. n /\ m - 1 \notin T
        BY <1>1, <3>1, <3>2
      <3>4. g[m - 1] \in Seq(S) /\ pieces[m] \in Seq(S)
        BY <3>3
      <3>5. g[m] = g[m - 1] \o pieces[m]
        BY <1>4, <3>3
      <3>6. g[m] \in Seq(S)
        BY <3>4, <3>5
      <3> QED BY <3>1, <3>6
    <2> QED BY <2>1
  <1> HIDE DEF g
  <1> QED BY <1>3, <1>4, <1>5, <1>6 DEF JoinedUpTo

\* A prefix is no longer than a later one and agrees with it; the places
\* between two successive ones are those of a piece.
Nested(pieces, g) ==
    /\ \A k \in 0 .. Len(pieces) : \A i \in 0 .. k :
          Len(g[i]) <= Len(g[k]) /\ \A q \in 1 .. Len(g[i]) : g[k][q] = g[i][q]
    /\ \A q \in 1 .. Len(g[Len(pieces)]) : \E i \in 1 .. Len(pieces) :
          Len(g[i - 1]) < q /\ q <= Len(g[i])
    /\ \A i \in 1 .. Len(pieces) :
          /\ Len(g[i]) = Len(g[i - 1]) + Len(pieces[i])
          /\ \A q \in 1 .. Len(pieces[i]) : g[i][Len(g[i - 1]) + q] = pieces[i][q]

LEMMA PrefixFacts ==
    ASSUME NEW S, NEW pieces \in Seq(Seq(S)), NEW g, JoinedUpTo(pieces, g),
           \A i \in 0 .. Len(pieces) : g[i] \in Seq(S)
    PROVE  Nested(pieces, g)
  <1> DEFINE n == Len(pieces)
             Below(i, k) == Len(g[i]) <= Len(g[k]) /\ \A q \in 1 .. Len(g[i]) : g[k][q] = g[i][q]
             T == {k \in 0 .. n : \E i \in 0 .. k : ~Below(i, k)}
  <1>1. n \in Nat
    OBVIOUS
  <1>2. \A i \in 0 .. n : g[i] \in Seq(S) /\ Len(g[i]) \in Nat
    OBVIOUS
  <1>3. ASSUME NEW i \in 1 .. n
        PROVE  /\ Len(g[i]) = Len(g[i - 1]) + Len(pieces[i]) /\ Len(pieces[i]) \in Nat
               /\ \A q \in 1 .. Len(g[i - 1]) : g[i][q] = g[i - 1][q]
               /\ \A q \in 1 .. Len(pieces[i]) : g[i][Len(g[i - 1]) + q] = pieces[i][q]
    <2>1. g[i - 1] \in Seq(S) /\ pieces[i] \in Seq(S)
      BY <1>1, <1>2
    <2>2. g[i] = g[i - 1] \o pieces[i]
      BY DEF JoinedUpTo
    <2> DEFINE a == g[i - 1]
               b == pieces[i]
    <2>3. a \in Seq(S) /\ b \in Seq(S)
      BY <2>1
    <2> HIDE DEF a, b
    <2>4. /\ Len(a \o b) = Len(a) + Len(b) /\ Len(b) \in Nat
          /\ \A q \in 1 .. Len(a) : (a \o b)[q] = a[q]
          /\ \A q \in 1 .. Len(b) : (a \o b)[Len(a) + q] = b[q]
      BY <2>3, ConcatFacts
    <2>5. g[i] = a \o b
      BY <2>2 DEF a, b
    <2> QED BY <2>4, <2>5 DEF a, b
  <1>4. ASSUME T # {} PROVE FALSE
    <2>1. PICK k \in T : \A j \in T : k <= j
      <3>1. T \in SUBSET Nat
        OBVIOUS
      <3> HIDE DEF T
      <3> QED BY <1>4, <3>1, LeastNatural
    <2>2. PICK i \in 0 .. k : ~Below(i, k)
      BY <2>1
    <2>3. k \in 0 .. n /\ k \in Nat /\ i \in Nat
      BY <1>1, <2>1
    <2>4. Below(k, k)
      BY <1>2, <2>3
    <2>5. i # k
      <3> HIDE DEF Below
      <3> QED BY <2>2, <2>4
    <2>6. k \in 1 .. n /\ k - 1 \in 0 .. n /\ i \in 0 .. k - 1 /\ k - 1 \notin T
      <3>1. k \in 1 .. n /\ k - 1 \in 0 .. n /\ i \in 0 .. k - 1
        <4> HIDE DEF Below, T
        <4> QED BY <1>1, <2>3, <2>5
      <3>2. k - 1 \notin T
        <4> HIDE DEF T
        <4> QED BY <2>1, <2>3
      <3> HIDE DEF T
      <3> QED BY <3>1, <3>2
    <2>7. Below(i, k - 1)
      BY <2>6
    <2>8. Below(k - 1, k)
      <3>1. Len(g[k]) = Len(g[k - 1]) + Len(pieces[k]) /\ Len(pieces[k]) \in Nat
        BY <1>3, <2>6
      <3>2. Len(g[k - 1]) \in Nat
        BY <1>2, <2>6
      <3>3. Len(g[k - 1]) <= Len(g[k])
        <4> DEFINE x == Len(g[k - 1])
                   y == Len(g[k])
                   z == Len(pieces[k])
        <4>1. y = x + z /\ z \in Nat /\ x \in Nat
          BY <3>1, <3>2
        <4> HIDE DEF x, y, z
        <4>2. x <= y
          BY <4>1
        <4> QED BY <4>2 DEF x, y
      <3>4. \A q \in 1 .. Len(g[k - 1]) : g[k][q] = g[k - 1][q]
        BY <1>3, <2>6
      <3> QED BY <3>3, <3>4
    <2>9. Below(i, k)
      <3>1. i \in 0 .. n
        BY <1>1, <2>6
      <3> QED BY <1>2, <2>6, <2>7, <2>8, <3>1
    <2> QED BY <2>2, <2>9
  <1>5. \A k \in 0 .. n : \A i \in 0 .. k : Below(i, k)
    BY <1>4
  <1>6. ASSUME NEW q \in 1 .. Len(g[n])
        PROVE  \E i \in 1 .. n : Len(g[i - 1]) < q /\ q <= Len(g[i])
    <2> DEFINE U == {i \in 0 .. n : q <= Len(g[i])}
    <2>1. n \in U /\ U \in SUBSET Nat
      BY <1>1, <1>2
    <2>2. PICK m \in U : \A j \in U : m <= j
      <3> HIDE DEF U
      <3> QED BY <2>1, LeastNatural
    <2>3. m # 0
      <3>1. g[0] = <<>>
        BY DEF JoinedUpTo
      <3> QED BY <2>2, <3>1
    <2>4. m \in 1 .. n /\ m - 1 \in 0 .. n /\ m - 1 \notin U
      BY <1>1, <2>2, <2>3
    <2>5. ~(q <= Len(g[m - 1]))
      BY <2>4
    <2> QED BY <1>2, <2>2, <2>4, <2>5
  <1> QED BY <1>3, <1>5, <1>6 DEF Nested

-----------------------------------------------------------------------------
(* What the repair does to a history.                                      *)

LEMMA MessageFacts ==
    /\ UserMessage \in Message /\ UserMessage.kind = "user" /\ UserMessage.uses = {}
    /\ \A U \in SUBSET Use :
          /\ AssistantMessage(U) \in Message /\ AssistantMessage(U).kind = "assistant"
          /\ AssistantMessage(U).uses = U
          /\ Results(U) \in Message /\ Results(U).kind = "results" /\ Results(U).uses = U
    /\ \A m \in Message : m.kind \in {"user", "assistant", "results"} /\ m.uses \in SUBSET Use
  BY DEF Message, UserMessage, AssistantMessage, Results

\* Call u is answered in the run of answers after h[i].
AnswersCall(h, i, u) ==
    \E j \in i + 1 .. Len(h) : u \in h[j].uses /\ \A l \in i + 1 .. j : h[l].kind = "results"

LEMMA MissingFacts ==
    ASSUME NEW h, NEW i
    PROVE  /\ \A u : u \in Missing(h, i) <=>
                 h[i].kind = "assistant" /\ u \in h[i].uses /\ ~AnswersCall(h, i, u)
           /\ Missing(h, i) \subseteq h[i].uses
  <1>1. \A u : u \in Answered(h, i) <=> AnswersCall(h, i, u)
    BY DEF Answered, AnswersCall
  <1> QED BY <1>1 DEF Missing

\* Message i of h stands at pos[i], the answers it lacks right after it, and
\* nothing else is there.
Layout(h, out, pos) ==
    /\ pos \in [1 .. Len(h) -> 1 .. Len(out)]
    /\ \A i \in 1 .. Len(h) : out[pos[i]] = h[i]
    /\ \A i \in 1 .. Len(h) : Missing(h, i) # {} =>
          pos[i] + 1 \in 1 .. Len(out) /\ out[pos[i] + 1] = Results(Missing(h, i))
    /\ \A i, j \in 1 .. Len(h) : i < j => pos[i] < pos[j]
    /\ \A i, j \in 1 .. Len(h) : i < j /\ Missing(h, i) # {} => pos[i] + 1 < pos[j]
    /\ \A q \in 1 .. Len(out) : \E i \in 1 .. Len(h) :
          q = pos[i] \/ (Missing(h, i) # {} /\ q = pos[i] + 1)

LEMMA RepairLayout ==
    ASSUME NEW h \in Seq(Message)
    PROVE  /\ repairMissingToolResults(h) \in Seq(Message)
           /\ \E pos : Layout(h, repairMissingToolResults(h), pos)
  <1> DEFINE n == Len(h)
             pieces == [i \in 1 .. n |->
                  IF Missing(h, i) = {} THEN <<h[i]>> ELSE <<h[i], Results(Missing(h, i))>>]
             out == repairMissingToolResults(h)
  <1>1. n \in Nat
    OBVIOUS
  <1>2. ASSUME NEW i \in 1 .. n
        PROVE  /\ h[i] \in Message /\ Results(Missing(h, i)) \in Message
               /\ pieces[i] \in Seq(Message)
               /\ Len(pieces[i]) = (IF Missing(h, i) = {} THEN 1 ELSE 2)
               /\ pieces[i][1] = h[i]
               /\ Missing(h, i) # {} => pieces[i][2] = Results(Missing(h, i))
    <2>1. h[i] \in Message
      BY <1>1
    <2>2. Missing(h, i) \subseteq Use
      BY <2>1, MissingFacts, MessageFacts
    <2>3. Results(Missing(h, i)) \in Message
      BY <2>2, MessageFacts
    <2>4. pieces[i] = IF Missing(h, i) = {} THEN <<h[i]>> ELSE <<h[i], Results(Missing(h, i))>>
      OBVIOUS
    <2> HIDE DEF pieces
    <2> QED BY <2>1, <2>3, <2>4
  <1>3. pieces \in Seq(Seq(Message)) /\ Len(pieces) = n
    <2>1. pieces \in [1 .. n -> Seq(Message)]
      BY <1>2
    <2>2. DOMAIN pieces = 1 .. n
      OBVIOUS
    <2> HIDE DEF pieces
    <2> QED BY <1>1, <2>1, <2>2
  <1>4. out = FlattenSeq(pieces)
    BY DEF repairMissingToolResults
  <1> HIDE DEF pieces, out
  <1>5. PICK g : JoinedUpTo(pieces, g) /\ \A i \in 0 .. Len(pieces) : g[i] \in Seq(Message)
    BY <1>3, FlattenSteps
  <1>6. g[n] = out /\ g[0] = <<>> /\ \A i \in 0 .. n : g[i] \in Seq(Message) /\ Len(g[i]) \in Nat
    <2>1. g[n] = out /\ g[0] = <<>>
      BY <1>3, <1>4, <1>5 DEF JoinedUpTo
    <2>2. \A i \in 0 .. n : g[i] \in Seq(Message)
      BY <1>3, <1>5
    <2> QED BY <2>1, <2>2
  <1>7. /\ \A k \in 0 .. n : \A i \in 0 .. k :
              Len(g[i]) <= Len(g[k]) /\ \A q \in 1 .. Len(g[i]) : g[k][q] = g[i][q]
        /\ \A q \in 1 .. Len(out) : \E i \in 1 .. n : Len(g[i - 1]) < q /\ q <= Len(g[i])
        /\ \A i \in 1 .. n :
              /\ Len(g[i]) = Len(g[i - 1]) + Len(pieces[i])
              /\ \A q \in 1 .. Len(pieces[i]) : g[i][Len(g[i - 1]) + q] = pieces[i][q]
    <2>1. Nested(pieces, g)
      <3>1. pieces \in Seq(Seq(Message)) /\ JoinedUpTo(pieces, g)
            /\ \A i \in 0 .. Len(pieces) : g[i] \in Seq(Message)
        BY <1>3, <1>5
      <3> QED BY ONLY <3>1, PrefixFacts
    <2> HIDE DEF n
    <2> QED BY <1>3, <1>6, <2>1 DEF Nested
  <1> DEFINE pos == [i \in 1 .. n |-> Len(g[i - 1]) + 1]
  <1>8. ASSUME NEW i \in 1 .. n
        PROVE  /\ i - 1 \in 0 .. n /\ i \in 0 .. n /\ Len(g[i - 1]) \in Nat /\ Len(g[i]) \in Nat
               /\ pos[i] = Len(g[i - 1]) + 1 /\ pos[i] \in Nat \ {0}
               /\ Missing(h, i) = {} => Len(g[i]) = pos[i]
               /\ Missing(h, i) # {} => Len(g[i]) = pos[i] + 1
               /\ Len(g[i]) <= Len(out)
               /\ \A q \in 1 .. Len(g[i]) : out[q] = g[i][q]
               /\ g[i][pos[i]] = h[i]
               /\ Missing(h, i) # {} => g[i][pos[i] + 1] = Results(Missing(h, i))
    <2>1. i - 1 \in 0 .. n /\ i \in 0 .. n /\ n \in 0 .. n /\ i \in 0 .. n
      BY <1>1
    <2>2. Len(g[i - 1]) \in Nat /\ Len(g[i]) \in Nat
      BY <1>6, <2>1
    <2>3. pos[i] = Len(g[i - 1]) + 1
      OBVIOUS
    <2>4. Len(g[i]) <= Len(out) /\ \A q \in 1 .. Len(g[i]) : out[q] = g[i][q]
      BY <1>6, <1>7, <2>1
    <2> HIDE DEF pos, n
    <2>5. Len(g[i]) = Len(g[i - 1]) + (IF Missing(h, i) = {} THEN 1 ELSE 2)
      <3>1. Len(g[i]) = Len(g[i - 1]) + Len(pieces[i])
        BY <1>7
      <3>2. Len(pieces[i]) = IF Missing(h, i) = {} THEN 1 ELSE 2
        BY <1>2
      <3> QED BY <3>1, <3>2
    <2>6. 1 \in 1 .. Len(pieces[i]) /\ (Missing(h, i) # {} => 2 \in 1 .. Len(pieces[i]))
      BY <1>2
    <2>7. g[i][Len(g[i - 1]) + 1] = h[i]
      BY <1>2, <1>7, <2>6
    <2>8. Missing(h, i) # {} => g[i][Len(g[i - 1]) + 2] = Results(Missing(h, i))
      BY <1>2, <1>7, <2>6
    <2>9. Len(g[i - 1]) + 2 = pos[i] + 1 /\ pos[i] \in Nat \ {0}
      BY <2>2, <2>3
    <2>10. /\ Missing(h, i) = {} => Len(g[i]) = pos[i]
           /\ Missing(h, i) # {} => Len(g[i]) = pos[i] + 1
      BY <2>2, <2>3, <2>5, <2>9
    <2> QED BY <2>1, <2>2, <2>3, <2>4, <2>7, <2>8, <2>9, <2>10
  <1>9. out \in Seq(Message) /\ Len(out) \in Nat
    BY <1>1, <1>6
  <1> HIDE DEF n
  <1>10. ASSUME NEW i \in 1 .. n
         PROVE  /\ pos[i] \in 1 .. Len(out) /\ out[pos[i]] = h[i]
                /\ Missing(h, i) # {} =>
                      pos[i] + 1 \in 1 .. Len(out) /\ out[pos[i] + 1] = Results(Missing(h, i))
    <2> HIDE DEF pos
    <2>0. /\ pos[i] \in Nat \ {0} /\ Len(g[i]) \in Nat
          /\ Missing(h, i) = {} => Len(g[i]) = pos[i]
          /\ Missing(h, i) # {} => Len(g[i]) = pos[i] + 1
      BY <1>8
    <2>1. pos[i] <= Len(g[i]) /\ (Missing(h, i) # {} => pos[i] + 1 <= Len(g[i]))
      BY <2>0
    <2>2. pos[i] \in 1 .. Len(g[i]) /\ pos[i] \in 1 .. Len(out)
      BY <1>8, <1>9, <2>0, <2>1
    <2>3. Missing(h, i) # {} => pos[i] + 1 \in 1 .. Len(g[i]) /\ pos[i] + 1 \in 1 .. Len(out)
      BY <1>8, <1>9, <2>0, <2>1
    <2> QED BY <1>8, <2>2, <2>3
  <1>11. ASSUME NEW i \in 1 .. n, NEW j \in 1 .. n, i < j
         PROVE  pos[i] < pos[j] /\ (Missing(h, i) # {} => pos[i] + 1 < pos[j])
    <2>1. j - 1 \in 0 .. n /\ i \in 0 .. j - 1
      BY <1>1, <1>11
    <2>2. Len(g[i]) <= Len(g[j - 1])
      BY <1>7, <2>1
    <2> HIDE DEF pos
    <2>3. /\ Missing(h, i) = {} => Len(g[i]) = pos[i]
          /\ Missing(h, i) # {} => Len(g[i]) = pos[i] + 1
          /\ Len(g[i]) \in Nat
      BY <1>8
    <2>4. pos[j] = Len(g[j - 1]) + 1 /\ Len(g[j - 1]) \in Nat
      BY <1>8
    <2>5. pos[i] \in Nat
      BY <1>8
    <2> QED BY <2>2, <2>3, <2>4, <2>5
  <1>12. ASSUME NEW q \in 1 .. Len(out)
         PROVE  \E i \in 1 .. n : q = pos[i] \/ (Missing(h, i) # {} /\ q = pos[i] + 1)
    <2>1. PICK i \in 1 .. n : Len(g[i - 1]) < q /\ q <= Len(g[i])
      BY <1>7
    <2> HIDE DEF pos
    <2>2. /\ q \in Nat /\ pos[i] \in Nat /\ Len(g[i - 1]) \in Nat /\ pos[i] = Len(g[i - 1]) + 1
          /\ Missing(h, i) = {} => Len(g[i]) = pos[i]
          /\ Missing(h, i) # {} => Len(g[i]) = pos[i] + 1
      BY <1>8, <1>9
    <2>3. CASE Missing(h, i) = {}
      BY <2>1, <2>2, <2>3
    <2>4. CASE Missing(h, i) # {}
      <3>1. pos[i] - 1 < q /\ q <= pos[i] + 1
        BY <2>1, <2>2, <2>4
      <3>2. q = pos[i] \/ q = pos[i] + 1
        BY <2>2, <3>1
      <3> QED BY <2>4, <3>2
    <2> QED BY <2>3, <2>4
  <1>13. pos \in [1 .. n -> 1 .. Len(out)]
    BY <1>10
  <1> HIDE DEF pos
  <1>14. Layout(h, out, pos)
    BY <1>10, <1>11, <1>12, <1>13 DEF Layout, n
  <1> QED BY <1>9, <1>14 DEF out

AllAnswered(h) == \A i \in DOMAIN h : Missing(h, i) = {}

LEMMA LayoutFacts ==
    ASSUME NEW h \in Seq(Message), NEW out \in Seq(Message), NEW pos, Layout(h, out, pos)
    PROVE  /\ Len(h) \in Nat /\ Len(out) \in Nat /\ DOMAIN h = 1 .. Len(h) /\ DOMAIN out = 1 .. Len(out)
           /\ \A k \in 1 .. Len(h) : pos[k] \in 1 .. Len(out) /\ pos[k] \in Int /\ out[pos[k]] = h[k]
           /\ \A k \in 1 .. Len(h) : Missing(h, k) # {} =>
                 /\ pos[k] + 1 \in 1 .. Len(out)
                 /\ out[pos[k] + 1].kind = "results" /\ out[pos[k] + 1].uses = Missing(h, k)
           /\ \A k, l \in 1 .. Len(h) : k < l => pos[k] < pos[l]
  <1>1. Len(h) \in Nat /\ Len(out) \in Nat /\ DOMAIN h = 1 .. Len(h) /\ DOMAIN out = 1 .. Len(out)
    OBVIOUS
  <1>2. ASSUME NEW k \in 1 .. Len(h)
        PROVE  pos[k] \in 1 .. Len(out) /\ pos[k] \in Int /\ out[pos[k]] = h[k]
    <2>1. pos[k] \in 1 .. Len(out) /\ out[pos[k]] = h[k]
      BY DEF Layout
    <2> QED BY <1>1, <2>1
  <1>3. ASSUME NEW k \in 1 .. Len(h), Missing(h, k) # {}
        PROVE  /\ pos[k] + 1 \in 1 .. Len(out)
               /\ out[pos[k] + 1].kind = "results" /\ out[pos[k] + 1].uses = Missing(h, k)
    <2>1. pos[k] + 1 \in 1 .. Len(out) /\ out[pos[k] + 1] = Results(Missing(h, k))
      BY <1>3 DEF Layout
    <2>2. Results(Missing(h, k)).kind = "results" /\ Results(Missing(h, k)).uses = Missing(h, k)
      BY DEF Results
    <2> QED BY <2>1, <2>2
  <1>4. \A k, l \in 1 .. Len(h) : k < l => pos[k] < pos[l]
    BY DEF Layout
  <1> QED BY <1>1, <1>2, <1>3, <1>4

\* Between the places of two messages there are only answers, if only
\* answers were between them.
LEMMA LayoutBetween ==
    ASSUME NEW h \in Seq(Message), NEW out \in Seq(Message), NEW pos, Layout(h, out, pos),
           NEW i \in 1 .. Len(h), NEW j \in 1 .. Len(h), i < j,
           \A l \in i + 1 .. j - 1 : h[l].kind = "results"
    PROVE  /\ pos[i] \in Nat /\ pos[j] \in Nat /\ pos[i] < pos[j]
           /\ \A q \in pos[i] + 1 .. pos[j] - 1 : out[q].kind = "results"
  <1>1. Len(h) \in Nat /\ Len(out) \in Nat
    OBVIOUS
  <1>2. /\ \A k \in 1 .. Len(h) : pos[k] \in 1 .. Len(out) /\ pos[k] \in Int
        /\ \A k, l \in 1 .. Len(h) : k < l => pos[k] < pos[l]
    BY LayoutFacts
  <1>3. ASSUME NEW q \in pos[i] + 1 .. pos[j] - 1
        PROVE  out[q].kind = "results"
    <2>1. q \in 1 .. Len(out) /\ q > pos[i] /\ q < pos[j] /\ q \in Int
      BY <1>1, <1>2
    <2>2. PICK k \in 1 .. Len(h) : q = pos[k] \/ (Missing(h, k) # {} /\ q = pos[k] + 1)
      BY <2>1 DEF Layout
    <2>3. CASE q = pos[k]
      <3>1. ~(k < i) /\ ~(j < k) /\ k # i /\ k # j
        BY <1>2, <2>1, <2>3
      <3>2. k \in i + 1 .. j - 1
        BY <1>1, <3>1
      <3>3. out[q] = h[k]
        BY <2>3 DEF Layout
      <3> QED BY <3>2, <3>3
    <2>4. CASE Missing(h, k) # {} /\ q = pos[k] + 1
      <3>1. out[q] = Results(Missing(h, k))
        BY <2>4 DEF Layout
      <3> QED BY <3>1 DEF Results
    <2> QED BY <2>2, <2>3, <2>4
  <1> QED BY <1>2, <1>3

(* The repair of a history, whatever it holds and however long it is,      *)
(* leaves no call unanswered: AgentSessionService.repairMissingToolResults *)
(* is what lets the model be asked again.                                  *)
THEOREM RepairAnswers ==
    ASSUME NEW h \in Seq(Message)
    PROVE  AllAnswered(repairMissingToolResults(h))
  <1> DEFINE out == repairMissingToolResults(h)
  <1>1. out \in Seq(Message)
    BY RepairLayout
  <1>2. PICK pos : Layout(h, out, pos)
    BY RepairLayout
  <1> HIDE DEF out
  <1>3. Len(h) \in Nat /\ Len(out) \in Nat
    BY <1>1
  <1>4. \A k \in 1 .. Len(h) : pos[k] \in 1 .. Len(out) /\ pos[k] \in Int /\ out[pos[k]] = h[k]
    BY <1>1, <1>2, LayoutFacts
  <1>5. ASSUME NEW q \in 1 .. Len(out), NEW u \in Missing(out, q)
        PROVE  FALSE
    <2>1. out[q].kind = "assistant" /\ u \in out[q].uses /\ ~AnswersCall(out, q, u)
      BY <1>5, MissingFacts
    <2>2. PICK i \in 1 .. Len(h) : q = pos[i] \/ (Missing(h, i) # {} /\ q = pos[i] + 1)
      BY <1>2, <1>5 DEF Layout
    <2>3. CASE Missing(h, i) # {} /\ q = pos[i] + 1
      <3>1. out[q].kind = "results"
        BY <1>1, <1>2, <2>3, LayoutFacts
      <3> QED BY <2>1, <3>1
    <2>4. CASE q = pos[i] /\ u \in Missing(h, i)
      \* its answer is inserted
      <3>1. pos[i] + 1 \in 1 .. Len(out) /\ out[pos[i] + 1] = Results(Missing(h, i))
        BY <1>2, <2>4 DEF Layout
      <3>2. u \in out[q + 1].uses /\ out[q + 1].kind = "results"
        BY <2>4, <3>1 DEF Results
      <3>3. q + 1 \in q + 1 .. Len(out) /\ \A l \in q + 1 .. q + 1 : l = q + 1
        BY <1>3, <2>4, <3>1
      <3> QED BY <2>1, <3>2, <3>3 DEF AnswersCall
    <2>5. CASE q = pos[i] /\ u \notin Missing(h, i)
      \* its answer has moved with the others
      <3>1. AnswersCall(h, i, u)
        BY <1>4, <2>1, <2>5, MissingFacts
      <3>2. PICK j \in i + 1 .. Len(h) : u \in h[j].uses /\ \A l \in i + 1 .. j : h[l].kind = "results"
        BY <3>1 DEF AnswersCall
      <3>3. j \in 1 .. Len(h) /\ i < j /\ j \in i + 1 .. j /\ \A l \in i + 1 .. j - 1 : l \in i + 1 .. j
        BY <1>3, <3>2
      <3>4. /\ pos[i] \in Nat /\ pos[j] \in Nat /\ pos[i] < pos[j]
            /\ \A l \in pos[i] + 1 .. pos[j] - 1 : out[l].kind = "results"
        BY <1>1, <1>2, <3>2, <3>3, LayoutBetween
      <3>5. pos[j] \in q + 1 .. Len(out) /\ u \in out[pos[j]].uses /\ out[pos[j]].kind = "results"
        BY <1>3, <1>4, <2>5, <3>2, <3>3, <3>4
      <3>6. \A l \in q + 1 .. pos[j] : out[l].kind = "results"
        BY <2>5, <3>4, <3>5
      <3> QED BY <2>1, <3>5, <3>6 DEF AnswersCall
    <2> QED BY <2>2, <2>3, <2>4, <2>5
  <1>6. DOMAIN out = 1 .. Len(out)
    BY <1>1
  <1> QED BY <1>5, <1>6 DEF AllAnswered, out
-----------------------------------------------------------------------------
\* Each answer in h is in the run of answers after its call, and the only one;
\* no two messages make the same call.
Follows(h, j) ==
    \E i \in 1 .. j - 1 :
        /\ h[j].uses \subseteq h[i].uses
        /\ h[i].kind = "assistant"
        /\ \A k \in i + 1 .. j - 1 : h[k].kind = "results"
Matched(h) ==
    /\ \A j \in DOMAIN h : h[j].kind = "results" => Follows(h, j)
    /\ \A j, k \in DOMAIN h : h[j].kind = h[k].kind /\ h[j].uses \cap h[k].uses # {} => j = k

\* An answer to a call that is missing after it has not been given elsewhere.
LEMMA MissingNowhere ==
    ASSUME NEW h \in Seq(Message), Matched(h), NEW i \in 1 .. Len(h), NEW u \in Missing(h, i),
           NEW j \in 1 .. Len(h), h[j].kind = "results"
    PROVE  u \notin h[j].uses
  <1>1. SUFFICES ASSUME u \in h[j].uses PROVE FALSE
    OBVIOUS
  <1>2. Len(h) \in Nat /\ DOMAIN h = 1 .. Len(h)
    OBVIOUS
  <1>3. h[i].kind = "assistant" /\ u \in h[i].uses /\ ~AnswersCall(h, i, u)
    BY MissingFacts
  <1>4. PICK k \in 1 .. j - 1 : /\ h[j].uses \subseteq h[k].uses
                                /\ h[k].kind = "assistant"
                                /\ \A l \in k + 1 .. j - 1 : h[l].kind = "results"
    BY <1>2 DEF Matched, Follows
  <1>5. k \in DOMAIN h /\ i \in DOMAIN h
    BY <1>2
  <1>6. k = i
    BY <1>1, <1>3, <1>4, <1>5 DEF Matched
  <1>7. j \in i + 1 .. Len(h)
    BY <1>2, <1>6
  <1>8. \A l \in i + 1 .. j : h[l].kind = "results"
    <2>1. \A l \in i + 1 .. j : l = j \/ l \in k + 1 .. j - 1
      BY <1>6
    <2> QED BY <1>4, <2>1
  <1> QED BY <1>1, <1>3, <1>7, <1>8 DEF AnswersCall

(* The repair of a history in which every answer follows its call keeps    *)
(* that so: what it inserts answers the calls right before, and no call    *)
(* gets a second answer.                                                   *)
THEOREM RepairMatches ==
    ASSUME NEW h \in Seq(Message), Matched(h)
    PROVE  Matched(repairMissingToolResults(h))
  <1> DEFINE out == repairMissingToolResults(h)
  <1>1. out \in Seq(Message)
    BY RepairLayout
  <1>2. PICK pos : Layout(h, out, pos)
    BY RepairLayout
  <1> HIDE DEF out
  <1>3. Len(h) \in Nat /\ Len(out) \in Nat /\ DOMAIN h = 1 .. Len(h) /\ DOMAIN out = 1 .. Len(out)
    BY <1>1
  <1>4. \A k \in 1 .. Len(h) : pos[k] \in 1 .. Len(out) /\ pos[k] \in Int /\ out[pos[k]] = h[k]
    BY <1>1, <1>2, LayoutFacts
  <1>5. ASSUME NEW k \in 1 .. Len(h), Missing(h, k) # {}
        PROVE  /\ pos[k] + 1 \in 1 .. Len(out)
               /\ out[pos[k] + 1].kind = "results" /\ out[pos[k] + 1].uses = Missing(h, k)
    BY <1>1, <1>2, <1>5, LayoutFacts
  <1>6. ASSUME NEW q \in 1 .. Len(out), out[q].kind = "results"
        PROVE  Follows(out, q)
    <2>1. PICK j \in 1 .. Len(h) : q = pos[j] \/ (Missing(h, j) # {} /\ q = pos[j] + 1)
      BY <1>2, <1>6 DEF Layout
    <2>2. CASE q = pos[j]
      <3>1. h[j].kind = "results" /\ out[q] = h[j]
        BY <1>4, <1>6, <2>2
      <3>2. PICK i \in 1 .. j - 1 : /\ h[j].uses \subseteq h[i].uses
                                    /\ h[i].kind = "assistant"
                                    /\ \A k \in i + 1 .. j - 1 : h[k].kind = "results"
        BY <1>3, <3>1 DEF Matched, Follows
      <3>3. i \in 1 .. Len(h) /\ i < j
        BY <1>3
      <3>4. /\ pos[i] \in Nat /\ pos[j] \in Nat /\ pos[i] < pos[j]
            /\ \A l \in pos[i] + 1 .. pos[j] - 1 : out[l].kind = "results"
        BY <1>1, <1>2, <3>2, <3>3, LayoutBetween
      <3>5. pos[i] \in 1 .. q - 1
        BY <1>4, <2>2, <3>3, <3>4
      <3>6. out[pos[i]] = h[i]
        BY <1>4, <3>3
      <3> QED BY <2>2, <3>1, <3>2, <3>4, <3>5, <3>6 DEF Follows
    <2>3. CASE Missing(h, j) # {} /\ q = pos[j] + 1
      <3>1. pos[j] \in 1 .. q - 1 /\ \A k \in pos[j] + 1 .. q - 1 : FALSE
        BY <1>4, <2>3
      <3>2. h[j].kind = "assistant" /\ Missing(h, j) \subseteq h[j].uses
        BY <2>3, MissingFacts DEF Missing
      <3>3. out[pos[j]] = h[j] /\ out[q].uses = Missing(h, j)
        BY <1>4, <1>5, <2>3
      <3> QED BY <3>1, <3>2, <3>3 DEF Follows
    <2> QED BY <2>1, <2>2, <2>3
  <1>7. ASSUME NEW p \in 1 .. Len(out), NEW q \in 1 .. Len(out), NEW u,
               out[p].kind = out[q].kind, u \in out[p].uses, u \in out[q].uses
        PROVE  p = q
    <2>1. PICK i \in 1 .. Len(h) : p = pos[i] \/ (Missing(h, i) # {} /\ p = pos[i] + 1)
      BY <1>2 DEF Layout
    <2>2. PICK j \in 1 .. Len(h) : q = pos[j] \/ (Missing(h, j) # {} /\ q = pos[j] + 1)
      BY <1>2 DEF Layout
    <2>3. CASE p = pos[i] /\ q = pos[j]
      <3>1. h[i].kind = h[j].kind /\ u \in h[i].uses /\ u \in h[j].uses
        BY <1>4, <1>7, <2>3
      <3>2. i = j
        BY <1>3, <3>1 DEF Matched
      <3> QED BY <2>3, <3>2
    <2>4. CASE p = pos[i] /\ Missing(h, j) # {} /\ q = pos[j] + 1
      <3>1. h[i].kind = "results" /\ u \in h[i].uses /\ u \in Missing(h, j)
        BY <1>4, <1>5, <1>7, <2>4
      <3> QED BY <3>1, MissingNowhere
    <2>5. CASE q = pos[j] /\ Missing(h, i) # {} /\ p = pos[i] + 1
      <3>1. h[j].kind = "results" /\ u \in h[j].uses /\ u \in Missing(h, i)
        BY <1>4, <1>5, <1>7, <2>5
      <3> QED BY <3>1, MissingNowhere
    <2>6. CASE Missing(h, i) # {} /\ p = pos[i] + 1 /\ Missing(h, j) # {} /\ q = pos[j] + 1
      <3>1. u \in Missing(h, i) /\ u \in Missing(h, j)
        BY <1>5, <1>7, <2>6
      <3>2. h[i].kind = h[j].kind /\ u \in h[i].uses /\ u \in h[j].uses
        BY <3>1, MissingFacts
      <3>3. i = j
        BY <1>3, <3>2 DEF Matched
      <3> QED BY <2>6, <3>3
    <2> QED BY <2>1, <2>2, <2>3, <2>4, <2>5, <2>6
  <1> QED BY <1>3, <1>6, <1>7 DEF Matched, out

(* A history that lacks no answer is left as it is: repairing is           *)
(* idempotent, and continueLoop saves a repaired session once.             *)
THEOREM RepairIdempotent ==
    ASSUME NEW h \in Seq(Message)
    PROVE  /\ AllAnswered(h) => repairMissingToolResults(h) = h
           /\ repairMissingToolResults(repairMissingToolResults(h)) = repairMissingToolResults(h)
  <1>1. ASSUME NEW x \in Seq(Message), AllAnswered(x)
        PROVE  repairMissingToolResults(x) = x
    <2> DEFINE out == repairMissingToolResults(x)
    <2>1. out \in Seq(Message)
      BY RepairLayout
    <2>2. PICK pos : Layout(x, out, pos)
      BY RepairLayout
    <2> HIDE DEF out
    <2>3. /\ Len(x) \in Nat /\ Len(out) \in Nat /\ DOMAIN x = 1 .. Len(x) /\ DOMAIN out = 1 .. Len(out)
          /\ \A k \in 1 .. Len(x) : pos[k] \in 1 .. Len(out) /\ pos[k] \in Int /\ out[pos[k]] = x[k]
          /\ \A k, l \in 1 .. Len(x) : k < l => pos[k] < pos[l]
      BY <2>1, <2>2, LayoutFacts
    <2>4. \A q \in 1 .. Len(out) : \E i \in 1 .. Len(x) : q = pos[i]
      BY <1>1, <2>2, <2>3 DEF Layout, AllAnswered
    <2> DEFINE T == {k \in 1 .. Len(x) : pos[k] # k}
    <2>5. ASSUME T # {} PROVE FALSE
      <3>1. PICK m \in T : \A k \in T : m <= k
        <4>1. T \in SUBSET Nat
          BY <2>3
        <4> HIDE DEF T
        <4> QED BY <2>5, <4>1, LeastNatural
      <3>2. m \in 1 .. Len(x) /\ pos[m] # m /\ m \in Nat
        BY <2>3, <3>1
      <3>3. \A k \in 1 .. Len(x) : k < m => pos[k] = k
        <4>1. ASSUME NEW k \in 1 .. Len(x), k < m, pos[k] # k PROVE FALSE
          <5>1. k \in T
            BY <4>1
          <5>2. m <= k
            BY <3>1, <5>1
          <5> QED BY <2>3, <3>2, <4>1, <5>2
        <4> QED BY <4>1
      <3> HIDE DEF T
      <3>4. pos[m] > m
        <4>1. CASE m = 1
          BY <2>3, <3>2, <4>1
        <4>2. CASE m # 1
          <5>1. m - 1 \in 1 .. Len(x) /\ m - 1 < m
            BY <2>3, <3>2, <4>2
          <5>2. pos[m - 1] = m - 1 /\ pos[m - 1] < pos[m]
            BY <2>3, <3>2, <3>3, <5>1
          <5> QED BY <2>3, <3>2, <5>2
        <4> QED BY <4>1, <4>2
      <3>5. PICK i \in 1 .. Len(x) : m = pos[i]
        <4>1. m \in 1 .. Len(out)
          BY <2>3, <3>2, <3>4
        <4> QED BY <2>4, <4>1
      <3>6. i \in Int /\ (i < m => pos[i] = i) /\ (m < i => pos[m] < pos[i])
        BY <2>3, <3>2, <3>3
      <3> QED BY <2>3, <3>2, <3>4, <3>5, <3>6
    <2>6. \A k \in 1 .. Len(x) : pos[k] = k
      BY <2>5
    <2>7. Len(out) = Len(x)
      <3>1. Len(x) <= Len(out)
        <4>1. CASE Len(x) = 0
          BY <2>3, <4>1
        <4>2. CASE Len(x) # 0
          <5>1. Len(x) \in 1 .. Len(x)
            BY <2>3, <4>2
          <5> QED BY <2>3, <2>6, <5>1
        <4> QED BY <4>1, <4>2
      <3>2. Len(out) <= Len(x)
        <4>1. CASE Len(out) = 0
          BY <2>3, <4>1
        <4>2. CASE Len(out) # 0
          <5>1. Len(out) \in 1 .. Len(out)
            BY <2>3, <4>2
          <5>2. PICK i \in 1 .. Len(x) : Len(out) = i
            BY <2>4, <2>6, <5>1
          <5> QED BY <2>3, <5>2
        <4> QED BY <4>1, <4>2
      <3> DEFINE a == Len(x)
                 b == Len(out)
      <3>3. a \in Nat /\ b \in Nat /\ a <= b /\ b <= a
        BY <2>3, <3>1, <3>2
      <3> HIDE DEF a, b
      <3>4. b = a
        BY <3>3
      <3> QED BY <3>4 DEF a, b
    <2>8. \A k \in 1 .. Len(x) : out[k] = x[k]
      BY <2>3, <2>6
    <2>9. out = x
      BY <2>1, <2>7, <2>8
    <2> QED BY <2>9 DEF out
  <1> QED BY <1>1, RepairAnswers, RepairLayout

-----------------------------------------------------------------------------
\* What h leaves unanswered is in U, and may still be answered at its end.
Owing(h, U) ==
    \A i \in DOMAIN h : Missing(h, i) # {} =>
        /\ Missing(h, i) \subseteq U
        /\ \A k \in i + 1 .. Len(h) : h[k].kind = "results"

LEMMA AppendFacts ==
    ASSUME NEW h \in Seq(Message), NEW m \in Message
    PROVE  /\ Append(h, m) \in Seq(Message) /\ Len(Append(h, m)) = Len(h) + 1 /\ Len(h) \in Nat
           /\ DOMAIN h = 1 .. Len(h) /\ DOMAIN Append(h, m) = 1 .. Len(h) + 1
           /\ \A i \in 1 .. Len(h) : Append(h, m)[i] = h[i]
           /\ Append(h, m)[Len(h) + 1] = m
           /\ h \o <<m>> = Append(h, m)
  OBVIOUS

\* A message after h takes no answer away from the calls in h.
LEMMA AppendMissing ==
    ASSUME NEW h \in Seq(Message), NEW m \in Message, NEW i \in 1 .. Len(h)
    PROVE  Missing(Append(h, m), i) \subseteq Missing(h, i)
  <1> DEFINE e == Append(h, m)
  <1>1. /\ Len(e) = Len(h) + 1 /\ Len(h) \in Nat /\ e[i] = h[i]
        /\ \A k \in 1 .. Len(h) : e[k] = h[k]
    BY AppendFacts
  <1> HIDE DEF e
  <1>2. ASSUME NEW u, AnswersCall(h, i, u)
        PROVE  AnswersCall(e, i, u)
    <2>1. PICK j \in i + 1 .. Len(h) : u \in h[j].uses /\ \A l \in i + 1 .. j : h[l].kind = "results"
      BY <1>2 DEF AnswersCall
    <2>2. j \in i + 1 .. Len(e) /\ e[j] = h[j] /\ \A l \in i + 1 .. j : e[l] = h[l]
      BY <1>1, <2>1
    <2> QED BY <2>1, <2>2 DEF AnswersCall
  <1>3. ASSUME NEW u \in Missing(e, i) PROVE u \in Missing(h, i)
    BY <1>1, <1>2, MissingFacts
  <1> QED BY <1>3 DEF e

\* The model's answer.
LEMMA OwingCalls ==
    ASSUME NEW h \in Seq(Message), AllAnswered(h), NEW U \in SUBSET Use
    PROVE  Owing(Append(h, AssistantMessage(U)), U)
  <1> DEFINE m == AssistantMessage(U)
             e == Append(h, m)
  <1>1. m \in Message /\ m.uses = U
    BY MessageFacts
  <1>2. /\ Len(e) = Len(h) + 1 /\ Len(h) \in Nat /\ DOMAIN e = 1 .. Len(h) + 1
        /\ DOMAIN h = 1 .. Len(h) /\ e[Len(h) + 1] = m
    BY <1>1, AppendFacts
  <1>3. \A i \in 1 .. Len(h) : Missing(e, i) = {}
    BY <1>1, <1>2, AppendMissing DEF AllAnswered
  <1> HIDE DEF e, m
  <1>4. Missing(e, Len(h) + 1) \subseteq U
    BY <1>1, <1>2, MissingFacts
  <1>5. ASSUME NEW i \in DOMAIN e, Missing(e, i) # {}
        PROVE  Missing(e, i) \subseteq U /\ \A k \in i + 1 .. Len(e) : e[k].kind = "results"
    <2>1. i = Len(h) + 1
      BY <1>2, <1>3, <1>5
    <2> QED BY <1>2, <1>4, <2>1
  <1> QED BY <1>5 DEF Owing, e, m

\* A result.
LEMMA OwingResult ==
    ASSUME NEW h \in Seq(Message), NEW U, NEW u \in Use, Owing(h, U \cup {u})
    PROVE  Owing(Append(h, Results({u})), U)
  <1> DEFINE m == Results({u})
             e == Append(h, m)
  <1>1. m \in Message /\ m.uses = {u} /\ m.kind = "results"
    BY MessageFacts
  <1>2. /\ Len(e) = Len(h) + 1 /\ Len(h) \in Nat /\ DOMAIN e = 1 .. Len(h) + 1
        /\ DOMAIN h = 1 .. Len(h) /\ e[Len(h) + 1] = m
        /\ \A k \in 1 .. Len(h) : e[k] = h[k]
    BY <1>1, AppendFacts
  <1>3. \A i \in 1 .. Len(h) : Missing(e, i) \subseteq Missing(h, i)
    BY <1>1, AppendMissing
  <1> HIDE DEF e, m
  <1>4. Missing(e, Len(h) + 1) = {}
    BY <1>1, <1>2 DEF Missing
  <1>5. ASSUME NEW i \in DOMAIN e, Missing(e, i) # {}
        PROVE  Missing(e, i) \subseteq U /\ \A k \in i + 1 .. Len(e) : e[k].kind = "results"
    <2>1. i \in 1 .. Len(h) /\ i \in Nat
      BY <1>2, <1>4, <1>5
    <2>2. Missing(h, i) # {}
      BY <1>3, <1>5, <2>1
    <2>3. Missing(h, i) \subseteq U \cup {u} /\ \A k \in i + 1 .. Len(h) : h[k].kind = "results"
      BY <1>2, <2>1, <2>2 DEF Owing
    <2>4. \A k \in i + 1 .. Len(e) : e[k].kind = "results"
      <3>1. ASSUME NEW k \in i + 1 .. Len(e) PROVE e[k].kind = "results"
        <4>1. k = Len(h) + 1 \/ k \in i + 1 .. Len(h)
          BY <1>2
        <4>2. k \in i + 1 .. Len(h) => k \in 1 .. Len(h)
          BY <1>2, <2>1
        <4> QED BY <1>1, <1>2, <2>3, <4>1, <4>2
      <3> QED BY <3>1
    <2>5. u \notin Missing(e, i)
      <3>1. Len(h) + 1 \in i + 1 .. Len(e) /\ \A l \in i + 1 .. Len(h) + 1 : l \in i + 1 .. Len(e)
        BY <1>2, <2>1
      <3>2. AnswersCall(e, i, u)
        BY <1>1, <1>2, <2>4, <3>1 DEF AnswersCall
      <3> QED BY <3>2, MissingFacts
    <2> QED BY <1>3, <2>1, <2>3, <2>4, <2>5
  <1> QED BY <1>5 DEF Owing, e, m

LEMMA OwingNothing ==
    ASSUME NEW h, Owing(h, {})
    PROVE  AllAnswered(h)
  BY DEF Owing, AllAnswered

-----------------------------------------------------------------------------
\* Call u can be answered at the end of h, and is not yet.
Open(h, u) ==
    \E i \in DOMAIN h :
        /\ h[i].kind = "assistant" /\ u \in h[i].uses
        /\ \A k \in i + 1 .. Len(h) : h[k].kind = "results" /\ u \notin h[k].uses

\* The calls in h have ids below n.
Old(h, n) == \A i \in DOMAIN h : \A u \in h[i].uses : u.id < n

\* No two places of a sequence hold the same.
Injective(rest) == \A m, n \in DOMAIN rest : rest[m] = rest[n] => m = n

LEMMA OpenNowhere ==
    ASSUME NEW h \in Seq(Message), Matched(h), NEW u, Open(h, u),
           NEW j \in 1 .. Len(h), h[j].kind = "results"
    PROVE  u \notin h[j].uses
  <1>1. PICK i \in DOMAIN h : /\ h[i].kind = "assistant" /\ u \in h[i].uses
                              /\ \A k \in i + 1 .. Len(h) : u \notin h[k].uses
    BY DEF Open
  <1>2. i \in 1 .. Len(h)
    OBVIOUS
  <1>3. u \in Missing(h, i)
    BY <1>1, MissingFacts DEF AnswersCall
  <1> QED BY <1>2, <1>3, MissingNowhere

\* Answers to open calls go to the end of the history.
LEMMA AnswerOpen ==
    ASSUME NEW h \in Seq(Message), Matched(h), NEW rest \in Seq(Use), Injective(rest),
           \A n \in DOMAIN rest : Open(h, rest[n])
    PROVE  LET e == h \o Deferred(rest) IN
           /\ e \in Seq(Message)
           /\ Matched(e)
           /\ \A u : Open(h, u) /\ u \notin ToSet(rest) => Open(e, u)
           /\ \A n : Old(h, n) => Old(e, n)
  <1> DEFINE d == Deferred(rest)
             e == h \o d
             a == Len(h)
             b == Len(rest)
  <1>1. a \in Nat /\ b \in Nat /\ DOMAIN rest = 1 .. b /\ DOMAIN h = 1 .. a
    OBVIOUS
  <1>2. ASSUME NEW k \in 1 .. b
        PROVE  d[k] \in Message /\ d[k].kind = "results" /\ d[k].uses = {rest[k]} /\ rest[k] \in Use
    <2>1. rest[k] \in Use /\ d[k] = Results({rest[k]})
      BY <1>1 DEF Deferred
    <2> HIDE DEF d
    <2> QED BY <2>1, MessageFacts
  <1>3. d \in Seq(Message) /\ Len(d) = b
    <2>1. d \in [1 .. b -> Message]
      <3>1. d = [k \in 1 .. b |-> d[k]]
        BY <1>1 DEF Deferred
      <3> HIDE DEF d
      <3> QED BY <1>2, <3>1
    <2> HIDE DEF d, b
    <2> QED BY <1>1, <2>1
  <1> HIDE DEF d
  <1>4. /\ e \in Seq(Message) /\ Len(e) = a + b /\ DOMAIN e = 1 .. a + b
        /\ \A k \in 1 .. a : e[k] = h[k]
        /\ \A k \in 1 .. b : e[a + k] = d[k]
    <2>1. /\ h \o d \in Seq(Message) /\ Len(h \o d) = Len(h) + Len(d)
          /\ \A k \in 1 .. Len(h) : (h \o d)[k] = h[k]
          /\ \A k \in 1 .. Len(d) : (h \o d)[Len(h) + k] = d[k]
      <3>1. h \in Seq(Message) /\ d \in Seq(Message)
        BY <1>3
      <3> HIDE DEF a, b, e
      <3> QED BY <3>1, ConcatFacts
    <2>2. DOMAIN (h \o d) = 1 .. Len(h \o d)
      BY <2>1
    <2> QED BY <1>3, <2>1, <2>2
  <1> HIDE DEF e, a, b
  <1>5. \A q \in 1 .. a + b : \/ q \in 1 .. a /\ e[q] = h[q]
                              \/ \E k \in 1 .. b : /\ q = a + k /\ e[q].kind = "results"
                                                   /\ e[q].uses = {rest[k]}
    <2>1. ASSUME NEW q \in 1 .. a + b, q \notin 1 .. a
          PROVE  \E k \in 1 .. b : /\ q = a + k /\ e[q].kind = "results"
                                   /\ e[q].uses = {rest[k]}
      <3>1. q - a \in 1 .. b /\ q = a + (q - a)
        BY <1>1, <2>1
      <3> QED BY <1>2, <1>4, <3>1
    <2> QED BY <1>4, <2>1
  <1>6. \A q \in 1 .. a + b : q > a => e[q].kind = "results"
    BY <1>1, <1>5
  \* The call answered by rest[k].
  <1>7. ASSUME NEW k \in 1 .. b, NEW q, q = a + k PROVE Follows(e, q)
    <2>1. PICK i \in 1 .. a : /\ h[i].kind = "assistant" /\ rest[k] \in h[i].uses
                              /\ \A l \in i + 1 .. a : h[l].kind = "results"
      BY <1>1 DEF Open, a
    <2>2. i \in 1 .. q - 1 /\ e[i] = h[i]
      BY <1>1, <1>4, <1>7
    <2>3. e[q].uses = {rest[k]}
      BY <1>2, <1>4, <1>7
    <2>4. ASSUME NEW l \in i + 1 .. q - 1 PROVE e[l].kind = "results"
      <3>1. CASE l <= a
        <4>1. l \in i + 1 .. a /\ l \in 1 .. a
          BY <1>1, <1>7, <3>1
        <4> QED BY <1>4, <2>1, <4>1
      <3>2. CASE l > a
        <4>1. l \in 1 .. a + b
          BY <1>1, <1>7
        <4> QED BY <1>6, <3>2, <4>1
      <3> QED BY <1>1, <1>7, <3>1, <3>2
    <2>5. e[q].uses \subseteq e[i].uses /\ e[i].kind = "assistant"
      BY <2>1, <2>2, <2>3
    <2> QED BY <2>2, <2>4, <2>5 DEF Follows
  <1>8. ASSUME NEW q \in 1 .. a, e[q].kind = "results" PROVE Follows(e, q)
    <2>1. Follows(h, q) /\ h[q] = e[q]
      BY <1>1, <1>4, <1>8 DEF Matched
    <2>2. \A i \in 1 .. q - 1 : i \in 1 .. a /\ e[i] = h[i]
      BY <1>1, <1>4
    <2>3. \A i \in 1 .. q - 1 : \A k \in i + 1 .. q - 1 : e[k] = h[k]
      BY <1>1, <2>2
    <2> QED BY <2>1, <2>2, <2>3 DEF Follows
  <1>9. ASSUME NEW p \in 1 .. a + b, NEW q \in 1 .. a + b, NEW u,
               e[p].kind = e[q].kind, u \in e[p].uses, u \in e[q].uses
        PROVE  p = q
    <2>1. ASSUME NEW i \in 1 .. a, NEW k \in 1 .. b, e[i] = h[i], h[i].kind = "results",
                 u \in h[i].uses, u = rest[k]
          PROVE  FALSE
      <3>1. Open(h, u)
        BY <1>1, <2>1
      <3> QED BY <2>1, <3>1, OpenNowhere DEF a
    <2>2. CASE p \in 1 .. a /\ q \in 1 .. a
      <3>1. h[p].kind = h[q].kind /\ u \in h[p].uses /\ u \in h[q].uses
        BY <1>4, <1>9, <2>2
      <3> QED BY <1>1, <2>2, <3>1 DEF Matched
    <2>3. CASE p \in 1 .. a /\ q \notin 1 .. a
      <3>1. PICK k \in 1 .. b : e[q].kind = "results" /\ e[q].uses = {rest[k]}
        BY <1>5, <2>3
      <3> QED BY <1>4, <1>9, <2>1, <2>3, <3>1
    <2>4. CASE p \notin 1 .. a /\ q \in 1 .. a
      <3>1. PICK k \in 1 .. b : e[p].kind = "results" /\ e[p].uses = {rest[k]}
        BY <1>5, <2>4
      <3> QED BY <1>4, <1>9, <2>1, <2>4, <3>1
    <2>5. CASE p \notin 1 .. a /\ q \notin 1 .. a
      <3>1. PICK k \in 1 .. b : p = a + k /\ e[p].uses = {rest[k]}
        BY <1>5, <2>5
      <3>2. PICK l \in 1 .. b : q = a + l /\ e[q].uses = {rest[l]}
        BY <1>5, <2>5
      <3>3. k = l
        BY <1>1, <1>9, <3>1, <3>2 DEF Injective
      <3> QED BY <3>1, <3>2, <3>3
    <2> QED BY <2>2, <2>3, <2>4, <2>5
  <1>10. Matched(e)
    <2>1. ASSUME NEW q \in 1 .. a + b, e[q].kind = "results" PROVE Follows(e, q)
      <3>1. CASE q \in 1 .. a
        BY <1>8, <2>1, <3>1
      <3>2. CASE q \notin 1 .. a
        <4>1. PICK k \in 1 .. b : q = a + k
          BY <1>5, <3>2
        <4> QED BY <1>7, <4>1
      <3> QED BY <3>1, <3>2
    <2> QED BY <1>4, <1>9, <2>1 DEF Matched
  <1>11. ASSUME NEW u, Open(h, u), u \notin ToSet(rest)
         PROVE  Open(e, u)
    <2>1. PICK i \in 1 .. a : /\ h[i].kind = "assistant" /\ u \in h[i].uses
                              /\ \A l \in i + 1 .. a : h[l].kind = "results" /\ u \notin h[l].uses
      BY <1>1, <1>11 DEF Open, a
    <2>2. \A k \in 1 .. b : rest[k] # u
      BY <1>1, <1>11 DEF ToSet
    <2>3. ASSUME NEW l \in i + 1 .. a + b
          PROVE  e[l].kind = "results" /\ u \notin e[l].uses
      <3>1. l \in 1 .. a + b
        BY <1>1
      <3>2. CASE l \in 1 .. a
        <4>1. l \in i + 1 .. a
          BY <1>1, <3>2
        <4> QED BY <1>4, <2>1, <3>2, <4>1
      <3>3. CASE l \notin 1 .. a
        BY <1>5, <2>2, <3>1, <3>3
      <3> QED BY <3>2, <3>3
    <2>4. i \in DOMAIN e /\ e[i] = h[i]
      BY <1>1, <1>4
    <2> QED BY <1>4, <2>1, <2>3, <2>4 DEF Open
  <1>12. ASSUME NEW n, Old(h, n)
         PROVE  Old(e, n)
    <2>1. ASSUME NEW q \in 1 .. a + b, NEW u \in e[q].uses
          PROVE  \E i \in 1 .. a : u \in h[i].uses
      <3>1. CASE q \in 1 .. a
        BY <1>4, <2>1, <3>1
      <3>2. CASE q \notin 1 .. a
        <4>1. PICK k \in 1 .. b : u = rest[k]
          BY <1>5, <2>1, <3>2
        <4> QED BY <1>1, <4>1 DEF Open
      <3> QED BY <3>1, <3>2
    <2> QED BY <1>1, <1>4, <1>12, <2>1 DEF Old
  <1> QED BY <1>4, <1>10, <1>11, <1>12 DEF e, d

\* One answer.
LEMMA AnswerOne ==
    ASSUME NEW h \in Seq(Message), Matched(h), NEW u \in Use, Open(h, u)
    PROVE  LET e == Append(h, Results({u})) IN
           /\ e \in Seq(Message) /\ Matched(e)
           /\ \A v : Open(h, v) /\ v # u => Open(e, v)
           /\ \A n : Old(h, n) => Old(e, n)
           /\ h \o <<Results({u})>> = e
  <1> DEFINE rest == <<u>>
  <1>1. /\ rest \in Seq(Use) /\ DOMAIN rest = {1} /\ rest[1] = u
        /\ Injective(rest) /\ ToSet(rest) = {u}
    BY DEF Injective, ToSet
  <1>2. Deferred(rest) = <<Results({u})>>
    <2>1. Deferred(rest) = [n \in 1 .. 1 |-> Results({u})]
      <3>1. \A n \in {1} : Results({rest[n]}) = Results({u})
        BY <1>1
      <3>2. {1} = 1 .. 1
        OBVIOUS
      <3> HIDE DEF rest
      <3> QED BY <1>1, <3>1, <3>2 DEF Deferred
    <2> DEFINE m == Results({u})
    <2> HIDE DEF m
    <2>2. [n \in 1 .. 1 |-> m] = <<m>>
      OBVIOUS
    <2> QED BY <2>1, <2>2 DEF m
  <1> HIDE DEF rest
  <1>3. Append(h, Results({u})) = h \o Deferred(rest) /\ h \o <<Results({u})>> = Append(h, Results({u}))
    <2>1. Results({u}) \in Message
      BY MessageFacts
    <2> QED BY <1>2, <2>1, AppendFacts
  <1>4. \A n \in DOMAIN rest : Open(h, rest[n])
    BY <1>1
  <1>5. LET e == h \o Deferred(rest) IN
        /\ e \in Seq(Message)
        /\ Matched(e)
        /\ \A v : Open(h, v) /\ v \notin ToSet(rest) => Open(e, v)
        /\ \A n : Old(h, n) => Old(e, n)
    BY <1>1, <1>4, AnswerOpen
  <1> QED BY <1>1, <1>3, <1>5

\* A message that answers nothing, and makes no call made before.
LEMMA SayMore ==
    ASSUME NEW h \in Seq(Message), Matched(h), NEW m \in Message, m.kind # "results",
           \A i \in 1 .. Len(h) : h[i].uses \cap m.uses = {}
    PROVE  LET e == Append(h, m) IN
           /\ e \in Seq(Message) /\ Matched(e)
           /\ m.kind = "assistant" => \A u \in m.uses : Open(e, u)
           /\ \A n : Old(h, n) /\ (\A u \in m.uses : u.id < n) => Old(e, n)
  <1> DEFINE e == Append(h, m)
             a == Len(h)
  <1>1. /\ e \in Seq(Message) /\ Len(e) = a + 1 /\ a \in Nat /\ DOMAIN e = 1 .. a + 1
        /\ DOMAIN h = 1 .. a /\ e[a + 1] = m
        /\ \A k \in 1 .. a : e[k] = h[k]
    BY AppendFacts
  <1> HIDE DEF e, a
  <1>2. \A q \in 1 .. a + 1 : (q \in 1 .. a /\ e[q] = h[q]) \/ (q = a + 1 /\ e[q] = m)
    BY <1>1
  <1>3. ASSUME NEW q \in 1 .. a + 1, e[q].kind = "results" PROVE Follows(e, q)
    <2>1. q \in 1 .. a
      BY <1>2, <1>3
    <2>2. Follows(h, q) /\ h[q] = e[q]
      BY <1>1, <1>3, <2>1 DEF Matched
    <2>3. \A i \in 1 .. q - 1 : i \in 1 .. a /\ e[i] = h[i]
      BY <1>1, <2>1
    <2>4. \A i \in 1 .. q - 1 : \A k \in i + 1 .. q - 1 : e[k] = h[k]
      BY <1>1, <2>1, <2>3
    <2> QED BY <2>2, <2>3, <2>4 DEF Follows
  <1>4. ASSUME NEW p \in 1 .. a + 1, NEW q \in 1 .. a + 1, NEW u,
               e[p].kind = e[q].kind, u \in e[p].uses, u \in e[q].uses
        PROVE  p = q
    <2>1. \A i \in 1 .. a : u \in h[i].uses => u \notin m.uses
      BY DEF a
    <2>2. CASE p \in 1 .. a /\ q \in 1 .. a
      <3>1. h[p].kind = h[q].kind /\ u \in h[p].uses /\ u \in h[q].uses
        BY <1>1, <1>4, <2>2
      <3> QED BY <1>1, <2>2, <3>1 DEF Matched
    <2>3. CASE ~(p \in 1 .. a /\ q \in 1 .. a)
      BY <1>2, <1>4, <2>1, <2>3
    <2> QED BY <2>2, <2>3
  <1>5. Matched(e)
    BY <1>1, <1>3, <1>4 DEF Matched
  <1>6. ASSUME m.kind = "assistant", NEW u \in m.uses PROVE Open(e, u)
    <2>1. a + 1 \in DOMAIN e /\ \A k \in a + 1 + 1 .. Len(e) : FALSE
      BY <1>1
    <2> QED BY <1>1, <1>6, <2>1 DEF Open
  <1>7. ASSUME NEW n, Old(h, n), \A u \in m.uses : u.id < n PROVE Old(e, n)
    BY <1>1, <1>2, <1>7 DEF Old
  <1> QED BY <1>1, <1>5, <1>6, <1>7 DEF e

\* The repair makes no call.
LEMMA RepairOld ==
    ASSUME NEW h \in Seq(Message), NEW n, Old(h, n)
    PROVE  Old(repairMissingToolResults(h), n)
  <1> DEFINE out == repairMissingToolResults(h)
  <1>1. out \in Seq(Message)
    BY RepairLayout
  <1>2. PICK pos : Layout(h, out, pos)
    BY RepairLayout
  <1> HIDE DEF out
  <1>3. /\ DOMAIN h = 1 .. Len(h) /\ DOMAIN out = 1 .. Len(out)
        /\ \A k \in 1 .. Len(h) : out[pos[k]] = h[k]
        /\ \A k \in 1 .. Len(h) : Missing(h, k) # {} => out[pos[k] + 1].uses = Missing(h, k)
    BY <1>1, <1>2, LayoutFacts
  <1>4. ASSUME NEW q \in 1 .. Len(out), NEW u \in out[q].uses
        PROVE  \E i \in 1 .. Len(h) : u \in h[i].uses
    <2>1. PICK i \in 1 .. Len(h) : q = pos[i] \/ (Missing(h, i) # {} /\ q = pos[i] + 1)
      BY <1>2 DEF Layout
    <2> QED BY <1>3, <1>4, <2>1, MissingFacts
  <1> QED BY <1>3, <1>4 DEF Old, out

-----------------------------------------------------------------------------
(* Types.                                                                  *)

LiveCopies == \A r \in Requests : req[r].pc # "idle" => req[r].copy \in Session

\* TypeOK, but for the requests.
RestTyped ==
    /\ row \in Session \cup {NoSession}
    /\ logs \in [Ids -> Statuses]
    /\ sends \in [Ids -> Nat] /\ runs \in [Ids -> Nat]
    /\ nextUse \in 1 .. MaxUses + 1
    /\ turns \in 0 .. MaxTurns /\ faults \in 0 .. MaxFaults
    /\ contested \subseteq Ids /\ disturbed \subseteq Ids

LEMMA SessionTypes ==
    /\ NoSession \notin Session /\ NoSession.history = <<>> /\ NoSession.pending = NoPending
    /\ \A sandbox \in {"on", "off"} : [NoSession EXCEPT !.sandbox = sandbox] \in Session
    /\ \A x \in Session :
          /\ x.history \in Seq(Message) /\ x.pending \in Pending \cup {NoPending}
          /\ ClearPending(x) \in Session /\ ClearPending(x).history = x.history
          /\ \A h \in Seq(Message) : /\ [x EXCEPT !.history = h] \in Session
                                     /\ [x EXCEPT !.history = h].history = h
          /\ \A h \in Seq(Message), p \in Pending :
                /\ [x EXCEPT !.history = h, !.pending = p] \in Session
                /\ [x EXCEPT !.history = h, !.pending = p].history = h
  <1>1. NoSession \notin Session /\ NoSession.history = <<>> /\ NoSession.pending = NoPending
    <2>1. NoSession.sandbox = "none" /\ NoSession.history = <<>> /\ NoSession.pending = NoPending
      BY DEF NoSession
    <2>2. \A x \in Session : x.sandbox \in {"on", "off"}
      BY DEF Session
    <2> QED BY <2>1, <2>2
  <1>2. \A sandbox \in {"on", "off"} : [NoSession EXCEPT !.sandbox = sandbox] \in Session
    <2>1. ASSUME NEW sandbox \in {"on", "off"}
          PROVE  [NoSession EXCEPT !.sandbox = sandbox] \in Session
      <3>1. [NoSession EXCEPT !.sandbox = sandbox]
            = [history |-> <<>>, pending |-> NoPending, sandbox |-> sandbox]
        BY DEF NoSession
      <3>2. <<>> \in Seq(Message) /\ NoPending \in Pending \cup {NoPending}
        OBVIOUS
      <3> QED BY <3>1, <3>2 DEF Session
    <2> QED BY <2>1
  <1>3. ASSUME NEW x \in Session
        PROVE  /\ x.history \in Seq(Message) /\ x.pending \in Pending \cup {NoPending}
               /\ ClearPending(x) \in Session /\ ClearPending(x).history = x.history
    BY DEF Session, ClearPending
  <1>4. ASSUME NEW x \in Session, NEW h \in Seq(Message)
        PROVE  [x EXCEPT !.history = h] \in Session /\ [x EXCEPT !.history = h].history = h
    BY DEF Session
  <1>5. ASSUME NEW x \in Session, NEW h \in Seq(Message), NEW p \in Pending
        PROVE  /\ [x EXCEPT !.history = h, !.pending = p] \in Session
               /\ [x EXCEPT !.history = h, !.pending = p].history = h
    BY DEF Session
  <1> QED BY <1>1, <1>2, <1>3, <1>4, <1>5

LEMMA SavingTyped ==
    ASSUME NEW s \in Request, NEW copy \in Session, NEW next \in Steps
    PROVE  Saving(s, copy, next) \in Request
  BY DEF Saving, Request, Steps

LEMMA IdleTyped ==
    /\ Idle \in Request
    /\ \A u \in Use \cup {NoUse}, x \in Session :
          [Idle EXCEPT !.copy = x, !.saw = u] \in Request
    /\ \A u \in Use \cup {NoUse} : [Idle EXCEPT !.saw = u] \in Request
  <1>1. <<>> \in Seq(Use) /\ MAX_PLAY_SEND_RETRIES \in Nat /\ 0 \in 0 .. MAX_PLAY_SEND_RETRIES /\ 0 \in 0 .. 20
    OBVIOUS
  <1>2. Idle \in Request
    BY <1>1 DEF Idle, Request, Steps
  <1>3. \A u \in Use \cup {NoUse}, x \in Session :
           [Idle EXCEPT !.copy = x, !.saw = u] \in Request
    BY <1>2 DEF Request
  <1>4. \A u \in Use \cup {NoUse} : [Idle EXCEPT !.saw = u] \in Request
    BY <1>2 DEF Request
  <1> QED BY <1>2, <1>3, <1>4

LEMMA TypeBecome ==
    ASSUME TypeOK, LiveCopies, RestTyped', NEW r \in Requests, NEW s \in Request,
           Become(r, s), s.pc # "idle" => s.copy \in Session
    PROVE  TypeOK' /\ LiveCopies'
  <1>1. req' \in [Requests -> Request] /\ req'[r] = s /\ \A q \in Requests \ {r} : req'[q] = req[q]
    BY DEF TypeOK, Become
  <1> QED BY <1>1 DEF TypeOK, LiveCopies, RestTyped

LEMMA FoundTyped ==
    /\ \A p \in Pending \cup {NoPending} : Found(p) \subseteq Ids
    /\ \A u \in Use \cup {NoUse} : Found([use |-> u]) \subseteq Ids
  BY UseFacts, PendingFacts DEF Found, NoUse

LEMMA RowTyped ==
    ASSUME RestTyped
    PROVE  row.pending \in Pending \cup {NoPending} /\ row.pending.use \in Use \cup {NoUse}
  BY SessionTypes, PendingFacts DEF RestTyped

\* What an action leaves alone, or counts.
LEMMA RestStep ==
    ASSUME IInv', RestTyped,
           row' \in Session \cup {NoSession},
           logs' \in [Ids -> Statuses],
           UNCHANGED sends \/ \E i \in Ids : sends' = [sends EXCEPT ![i] = @ + 1],
           UNCHANGED turns \/ (turns < MaxTurns /\ turns' = turns + 1),
           UNCHANGED faults \/ (faults < MaxFaults /\ faults' = faults + 1),
           UNCHANGED contested \/ \E r \in Requests : Load(r),
           UNCHANGED disturbed \/ \E D \in SUBSET Ids : disturbed' = disturbed \cup D
    PROVE  RestTyped'
  <1>1. runs' \in [Ids -> Nat] /\ nextUse' \in 1 .. MaxUses + 1
    BY DEF IInv, Typing
  <1>2. sends' \in [Ids -> Nat]
    BY DEF RestTyped
  <1>3. turns' \in 0 .. MaxTurns
    BY DEF RestTyped
  <1>6. faults' \in 0 .. MaxFaults
    BY DEF RestTyped
  <1>4. contested' \subseteq Ids
    BY RowTyped, FoundTyped DEF RestTyped, Load
  <1>5. disturbed' \subseteq Ids
    BY DEF RestTyped
  <1> QED BY <1>1, <1>2, <1>3, <1>4, <1>5, <1>6 DEF RestTyped

LEMMA LogTyped ==
    ASSUME RestTyped, NEW u, NEW status \in Statuses,
           UNCHANGED logs \/ complete(u, status) \/ createPending(u, status)
    PROVE  logs' \in [Ids -> Statuses]
  BY DEF RestTyped, complete, createPending

LEMMA UnsavedTyped ==
    ASSUME TypeOK, LiveCopies, NEW r \in Requests
    PROVE  Unsaved(req[r]) \in SUBSET Ids
  <1>1. req[r].saw \in Use \cup {NoUse}
    BY DEF TypeOK, Request
  <1>2. req[r].pc \in {"save", "write"} => req[r].copy.pending \in Pending \cup {NoPending}
    BY SessionTypes DEF LiveCopies
  <1> QED BY <1>1, <1>2, FoundTyped DEF Unsaved

LEMMA RestOf ==
    ASSUME TypeOK
    PROVE  RestTyped
  BY DEF TypeOK, RestTyped

\* A step that gives r state s, a session at hand, and changes the log at most.
LEMMA TypeMove ==
    ASSUME IInv', TypeOK, LiveCopies, NEW r \in Requests, NEW s \in Request,
           s.copy \in Session, Become(r, s), UNCHANGED <<row, disturbed>>,
           logs' \in [Ids -> Statuses],
           UNCHANGED sends \/ \E i \in Ids : sends' = [sends EXCEPT ![i] = @ + 1],
           UNCHANGED turns \/ (turns < MaxTurns /\ turns' = turns + 1),
           UNCHANGED faults \/ (faults < MaxFaults /\ faults' = faults + 1),
           UNCHANGED contested \/ \E q \in Requests : Load(q)
    PROVE  TypeOK' /\ LiveCopies'
  <1>1. RestTyped /\ row' \in Session \cup {NoSession}
    BY DEF TypeOK, RestTyped
  <1>2. RestTyped'
    BY <1>1, RestStep
  <1> QED BY <1>2, TypeBecome

LEMMA TypeAbandon ==
    ASSUME IInv', TypeOK, LiveCopies, NEW r \in Requests, Abandon(r), UNCHANGED row,
           logs' \in [Ids -> Statuses],
           UNCHANGED <<sends, turns, contested>>,
           UNCHANGED faults \/ Fault
    PROVE  TypeOK' /\ LiveCopies'
  <1>1. \E D \in SUBSET Ids : disturbed' = disturbed \cup D
    BY UnsavedTyped DEF Abandon
  <1>2. RestTyped /\ row' \in Session \cup {NoSession}
    BY DEF TypeOK, RestTyped
  <1>3. RestTyped'
    BY <1>1, <1>2, RestStep DEF Fault
  <1>4. Become(r, Idle) /\ Idle \in Request /\ Idle.pc = "idle"
    BY IdleTyped, IdleFacts DEF Abandon
  <1> QED BY <1>3, <1>4, TypeBecome

LEMMA TypeSave ==
    ASSUME IInv, IInv', TypeOK, LiveCopies, NEW r \in Requests, SaveSelect(r) \/ SaveWrite(r)
    PROVE  TypeOK' /\ LiveCopies'
  <1>1. /\ req[r] \in Request /\ req[r].pc \in {"save", "write"} /\ req[r].copy \in Session
        /\ row \in Session \cup {NoSession} /\ logs \in [Ids -> Statuses] /\ RestTyped
    BY RestOf DEF TypeOK, SaveSelect, SaveWrite, LiveCopies
  <1>2. CASE SaveSelect(r)
    <2> DEFINE s == [req[r] EXCEPT !.pc = "write", !.base = row]
    <2>1. s \in Request /\ s.copy = req[r].copy
      BY <1>1 DEF Request, Steps
    <2>2. Become(r, s)
      BY <1>2 DEF SaveSelect
    <2> HIDE DEF s
    <2> QED BY <1>1, <1>2, <2>1, <2>2, TypeMove DEF SaveSelect
  <1>3. CASE SaveWrite(r) /\ req[r].base = NoSession /\ row # NoSession
    BY <1>1, <1>3, TypeAbandon DEF SaveWrite
  <1>4. CASE SaveWrite(r) /\ ~(req[r].base = NoSession /\ row # NoSession)
    <2> DEFINE s == [req[r] EXCEPT !.pc = req[r].next, !.next = "idle", !.base = NoSession,
                        !.saw = IF req[r].copy.pending.use = req[r].saw THEN @ ELSE NoUse]
    <2>1. Become(r, s)
      BY <1>4 DEF SaveWrite
    <2>2. s \in Request /\ s.copy = req[r].copy
      BY <1>1 DEF Request, Steps
    <2> HIDE DEF s
    <2>3. row' \in Session \cup {NoSession}
      <3>1. CASE req[r].base = NoSession
        BY <1>1, <1>4, <3>1 DEF SaveWrite
      <3>2. CASE row = NoSession
        BY <1>1, <1>4, <3>2 DEF SaveWrite
      <3>3. CASE req[r].base # NoSession /\ row # NoSession
        <4>1. row' = ChangedColumns(req[r].copy, req[r].base) /\ row \in Session
          BY <1>1, <1>4, <3>3 DEF SaveWrite
        <4> QED BY <1>1, <4>1 DEF ChangedColumns, Session
      <3> QED BY <3>1, <3>2, <3>3
    <2>4. RestTyped'
      BY <1>1, <1>4, <2>3, RestStep DEF SaveWrite
    <2> QED BY <1>1, <2>1, <2>2, <2>4, TypeBecome
  <1> QED BY <1>2, <1>3, <1>4

\* The history that Compose, Reject and SubmitClientToolResult make.
LEMMA HistoryTyped ==
    ASSUME NEW h \in Seq(Message), NEW p \in Pending \cup {NoPending}
    PROVE  /\ h \o (IF p = NoPending THEN <<>> ELSE <<Results({p.use})>>) \o <<UserMessage>> \in Seq(Message)
           /\ p # NoPending => /\ h \o <<Results({p.use}), AssistantMessage({})>> \in Seq(Message)
                               /\ Append(h, Results({p.use})) \in Seq(Message)
  <1>1. <<UserMessage>> \in Seq(Message) /\ AssistantMessage({}) \in Message
    BY MessageFacts
  <1>2. CASE p = NoPending
    BY <1>1, <1>2
  <1>3. CASE p # NoPending
    <2>1. Results({p.use}) \in Message
      BY <1>3, MessageFacts DEF Pending
    <2> HIDE DEF Message
    <2> DEFINE m == Results({p.use})
               a == AssistantMessage({})
    <2>2. m \in Message /\ a \in Message
      BY <1>1, <2>1
    <2> HIDE DEF m, a
    <2>3. h \o <<m>> \in Seq(Message) /\ h \o <<m, a>> \in Seq(Message) /\ Append(h, m) \in Seq(Message)
      BY <2>2
    <2>4. h \o <<m>> \o <<UserMessage>> \in Seq(Message)
      BY <1>1, <2>3
    <2> QED BY <1>3, <2>3, <2>4 DEF m, a
  <1> QED BY <1>2, <1>3

LEMMA TypeBegin ==
    ASSUME IInv, IInv', TypeOK, LiveCopies, NEW r \in Requests,
           Chat(r) \/ Approve(r) \/ Reject(r)
              \/ \E status \in {"completed", "failed"} : SubmitClientToolResult(r, status)
    PROVE  TypeOK' /\ LiveCopies'
  <1> DEFINE u == row.pending.use
  <1>1. /\ row \in Session \cup {NoSession} /\ u \in Use \cup {NoUse} /\ RestTyped
        /\ row.pending \in Pending \cup {NoPending}
        /\ row # NoSession => row.history \in Seq(Message)
        /\ UNCHANGED <<row, disturbed, sends, faults>> /\ Load(r)
        /\ UNCHANGED turns \/ (turns < MaxTurns /\ turns' = turns + 1)
    BY RestOf, RowTyped, SessionTypes DEF TypeOK, Chat, Approve, Reject, SubmitClientToolResult
  <1> HIDE DEF u
  <1>2. ASSUME NEW s \in Request, s.copy \in Session, Become(r, s), logs' \in [Ids -> Statuses]
        PROVE  TypeOK' /\ LiveCopies'
    BY <1>1, <1>2, TypeMove
  <1>3. ASSUME NEW s \in Request, NEW x \in Session, NEW next \in Steps,
               Become(r, Saving(s, x, next)), logs' \in [Ids -> Statuses]
        PROVE  TypeOK' /\ LiveCopies'
    <2>1. Saving(s, x, next) \in Request /\ Saving(s, x, next).copy = x
      BY <1>3, SavingTyped DEF Saving, Request
    <2> QED BY <1>2, <1>3, <2>1
  <1>4. CASE Chat(r)
    <2> DEFINE loaded == [Idle EXCEPT !.copy = row, !.saw = u]
    <2>1. logs' \in [Ids -> Statuses]
      BY <1>1, <1>4 DEF Chat, RestTyped
    <2>2. CASE row = NoSession
      <3>1. PICK sandbox \in {"on", "off"} :
               Become(r, Saving(Idle, [NoSession EXCEPT !.sandbox = sandbox], "compose"))
        BY <1>4, <2>2 DEF Chat
      <3>2. [NoSession EXCEPT !.sandbox = sandbox] \in Session /\ Idle \in Request /\ "compose" \in Steps
        BY SessionTypes, IdleTyped DEF Steps
      <3> QED BY <1>3, <2>1, <3>1, <3>2
    <2>3. CASE row # NoSession
      <3>1. loaded \in Request /\ loaded.copy = row /\ row \in Session
        BY <1>1, <2>3, IdleTyped, IdleFacts DEF Fields
      <3>2. Become(r, Saving(loaded, row, "compose")) \/ Become(r, [loaded EXCEPT !.pc = "compose"])
        BY <1>4, <2>3 DEF Chat, u
      <3> HIDE DEF loaded
      <3>3. [loaded EXCEPT !.pc = "compose"] \in Request /\ [loaded EXCEPT !.pc = "compose"].copy = row
        BY <3>1 DEF Request, Steps
      <3>4. "compose" \in Steps
        BY DEF Steps
      <3> QED BY <1>2, <1>3, <2>1, <3>1, <3>2, <3>3, <3>4
    <2> QED BY <2>2, <2>3
  <1>5. CASE Approve(r)
    <2> DEFINE s == [Idle EXCEPT !.pc = "run", !.copy = ClearPending(row), !.use = u,
                                 !.confirmed = TRUE, !.saw = u]
    <2>1. Become(r, s) /\ row # NoSession /\ UNCHANGED logs
      BY <1>5 DEF Approve, HasPending, u
    <2>2. ClearPending(row) \in Session
      BY <1>1, <2>1, SessionTypes
    <2>3. s \in Request /\ s.copy = ClearPending(row)
      BY <1>1, <2>2, IdleTyped DEF Request, Steps
    <2> HIDE DEF s
    <2> QED BY <1>1, <1>2, <2>1, <2>2, <2>3 DEF RestTyped
  <1>6. ASSUME NEW h \in Seq(Message), NEW next \in Steps, row # NoSession,
               Become(r, Saving([Idle EXCEPT !.saw = u], [ClearPending(row) EXCEPT !.history = h], next)),
               logs' \in [Ids -> Statuses]
        PROVE  TypeOK' /\ LiveCopies'
    <2>1. [ClearPending(row) EXCEPT !.history = h] \in Session
      BY <1>1, <1>6, SessionTypes
    <2>2. [Idle EXCEPT !.saw = u] \in Request
      BY <1>1, IdleTyped
    <2> QED BY <1>3, <1>6, <2>1, <2>2
  <1>7. row # NoSession => ClearPending(row).history = row.history
    BY <1>1, SessionTypes
  <1>8. CASE Reject(r)
    <2> DEFINE h == row.history \o <<Results({u}), AssistantMessage({})>>
    <2>1. row # NoSession /\ row.pending # NoPending /\ complete(u, "cancelled") /\ "snapshot" \in Steps
      BY <1>8 DEF Reject, HasPending, u, Steps
    <2>2. h \in Seq(Message)
      BY <1>1, <2>1, HistoryTyped DEF u
    <2>3. logs' \in [Ids -> Statuses]
      BY <1>1, <2>1, LogTyped DEF Statuses
    <2>4. Become(r, Saving([Idle EXCEPT !.saw = u], [ClearPending(row) EXCEPT !.history = h], "snapshot"))
      BY <1>7, <1>8, <2>1 DEF Reject, u
    <2> HIDE DEF h
    <2> QED BY <1>6, <2>1, <2>2, <2>3, <2>4
  <1>9. ASSUME NEW status \in {"completed", "failed"}, SubmitClientToolResult(r, status)
        PROVE  TypeOK' /\ LiveCopies'
    <2> DEFINE h == Append(row.history, Results({u}))
    <2>1. row # NoSession /\ row.pending # NoPending /\ complete(u, status) /\ "repair" \in Steps
      BY <1>9 DEF SubmitClientToolResult, HasPending, u, Steps
    <2>2. h \in Seq(Message)
      BY <1>1, <2>1, HistoryTyped DEF u
    <2>3. logs' \in [Ids -> Statuses]
      BY <1>1, <2>1, LogTyped DEF Statuses
    <2>4. Become(r, Saving([Idle EXCEPT !.saw = u], [ClearPending(row) EXCEPT !.history = h], "repair"))
      BY <1>7, <1>9, <2>1 DEF SubmitClientToolResult, u
    <2> HIDE DEF h
    <2> QED BY <1>6, <2>1, <2>2, <2>3, <2>4
  <1> QED BY <1>4, <1>5, <1>8, <1>9

LEMMA DeferredTyped ==
    ASSUME NEW rest \in Seq(Use), NEW h \in Seq(Message)
    PROVE  h \o Deferred(rest) \in Seq(Message)
  <1> DEFINE d == Deferred(rest)
  <1>1. \A n \in 1 .. Len(rest) : Results({rest[n]}) \in Message
    BY MessageFacts
  <1>2. d \in Seq(Message)
    <2>1. DOMAIN rest = 1 .. Len(rest) /\ Len(rest) \in Nat
      OBVIOUS
    <2>2. d = [n \in 1 .. Len(rest) |-> Results({rest[n]})]
      BY <2>1 DEF Deferred
    <2>3. d \in [1 .. Len(rest) -> Message]
      BY <1>1, <2>2
    <2> HIDE DEF d
    <2> QED BY <2>1, <2>3
  <1> HIDE DEF d
  <1> QED BY <1>2 DEF d

\* The calls the model makes.
LEMMA CallsTyped ==
    ASSUME nextUse \in 1 .. MaxUses + 1,
           NEW kinds \in UNION {[1 .. m -> ToolKinds] : m \in 0 .. MaxUses + 1 - nextUse}
    PROVE  LET uses == [n \in DOMAIN kinds |-> [id |-> nextUse + n - 1, tool |-> kinds[n]]] IN
           /\ uses \in Seq(Use) /\ ToSet(uses) \in SUBSET Use /\ Len(uses) \in Nat
           /\ \A u \in ToSet(uses) : u.id >= nextUse /\ u.id < nextUse + Len(uses)
           /\ uses = <<>> => ToSet(uses) = {}
  <1> DEFINE uses == [n \in DOMAIN kinds |-> [id |-> nextUse + n - 1, tool |-> kinds[n]]]
  <1>1. PICK m \in 0 .. MaxUses + 1 - nextUse : kinds \in [1 .. m -> ToolKinds]
    OBVIOUS
  <1>2. m \in Nat /\ DOMAIN kinds = 1 .. m /\ DOMAIN uses = 1 .. m
    BY <1>1
  <1>3. ASSUME NEW n \in 1 .. m
        PROVE  uses[n] \in Use /\ uses[n].id = nextUse + n - 1
    <2>1. nextUse + n - 1 \in 1 .. MaxUses /\ kinds[n] \in Tools
      BY <1>1
    <2>2. uses[n] = [id |-> nextUse + n - 1, tool |-> kinds[n]]
      BY <1>2
    <2> HIDE DEF uses
    <2> QED BY <2>1, <2>2 DEF Use
  <1>4. uses \in [1 .. m -> Use]
    <2>1. uses = [n \in 1 .. m |-> uses[n]]
      BY <1>2
    <2> HIDE DEF uses
    <2> QED BY <1>3, <2>1
  <1> HIDE DEF uses
  <1>5. uses \in Seq(Use) /\ Len(uses) = m
    BY <1>2, <1>4
  <1>6. ToSet(uses) \in SUBSET Use
    BY <1>2, <1>3 DEF ToSet
  <1>7. ASSUME NEW u \in ToSet(uses)
        PROVE  u.id >= nextUse /\ u.id < nextUse + m
    <2>1. PICK n \in 1 .. m : u = uses[n]
      BY <1>2 DEF ToSet
    <2>2. u.id = nextUse + n - 1
      BY <1>3, <2>1
    <2> QED BY <1>2, <2>2
  <1>8. uses = <<>> => ToSet(uses) = {}
    BY DEF ToSet
  <1> QED BY <1>2, <1>5, <1>6, <1>7, <1>8 DEF uses

LEMMA TypeTurn ==
    ASSUME IInv, IInv', TypeOK, LiveCopies, NEW r \in Requests,
           Compose(r) \/ Repair(r) \/ AskModel(r) \/ Reply(r)
    PROVE  TypeOK' /\ LiveCopies'
  <1> DEFINE copy == req[r].copy
  <1>1. /\ req[r] \in Request /\ copy \in Session /\ copy.history \in Seq(Message)
        /\ copy.pending \in Pending \cup {NoPending}
        /\ RestTyped /\ UNCHANGED <<row, disturbed, contested, sends, faults>>
        /\ UNCHANGED turns \/ (turns < MaxTurns /\ turns' = turns + 1)
        /\ ClearPending(copy) \in Session /\ ClearPending(copy).history = copy.history
    BY RestOf, SessionTypes DEF TypeOK, LiveCopies, Compose, Repair, AskModel, Reply
  <1>2. ASSUME NEW x \in Session, NEW next \in Steps, Become(r, Saving(req[r], x, next)),
               logs' \in [Ids -> Statuses]
        PROVE  TypeOK' /\ LiveCopies'
    <2>1. Saving(req[r], x, next) \in Request /\ Saving(req[r], x, next).copy = x
      BY <1>1, SavingTyped DEF Saving, Request
    <2> QED BY <1>1, <1>2, <2>1, TypeMove
  <1>3. CASE Compose(r)
    <2> DEFINE p == copy.pending
               h == copy.history \o (IF p = NoPending THEN <<>> ELSE <<Results({p.use})>>) \o <<UserMessage>>
    <2>1. h \in Seq(Message)
      BY <1>1, HistoryTyped
    <2>2. logs' \in [Ids -> Statuses]
      BY <1>1, <1>3, LogTyped DEF Compose, Statuses
    <2>3. Become(r, Saving(req[r], [ClearPending(copy) EXCEPT !.history = h], "repair"))
      BY <1>1, <1>3 DEF Compose
    <2> HIDE DEF h, copy
    <2>4. [ClearPending(copy) EXCEPT !.history = h] \in Session /\ "repair" \in Steps
      BY <1>1, <2>1, SessionTypes DEF Steps
    <2> QED BY <1>2, <2>2, <2>3, <2>4 DEF copy
  <1>4. CASE Repair(r)
    <2> DEFINE h == repairMissingToolResults(copy.history)
    <2>1. h \in Seq(Message) /\ logs' \in [Ids -> Statuses]
      BY <1>1, <1>4, RepairLayout DEF Repair, RestTyped
    <2> HIDE DEF h
    <2>2. CASE Become(r, Saving(req[r], [copy EXCEPT !.history = h], "model"))
      <3>1. [copy EXCEPT !.history = h] \in Session /\ "model" \in Steps
        BY <1>1, <2>1, SessionTypes DEF Steps
      <3> QED BY <1>2, <2>1, <2>2, <3>1
    <2>3. CASE Become(r, [req[r] EXCEPT !.pc = "model"])
      <3>1. [req[r] EXCEPT !.pc = "model"] \in Request /\ [req[r] EXCEPT !.pc = "model"].copy = copy
        BY <1>1 DEF Request, Steps
      <3> QED BY <1>1, <2>1, <2>3, <3>1, TypeMove
    <2> QED BY <1>4, <2>2, <2>3 DEF Repair, h
  <1>5. CASE AskModel(r)
    <2>1. PICK kinds \in UNION {[1 .. n -> ToolKinds] : n \in 0 .. MaxUses + 1 - nextUse} :
             LET uses == [n \in DOMAIN kinds |-> [id |-> nextUse + n - 1, tool |-> kinds[n]]] IN
             Become(r, [Saving(req[r], [copy EXCEPT !.history =
                                            Append(@, AssistantMessage(ToSet(uses)))],
                               IF uses = <<>> THEN "snapshot" ELSE "tools")
                        EXCEPT !.todo = uses])
      BY <1>5 DEF AskModel
    <2> DEFINE uses == [n \in DOMAIN kinds |-> [id |-> nextUse + n - 1, tool |-> kinds[n]]]
               h == Append(copy.history, AssistantMessage(ToSet(uses)))
               x == [copy EXCEPT !.history = h]
               next == IF uses = <<>> THEN "snapshot" ELSE "tools"
               saving == Saving(req[r], x, next)
               s == [saving EXCEPT !.todo = uses]
    <2>2. Become(r, s)
      BY <2>1
    <2>3. uses \in Seq(Use) /\ ToSet(uses) \in SUBSET Use
      BY <1>1, CallsTyped DEF RestTyped
    <2>4. next \in Steps
      BY DEF Steps
    <2> HIDE DEF uses, next
    <2>5. h \in Seq(Message)
      BY <1>1, <2>3, MessageFacts, AppendFacts
    <2> HIDE DEF h
    <2>6. x \in Session
      BY <1>1, <2>5, SessionTypes
    <2> HIDE DEF x
    <2>7. saving \in Request /\ saving.copy = x
      BY <1>1, <2>4, <2>6, SavingTyped DEF Saving, Request
    <2> HIDE DEF saving
    <2>8. s \in Request /\ s.copy = x
      BY <2>3, <2>7 DEF Request
    <2>9. logs' \in [Ids -> Statuses]
      BY <1>1, <1>5 DEF AskModel, RestTyped
    <2> HIDE DEF s
    <2> QED BY <1>1, <2>2, <2>6, <2>8, <2>9, TypeMove
  <1>6. CASE Reply(r)
    <2>1. Become(r, Idle) /\ Idle \in Request /\ Idle.pc = "idle" /\ UNCHANGED logs
          /\ UNCHANGED <<runs, nextUse, turns>>
      BY <1>6, IdleTyped, IdleFacts DEF Reply
    <2>2. RestTyped'
      BY <1>1, <2>1 DEF RestTyped
    <2> QED BY <2>1, <2>2, TypeBecome
  <1> QED BY <1>3, <1>4, <1>5, <1>6

LEMMA TypeTool ==
    ASSUME IInv, IInv', TypeOK, LiveCopies, NEW r \in Requests, ProposeTool(r) \/ StartTool(r)
    PROVE  TypeOK' /\ LiveCopies'
  <1> DEFINE copy == req[r].copy
             todo == req[r].todo
             u == Head(todo)
  <1>1. /\ req[r] \in Request /\ copy \in Session /\ copy.history \in Seq(Message)
        /\ RestTyped /\ UNCHANGED <<row, disturbed, contested, sends, faults, turns>>
        /\ req[r].pc = "tools"
    BY RestOf, SessionTypes DEF TypeOK, LiveCopies, ProposeTool, StartTool
  <1>2. u \in Use /\ Tail(todo) \in Seq(Use)
    <2>1. todo # <<>>
      BY <1>1 DEF IInv, Shape
    <2> QED BY <2>1, TodoFacts
  <1>3. CASE ProposeTool(r)
    <2> DEFINE h == copy.history \o Deferred(Tail(todo))
               p == [use |-> u, mode |-> resolveDestructiveExecutionMode(copy.sandbox, u)]
               x == [copy EXCEPT !.history = h, !.pending = p]
               saving == Saving(req[r], x, "snapshot")
               s == [saving EXCEPT !.todo = <<>>]
    <2>1. Become(r, s)
      BY <1>3 DEF ProposeTool
    <2>2. h \in Seq(Message)
      BY <1>1, <1>2, DeferredTyped
    <2>3. p \in Pending
      BY <1>2 DEF resolveDestructiveExecutionMode, Pending, Modes
    <2>4. logs' \in [Ids -> Statuses]
      BY <1>1, <1>3, LogTyped DEF ProposeTool, Statuses
    <2> HIDE DEF h, p
    <2>5. x \in Session /\ "snapshot" \in Steps
      BY <1>1, <2>2, <2>3, SessionTypes DEF Steps
    <2> HIDE DEF x
    <2>6. saving \in Request /\ saving.copy = x
      BY <1>1, <2>5, SavingTyped DEF Saving, Request
    <2> HIDE DEF saving
    <2>7. s \in Request /\ s.copy = x
      <3>1. <<>> \in Seq(Use)
        OBVIOUS
      <3> QED BY <2>6, <3>1 DEF Request
    <2> HIDE DEF s
    <2> QED BY <1>1, <2>1, <2>4, <2>5, <2>7, TypeMove
  <1>4. CASE StartTool(r)
    <2> DEFINE s == [req[r] EXCEPT !.pc = "run", !.use = u, !.todo = Tail(@)]
    <2>1. Become(r, s)
      BY <1>4 DEF StartTool
    <2>2. s \in Request /\ s.copy = copy
      BY <1>1, <1>2 DEF Request, Steps
    <2>3. logs' \in [Ids -> Statuses]
      BY <1>1, <1>4, LogTyped DEF StartTool, Statuses
    <2> HIDE DEF s
    <2> QED BY <1>1, <2>1, <2>2, <2>3, TypeMove
  <1> QED BY <1>3, <1>4

LEMMA TypeRun ==
    ASSUME IInv, IInv', TypeOK, LiveCopies, NEW r \in Requests,
           RunTool(r) \/ BeginTool(r) \/ Send(r) \/ Mined(r) \/ ChainFails(r)
    PROVE  TypeOK' /\ LiveCopies'
  <1>1. /\ req[r] \in Request /\ req[r].copy \in Session
        /\ RestTyped /\ UNCHANGED <<row, disturbed, contested, turns, logs>>
        /\ logs \in [Ids -> Statuses]
        /\ req[r].pc \in {"run", "sent"}
        /\ UNCHANGED faults \/ (faults < MaxFaults /\ faults' = faults + 1)
    BY RestOf DEF TypeOK, LiveCopies, RunTool, BeginTool, Send, Mined, ChainFails, Fault
  <1>2. req[r].use \in Use /\ req[r].use.id \in Ids /\ (req[r].pc = "sent" => req[r].left > 0)
    BY <1>1, UseFacts DEF IInv, Shape
  <1>3. ASSUME NEW s \in Request, s.copy = req[r].copy, Become(r, s),
               UNCHANGED sends \/ \E i \in Ids : sends' = [sends EXCEPT ![i] = @ + 1]
        PROVE  TypeOK' /\ LiveCopies'
    BY <1>1, <1>3, TypeMove
  <1>4. ASSUME NEW outcome \in {"completed", "failed"}, Become(r, Outcome(req[r], outcome)), UNCHANGED sends
        PROVE  TypeOK' /\ LiveCopies'
    <2>1. Outcome(req[r], outcome) \in Request /\ Outcome(req[r], outcome).copy = req[r].copy
      <3>1. 0 \in 0 .. 20 /\ 0 \in 0 .. MAX_PLAY_SEND_RETRIES
        OBVIOUS
      <3>2. "complete" \in Steps
        BY DEF Steps
      <3> QED BY <1>1, <1>4, <3>1, <3>2 DEF Outcome, Request
    <2> QED BY <1>3, <1>4, <2>1
  <1>5. ASSUME NEW pc \in Steps, NEW left \in 0 .. 20, NEW attempt \in 0 .. MAX_PLAY_SEND_RETRIES,
               Become(r, [req[r] EXCEPT !.pc = pc, !.left = left, !.attempt = attempt]),
               UNCHANGED sends \/ \E i \in Ids : sends' = [sends EXCEPT ![i] = @ + 1]
        PROVE  TypeOK' /\ LiveCopies'
    <2> DEFINE s == [req[r] EXCEPT !.pc = pc, !.left = left, !.attempt = attempt]
    <2>1. s \in Request /\ s.copy = req[r].copy
      BY <1>1 DEF Request
    <2> HIDE DEF s
    <2> QED BY <1>3, <1>5, <2>1 DEF s
  <1>6. "run" \in Steps /\ "sent" \in Steps /\ 1 \in 0 .. MAX_PLAY_SEND_RETRIES
        /\ req[r].left \in 0 .. 20 /\ req[r].attempt \in 0 .. MAX_PLAY_SEND_RETRIES
    BY <1>1 DEF Steps, Request
  <1>7. CASE RunTool(r)
    BY <1>4, <1>7 DEF RunTool
  <1>8. CASE BeginTool(r)
    <2>1. [req[r] EXCEPT !.left = Rounds(req[r].use), !.attempt = 1]
          = [req[r] EXCEPT !.pc = "run", !.left = Rounds(req[r].use), !.attempt = 1]
      BY <1>1, <1>8 DEF BeginTool, Request
    <2>2. Rounds(req[r].use) \in 0 .. 20
      BY DEF Rounds
    <2> QED BY <1>5, <1>6, <1>8, <2>1, <2>2 DEF BeginTool
  <1>9. CASE Send(r)
    <2>1. [req[r] EXCEPT !.pc = "sent"]
          = [req[r] EXCEPT !.pc = "sent", !.left = req[r].left, !.attempt = req[r].attempt]
      BY <1>1 DEF Request
    <2>2. Become(r, [req[r] EXCEPT !.pc = "sent"]) /\ sends' = [sends EXCEPT ![req[r].use.id] = @ + 1]
      BY <1>9 DEF Send
    <2> QED BY <1>2, <1>5, <1>6, <2>1, <2>2
  <1>10. CASE Mined(r)
    <2>1. CASE req[r].left = 1
      BY <1>4, <1>10, <2>1 DEF Mined
    <2>2. CASE req[r].left # 1
      <3>1. req[r].left - 1 \in 0 .. 20
        BY <1>2, <1>6, <1>10 DEF Mined
      <3> QED BY <1>5, <1>6, <1>10, <2>2, <3>1 DEF Mined
    <2> QED BY <2>1, <2>2
  <1>11. CASE ChainFails(r)
    <2>1. CASE Become(r, Outcome(req[r], "failed"))
      BY <1>4, <1>11, <2>1 DEF ChainFails
    <2>2. CASE MayRetry(req[r]) /\ Become(r, [req[r] EXCEPT !.pc = "run", !.attempt = @ + 1])
      <3>1. [req[r] EXCEPT !.pc = "run", !.attempt = @ + 1]
            = [req[r] EXCEPT !.pc = "run", !.left = req[r].left, !.attempt = @ + 1]
        BY <1>1 DEF Request
      <3>2. req[r].attempt + 1 \in 0 .. MAX_PLAY_SEND_RETRIES
        BY <1>6, <2>2 DEF MayRetry
      <3> QED BY <1>5, <1>6, <1>11, <2>2, <3>1, <3>2 DEF ChainFails
    <2> QED BY <1>11, <2>1, <2>2 DEF ChainFails
  <1> QED BY <1>7, <1>8, <1>9, <1>10, <1>11

LEMMA TypeComplete ==
    ASSUME IInv, IInv', TypeOK, LiveCopies, NEW r \in Requests, CompleteTool(r)
    PROVE  TypeOK' /\ LiveCopies'
  <1> DEFINE copy == req[r].copy
             h == Append(copy.history, Results({req[r].use}))
             x == [copy EXCEPT !.history = h]
             next == IF req[r].confirmed THEN "repair"
                     ELSE IF req[r].todo = <<>> THEN "model" ELSE "tools"
             saving == Saving(req[r], x, next)
             s == [saving EXCEPT !.use = NoUse, !.confirmed = FALSE, !.outcome = "none"]
  <1>1. /\ req[r] \in Request /\ copy \in Session /\ copy.history \in Seq(Message)
        /\ RestTyped /\ UNCHANGED <<row, disturbed, contested, sends, faults, turns>>
        /\ req[r].pc = "complete"
    BY RestOf, SessionTypes DEF TypeOK, LiveCopies, CompleteTool
  <1>2. req[r].use \in Use
    BY <1>1 DEF IInv, Shape
  <1>3. Become(r, s) /\ complete(req[r].use, req[r].outcome)
    BY DEF CompleteTool
  <1>4. logs' \in [Ids -> Statuses]
    <2>1. req[r].outcome \in Statuses
      BY <1>1 DEF Request, Statuses
    <2> QED BY <1>1, <1>3, <2>1, LogTyped
  <1>5. h \in Seq(Message)
    BY <1>1, <1>2, MessageFacts, AppendFacts
  <1>6. next \in Steps
    BY DEF Steps
  <1> HIDE DEF h, next
  <1>7. x \in Session
    BY <1>1, <1>5, SessionTypes
  <1> HIDE DEF x
  <1>8. saving \in Request /\ saving.copy = x
    BY <1>1, <1>6, <1>7, SavingTyped DEF Saving, Request
  <1> HIDE DEF saving
  <1>9. s \in Request /\ s.copy = x
    BY <1>8 DEF Request
  <1> HIDE DEF s
  <1> QED BY <1>1, <1>3, <1>4, <1>7, <1>9, TypeMove

LEMMA TypeEnds ==
    ASSUME IInv, IInv', TypeOK, LiveCopies, NEW r \in Requests,
           ModelFails(r) \/ ToolThrows(r) \/ Crash(r) \/ DeleteSession(r)
    PROVE  TypeOK' /\ LiveCopies'
  <1>1. RestTyped /\ logs \in [Ids -> Statuses]
    BY RestOf DEF RestTyped
  <1>2. CASE ModelFails(r)
    BY <1>1, <1>2, TypeAbandon DEF ModelFails
  <1>3. CASE ToolThrows(r)
    <2>1. logs' \in [Ids -> Statuses]
      BY <1>1, <1>3, LogTyped DEF ToolThrows, Statuses
    <2> QED BY <1>3, <2>1, TypeAbandon DEF ToolThrows
  <1>4. CASE Crash(r)
    BY <1>1, <1>4, TypeAbandon DEF Crash
  <1>5. CASE DeleteSession(r)
    <2>1. Found(row.pending) \subseteq Ids
      BY <1>1, RowTyped, FoundTyped
    <2>2. RestTyped'
      BY <1>1, <1>5, <2>1 DEF DeleteSession, RestTyped
    <2>3. UNCHANGED req
      BY <1>5 DEF DeleteSession
    <2> QED BY <2>2, <2>3 DEF TypeOK, LiveCopies, RestTyped
  <1> QED BY <1>2, <1>3, <1>4, <1>5

LEMMA TypeNext ==
    ASSUME IInv, TypeOK, LiveCopies, [Next]_vars
    PROVE  TypeOK' /\ LiveCopies'
  <1>1. IInv'
    BY NextInv
  <1>2. ASSUME NEW r \in Requests, Step(r)
        PROVE  TypeOK' /\ LiveCopies'
    <2>1. CASE SaveSelect(r) \/ SaveWrite(r)
      BY <1>1, <2>1, TypeSave
    <2>2. CASE Chat(r) \/ Approve(r) \/ Reject(r)
                 \/ \E status \in {"completed", "failed"} : SubmitClientToolResult(r, status)
      BY <1>1, <2>2, TypeBegin
    <2>3. CASE Compose(r) \/ Repair(r) \/ AskModel(r) \/ Reply(r)
      BY <1>1, <2>3, TypeTurn
    <2>4. CASE ProposeTool(r) \/ StartTool(r) \/ CompleteTool(r)
      BY <1>1, <2>4, TypeTool, TypeComplete
    <2>5. CASE RunTool(r) \/ BeginTool(r) \/ Send(r) \/ Mined(r) \/ ChainFails(r)
      BY <1>1, <2>5, TypeRun
    <2>6. CASE ModelFails(r) \/ ToolThrows(r) \/ Crash(r) \/ DeleteSession(r)
      BY <1>1, <2>6, TypeEnds
    <2> QED BY <1>2, <2>1, <2>2, <2>3, <2>4, <2>5, <2>6 DEF Step
  <1>3. CASE UNCHANGED vars
    BY <1>3 DEF vars, TypeOK, LiveCopies
  <1> QED BY <1>2, <1>3 DEF Next

LEMMA InitTypes == Init => TypeOK /\ LiveCopies
  <1> SUFFICES ASSUME Init PROVE TypeOK /\ LiveCopies
    OBVIOUS
  <1>1. 0 \in Nat /\ 1 \in 1 .. MaxUses + 1 /\ 0 \in 0 .. MaxTurns /\ 0 \in 0 .. MaxFaults
    OBVIOUS
  <1>2. RestTyped
    BY <1>1 DEF Init, RestTyped, Statuses
  <1>3. req \in [Requests -> Request] /\ \A r \in Requests : req[r].pc = "idle"
    BY IdleTyped, IdleFacts DEF Init
  <1> QED BY <1>2, <1>3 DEF TypeOK, RestTyped, LiveCopies

(* The history and the rest of the session keep their types, and a request *)
(* that is under way has a session in memory.                              *)
THEOREM AgentTypes == Spec => []TypeOK
  <1>1. IInv /\ (TypeOK /\ LiveCopies) /\ [Next]_vars => (TypeOK /\ LiveCopies)'
    BY TypeNext
  <1> QED BY InitTypes, <1>1, AgentInvariant, PTL DEF Spec

-----------------------------------------------------------------------------
(* The calls of a history are answered.                                    *)

\* s is at step p, or will be when its save is done.
At(s, p) == s.pc = p \/ (s.pc \in {"save", "write"} /\ s.next = p)
Running(s) == s.pc \in {"run", "sent", "complete"}

\* What is still owed are the calls the request has yet to handle.
AnswersOK(s) ==
    /\ At(s, "model") => AllAnswered(s.copy.history)
    /\ At(s, "tools") => Owing(s.copy.history, ToSet(s.todo))
    /\ Running(s) /\ ~s.confirmed => Owing(s.copy.history, ToSet(s.todo) \cup {s.use})

AnswersInv == \A r \in Requests : AnswersOK(req[r])

LEMMA HeadTail ==
    ASSUME NEW todo \in Seq(Use), todo # <<>>
    PROVE  ToSet(todo) = {Head(todo)} \cup ToSet(Tail(todo))
  <1>1. Len(todo) \in Nat \ {0} /\ DOMAIN todo = 1 .. Len(todo) /\ Head(todo) = todo[1]
    OBVIOUS
  <1>2. /\ DOMAIN Tail(todo) = 1 .. Len(todo) - 1
        /\ \A n \in 1 .. Len(todo) - 1 : Tail(todo)[n] = todo[n + 1]
    BY <1>1
  <1>3. ToSet(todo) = {todo[n] : n \in 1 .. Len(todo)}
    BY <1>1 DEF ToSet
  <1>4. ToSet(Tail(todo)) = {todo[n + 1] : n \in 1 .. Len(todo) - 1}
    <2> DEFINE t == Tail(todo)
    <2>1. DOMAIN t = 1 .. Len(todo) - 1 /\ \A n \in 1 .. Len(todo) - 1 : t[n] = todo[n + 1]
      BY <1>2
    <2> HIDE DEF t
    <2>2. ToSet(t) = {t[n] : n \in 1 .. Len(todo) - 1}
      BY <2>1 DEF ToSet
    <2> QED BY <2>1, <2>2 DEF t
  <1>5. ASSUME NEW n \in 1 .. Len(todo) PROVE todo[n] \in {todo[1]} \cup {todo[k + 1] : k \in 1 .. Len(todo) - 1}
    <2>1. CASE n # 1
      <3>1. n - 1 \in 1 .. Len(todo) - 1 /\ n = (n - 1) + 1
        BY <1>1, <2>1
      <3>2. \E k \in 1 .. Len(todo) - 1 : todo[n] = todo[k + 1]
        BY <3>1
      <3> QED BY <3>2
    <2> QED BY <2>1
  <1>6. ASSUME NEW k \in 1 .. Len(todo) - 1 PROVE todo[k + 1] \in {todo[n] : n \in 1 .. Len(todo)}
    <2>1. k + 1 \in 1 .. Len(todo)
      BY <1>1
    <2> QED BY <2>1
  <1>7. todo[1] \in {todo[n] : n \in 1 .. Len(todo)}
    <2>1. 1 \in 1 .. Len(todo)
      BY <1>1
    <2> QED BY <2>1
  <1> QED BY <1>1, <1>3, <1>4, <1>5, <1>6, <1>7

\* A step after which r is where nothing is asked of its history.
LEMMA AnswersElse ==
    ASSUME IInv, AnswersInv, NEW r \in Requests, NEW s, Become(r, s), AnswersOK(s)
    PROVE  AnswersInv'
  <1>1. req'[r] = s /\ \A q \in Requests \ {r} : req'[q] = req[q]
    BY BecomeFacts DEF IInv
  <1> QED BY <1>1 DEF AnswersInv, AnswersOK, At, Running

LEMMA AnswersSaving ==
    ASSUME NEW s \in Request, NEW x, NEW next, next \notin {"model", "tools"}
    PROVE  AnswersOK(Saving(s, x, next))
  BY DEF Saving, Request, AnswersOK, At, Running

LEMMA AnswersSave ==
    ASSUME IInv, TypeOK, LiveCopies, AnswersInv, NEW r \in Requests, SaveSelect(r) \/ SaveWrite(r)
    PROVE  AnswersInv'
  <1>1. /\ req[r] \in Request /\ AnswersOK(req[r]) /\ req[r].pc \in {"save", "write"}
        /\ req[r].next \in {"compose", "repair", "model", "tools", "snapshot"}
    BY DEF TypeOK, AnswersInv, SaveSelect, SaveWrite, IInv, Shape
  <1>2. ASSUME NEW s, Become(r, s), s.copy = req[r].copy, s.todo = req[r].todo,
               (s.pc = "write" /\ s.next = req[r].next) \/ s.pc = req[r].next
        PROVE  AnswersInv'
    <2>1. AnswersOK(s)
      BY <1>1, <1>2 DEF AnswersOK, At, Running
    <2> QED BY <1>2, <2>1, AnswersElse
  <1>3. CASE SaveSelect(r)
    <2> DEFINE s == [req[r] EXCEPT !.pc = "write", !.base = row]
    <2>1. s.copy = req[r].copy /\ s.todo = req[r].todo /\ s.pc = "write" /\ s.next = req[r].next
      BY <1>1 DEF Request
    <2> HIDE DEF s
    <2> QED BY <1>2, <1>3, <2>1 DEF SaveSelect, s
  <1>4. CASE SaveWrite(r)
    <2> DEFINE s == [req[r] EXCEPT !.pc = req[r].next, !.next = "idle", !.base = NoSession,
                        !.saw = IF req[r].copy.pending.use = req[r].saw THEN @ ELSE NoUse]
    <2>1. s.copy = req[r].copy /\ s.todo = req[r].todo /\ s.pc = req[r].next
      BY <1>1 DEF Request
    <2>2. CASE Become(r, s)
      <3> HIDE DEF s
      <3> QED BY <1>2, <2>1, <2>2
    <2>3. CASE Become(r, Idle)
      <3>1. AnswersOK(Idle)
        BY IdleFacts DEF AnswersOK, At, Running
      <3> QED BY <2>3, <3>1, AnswersElse
    <2> QED BY <1>4, <2>2, <2>3 DEF SaveWrite, Abandon
  <1> QED BY <1>3, <1>4

LEMMA AnswersBegin ==
    ASSUME IInv, TypeOK, LiveCopies, AnswersInv, NEW r \in Requests,
           Chat(r) \/ Approve(r) \/ Reject(r)
              \/ \E status \in {"completed", "failed"} : SubmitClientToolResult(r, status)
    PROVE  AnswersInv'
  <1>1. row.pending.use \in Use \cup {NoUse} /\ row \in Session \cup {NoSession}
    BY RestOf, RowTyped DEF TypeOK
  <1>2. ASSUME NEW s \in Request, NEW x, NEW next, next \notin {"model", "tools"},
               Become(r, Saving(s, x, next))
        PROVE  AnswersInv'
    <2>1. AnswersOK(Saving(s, x, next))
      BY <1>2, AnswersSaving
    <2> QED BY <1>2, <2>1, AnswersElse
  <1>3. CASE Chat(r)
    <2> DEFINE loaded == [Idle EXCEPT !.copy = row, !.saw = row.pending.use]
    <2>1. CASE row = NoSession
      <3>1. PICK sandbox \in {"on", "off"} :
               Become(r, Saving(Idle, [NoSession EXCEPT !.sandbox = sandbox], "compose"))
        BY <1>3, <2>1 DEF Chat
      <3> DEFINE x == [NoSession EXCEPT !.sandbox = sandbox]
      <3> HIDE DEF x
      <3>2. Become(r, Saving(Idle, x, "compose")) /\ Idle \in Request
        BY <3>1, IdleTyped DEF x
      <3> QED BY <1>2, <3>2
    <2>2. CASE row # NoSession
      <3>1. loaded \in Request
        BY <1>1, <2>2, IdleTyped
      <3> HIDE DEF loaded
      <3>2. AnswersOK([loaded EXCEPT !.pc = "compose"])
        BY <3>1 DEF AnswersOK, At, Running, Request
      <3> QED BY <1>2, <1>3, <2>2, <3>1, <3>2, AnswersElse DEF Chat, loaded
    <2> QED BY <2>1, <2>2
  <1>4. CASE Approve(r)
    <2> DEFINE s == [Idle EXCEPT !.pc = "run", !.copy = ClearPending(row), !.use = row.pending.use,
                                 !.confirmed = TRUE, !.saw = row.pending.use]
    <2>1. s.pc = "run" /\ s.confirmed
      BY IdleFacts DEF Fields
    <2>2. Become(r, s)
      BY <1>4 DEF Approve
    <2> HIDE DEF s
    <2>3. AnswersOK(s)
      BY <2>1 DEF AnswersOK, At, Running
    <2> QED BY <2>2, <2>3, AnswersElse
  <1>5. [Idle EXCEPT !.saw = row.pending.use] \in Request
    BY <1>1, IdleTyped
  <1>6. CASE Reject(r)
    BY <1>2, <1>5, <1>6 DEF Reject
  <1>7. CASE \E status \in {"completed", "failed"} : SubmitClientToolResult(r, status)
    BY <1>2, <1>5, <1>7 DEF SubmitClientToolResult
  <1> QED BY <1>3, <1>4, <1>6, <1>7

LEMMA AnswersTurn ==
    ASSUME IInv, TypeOK, LiveCopies, AnswersInv, NEW r \in Requests,
           Compose(r) \/ Repair(r) \/ AskModel(r) \/ Reply(r)
    PROVE  AnswersInv'
  <1> DEFINE copy == req[r].copy
  <1>1. /\ req[r] \in Request /\ copy \in Session /\ copy.history \in Seq(Message) /\ AnswersOK(req[r])
        /\ DOMAIN req[r] = Fields
    BY SessionTypes DEF TypeOK, LiveCopies, AnswersInv, Compose, Repair, AskModel, Reply, IInv, Typing, Typed
  <1>2. CASE Compose(r)
    <2>1. PICK x : Become(r, Saving(req[r], x, "repair"))
      BY <1>2 DEF Compose
    <2>2. AnswersOK(Saving(req[r], x, "repair"))
      BY <1>1, AnswersSaving
    <2> QED BY <2>1, <2>2, AnswersElse
  <1>3. CASE Repair(r)
    <2> DEFINE h == repairMissingToolResults(copy.history)
               in == [req[r] EXCEPT !.pc = "model"]
               x == [copy EXCEPT !.history = h]
               out == Saving(req[r], x, "model")
    <2>1. (h = copy.history /\ Become(r, in)) \/ Become(r, out)
      BY <1>3 DEF Repair
    <2>2. AllAnswered(h) /\ h \in Seq(Message)
      BY <1>1, RepairAnswers, RepairLayout
    <2> HIDE DEF h
    <2>3. x.history = h
      BY <1>1, <2>2, SessionTypes
    <2>4. in.pc = "model" /\ in.copy = copy
      BY <1>1 DEF Request
    <2> HIDE DEF x
    <2>5. out.pc = "save" /\ out.copy = x /\ out.next = "model"
      BY <1>1 DEF Request, Saving
    <2> HIDE DEF in, out
    <2>6. CASE h = copy.history /\ Become(r, in)
      <3>1. AnswersOK(in)
        BY <2>2, <2>4, <2>6 DEF AnswersOK, At, Running
      <3> QED BY <2>6, <3>1, AnswersElse
    <2>7. CASE Become(r, out)
      <3>1. AnswersOK(out)
        BY <2>2, <2>3, <2>5 DEF AnswersOK, At, Running
      <3> QED BY <2>7, <3>1, AnswersElse
    <2> QED BY <2>1, <2>6, <2>7
  <1>4. CASE AskModel(r)
    <2>1. PICK kinds \in UNION {[1 .. n -> ToolKinds] : n \in 0 .. MaxUses + 1 - nextUse} :
             LET uses == [n \in DOMAIN kinds |-> [id |-> nextUse + n - 1, tool |-> kinds[n]]] IN
             Become(r, [Saving(req[r], [copy EXCEPT !.history =
                                            Append(@, AssistantMessage(ToSet(uses)))],
                               IF uses = <<>> THEN "snapshot" ELSE "tools")
                        EXCEPT !.todo = uses])
      BY <1>4 DEF AskModel
    <2> DEFINE uses == [n \in DOMAIN kinds |-> [id |-> nextUse + n - 1, tool |-> kinds[n]]]
               h == Append(copy.history, AssistantMessage(ToSet(uses)))
               x == [copy EXCEPT !.history = h]
               next == IF uses = <<>> THEN "snapshot" ELSE "tools"
               saving == Saving(req[r], x, next)
               s == [saving EXCEPT !.todo = uses]
    <2>2. Become(r, s)
      BY <2>1
    <2>3. ToSet(uses) \in SUBSET Use
      BY CallsTyped DEF TypeOK
    <2>4. next \in {"snapshot", "tools"}
      OBVIOUS
    <2> HIDE DEF uses, next
    <2>5. AllAnswered(copy.history)
      BY <1>1, <1>4 DEF AskModel, AnswersOK, At
    <2>6. Owing(h, ToSet(uses)) /\ h \in Seq(Message)
      BY <1>1, <2>3, <2>5, OwingCalls, MessageFacts, AppendFacts
    <2> HIDE DEF h
    <2>7. x.history = h
      BY <1>1, <2>6, SessionTypes
    <2> HIDE DEF x
    <2>8. DOMAIN saving = Fields /\ saving.pc = "save" /\ saving.copy = x /\ saving.next = next
      BY <1>1, SavingFacts
    <2> HIDE DEF saving
    <2>9. s.pc = "save" /\ s.copy = x /\ s.next = next /\ s.todo = uses
      BY <2>8 DEF Fields
    <2> HIDE DEF s
    <2>10. AnswersOK(s)
      BY <2>4, <2>6, <2>7, <2>9 DEF AnswersOK, At, Running
    <2> QED BY <2>2, <2>10, AnswersElse
  <1>5. CASE Reply(r)
    <2>1. AnswersOK(Idle)
      BY IdleFacts DEF AnswersOK, At, Running
    <2> QED BY <1>5, <2>1, AnswersElse DEF Reply
  <1> QED BY <1>2, <1>3, <1>4, <1>5

LEMMA AnswersTool ==
    ASSUME IInv, TypeOK, LiveCopies, AnswersInv, NEW r \in Requests, ProposeTool(r) \/ StartTool(r)
    PROVE  AnswersInv'
  <1> DEFINE todo == req[r].todo
             u == Head(todo)
  <1>1. /\ req[r] \in Request /\ AnswersOK(req[r]) /\ DOMAIN req[r] = Fields
        /\ req[r].pc = "tools" /\ todo \in Seq(Use) /\ todo # <<>>
    BY DEF TypeOK, AnswersInv, ProposeTool, StartTool, IInv, Typing, Typed, Shape
  <1>2. CASE ProposeTool(r)
    <2>1. PICK x : Become(r, [Saving(req[r], x, "snapshot") EXCEPT !.todo = <<>>])
      BY <1>2 DEF ProposeTool
    <2> DEFINE saving == Saving(req[r], x, "snapshot")
               s == [saving EXCEPT !.todo = <<>>]
    <2>2. DOMAIN saving = Fields /\ saving.pc = "save" /\ saving.next = "snapshot"
      BY <1>1, SavingFacts
    <2> HIDE DEF saving
    <2>3. s.pc = "save" /\ s.next = "snapshot"
      BY <2>2 DEF Fields
    <2> HIDE DEF s
    <2>4. AnswersOK(s)
      BY <2>3 DEF AnswersOK, At, Running
    <2> QED BY <2>1, <2>4, AnswersElse DEF s, saving
  <1>3. CASE StartTool(r)
    <2> DEFINE s == [req[r] EXCEPT !.pc = "run", !.use = u, !.todo = Tail(@)]
    <2>1. Become(r, s)
      BY <1>3 DEF StartTool
    <2>2. s.pc = "run" /\ s.use = u /\ s.todo = Tail(todo) /\ s.copy = req[r].copy
      BY <1>1 DEF Fields
    <2>3. ToSet(todo) = {u} \cup ToSet(Tail(todo))
      BY <1>1, HeadTail
    <2>4. Owing(req[r].copy.history, ToSet(todo))
      BY <1>1 DEF AnswersOK, At
    <2> HIDE DEF s, u, todo
    <2>5. ToSet(s.todo) \cup {s.use} = ToSet(todo)
      BY <2>2, <2>3
    <2>6. AnswersOK(s)
      BY <2>2, <2>4, <2>5 DEF AnswersOK, At, Running
    <2> QED BY <2>1, <2>6, AnswersElse
  <1> QED BY <1>2, <1>3

\* While a tool runs the request keeps its session and its calls.
LEMMA RunningSteps ==
    ASSUME IInv, NEW r \in Requests,
           RunTool(r) \/ BeginTool(r) \/ Send(r) \/ Mined(r) \/ ChainFails(r)
    PROVE  \E s : /\ Become(r, s) /\ Running(req[r]) /\ Running(s)
                  /\ s.copy = req[r].copy /\ s.todo = req[r].todo
                  /\ s.use = req[r].use /\ s.confirmed = req[r].confirmed
  <1>1. DOMAIN req[r] = Fields
    BY DEF IInv, Typing, Typed
  <1>2. Running(req[r])
    BY DEF RunTool, BeginTool, Send, Mined, ChainFails, Running
  <1>3. \A outcome : LET s == Outcome(req[r], outcome) IN
           /\ Running(s) /\ s.copy = req[r].copy /\ s.todo = req[r].todo
           /\ s.use = req[r].use /\ s.confirmed = req[r].confirmed
    BY <1>1 DEF Outcome, Fields, Running
  <1>4. CASE RunTool(r)
    BY <1>2, <1>3, <1>4 DEF RunTool
  <1>5. CASE BeginTool(r)
    <2> DEFINE s == [req[r] EXCEPT !.left = Rounds(req[r].use), !.attempt = 1]
    <2>1. /\ Running(s) /\ s.copy = req[r].copy /\ s.todo = req[r].todo
          /\ s.use = req[r].use /\ s.confirmed = req[r].confirmed
      BY <1>1, <1>2 DEF Fields, Running
    <2>2. Become(r, s)
      BY <1>5 DEF BeginTool
    <2> HIDE DEF s
    <2> QED BY <1>2, <2>1, <2>2
  <1>6. CASE Send(r)
    <2> DEFINE s == [req[r] EXCEPT !.pc = "sent"]
    <2>1. /\ Running(s) /\ s.copy = req[r].copy /\ s.todo = req[r].todo
          /\ s.use = req[r].use /\ s.confirmed = req[r].confirmed
      BY <1>1 DEF Fields, Running
    <2>2. Become(r, s)
      BY <1>6 DEF Send
    <2> HIDE DEF s
    <2> QED BY <1>2, <2>1, <2>2
  <1>7. CASE Mined(r)
    <2> DEFINE s == [req[r] EXCEPT !.pc = "run", !.left = @ - 1, !.attempt = 1]
    <2>1. /\ Running(s) /\ s.copy = req[r].copy /\ s.todo = req[r].todo
          /\ s.use = req[r].use /\ s.confirmed = req[r].confirmed
      BY <1>1 DEF Fields, Running
    <2>2. Become(r, Outcome(req[r], "completed")) \/ Become(r, s)
      BY <1>7 DEF Mined
    <2> HIDE DEF s
    <2> QED BY <1>2, <1>3, <2>1, <2>2
  <1>8. CASE ChainFails(r)
    <2> DEFINE s == [req[r] EXCEPT !.pc = "run", !.attempt = @ + 1]
    <2>1. /\ Running(s) /\ s.copy = req[r].copy /\ s.todo = req[r].todo
          /\ s.use = req[r].use /\ s.confirmed = req[r].confirmed
      BY <1>1 DEF Fields, Running
    <2>2. Become(r, Outcome(req[r], "failed")) \/ Become(r, s)
      BY <1>8 DEF ChainFails
    <2> HIDE DEF s
    <2> QED BY <1>2, <1>3, <2>1, <2>2
  <1> QED BY <1>4, <1>5, <1>6, <1>7, <1>8

LEMMA AnswersRun ==
    ASSUME IInv, TypeOK, AnswersInv, NEW r \in Requests,
           RunTool(r) \/ BeginTool(r) \/ Send(r) \/ Mined(r) \/ ChainFails(r)
    PROVE  AnswersInv'
  <1>1. PICK s : /\ Become(r, s) /\ Running(req[r]) /\ Running(s)
                 /\ s.copy = req[r].copy /\ s.todo = req[r].todo
                 /\ s.use = req[r].use /\ s.confirmed = req[r].confirmed
    BY RunningSteps
  <1>2. AnswersOK(s)
    BY <1>1 DEF AnswersInv, AnswersOK, At, Running
  <1> QED BY <1>1, <1>2, AnswersElse

LEMMA AnswersComplete ==
    ASSUME IInv, TypeOK, LiveCopies, AnswersInv, NEW r \in Requests, CompleteTool(r)
    PROVE  AnswersInv'
  <1> DEFINE copy == req[r].copy
             todo == req[r].todo
             h == Append(copy.history, Results({req[r].use}))
             x == [copy EXCEPT !.history = h]
             next == IF req[r].confirmed THEN "repair"
                     ELSE IF todo = <<>> THEN "model" ELSE "tools"
             saving == Saving(req[r], x, next)
             s == [saving EXCEPT !.use = NoUse, !.confirmed = FALSE, !.outcome = "none"]
  <1>1. /\ req[r] \in Request /\ copy \in Session /\ copy.history \in Seq(Message)
        /\ AnswersOK(req[r]) /\ DOMAIN req[r] = Fields /\ req[r].pc = "complete" /\ req[r].use \in Use
    BY SessionTypes DEF TypeOK, LiveCopies, AnswersInv, CompleteTool, IInv, Typing, Typed, Shape
  <1>2. Become(r, s)
    BY DEF CompleteTool
  <1>3. /\ req[r].confirmed => next = "repair"
        /\ ~req[r].confirmed => next = "tools" \/ (next = "model" /\ todo = <<>>)
    OBVIOUS
  <1>4. ~req[r].confirmed => Owing(h, ToSet(todo))
    BY <1>1, OwingResult DEF AnswersOK, Running
  <1>5. h \in Seq(Message)
    BY <1>1, MessageFacts, AppendFacts
  <1>6. todo = <<>> => ToSet(todo) = {}
    BY DEF ToSet
  <1> HIDE DEF h, next
  <1>7. x.history = h
    BY <1>1, <1>5, SessionTypes
  <1> HIDE DEF x
  <1>8. DOMAIN saving = Fields /\ saving.pc = "save" /\ saving.copy = x /\ saving.next = next
        /\ saving.todo = todo
    BY <1>1, SavingFacts
  <1> HIDE DEF saving
  <1>9. s.pc = "save" /\ s.copy = x /\ s.next = next /\ s.todo = todo
    BY <1>8 DEF Fields
  <1> HIDE DEF s, todo
  <1>10. AnswersOK(s)
    BY <1>3, <1>4, <1>6, <1>7, <1>9, OwingNothing DEF AnswersOK, At, Running
  <1> QED BY <1>2, <1>10, AnswersElse

LEMMA AnswersNext ==
    ASSUME IInv, TypeOK, LiveCopies, AnswersInv, [Next]_vars
    PROVE  AnswersInv'
  <1>1. ASSUME NEW r \in Requests, Step(r)
        PROVE  AnswersInv'
    <2>1. CASE SaveSelect(r) \/ SaveWrite(r)
      BY <2>1, AnswersSave
    <2>2. CASE Chat(r) \/ Approve(r) \/ Reject(r)
                 \/ \E status \in {"completed", "failed"} : SubmitClientToolResult(r, status)
      BY <2>2, AnswersBegin
    <2>3. CASE Compose(r) \/ Repair(r) \/ AskModel(r) \/ Reply(r)
      BY <2>3, AnswersTurn
    <2>4. CASE ProposeTool(r) \/ StartTool(r) \/ CompleteTool(r)
      BY <2>4, AnswersTool, AnswersComplete
    <2>5. CASE RunTool(r) \/ BeginTool(r) \/ Send(r) \/ Mined(r) \/ ChainFails(r)
      BY <2>5, AnswersRun
    <2>6. CASE ModelFails(r) \/ ToolThrows(r) \/ Crash(r)
      <3>1. AnswersOK(Idle)
        BY IdleFacts DEF AnswersOK, At, Running
      <3> QED BY <2>6, <3>1, AnswersElse DEF ModelFails, ToolThrows, Crash, Abandon
    <2>7. CASE DeleteSession(r)
      BY <2>7 DEF DeleteSession, AnswersInv, AnswersOK, At, Running
    <2> QED BY <1>1, <2>1, <2>2, <2>3, <2>4, <2>5, <2>6, <2>7 DEF Step
  <1>2. CASE UNCHANGED vars
    BY <1>2 DEF vars, AnswersInv, AnswersOK, At, Running
  <1> QED BY <1>1, <1>2 DEF Next

(* However many requests work on one conversation, whatever order their    *)
(* steps take and whichever of them are lost, the model is only asked with *)
(* a history in which every tool call is answered.                         *)
THEOREM AgentPromptsAnswered == Spec => []PromptsAnswered
  <1>1. Init => AnswersInv
    BY IdleFacts DEF Init, AnswersInv, AnswersOK, At, Running
  <1>2. Init => TypeOK /\ LiveCopies
    BY InitTypes
  <1>3. IInv /\ (TypeOK /\ LiveCopies /\ AnswersInv) /\ [Next]_vars
        => (TypeOK /\ LiveCopies /\ AnswersInv)'
    BY TypeNext, AnswersNext
  <1>4. AnswersInv => PromptsAnswered
    BY DEF AnswersInv, AnswersOK, At, PromptsAnswered, AllAnswered
  <1> QED BY <1>1, <1>2, <1>3, <1>4, AgentInvariant, PTL DEF Spec

-----------------------------------------------------------------------------
(* One request at a time: what the answers of a history answer.            *)

\* The session's history is matched, its calls have ids below n, and the
\* call it holds as pending can be answered.
GoodSession(x, n) ==
    /\ Matched(x.history) /\ Old(x.history, n)
    /\ x.pending.use # NoUse => Open(x.history, x.pending.use)

\* So is the copy's, and every call that the request has yet to handle.
MatchOK(s, n) ==
    /\ s.pc # "idle" => GoodSession(s.copy, n)
    /\ At(s, "tools") \/ Running(s) => \A u \in ToSet(s.todo) : Open(s.copy.history, u)
    /\ Running(s) => Open(s.copy.history, s.use) /\ s.use \notin ToSet(s.todo)

MatchInv == GoodSession(row, nextUse) /\ \A r \in Requests : MatchOK(req[r], nextUse)

LEMMA MatchStep ==
    ASSUME Serial, IInv, NEW r \in Requests, NEW s, Become(r, s),
           MatchOK(s, nextUse'), GoodSession(row', nextUse')
    PROVE  MatchInv'
  <1>1. req'[r] = s /\ \A q \in Requests : q = r
    BY BecomeFacts DEF IInv, Serial
  <1>2. \A q \in Requests : MatchOK(req'[q], nextUse')
    BY <1>1
  <1> QED BY <1>2 DEF MatchInv, MatchOK, GoodSession, At, Running

LEMMA MatchIdle == \A n : MatchOK(Idle, n)
  BY IdleFacts DEF MatchOK, At, Running

LEMMA EmptyGood ==
    ASSUME NEW x, x.history = <<>>, x.pending = NoPending, NEW n
    PROVE  GoodSession(x, n)
  BY PendingFacts DEF GoodSession, Matched, Old

LEMMA OldGrows ==
    ASSUME NEW h \in Seq(Message), NEW m \in Int, NEW n \in Int, m <= n, Old(h, m)
    PROVE  Old(h, n)
  <1>1. ASSUME NEW i \in DOMAIN h, NEW u \in h[i].uses PROVE u.id < n
    <2>1. h[i] \in Message
      OBVIOUS
    <2>2. u.id \in Int /\ u.id < m
      BY <2>1, <1>1, UseFacts, MessageFacts DEF Old
    <2> QED BY <2>2
  <1> QED BY <1>1 DEF Old

\* A save writes the whole copy.
LEMMA SerialWrite ==
    ASSUME IInv, TypeOK, LiveCopies, NEW r \in Requests, LogOK(r), SaveWrite(r)
    PROVE  /\ row' = req[r].copy
           /\ \E s : /\ Become(r, s) /\ s.pc = req[r].next /\ s.copy = req[r].copy
                     /\ s.todo = req[r].todo
  <1>1. /\ req[r] \in Request /\ req[r].pc = "write" /\ req[r].base = row /\ req[r].copy \in Session
        /\ row \in Session \cup {NoSession}
    BY DEF TypeOK, LiveCopies, LogOK, SaveWrite
  <1> DEFINE s == [req[r] EXCEPT !.pc = req[r].next, !.next = "idle", !.base = NoSession,
                      !.saw = IF req[r].copy.pending.use = req[r].saw THEN @ ELSE NoUse]
  <1>2. s.pc = req[r].next /\ s.copy = req[r].copy /\ s.todo = req[r].todo
    BY <1>1 DEF Request
  <1>3. Become(r, s)
    BY <1>1 DEF SaveWrite
  <1>4. row' = req[r].copy
    <2>1. CASE row = NoSession
      BY <1>1, <2>1 DEF SaveWrite
    <2>2. CASE row # NoSession
      <3>1. row' = ChangedColumns(req[r].copy, row) /\ row \in Session
        BY <1>1, <2>2 DEF SaveWrite
      <3>2. ChangedColumns(req[r].copy, row) = [c \in DOMAIN row |-> req[r].copy[c]]
        BY DEF ChangedColumns
      <3>3. ASSUME NEW x \in Session, NEW y \in Session PROVE [c \in DOMAIN x |-> y[c]] = y
        BY DEF Session
      <3> QED BY <1>1, <3>1, <3>2, <3>3
    <2> QED BY <2>1, <2>2
  <1> HIDE DEF s
  <1> QED BY <1>2, <1>3, <1>4

LEMMA MatchSave ==
    ASSUME Serial, IInv, TypeOK, LiveCopies, MatchInv, NEW r \in Requests, LogOK(r),
           SaveSelect(r) \/ SaveWrite(r)
    PROVE  MatchInv'
  <1>1. /\ req[r] \in Request /\ MatchOK(req[r], nextUse) /\ req[r].pc \in {"save", "write"}
        /\ req[r].next \in {"compose", "repair", "model", "tools", "snapshot"}
        /\ nextUse' = nextUse /\ GoodSession(req[r].copy, nextUse) /\ GoodSession(row, nextUse)
    BY DEF TypeOK, MatchInv, MatchOK, SaveSelect, SaveWrite, IInv, Shape
  <1>2. ASSUME NEW s, s.copy = req[r].copy, s.todo = req[r].todo,
               (s.pc = "write" /\ s.next = req[r].next) \/ s.pc = req[r].next
        PROVE  MatchOK(s, nextUse)
    BY <1>1, <1>2 DEF MatchOK, At, Running
  <1>3. CASE SaveSelect(r)
    <2> DEFINE s == [req[r] EXCEPT !.pc = "write", !.base = row]
    <2>1. s.copy = req[r].copy /\ s.todo = req[r].todo /\ s.pc = "write" /\ s.next = req[r].next
      BY <1>1 DEF Request
    <2>2. Become(r, s) /\ row' = row
      BY <1>3 DEF SaveSelect
    <2> HIDE DEF s
    <2>3. MatchOK(s, nextUse)
      BY <1>2, <2>1
    <2> QED BY <1>1, <2>2, <2>3, MatchStep
  <1>4. CASE SaveWrite(r)
    <2>1. row' = req[r].copy
      BY <1>4, SerialWrite
    <2>2. PICK s : Become(r, s) /\ s.pc = req[r].next /\ s.copy = req[r].copy /\ s.todo = req[r].todo
      BY <1>4, SerialWrite
    <2>3. MatchOK(s, nextUse)
      BY <1>2, <2>2
    <2> QED BY <1>1, <2>1, <2>2, <2>3, MatchStep
  <1> QED BY <1>3, <1>4

\* A request saves a good session.
LEMMA MatchSaving ==
    ASSUME NEW s \in Request, NEW x, NEW n, GoodSession(x, n), NEW next, next # "tools"
    PROVE  MatchOK(Saving(s, x, next), n)
  BY DEF Saving, Request, MatchOK, At, Running

LEMMA AppendTwo ==
    ASSUME NEW h \in Seq(Message), NEW a \in Message, NEW b \in Message
    PROVE  h \o <<a, b>> = Append(Append(h, a), b)
  OBVIOUS

LEMMA MatchBegin ==
    ASSUME Serial, IInv, TypeOK, MatchInv, NEW r \in Requests,
           Chat(r) \/ Approve(r) \/ Reject(r)
              \/ \E status \in {"completed", "failed"} : SubmitClientToolResult(r, status)
    PROVE  MatchInv'
  <1> DEFINE u == row.pending.use
  <1>1. /\ u \in Use \cup {NoUse} /\ row \in Session \cup {NoSession}
        /\ GoodSession(row, nextUse) /\ row' = row /\ nextUse' = nextUse
        /\ row # NoSession => row.history \in Seq(Message) /\ row.pending \in Pending \cup {NoPending}
    BY RestOf, RowTyped, SessionTypes
       DEF TypeOK, MatchInv, Chat, Approve, Reject, SubmitClientToolResult
  <1> HIDE DEF u
  <1>2. ASSUME NEW s, Become(r, s), MatchOK(s, nextUse)
        PROVE  MatchInv'
    BY <1>1, <1>2, MatchStep
  <1>3. CASE Chat(r) /\ row = NoSession
    <2>1. PICK sandbox \in {"on", "off"} :
             Become(r, Saving(Idle, [NoSession EXCEPT !.sandbox = sandbox], "compose"))
      BY <1>3 DEF Chat
    <2> DEFINE x == [NoSession EXCEPT !.sandbox = sandbox]
    <2>2. x.history = <<>> /\ x.pending = NoPending
      BY DEF NoSession
    <2> HIDE DEF x
    <2>3. GoodSession(x, nextUse)
      BY <2>2, EmptyGood
    <2>4. MatchOK(Saving(Idle, x, "compose"), nextUse)
      BY <2>3, IdleTyped, MatchSaving
    <2> QED BY <1>2, <2>1, <2>4 DEF x
  <1>4. CASE Chat(r) /\ row # NoSession
    <2> DEFINE loaded == [Idle EXCEPT !.copy = row, !.saw = u]
    <2>1. Become(r, Saving(loaded, row, "compose")) \/ Become(r, [loaded EXCEPT !.pc = "compose"])
      BY <1>4 DEF Chat, u
    <2>2. loaded \in Request /\ loaded.copy = row
      BY <1>1, <1>4, IdleTyped, IdleFacts DEF Fields
    <2> HIDE DEF loaded
    <2>3. MatchOK(Saving(loaded, row, "compose"), nextUse)
      BY <1>1, <2>2, MatchSaving
    <2>4. MatchOK([loaded EXCEPT !.pc = "compose"], nextUse)
      <3> DEFINE s == [loaded EXCEPT !.pc = "compose"]
      <3>1. s.pc = "compose" /\ s.copy = row
        BY <2>2 DEF Request
      <3> HIDE DEF s
      <3>2. MatchOK(s, nextUse)
        BY <1>1, <3>1 DEF MatchOK, At, Running
      <3> QED BY <3>2 DEF s
    <2> QED BY <1>2, <2>1, <2>3, <2>4
  <1>5. ASSUME row # NoSession, row.pending # NoPending
        PROVE  /\ u \in Use /\ Open(row.history, u) /\ row \in Session
               /\ ClearPending(row) \in Session /\ ClearPending(row).history = row.history
               /\ ClearPending(row).pending = NoPending
    <2>1. u \in Use /\ u # NoUse /\ row \in Session
      BY <1>1, <1>5, PendingFacts DEF u
    <2>2. ClearPending(row).pending = NoPending
      BY <2>1 DEF Session, ClearPending
    <2> QED BY <1>1, <2>1, <2>2, SessionTypes DEF GoodSession, u
  <1>6. CASE Approve(r)
    <2> DEFINE s == [Idle EXCEPT !.pc = "run", !.copy = ClearPending(row), !.use = u,
                                 !.confirmed = TRUE, !.saw = u]
    <2>1. /\ s.pc = "run" /\ s.copy = ClearPending(row) /\ s.use = u /\ s.todo = <<>>
      BY IdleFacts DEF Fields
    <2>2. Become(r, s) /\ row # NoSession /\ row.pending # NoPending
      BY <1>6 DEF Approve, HasPending, u
    <2> HIDE DEF s
    <2>3. GoodSession(s.copy, nextUse)
      BY <1>1, <1>5, <2>1, <2>2, PendingFacts DEF GoodSession
    <2>4. ToSet(s.todo) = {}
      BY <2>1 DEF ToSet
    <2>5. MatchOK(s, nextUse)
      BY <1>5, <2>1, <2>2, <2>3, <2>4 DEF MatchOK, At, Running
    <2> QED BY <1>2, <2>2, <2>5
  <1>7. ASSUME NEW h \in Seq(Message), Matched(h), Old(h, nextUse), NEW next, next # "tools",
               row # NoSession, row.pending # NoPending,
               Become(r, Saving([Idle EXCEPT !.saw = u], [ClearPending(row) EXCEPT !.history = h], next))
        PROVE  MatchInv'
    <2> DEFINE x == [ClearPending(row) EXCEPT !.history = h]
    <2>1. x.history = h /\ x.pending = NoPending
      BY <1>5, <1>7 DEF Session
    <2> HIDE DEF x
    <2>2. GoodSession(x, nextUse)
      BY <1>7, <2>1, PendingFacts DEF GoodSession
    <2>3. [Idle EXCEPT !.saw = u] \in Request
      BY <1>1, IdleTyped
    <2>4. MatchOK(Saving([Idle EXCEPT !.saw = u], x, next), nextUse)
      BY <1>7, <2>2, <2>3, MatchSaving
    <2> QED BY <1>2, <1>7, <2>4 DEF x
  <1>8. ASSUME row # NoSession, row.pending # NoPending
        PROVE  LET e == Append(row.history, Results({u})) IN
               e \in Seq(Message) /\ Matched(e) /\ Old(e, nextUse)
    BY <1>1, <1>5, <1>8, AnswerOne DEF GoodSession
  <1>9. CASE Reject(r)
    <2> DEFINE m == AssistantMessage({})
               e == Append(row.history, Results({u}))
               h == row.history \o <<Results({u}), m>>
    <2>1. row # NoSession /\ row.pending # NoPending
      BY <1>9 DEF Reject, HasPending
    <2>2. e \in Seq(Message) /\ Matched(e) /\ Old(e, nextUse)
      BY <1>8, <2>1
    <2>3. m \in Message /\ m.kind = "assistant" /\ m.uses = {}
      BY MessageFacts
    <2>4. h = Append(e, m)
      <3>1. Results({u}) \in Message /\ row.history \in Seq(Message)
        BY <1>1, <1>5, <2>1, MessageFacts
      <3> QED BY <2>3, <3>1, AppendTwo
    <2>5. Become(r, Saving([Idle EXCEPT !.saw = u], [ClearPending(row) EXCEPT !.history = h], "snapshot"))
      BY <1>5, <1>9, <2>1 DEF Reject, u
    <2> HIDE DEF e, m
    <2>6. LET y == Append(e, m) IN y \in Seq(Message) /\ Matched(y) /\ Old(y, nextUse)
      BY <2>2, <2>3, SayMore
    <2> HIDE DEF h
    <2> QED BY <1>7, <2>1, <2>4, <2>5, <2>6
  <1>10. ASSUME NEW status \in {"completed", "failed"}, SubmitClientToolResult(r, status)
         PROVE  MatchInv'
    <2> DEFINE e == Append(row.history, Results({u}))
    <2>1. row # NoSession /\ row.pending # NoPending
      BY <1>10 DEF SubmitClientToolResult, HasPending
    <2>2. e \in Seq(Message) /\ Matched(e) /\ Old(e, nextUse)
      BY <1>8, <2>1
    <2>3. Become(r, Saving([Idle EXCEPT !.saw = u], [ClearPending(row) EXCEPT !.history = e], "repair"))
      BY <1>5, <1>10, <2>1 DEF SubmitClientToolResult, u
    <2> HIDE DEF e
    <2> QED BY <1>7, <2>1, <2>2, <2>3
  <1> QED BY <1>3, <1>4, <1>6, <1>9, <1>10

\* A saving request, with its calls.
LEMMA MatchSaved ==
    ASSUME NEW s \in Request, NEW x \in Session, NEW n, GoodSession(x, n), NEW next \in Steps,
           NEW todo, next = "tools" => \A u \in ToSet(todo) : Open(x.history, u)
    PROVE  MatchOK([Saving(s, x, next) EXCEPT !.todo = todo], n)
  <1> DEFINE saving == Saving(s, x, next)
             t == [saving EXCEPT !.todo = todo]
  <1>1. DOMAIN s = Fields
    BY DEF Request, Fields
  <1>2. DOMAIN saving = Fields /\ saving.pc = "save" /\ saving.copy = x /\ saving.next = next
    BY <1>1, SavingFacts
  <1> HIDE DEF saving
  <1>3. t.pc = "save" /\ t.copy = x /\ t.next = next /\ t.todo = todo
    BY <1>2 DEF Fields
  <1> HIDE DEF t
  <1>4. MatchOK(t, n)
    BY <1>3 DEF MatchOK, At, Running
  <1> QED BY <1>4 DEF t, saving

LEMMA MatchCompose ==
    ASSUME Serial, IInv, TypeOK, LiveCopies, MatchInv, NEW r \in Requests, Compose(r)
    PROVE  MatchInv'
  <1> DEFINE copy == req[r].copy
             p == copy.pending
             e == IF p = NoPending THEN copy.history ELSE Append(copy.history, Results({p.use}))
             h == copy.history \o (IF p = NoPending THEN <<>> ELSE <<Results({p.use})>>) \o <<UserMessage>>
             x == [ClearPending(copy) EXCEPT !.history = h]
  <1>1. /\ req[r] \in Request /\ copy \in Session /\ copy.history \in Seq(Message)
        /\ p \in Pending \cup {NoPending} /\ GoodSession(copy, nextUse)
        /\ row' = row /\ nextUse' = nextUse /\ GoodSession(row, nextUse)
        /\ ClearPending(copy) \in Session /\ ClearPending(copy).history = copy.history
    BY SessionTypes DEF TypeOK, LiveCopies, MatchInv, MatchOK, Compose
  <1>2. Become(r, Saving(req[r], x, "repair"))
    BY <1>1 DEF Compose
  <1>3. e \in Seq(Message) /\ Matched(e) /\ Old(e, nextUse)
    <2>1. CASE p = NoPending
      BY <1>1, <2>1 DEF GoodSession
    <2>2. CASE p # NoPending
      <3>1. p.use \in Use /\ Open(copy.history, p.use)
        BY <1>1, <2>2, PendingFacts DEF GoodSession
      <3> QED BY <1>1, <2>2, <3>1, AnswerOne DEF GoodSession
    <2> QED BY <2>1, <2>2
  <1>4. h = Append(e, UserMessage) /\ h \in Seq(Message)
    <2>1. \A g \in Seq(Message), a \in Message, b \in Message :
             /\ g \o <<>> \o <<b>> = Append(g, b)
             /\ g \o <<a>> \o <<b>> = Append(Append(g, a), b)
      OBVIOUS
    <2>2. UserMessage \in Message
      BY MessageFacts
    <2>3. h \in Seq(Message)
      BY <1>1, HistoryTyped
    <2>4. CASE p = NoPending
      BY <1>1, <2>1, <2>2, <2>3, <2>4
    <2>5. CASE p # NoPending
      <3>1. Results({p.use}) \in Message
        BY <1>1, <2>5, PendingFacts, MessageFacts
      <3> DEFINE a == Results({p.use})
      <3>2. e = Append(copy.history, a) /\ h = copy.history \o <<a>> \o <<UserMessage>>
        BY <2>5
      <3> HIDE DEF e, h, a
      <3>3. copy.history \o <<a>> \o <<UserMessage>> = Append(Append(copy.history, a), UserMessage)
        <4> HIDE DEF copy
        <4> QED BY <1>1, <2>1, <2>2, <3>1 DEF a
      <3> QED BY <2>3, <3>2, <3>3
    <2> QED BY <2>4, <2>5
  <1>5. Matched(h) /\ Old(h, nextUse)
    <2> HIDE DEF e, h
    <2>1. UserMessage \in Message /\ UserMessage.kind = "user" /\ UserMessage.uses = {}
      BY MessageFacts
    <2>2. LET y == Append(e, UserMessage) IN Matched(y) /\ Old(y, nextUse)
      BY <1>3, <2>1, SayMore
    <2> QED BY <1>4, <2>2
  <1> HIDE DEF h
  <1>6. x.history = h /\ x.pending = NoPending
    BY <1>1, <1>4, SessionTypes DEF Session, ClearPending
  <1> HIDE DEF x
  <1>7. GoodSession(x, nextUse)
    BY <1>5, <1>6, PendingFacts DEF GoodSession
  <1>8. MatchOK(Saving(req[r], x, "repair"), nextUse)
    BY <1>1, <1>7, MatchSaving
  <1> QED BY <1>1, <1>2, <1>8, MatchStep

LEMMA MatchRepair ==
    ASSUME Serial, IInv, TypeOK, LiveCopies, MatchInv, NEW r \in Requests, Repair(r)
    PROVE  MatchInv'
  <1> DEFINE copy == req[r].copy
             h == repairMissingToolResults(copy.history)
             in == [req[r] EXCEPT !.pc = "model"]
             x == [copy EXCEPT !.history = h]
  <1>1. /\ req[r] \in Request /\ copy \in Session /\ copy.history \in Seq(Message)
        /\ GoodSession(copy, nextUse)
        /\ row' = row /\ nextUse' = nextUse /\ GoodSession(row, nextUse)
        /\ copy.pending = NoPending
    BY SessionTypes DEF TypeOK, LiveCopies, MatchInv, MatchOK, Repair, IInv, Shape
  <1>2. Become(r, in) \/ Become(r, Saving(req[r], x, "model"))
    BY DEF Repair
  <1>3. h \in Seq(Message) /\ Matched(h) /\ Old(h, nextUse)
    BY <1>1, RepairLayout, RepairMatches, RepairOld DEF GoodSession
  <1> HIDE DEF h
  <1>4. in.pc = "model" /\ in.copy = copy
    BY <1>1 DEF Request
  <1>5. x.history = h /\ x.pending = NoPending
    BY <1>1, <1>3 DEF Session
  <1> HIDE DEF in, x
  <1>6. CASE Become(r, in)
    <2>1. MatchOK(in, nextUse)
      BY <1>1, <1>4 DEF MatchOK, At, Running
    <2> QED BY <1>1, <1>6, <2>1, MatchStep
  <1>7. CASE Become(r, Saving(req[r], x, "model"))
    <2>1. GoodSession(x, nextUse)
      BY <1>3, <1>5, PendingFacts DEF GoodSession
    <2>2. MatchOK(Saving(req[r], x, "model"), nextUse)
      BY <1>1, <2>1, MatchSaving
    <2> QED BY <1>1, <1>7, <2>2, MatchStep
  <1> QED BY <1>2, <1>6, <1>7

LEMMA MatchAsk ==
    ASSUME Serial, IInv, TypeOK, LiveCopies, MatchInv, NEW r \in Requests, AskModel(r)
    PROVE  MatchInv'
  <1> DEFINE copy == req[r].copy
  <1>1. /\ req[r] \in Request /\ copy \in Session /\ copy.history \in Seq(Message)
        /\ GoodSession(copy, nextUse) /\ row' = row /\ GoodSession(row, nextUse)
        /\ row \in Session \cup {NoSession} /\ row.history \in Seq(Message)
        /\ copy.pending = NoPending /\ nextUse \in 1 .. MaxUses + 1
    <2>1. <<>> \in Seq(Message)
      OBVIOUS
    <2>2. /\ req[r] \in Request /\ copy \in Session /\ row \in Session \cup {NoSession}
          /\ req[r].pc = "model" /\ row' = row /\ nextUse \in 1 .. MaxUses + 1
      BY DEF TypeOK, LiveCopies, AskModel
    <2>3. GoodSession(copy, nextUse) /\ GoodSession(row, nextUse)
      BY <2>2 DEF MatchInv, MatchOK
    <2>4. copy.pending = NoPending
      BY <2>2 DEF IInv, Shape
    <2>5. copy.history \in Seq(Message) /\ row.history \in Seq(Message)
      BY <2>1, <2>2, SessionTypes
    <2> QED BY <2>2, <2>3, <2>4, <2>5
  <1>2. PICK kinds \in UNION {[1 .. n -> ToolKinds] : n \in 0 .. MaxUses + 1 - nextUse} :
           LET uses == [n \in DOMAIN kinds |-> [id |-> nextUse + n - 1, tool |-> kinds[n]]] IN
           /\ nextUse' = nextUse + Len(uses)
           /\ Become(r, [Saving(req[r], [copy EXCEPT !.history =
                                            Append(@, AssistantMessage(ToSet(uses)))],
                               IF uses = <<>> THEN "snapshot" ELSE "tools")
                         EXCEPT !.todo = uses])
    BY DEF AskModel
  <1> DEFINE uses == [n \in DOMAIN kinds |-> [id |-> nextUse + n - 1, tool |-> kinds[n]]]
             m == AssistantMessage(ToSet(uses))
             h == Append(copy.history, m)
             x == [copy EXCEPT !.history = h]
             next == IF uses = <<>> THEN "snapshot" ELSE "tools"
  <1>3. nextUse' = nextUse + Len(uses) /\ Become(r, [Saving(req[r], x, next) EXCEPT !.todo = uses])
    BY <1>2
  <1>4. /\ ToSet(uses) \in SUBSET Use /\ Len(uses) \in Nat
        /\ \A u \in ToSet(uses) : u.id >= nextUse /\ u.id < nextUse + Len(uses)
    BY <1>1, CallsTyped
  <1>5. next \in Steps
    BY DEF Steps
  <1> HIDE DEF uses, next
  <1>6. /\ nextUse \in Int /\ nextUse' \in Int /\ nextUse <= nextUse'
        /\ \A u \in ToSet(uses) : u.id < nextUse'
    BY <1>1, <1>3, <1>4
  <1>7. m \in Message /\ m.kind = "assistant" /\ m.uses = ToSet(uses)
    BY <1>4, MessageFacts
  <1> HIDE DEF m
  <1>8. Old(copy.history, nextUse') /\ Old(row.history, nextUse')
    BY <1>1, <1>6, OldGrows DEF GoodSession
  <1>9. \A i \in 1 .. Len(copy.history) : copy.history[i].uses \cap m.uses = {}
    <2>1. ASSUME NEW i \in 1 .. Len(copy.history), NEW u \in copy.history[i].uses, u \in ToSet(uses)
          PROVE  FALSE
      <3>1. i \in DOMAIN copy.history
        BY <1>1
      <3>2. u.id < nextUse
        BY <1>1, <2>1, <3>1 DEF GoodSession, Old
      <3>3. u \in Use /\ u.id >= nextUse
        BY <1>4, <2>1
      <3>4. u.id \in Int
        BY <3>3, UseFacts
      <3> QED BY <1>6, <3>2, <3>3, <3>4
    <2> QED BY <1>7, <2>1
  <1>10. /\ h \in Seq(Message) /\ Matched(h) /\ Old(h, nextUse')
         /\ \A u \in ToSet(uses) : Open(h, u)
    <2>1. Matched(copy.history)
      BY <1>1 DEF GoodSession
    <2>2. m.kind # "results"
      BY <1>7
    <2> HIDE DEF copy
    <2>3. LET y == Append(copy.history, m) IN
          /\ y \in Seq(Message) /\ Matched(y)
          /\ m.kind = "assistant" => \A u \in m.uses : Open(y, u)
          /\ \A n : Old(copy.history, n) /\ (\A u \in m.uses : u.id < n) => Old(y, n)
      BY <1>1, <1>7, <1>9, <2>1, <2>2, SayMore
    <2> QED BY <1>6, <1>7, <1>8, <2>3
  <1> HIDE DEF h
  <1>11. x \in Session /\ x.history = h /\ x.pending = NoPending
    BY <1>1, <1>10, SessionTypes DEF Session
  <1> HIDE DEF x
  <1>12. GoodSession(x, nextUse') /\ GoodSession(row, nextUse')
    BY <1>1, <1>8, <1>10, <1>11, PendingFacts DEF GoodSession
  <1>13. MatchOK([Saving(req[r], x, next) EXCEPT !.todo = uses], nextUse')
    <2>1. \A u \in ToSet(uses) : Open(x.history, u)
      BY <1>10, <1>11
    <2> QED BY <1>1, <1>5, <1>11, <1>12, <2>1, MatchSaved
  <1> QED BY <1>1, <1>3, <1>12, <1>13, MatchStep

\* The first of a turn's calls, and the others.
LEMMA TodoSplit ==
    ASSUME IInv, NEW r \in Requests, req[r].todo # <<>>
    PROVE  LET todo == req[r].todo IN
           /\ Head(todo) \in Use /\ Tail(todo) \in Seq(Use) /\ Injective(Tail(todo))
           /\ ToSet(todo) = {Head(todo)} \cup ToSet(Tail(todo))
           /\ Head(todo) \notin ToSet(Tail(todo))
           /\ \A n \in DOMAIN Tail(todo) : Tail(todo)[n] \in ToSet(Tail(todo))
  <1> DEFINE todo == req[r].todo
             u == Head(todo)
             rest == Tail(todo)
             s == [todo |-> rest]
  <1>1. todo \in Seq(Use) /\ todo # <<>>
    BY DEF IInv, Typing, Typed
  <1>2. u \in Use /\ rest \in Seq(Use) /\ Distinct(rest) /\ ~Planned(s, u.id)
    BY TodoFacts
  <1>3. ToSet(todo) = {u} \cup ToSet(rest)
    BY <1>1, HeadTail
  <1>4. s.todo = rest
    OBVIOUS
  <1> HIDE DEF todo, u, rest, s
  <1>5. DOMAIN rest = 1 .. Len(rest)
    BY <1>2
  <1>6. Injective(rest)
    BY <1>2, <1>5 DEF Injective, Distinct
  <1>7. u \notin ToSet(rest)
    BY <1>2, <1>4, <1>5 DEF Planned, ToSet
  <1>8. \A n \in DOMAIN rest : rest[n] \in ToSet(rest)
    BY DEF ToSet
  <1> QED BY <1>2, <1>3, <1>6, <1>7, <1>8 DEF todo, u, rest

LEMMA MatchTool ==
    ASSUME Serial, IInv, TypeOK, LiveCopies, MatchInv, NEW r \in Requests,
           ProposeTool(r) \/ StartTool(r)
    PROVE  MatchInv'
  <1> DEFINE copy == req[r].copy
             todo == req[r].todo
             u == Head(todo)
             rest == Tail(todo)
  <1>1. /\ req[r] \in Request /\ copy \in Session /\ copy.history \in Seq(Message)
        /\ row' = row /\ nextUse' = nextUse /\ req[r].pc = "tools"
    BY SessionTypes DEF TypeOK, LiveCopies, ProposeTool, StartTool
  <1>2. GoodSession(copy, nextUse) /\ GoodSession(row, nextUse)
        /\ \A v \in ToSet(todo) : Open(copy.history, v)
    BY <1>1 DEF MatchInv, MatchOK, At
  <1>3. /\ u \in Use /\ rest \in Seq(Use) /\ Injective(rest) /\ u \notin ToSet(rest)
        /\ \A n \in DOMAIN rest : rest[n] \in ToSet(rest)
        /\ ToSet(todo) = {u} \cup ToSet(rest)
    <2>1. todo # <<>>
      BY <1>1 DEF IInv, Shape
    <2> QED BY <2>1, TodoSplit
  <1>4. CASE ProposeTool(r)
    <2> DEFINE h == copy.history \o Deferred(rest)
               p == [use |-> u, mode |-> resolveDestructiveExecutionMode(copy.sandbox, u)]
               x == [copy EXCEPT !.history = h, !.pending = p]
    <2>1. Become(r, [Saving(req[r], x, "snapshot") EXCEPT !.todo = <<>>])
      BY <1>4 DEF ProposeTool
    <2>2. p \in Pending /\ p.use = u
      BY <1>3 DEF resolveDestructiveExecutionMode, Pending, Modes
    <2>3. Matched(copy.history) /\ Old(copy.history, nextUse)
      BY <1>2 DEF GoodSession
    <2>4. h \in Seq(Message) /\ Matched(h) /\ Old(h, nextUse) /\ Open(h, u)
      <3> HIDE DEF copy, todo, u, rest
      <3>1. \A n \in DOMAIN rest : Open(copy.history, rest[n])
        BY <1>2, <1>3
      <3>2. LET e == copy.history \o Deferred(rest) IN
            /\ e \in Seq(Message) /\ Matched(e)
            /\ \A v : Open(copy.history, v) /\ v \notin ToSet(rest) => Open(e, v)
            /\ \A n : Old(copy.history, n) => Old(e, n)
        BY <1>1, <1>3, <2>3, <3>1, AnswerOpen
      <3> QED BY <1>2, <1>3, <2>3, <3>2
    <2> HIDE DEF h, p, u, rest
    <2>5. x \in Session /\ x.history = h /\ x.pending = p
      BY <1>1, <2>2, <2>4, SessionTypes DEF Session
    <2> HIDE DEF x
    <2>6. GoodSession(x, nextUse)
      BY <2>2, <2>4, <2>5 DEF GoodSession
    <2>7. MatchOK([Saving(req[r], x, "snapshot") EXCEPT !.todo = <<>>], nextUse)
      <3>1. "snapshot" \in Steps
        BY DEF Steps
      <3> QED BY <1>1, <2>5, <2>6, <3>1, MatchSaved
    <2> QED BY <1>1, <1>2, <2>1, <2>7, MatchStep
  <1>5. CASE StartTool(r)
    <2> DEFINE s == [req[r] EXCEPT !.pc = "run", !.use = u, !.todo = Tail(@)]
    <2>1. Become(r, s)
      BY <1>5 DEF StartTool
    <2>2. s.pc = "run" /\ s.use = u /\ s.todo = rest /\ s.copy = copy
      BY <1>1 DEF Request
    <2> HIDE DEF s, u, rest, copy, todo
    <2>3. MatchOK(s, nextUse)
      BY <1>2, <1>3, <2>2 DEF MatchOK, At, Running
    <2> QED BY <1>1, <1>2, <2>1, <2>3, MatchStep
  <1> QED BY <1>4, <1>5

LEMMA MatchRun ==
    ASSUME Serial, IInv, TypeOK, MatchInv, NEW r \in Requests,
           RunTool(r) \/ BeginTool(r) \/ Send(r) \/ Mined(r) \/ ChainFails(r)
    PROVE  MatchInv'
  <1>1. PICK s : /\ Become(r, s) /\ Running(req[r]) /\ Running(s)
                 /\ s.copy = req[r].copy /\ s.todo = req[r].todo
                 /\ s.use = req[r].use /\ s.confirmed = req[r].confirmed
    BY RunningSteps
  <1>2. row' = row /\ nextUse' = nextUse
    BY DEF RunTool, BeginTool, Send, Mined, ChainFails
  <1>3. MatchOK(s, nextUse) /\ GoodSession(row, nextUse)
    BY <1>1 DEF MatchInv, MatchOK, At, Running
  <1> QED BY <1>1, <1>2, <1>3, MatchStep

LEMMA MatchComplete ==
    ASSUME Serial, IInv, TypeOK, LiveCopies, MatchInv, NEW r \in Requests, CompleteTool(r)
    PROVE  MatchInv'
  <1> DEFINE copy == req[r].copy
             todo == req[r].todo
             u == req[r].use
             h == Append(copy.history, Results({u}))
             x == [copy EXCEPT !.history = h]
             next == IF req[r].confirmed THEN "repair"
                     ELSE IF todo = <<>> THEN "model" ELSE "tools"
             saving == Saving(req[r], x, next)
             s == [saving EXCEPT !.use = NoUse, !.confirmed = FALSE, !.outcome = "none"]
  <1>1. /\ req[r] \in Request /\ copy \in Session /\ copy.history \in Seq(Message)
        /\ DOMAIN req[r] = Fields /\ req[r].pc = "complete" /\ row' = row /\ nextUse' = nextUse
    BY SessionTypes DEF TypeOK, LiveCopies, CompleteTool, IInv, Typing, Typed
  <1>2. u \in Use /\ copy.pending = NoPending
    BY <1>1 DEF IInv, Shape
  <1>3. /\ GoodSession(copy, nextUse) /\ GoodSession(row, nextUse)
        /\ Open(copy.history, u) /\ u \notin ToSet(todo)
        /\ \A v \in ToSet(todo) : Open(copy.history, v)
    BY <1>1 DEF MatchInv, MatchOK, Running
  <1>4. Become(r, s)
    BY DEF CompleteTool
  <1>5. next \in {"repair", "model", "tools"}
    OBVIOUS
  <1>6. /\ h \in Seq(Message) /\ Matched(h) /\ Old(h, nextUse)
        /\ \A v \in ToSet(todo) : Open(h, v)
    <2>1. Matched(copy.history) /\ Old(copy.history, nextUse)
      BY <1>3 DEF GoodSession
    <2> HIDE DEF copy, todo, u
    <2>2. LET e == Append(copy.history, Results({u})) IN
          /\ e \in Seq(Message) /\ Matched(e)
          /\ \A v : Open(copy.history, v) /\ v # u => Open(e, v)
          /\ \A n : Old(copy.history, n) => Old(e, n)
      BY <1>1, <1>2, <1>3, <2>1, AnswerOne
    <2> QED BY <1>3, <2>1, <2>2
  <1> HIDE DEF h, next
  <1>7. x.history = h /\ x.pending = NoPending
    BY <1>1, <1>2, <1>6 DEF Session
  <1> HIDE DEF x
  <1>8. DOMAIN saving = Fields /\ saving.pc = "save" /\ saving.copy = x /\ saving.next = next
        /\ saving.todo = todo
    BY <1>1, SavingFacts
  <1> HIDE DEF saving
  <1>9. s.pc = "save" /\ s.copy = x /\ s.next = next /\ s.todo = todo
    BY <1>8 DEF Fields
  <1> HIDE DEF s, todo
  <1>10. GoodSession(x, nextUse)
    BY <1>6, <1>7, PendingFacts DEF GoodSession
  <1>11. MatchOK(s, nextUse)
    BY <1>6, <1>7, <1>9, <1>10 DEF MatchOK, At, Running
  <1> QED BY <1>1, <1>3, <1>4, <1>11, MatchStep

LEMMA MatchEnds ==
    ASSUME Serial, IInv, TypeOK, MatchInv, NEW r \in Requests,
           Reply(r) \/ ModelFails(r) \/ ToolThrows(r) \/ Crash(r) \/ DeleteSession(r)
    PROVE  MatchInv'
  <1>1. nextUse' = nextUse /\ GoodSession(row, nextUse)
    BY DEF MatchInv, Reply, ModelFails, ToolThrows, Crash, DeleteSession
  <1>2. CASE DeleteSession(r)
    <2>1. row' = NoSession /\ UNCHANGED req
      BY <1>2 DEF DeleteSession
    <2>2. GoodSession(row', nextUse')
      BY <1>1, <2>1, SessionTypes, EmptyGood
    <2> QED BY <1>1, <2>1, <2>2 DEF MatchInv, MatchOK, GoodSession, At, Running
  <1>3. CASE ~DeleteSession(r)
    <2>1. Become(r, Idle) /\ row' = row
      BY <1>3 DEF Reply, ModelFails, ToolThrows, Crash, Abandon
    <2> QED BY <1>1, <2>1, MatchIdle, MatchStep
  <1> QED BY <1>2, <1>3

LEMMA MatchNext ==
    ASSUME Serial, IInv, TypeOK, LiveCopies, LogsOK, MatchInv, [Next]_vars
    PROVE  MatchInv'
  <1>1. ASSUME NEW r \in Requests, Step(r)
        PROVE  MatchInv'
    <2>1. CASE SaveSelect(r) \/ SaveWrite(r)
      BY <2>1, MatchSave DEF LogsOK
    <2>2. CASE Chat(r) \/ Approve(r) \/ Reject(r)
                 \/ \E status \in {"completed", "failed"} : SubmitClientToolResult(r, status)
      BY <2>2, MatchBegin
    <2>3. CASE Compose(r) \/ Repair(r) \/ AskModel(r)
      BY <2>3, MatchCompose, MatchRepair, MatchAsk
    <2>4. CASE ProposeTool(r) \/ StartTool(r) \/ CompleteTool(r)
      BY <2>4, MatchTool, MatchComplete
    <2>5. CASE RunTool(r) \/ BeginTool(r) \/ Send(r) \/ Mined(r) \/ ChainFails(r)
      BY <2>5, MatchRun
    <2>6. CASE Reply(r) \/ ModelFails(r) \/ ToolThrows(r) \/ Crash(r) \/ DeleteSession(r)
      BY <2>6, MatchEnds
    <2> QED BY <1>1, <2>1, <2>2, <2>3, <2>4, <2>5, <2>6 DEF Step
  <1>2. CASE UNCHANGED vars
    BY <1>2 DEF vars, MatchInv, MatchOK, GoodSession, At, Running
  <1> QED BY <1>1, <1>2 DEF Next

LEMMA MatchInit == Init => MatchInv
  <1>1. ASSUME Init PROVE MatchInv
    <2>1. row = NoSession /\ req = [r \in Requests |-> Idle]
      BY <1>1 DEF Init
    <2>2. GoodSession(row, nextUse)
      BY <2>1, SessionTypes, EmptyGood
    <2> QED BY <2>1, <2>2, MatchIdle DEF MatchInv
  <1> QED BY <1>1

(* While requests are served one at a time, crashes included, each result  *)
(* in the history that the model is asked with follows the call it         *)
(* answers, with nobody speaking in between, and no call is answered       *)
(* twice: neither by the repair that continueLoop makes, nor by a          *)
(* confirmation or a client's report that comes after a new message has    *)
(* cancelled the call.                                                     *)
THEOREM AgentPromptsMatched ==
    ASSUME Serial
    PROVE  Spec => []PromptsMatched
  <1> DEFINE Inv == TypeOK /\ LiveCopies /\ LogsOK /\ MatchInv
  <1>1. Init => Inv
    BY InitTypes, LogsInit, MatchInit
  <1>2. IInv /\ Inv /\ [Next]_vars => Inv'
    BY TypeNext, LogsNext, MatchNext
  <1>3. Inv => PromptsMatched
    <2>1. ASSUME Inv, NEW r \in Requests, req[r].pc = "model",
                 NEW j \in DOMAIN req[r].copy.history, req[r].copy.history[j].kind = "results"
          PROVE  LET h == req[r].copy.history IN
                 /\ \A k \in DOMAIN h : h[k].kind = "results" /\ h[j].uses \cap h[k].uses # {} => k = j
                 /\ Follows(h, j)
      <3>1. Matched(req[r].copy.history)
        BY <2>1 DEF MatchInv, MatchOK, GoodSession
      <3> QED BY <2>1, <3>1 DEF Matched
    <2> QED BY <2>1 DEF PromptsMatched, Follows
  <1> QED BY <1>1, <1>2, <1>3, AgentInvariant, PTL DEF Spec

-----------------------------------------------------------------------------
(* What becomes of a call.                                                 *)

Ended == {"completed", "failed", "cancelled"}

\* Request s runs call i without holding it: a safe call of its turn.
Reads(s, i) == Running(s) /\ ~Saw(s, i) /\ s.use.id = i

(* Who knows of a call finds it logged.  Once the log has its end, nobody  *)
(* proposes it, a holder has nothing left but to write it off, and nobody  *)
(* can find it in the row but where that holder is about to overwrite it.  *)
(* A safe call is known to the request that runs it, and to no other.      *)
CallOK(i) ==
    /\ row.pending.use.id = i => logs[i] # "none"
    /\ \A r \in Requests : Saw(req[r], i) \/ Carries(req[r], i) => logs[i] # "none"
    /\ logs[i] \in Ended =>
          /\ row.pending.use.id = i => Held(i)
          /\ \A r \in Requests : ~Carries(req[r], i) /\ (Saw(req[r], i) => Closing(req[r]))
    /\ \A r \in Requests : Reads(req[r], i) =>
          /\ logs[i] = "started" /\ row.pending.use.id # i
          /\ \A q \in Requests : /\ ~Saw(req[q], i) /\ ~Carries(req[q], i)
                                 /\ Reads(req[q], i) => q = r

HasOutcome(s) == s.pc = "complete" => s.outcome # "none"

CallsInv ==
    /\ \A i \in Undisturbed : CallOK(i)
    /\ \A r \in Requests : HasOutcome(req[r])

\* r's new state s knows nothing of call i that it did not know before.
Forgets(r, s, i) ==
    /\ Saw(s, i) <=> Saw(req[r], i)
    /\ Saw(s, i) /\ Closing(req[r]) => Closing(s)
    /\ Carries(s, i) => Carries(req[r], i)
    /\ Reads(s, i) => Reads(req[r], i)

LEMMA CallKeep ==
    ASSUME IInv, NEW r \in Requests, NEW s, Become(r, s), NEW i \in Ids, CallOK(i),
           logs'[i] = logs[i], row' = row, Forgets(r, s, i)
    PROVE  CallOK(i)'
  <1>1. req'[r] = s /\ \A q \in Requests \ {r} : req'[q] = req[q]
    BY BecomeFacts DEF IInv
  <1>2. \A q \in Requests :
           /\ Saw(req'[q], i) <=> Saw(req[q], i)
           /\ Saw(req'[q], i) /\ Closing(req[q]) => Closing(req'[q])
           /\ Carries(req'[q], i) => Carries(req[q], i)
           /\ Reads(req'[q], i) => Reads(req[q], i)
    BY <1>1 DEF Forgets
  <1>3. Held(i)' <=> Held(i)
    BY <1>2 DEF Held, Saw
  <1>4. \A q \in Requests : Saw(req'[q], i) \/ Carries(req'[q], i) => logs[i] # "none"
    BY <1>2 DEF CallOK
  <1>5. logs[i] \in Ended =>
           \A q \in Requests : ~Carries(req'[q], i) /\ (Saw(req'[q], i) => Closing(req'[q]))
    BY <1>2 DEF CallOK
  <1>6. \A q \in Requests : Reads(req'[q], i) =>
           /\ logs[i] = "started" /\ row.pending.use.id # i
           /\ \A p \in Requests : /\ ~Saw(req'[p], i) /\ ~Carries(req'[p], i)
                                  /\ Reads(req'[p], i) => p = q
    BY <1>2 DEF CallOK
  <1>7. logs[i] \in Ended => (row.pending.use.id = i => Held(i))
    BY DEF CallOK
  <1>8. row.pending.use.id = i => logs[i] # "none"
    BY DEF CallOK
  <1> QED BY <1>3, <1>4, <1>5, <1>6, <1>7, <1>8 DEF CallOK, Saw, Carries, Closing, Reads, Running

(* The holder of a call, and the request that finds it in the row with no  *)
(* holder, are the only ones that know of it.                              *)
LEMMA OneHolder ==
    ASSUME IInv, CallsInv, NEW r \in Requests, NEW i \in Undisturbed, Saw(req[r], i)
    PROVE  \A q \in Requests : /\ Saw(req[q], i) => q = r
                               /\ Carries(req[q], i) => q = r
                               /\ ~Reads(req[q], i)
  <1>1. UseOK(i) /\ CallOK(i)
    BY DEF IInv, CallsInv
  <1>2. \A q \in Requests : Saw(req[q], i) => q = r
    BY <1>1 DEF UseOK
  <1>3. \A q \in Requests : Carries(req[q], i) => Saw(req[q], i)
    BY <1>1 DEF UseOK, Held
  <1>4. \A q \in Requests : ~Reads(req[q], i)
    BY <1>1 DEF CallOK
  <1> QED BY <1>2, <1>3, <1>4

LEMMA NoHolder ==
    ASSUME IInv, CallsInv, NEW i \in Undisturbed, row.pending.use.id = i, ~Held(i)
    PROVE  \A q \in Requests : ~Saw(req[q], i) /\ ~Carries(req[q], i) /\ ~Reads(req[q], i)
  <1>1. UseOK(i) /\ CallOK(i)
    BY DEF IInv, CallsInv
  <1>2. \A q \in Requests : ~Saw(req[q], i)
    BY DEF Held
  <1>3. \A q \in Requests : ~Carries(req[q], i)
    BY <1>1, <1>2 DEF UseOK
  <1>4. \A q \in Requests : ~Reads(req[q], i)
    BY <1>1 DEF CallOK
  <1> QED BY <1>2, <1>3, <1>4

\* The one request that knows of a call changes what it knows, or the log.
LEMMA CallTold ==
    ASSUME IInv, NEW r \in Requests, NEW s, Become(r, s), NEW i \in Ids, row' = row,
           logs'[i] # "none",
           \A q \in Requests \ {r} :
              ~Saw(req[q], i) /\ ~Carries(req[q], i) /\ ~Reads(req[q], i),
           logs'[i] \in Ended => /\ ~Carries(s, i) /\ (Saw(s, i) => Closing(s))
                                 /\ row.pending.use.id = i => Saw(s, i),
           Reads(s, i) => /\ logs'[i] = "started" /\ row.pending.use.id # i
                          /\ ~Carries(s, i)
    PROVE  CallOK(i)'
  <1>1. req'[r] = s /\ \A q \in Requests \ {r} : req'[q] = req[q]
    BY BecomeFacts DEF IInv
  <1>2. Saw(s, i) => Held(i)'
    BY <1>1 DEF Held, Saw
  <1>3. ~(Reads(s, i) /\ Saw(s, i))
    BY DEF Reads
  <1>4. \A q \in Requests : Reads(req'[q], i) =>
           /\ logs'[i] = "started" /\ row.pending.use.id # i
           /\ \A p \in Requests : /\ ~Saw(req'[p], i) /\ ~Carries(req'[p], i)
                                  /\ Reads(req'[p], i) => p = q
    BY <1>1, <1>3
  <1>5. logs'[i] \in Ended =>
           \A q \in Requests : ~Carries(req'[q], i) /\ (Saw(req'[q], i) => Closing(req'[q]))
    BY <1>1
  <1> QED BY <1>2, <1>4, <1>5 DEF CallOK, Saw, Carries, Closing, Reads, Running

LEMMA CallsStep ==
    ASSUME IInv, CallsInv, NEW r \in Requests, NEW s, Become(r, s), HasOutcome(s),
           \A i \in Undisturbed' : CallOK(i)'
    PROVE  CallsInv'
  <1>1. \A q \in Requests : HasOutcome(req'[q])
    BY BecomeFacts DEF IInv, CallsInv
  <1> QED BY <1>1 DEF CallsInv, HasOutcome

\* A step that tells nobody of a call, and leaves the log alone.
LEMMA CallsKeep ==
    ASSUME IInv, CallsInv, NEW r \in Requests, NEW s, Become(r, s), HasOutcome(s),
           UNCHANGED <<row, logs>>, contested \subseteq contested', disturbed \subseteq disturbed',
           \A i \in Undisturbed' : Forgets(r, s, i)
    PROVE  CallsInv'
  <1>1. ASSUME NEW i \in Undisturbed'
        PROVE  CallOK(i)'
    <2>1. i \in Ids /\ CallOK(i) /\ Forgets(r, s, i)
      BY DEF Undisturbed, CallsInv
    <2> QED BY <2>1, CallKeep
  <1> QED BY <1>1, CallsStep

LEMMA AbandonForgets ==
    ASSUME IInv, NEW r \in Requests, Abandon(r), NEW i \in Undisturbed'
    PROVE  ~Saw(req[r], i) /\ ~Saw(Idle, i) /\ ~Carries(Idle, i) /\ ~Reads(Idle, i) /\ HasOutcome(Idle)
  <1>1. Found([use |-> req[r].saw]) \subseteq disturbed' /\ i \in Ids
    BY DEF Abandon, Unsaved, Undisturbed
  <1>2. ~Saw(req[r], i)
    BY <1>1, UseFacts DEF Undisturbed, Found, Saw
  <1> QED BY <1>1, <1>2, IdleFacts, UseFacts DEF Saw, Carries, Reads, Running, HasOutcome, NoUse

LEMMA CallsAbandon ==
    ASSUME IInv, CallsInv, NEW r \in Requests, Abandon(r), UNCHANGED <<row, logs, contested>>
    PROVE  CallsInv'
  <1>1. \A i \in Undisturbed' : Forgets(r, Idle, i)
    BY AbandonForgets DEF Forgets
  <1>2. HasOutcome(Idle) /\ disturbed \subseteq disturbed' /\ Become(r, Idle)
    BY IdleFacts DEF HasOutcome, Abandon
  <1> QED BY <1>1, <1>2, CallsKeep

\* A step of a request that holds nothing, to where it proposes and runs nothing.
LEMMA CallsQuiet ==
    ASSUME IInv, CallsInv, NEW r \in Requests, NEW s, Become(r, s),
           UNCHANGED <<row, logs, contested, disturbed>>,
           s.saw = req[r].saw, ~Running(s),
           s.pc \in {"save", "write"} => s.copy.pending = NoPending \/
              (s.copy = req[r].copy /\ req[r].pc \in {"save", "write"}),
           Closing(req[r]) => Closing(s)
    PROVE  CallsInv'
  <1>1. HasOutcome(s)
    BY DEF HasOutcome, Running
  <1>2. ASSUME NEW i \in Undisturbed'
        PROVE  Forgets(r, s, i)
    <2>1. i # 0 /\ NoPending.use.id = 0
      BY UseFacts DEF Undisturbed, NoPending, NoUse
    <2> QED BY <2>1 DEF Forgets, Saw, Carries, Reads
  <1> QED BY <1>1, <1>2, CallsKeep

LEMMA CallsMemory ==
    ASSUME IInv, TypeOK, CallsInv, NEW r \in Requests,
           SaveSelect(r) \/ Repair(r) \/ AskModel(r) \/ Reply(r)
    PROVE  CallsInv'
  <1>1. req[r] \in Request /\ Shape(req[r])
    BY DEF TypeOK, IInv
  <1>2. CASE SaveSelect(r)
    <2> DEFINE s == [req[r] EXCEPT !.pc = "write", !.base = row]
    <2>1. /\ s.saw = req[r].saw /\ s.pc = "write" /\ s.copy = req[r].copy /\ s.next = req[r].next
          /\ Become(r, s) /\ req[r].pc = "save"
      BY <1>1, <1>2 DEF SaveSelect, Request
    <2> HIDE DEF s
    <2> QED BY <1>2, <2>1, CallsQuiet DEF SaveSelect, Running, Closing
  <1>3. CASE Repair(r)
    <2>1. req[r].pc = "repair" /\ req[r].copy.pending = NoPending
      BY <1>1, <1>3 DEF Repair, Shape
    <2>2. CASE Become(r, [req[r] EXCEPT !.pc = "model"])
      <3> DEFINE s == [req[r] EXCEPT !.pc = "model"]
      <3>1. s.saw = req[r].saw /\ s.pc = "model"
        BY <1>1 DEF Request
      <3> HIDE DEF s
      <3> QED BY <1>3, <2>1, <2>2, <3>1, CallsQuiet DEF Repair, Running, Closing, s
    <2>3. CASE ~Become(r, [req[r] EXCEPT !.pc = "model"])
      <3> DEFINE x == [req[r].copy EXCEPT !.history = repairMissingToolResults(req[r].copy.history)]
                 s == Saving(req[r], x, "model")
      <3>1. Become(r, s)
        BY <1>3, <2>3 DEF Repair
      <3>2. x.pending = NoPending
        BY <2>1, SessionFacts DEF IInv, Typing, Typed
      <3> HIDE DEF x
      <3>3. s.saw = req[r].saw /\ s.pc = "save" /\ s.copy = x
        BY <1>1 DEF Request, Saving
      <3> HIDE DEF s
      <3> QED BY <1>3, <2>1, <3>1, <3>2, <3>3, CallsQuiet DEF Repair, Running, Closing
    <2> QED BY <2>2, <2>3
  <1>4. CASE AskModel(r)
    <2>1. req[r].pc = "model" /\ req[r].copy.pending = NoPending
      BY <1>1, <1>4 DEF AskModel, Shape
    <2>2. PICK h, next, todo :
             Become(r, [Saving(req[r], [req[r].copy EXCEPT !.history = h], next) EXCEPT !.todo = todo])
      BY <1>4 DEF AskModel
    <2> DEFINE x == [req[r].copy EXCEPT !.history = h]
               s == [Saving(req[r], x, next) EXCEPT !.todo = todo]
    <2>3. Become(r, s)
      BY <2>2
    <2>4. x.pending = NoPending
      BY <2>1, SessionFacts DEF IInv, Typing, Typed
    <2> HIDE DEF x
    <2>5. s.saw = req[r].saw /\ s.pc = "save" /\ s.copy = x
      BY <1>1 DEF Request, Saving
    <2> HIDE DEF s
    <2> QED BY <1>4, <2>1, <2>3, <2>4, <2>5, CallsQuiet DEF AskModel, Running, Closing
  <1>5. CASE Reply(r)
    <2>1. req[r].pc = "snapshot" /\ req[r].saw = NoUse
      BY <1>1, <1>5 DEF Reply, Shape
    <2> QED BY <1>5, <2>1, IdleFacts, CallsQuiet DEF Reply, Running, Closing
  <1> QED BY <1>2, <1>3, <1>4, <1>5

LEMMA CallsRun ==
    ASSUME IInv, TypeOK, CallsInv, NEW r \in Requests,
           RunTool(r) \/ BeginTool(r) \/ Send(r) \/ Mined(r) \/ ChainFails(r)
    PROVE  CallsInv'
  <1>1. /\ req[r] \in Request /\ req[r].pc \in {"run", "sent"}
        /\ UNCHANGED <<row, logs, contested, disturbed>>
    BY DEF TypeOK, RunTool, BeginTool, Send, Mined, ChainFails
  <1>2. ASSUME NEW s, Become(r, s), s.saw = req[r].saw, s.use = req[r].use, Running(s), HasOutcome(s)
        PROVE  CallsInv'
    <2>1. \A i \in Undisturbed' : Forgets(r, s, i)
      BY <1>1, <1>2 DEF Forgets, Saw, Carries, Reads, Running, Closing
    <2> QED BY <1>1, <1>2, <2>1, CallsKeep
  <1>3. ASSUME NEW outcome \in {"completed", "failed"}, Become(r, Outcome(req[r], outcome))
        PROVE  CallsInv'
    <2> DEFINE s == Outcome(req[r], outcome)
    <2>1. s.saw = req[r].saw /\ s.use = req[r].use /\ s.pc = "complete" /\ s.outcome = outcome
      BY <1>1 DEF Outcome, Request
    <2> HIDE DEF s
    <2> QED BY <1>2, <1>3, <2>1 DEF s, Running, HasOutcome
  <1>4. ASSUME NEW pc \in {"run", "sent"}, NEW left, NEW attempt,
               Become(r, [req[r] EXCEPT !.pc = pc, !.left = left, !.attempt = attempt])
        PROVE  CallsInv'
    <2> DEFINE s == [req[r] EXCEPT !.pc = pc, !.left = left, !.attempt = attempt]
    <2>1. s.saw = req[r].saw /\ s.use = req[r].use /\ s.pc = pc
      BY <1>1 DEF Request
    <2> HIDE DEF s
    <2> QED BY <1>2, <1>4, <2>1 DEF s, Running, HasOutcome
  <1>5. CASE RunTool(r)
    BY <1>3, <1>5 DEF RunTool
  <1>6. CASE BeginTool(r)
    <2>1. [req[r] EXCEPT !.left = Rounds(req[r].use), !.attempt = 1]
          = [req[r] EXCEPT !.pc = "run", !.left = Rounds(req[r].use), !.attempt = 1]
      BY <1>1, <1>6 DEF BeginTool, Request
    <2> QED BY <1>4, <1>6, <2>1 DEF BeginTool
  <1>7. CASE Send(r)
    <2>1. [req[r] EXCEPT !.pc = "sent"]
          = [req[r] EXCEPT !.pc = "sent", !.left = req[r].left, !.attempt = req[r].attempt]
      BY <1>1 DEF Request
    <2> QED BY <1>4, <1>7, <2>1 DEF Send
  <1>8. CASE Mined(r)
    BY <1>3, <1>4, <1>8 DEF Mined
  <1>9. CASE ChainFails(r)
    <2>1. [req[r] EXCEPT !.pc = "run", !.attempt = @ + 1]
          = [req[r] EXCEPT !.pc = "run", !.left = req[r].left, !.attempt = @ + 1]
      BY <1>1 DEF Request
    <2> QED BY <1>3, <1>4, <1>9, <2>1 DEF ChainFails
  <1> QED BY <1>5, <1>6, <1>7, <1>8, <1>9

LEMMA CallsProposed ==
    ASSUME IInv, TypeOK, CallsInv, NEW r \in Requests, ProposeTool(r) \/ StartTool(r)
    PROVE  CallsInv'
  <1> DEFINE u == Head(req[r].todo)
  <1>1. /\ req[r] \in Request /\ req[r].pc = "tools" /\ req[r].saw = NoUse
        /\ UNCHANGED <<row, contested, disturbed>>
        /\ logs \in [Ids -> Statuses]
    BY DEF TypeOK, IInv, Shape, ProposeTool, StartTool
  <1>2. u \in Use /\ u.id \in Ids /\ New(u.id)
    <2>1. req[r].todo # <<>>
      BY <1>1 DEF IInv, Shape
    <2> QED BY <2>1, TodoFacts DEF IInv, FreshInv
  <1> HIDE DEF u
  <1>3. /\ u.id \in Undisturbed => \A q \in Requests : ~Reads(req[q], u.id)
        /\ \A q \in Requests : ~Saw(req[q], u.id) /\ ~Carries(req[q], u.id)
        /\ row.pending.use.id # u.id
    BY <1>2 DEF New, CallsInv, CallOK
  <1>4. ASSUME NEW s, Become(r, s), s.saw = NoUse, HasOutcome(s), NEW status \in {"started", "pending_confirmation"},
               createPending(u, status),
               \A i \in Ids : Carries(s, i) \/ Reads(s, i) => i = u.id,
               Reads(s, u.id) => status = "started" /\ ~Carries(s, u.id)
        PROVE  CallsInv'
    <2>1. ASSUME NEW i \in Undisturbed'
          PROVE  CallOK(i)'
      <3>1. i \in Ids /\ i \in Undisturbed /\ CallOK(i) /\ ~Saw(s, i) /\ ~Saw(req[r], i)
        BY <1>1, <1>4, UseFacts DEF Undisturbed, CallsInv, Saw, NoUse
      <3>2. CASE i = u.id
        <4>1. logs'[i] = status
          BY <1>1, <1>2, <1>4, <3>2 DEF createPending
        <4> QED BY <1>1, <1>3, <1>4, <3>1, <3>2, <4>1, CallTold DEF Ended
      <3>3. CASE i # u.id
        <4>1. logs'[i] = logs[i]
          BY <1>1, <1>2, <1>4, <3>1, <3>3 DEF createPending
        <4>2. Forgets(r, s, i)
          BY <1>4, <3>1, <3>3 DEF Forgets
        <4> QED BY <1>1, <1>4, <3>1, <4>1, <4>2, CallKeep
      <3> QED BY <3>2, <3>3
    <2> QED BY <1>4, <2>1, CallsStep
  <1>5. CASE ProposeTool(r)
    <2>1. PICK h, mode :
             Become(r, [Saving(req[r], [req[r].copy EXCEPT !.history = h,
                                            !.pending = [use |-> u, mode |-> mode]], "snapshot")
                        EXCEPT !.todo = <<>>])
      BY <1>5 DEF ProposeTool, u
    <2> DEFINE x == [req[r].copy EXCEPT !.history = h, !.pending = [use |-> u, mode |-> mode]]
               s == [Saving(req[r], x, "snapshot") EXCEPT !.todo = <<>>]
    <2>2. Become(r, s)
      BY <2>1
    <2>3. x.pending.use = u
      BY DEF IInv, Typing, Typed, IsSession
    <2> HIDE DEF x
    <2>4. s.saw = NoUse /\ s.pc = "save" /\ s.copy = x
      BY <1>1 DEF Request, Saving
    <2> HIDE DEF s
    <2> QED BY <1>4, <1>5, <2>2, <2>3, <2>4 DEF ProposeTool, u, HasOutcome, Carries, Reads, Running
  <1>6. CASE StartTool(r)
    <2> DEFINE s == [req[r] EXCEPT !.pc = "run", !.use = u, !.todo = Tail(@)]
    <2>1. s.saw = NoUse /\ s.pc = "run" /\ s.use = u
      BY <1>1 DEF Request
    <2>2. Become(r, s) /\ createPending(u, "started")
      BY <1>6 DEF StartTool, u
    <2> HIDE DEF s
    <2> QED BY <1>4, <2>1, <2>2 DEF HasOutcome, Carries, Reads, Running
  <1> QED BY <1>5, <1>6

LEMMA CallsWrite ==
    ASSUME IInv, TypeOK, CallsInv, NEW r \in Requests, SaveWrite(r)
    PROVE  CallsInv'
  <1> DEFINE o == req[r]
             saw == IF o.copy.pending.use = o.saw THEN o.saw ELSE NoUse
             s == [o EXCEPT !.pc = o.next, !.next = "idle", !.base = NoSession, !.saw = saw]
  <1>1. /\ o \in Request /\ Typed(o) /\ Shape(o) /\ o.pc = "write"
        /\ o.next \in {"compose", "repair", "model", "tools", "snapshot"}
        /\ UNCHANGED <<logs, contested>>
    BY DEF TypeOK, IInv, Typing, SaveWrite, Shape
  <1>2. CASE Abandon(r) /\ UNCHANGED row
    BY <1>1, <1>2, CallsAbandon
  <1>3. CASE /\ row' = IF o.base = NoSession THEN o.copy
                       ELSE IF row = NoSession THEN row
                       ELSE ChangedColumns(o.copy, o.base)
             /\ Become(r, s) /\ UNCHANGED disturbed
    <2>1. s.pc = o.next /\ s.saw = saw /\ ~Running(s) /\ HasOutcome(s)
      BY <1>1 DEF Request, Running, HasOutcome
    <2>2. \A i \in Ids : ~Carries(s, i) /\ ~Reads(s, i)
      BY <1>1, <2>1 DEF Carries, Reads, Running
    <2>3. \A i \in Ids : Saw(s, i) => Saw(o, i) /\ ~Closing(o)
      <3>1. ASSUME NEW i \in Ids, Saw(s, i)
            PROVE  Saw(o, i) /\ ~Closing(o)
        <4>1. i # 0 /\ NoUse.id = 0 /\ NoPending.use = NoUse
          BY UseFacts, PendingFacts DEF NoUse
        <4>2. o.copy.pending.use = o.saw /\ o.saw.id = i
          BY <2>1, <3>1, <4>1 DEF Saw
        <4> QED BY <1>1, <4>1, <4>2 DEF Shape, Saw
      <3> QED BY <3>1
    <2>4. /\ req'[r] = s
          /\ \A q \in Requests \ {r} : req'[q] = req[q]
      BY <1>3, BecomeFacts DEF IInv
    <2> HIDE DEF s, saw
    <2>5. ASSUME NEW i \in Ids, row'.pending.use.id = i
          PROVE  Carries(o, i) \/ (row.pending.use.id = i
                                      /\ o.copy.pending = o.base.pending /\ o.base # NoSession)
      <3>1. CASE o.base = NoSession
        BY <1>1, <1>3, <2>5, <3>1 DEF Carries
      <3>2. CASE o.base # NoSession /\ row = NoSession
        BY <1>3, <2>5, <3>2, NoSessionFacts, UseFacts DEF NoPending, NoUse
      <3>3. CASE o.base # NoSession /\ row # NoSession
        <4>1. row'.pending = IF o.copy.pending # o.base.pending THEN o.copy.pending ELSE row.pending
          BY <1>3, <3>3 DEF ChangedColumns, IInv, Typing, IsSession
        <4> QED BY <1>1, <2>5, <3>3, <4>1 DEF Carries
      <3> QED BY <3>1, <3>2, <3>3
    <2>6. ASSUME NEW i \in Undisturbed'
          PROVE  CallOK(i)'
      <3>1. i \in Ids /\ i \in Undisturbed /\ CallOK(i) /\ UseOK(i)
        BY <1>1, <1>3 DEF Undisturbed, CallsInv, IInv
      <3>2. row'.pending.use.id = i => logs[i] # "none"
        BY <2>5, <3>1 DEF CallOK
      <3>3. \A q \in Requests : Saw(req'[q], i) \/ Carries(req'[q], i) => logs[i] # "none"
        BY <2>2, <2>3, <2>4, <3>1 DEF CallOK
      <3>4. ASSUME logs[i] \in Ended
            PROVE  \A q \in Requests : ~Carries(req'[q], i) /\ (Saw(req'[q], i) => Closing(req'[q]))
        BY <2>2, <2>3, <2>4, <3>1, <3>4 DEF CallOK
      <3>5. ASSUME logs[i] \in Ended, row'.pending.use.id = i
            PROVE  Held(i)'
        <4>1. ~Carries(o, i) /\ row.pending.use.id = i
              /\ o.copy.pending = o.base.pending /\ o.base # NoSession
          BY <2>5, <3>1, <3>5 DEF CallOK
        <4>2. PICK q \in Requests : Saw(req[q], i)
          BY <3>1, <3>5, <4>1 DEF CallOK, Held
        <4>3. q # r
          <5>1. SUFFICES ASSUME q = r PROVE FALSE
            OBVIOUS
          <5>2. Closing(o) /\ o.saw # NoUse
            BY <3>1, <3>5, <4>2, <5>1, UseFacts DEF CallOK, Saw, NoUse
          <5>3. o.copy.pending = NoPending
            BY <1>1, <5>2 DEF Shape
          <5>4. o.base.pending.use.id = i
            BY <1>1, <3>1, <4>1, <4>2, <5>1, <5>2 DEF UseOK
          <5> QED BY <3>1, <4>1, <5>3, <5>4, UseFacts DEF NoPending, NoUse
        <4> QED BY <2>4, <4>2, <4>3 DEF Held, Saw
      <3>6. ASSUME NEW q \in Requests, Reads(req'[q], i)
            PROVE  /\ logs[i] = "started" /\ row'.pending.use.id # i
                   /\ \A p \in Requests : /\ ~Saw(req'[p], i) /\ ~Carries(req'[p], i)
                                          /\ Reads(req'[p], i) => p = q
        <4>1. q # r /\ Reads(req[q], i)
          BY <2>2, <2>4, <3>1, <3>6
        <4>2. /\ logs[i] = "started" /\ row.pending.use.id # i
              /\ \A p \in Requests : /\ ~Saw(req[p], i) /\ ~Carries(req[p], i)
                                     /\ Reads(req[p], i) => p = q
          BY <3>1, <4>1 DEF CallOK
        <4>3. row'.pending.use.id # i
          BY <2>5, <3>1, <4>2
        <4> QED BY <2>2, <2>3, <2>4, <3>1, <4>2, <4>3
      <3> QED BY <1>1, <3>2, <3>3, <3>4, <3>5, <3>6
              DEF CallOK, Saw, Carries, Closing, Reads, Running
    <2> QED BY <1>3, <2>1, <2>6, CallsStep DEF s, saw
  <1> QED BY <1>2, <1>3 DEF SaveWrite

\* A request that loads the row holds what the row names.
LEMMA LoadAlone ==
    ASSUME IInv, CallsInv, NEW r \in Requests, req[r].pc = "idle", Load(r), disturbed' = disturbed,
           NEW i \in Undisturbed', row.pending.use.id = i
    PROVE  /\ i \in Undisturbed /\ ~Held(i)
           /\ runs[i] = 0 /\ logs[i] \notin Ended \cup {"none"}
           /\ \A q \in Requests : ~Saw(req[q], i) /\ ~Carries(req[q], i) /\ ~Reads(req[q], i)
  <1>1. i \in Ids /\ i \in Undisturbed /\ i \notin contested' /\ i # 0
    BY UseFacts DEF Undisturbed, Load
  <1>2. \A q \in Requests \ {r} : ~Saw(req[q], i)
    BY <1>1 DEF Load, Found, Saw
  <1>3. ~Saw(req[r], i)
    BY <1>1, UseFacts DEF IInv, Shape, Saw, NoUse
  <1>4. ~Held(i)
    BY <1>2, <1>3 DEF Held
  <1>5. UseOK(i) /\ CallOK(i)
    BY <1>1 DEF IInv, CallsInv
  <1> QED BY <1>1, <1>4, <1>5, NoHolder DEF UseOK, CallOK

\* A step that brings r to hold what the row names, and closes it or not.
LEMMA CallsLoad ==
    ASSUME IInv, TypeOK, CallsInv, NEW r \in Requests, req[r].pc = "idle", NEW s, Become(r, s),
           HasOutcome(s), Load(r), UNCHANGED <<row, disturbed>>, s.saw = row.pending.use,
           \A i \in Ids : (Carries(s, i) => row.pending.use.id = i) /\ ~Reads(s, i),
           \/ UNCHANGED logs
           \/ /\ \E status \in Ended : complete(row.pending.use, status)
              /\ Closing(s) /\ \A i \in Ids : ~Carries(s, i)
    PROVE  CallsInv'
  <1>1. logs \in [Ids -> Statuses] /\ contested \subseteq contested'
    BY DEF TypeOK, Load
  <1>2. ASSUME NEW i \in Undisturbed', row.pending.use.id = i
        PROVE  CallOK(i)'
    <2>1. /\ i \in Ids /\ logs[i] \notin Ended \cup {"none"}
          /\ \A q \in Requests : ~Saw(req[q], i) /\ ~Carries(req[q], i) /\ ~Reads(req[q], i)
      BY <1>2, LoadAlone DEF Undisturbed
    <2>2. Saw(s, i) /\ ~Reads(s, i)
      BY <1>2, <2>1 DEF Saw
    <2>3. CASE UNCHANGED logs
      BY <2>1, <2>2, <2>3, CallTold
    <2>4. CASE /\ \E status \in Ended : complete(row.pending.use, status)
               /\ Closing(s) /\ \A j \in Ids : ~Carries(s, j)
      <3>1. logs'[i] \in Ended /\ logs'[i] # "none"
        BY <1>1, <1>2, <2>1, <2>4 DEF complete, Ended
      <3> QED BY <2>1, <2>2, <2>4, <3>1, CallTold
    <2> QED BY <2>3, <2>4
  <1>3. ASSUME NEW i \in Undisturbed', row.pending.use.id # i
        PROVE  CallOK(i)'
    <2>1. i \in Ids /\ CallOK(i) /\ i # 0
      BY <1>1, UseFacts DEF Undisturbed, CallsInv
    <2>2. Forgets(r, s, i)
      <3>1. ~Saw(req[r], i)
        BY <2>1, UseFacts DEF IInv, Shape, Saw, NoUse
      <3> QED BY <1>3, <2>1, <3>1 DEF Forgets, Saw
    <2>3. logs'[i] = logs[i]
      BY <1>1, <1>3, <2>1 DEF complete
    <2> QED BY <2>1, <2>2, <2>3, CallKeep
  <1> QED BY <1>2, <1>3, CallsStep

LEMMA CallsBegin ==
    ASSUME IInv, TypeOK, CallsInv, NEW r \in Requests,
           Chat(r) \/ Approve(r) \/ Reject(r)
              \/ \E status \in {"completed", "failed"} : SubmitClientToolResult(r, status)
    PROVE  CallsInv'
  <1>1. /\ req[r].pc = "idle" /\ Load(r) /\ UNCHANGED <<row, disturbed>>
        /\ IsSession(row) /\ NoSession.pending.use = NoUse /\ NoPending.use.id = 0
        /\ \A i \in Ids : i # 0
    BY UseFacts, NoSessionFacts
       DEF Chat, Approve, Reject, SubmitClientToolResult, IInv, Typing, NoPending, NoUse
  <1>2. CASE Chat(r)
    <2> DEFINE loaded == [Idle EXCEPT !.copy = row, !.saw = row.pending.use]
    <2>1. CASE row = NoSession
      <3>1. PICK sandbox \in {"on", "off"} :
               Become(r, Saving(Idle, [NoSession EXCEPT !.sandbox = sandbox], "compose"))
        BY <1>2, <2>1 DEF Chat
      <3> DEFINE x == [NoSession EXCEPT !.sandbox = sandbox]
                 s == Saving(Idle, x, "compose")
      <3>2. x.pending = NoPending /\ Become(r, s)
        BY <3>1, NoSessionFacts
      <3> HIDE DEF x
      <3>3. s.saw = NoUse /\ s.pc = "save" /\ s.copy = x
        BY DEF Saving, Idle
      <3> HIDE DEF s
      <3>4. HasOutcome(s) /\ \A i \in Ids : ~Carries(s, i) /\ ~Reads(s, i)
        BY <1>1, <3>2, <3>3 DEF HasOutcome, Carries, Reads, Running
      <3> QED BY <1>1, <1>2, <2>1, <3>2, <3>3, <3>4, CallsLoad DEF Chat
    <2>2. CASE Become(r, Saving(loaded, row, "compose"))
      <3> DEFINE s == Saving(loaded, row, "compose")
      <3>1. s.saw = row.pending.use /\ s.pc = "save" /\ s.copy = row
        BY DEF Saving, Idle
      <3> HIDE DEF s
      <3>2. HasOutcome(s) /\ \A i \in Ids : (Carries(s, i) => row.pending.use.id = i) /\ ~Reads(s, i)
        BY <3>1 DEF HasOutcome, Carries, Reads, Running
      <3> QED BY <1>1, <1>2, <2>2, <3>1, <3>2, CallsLoad DEF Chat, s
    <2>3. CASE Become(r, [loaded EXCEPT !.pc = "compose"])
      <3> DEFINE s == [loaded EXCEPT !.pc = "compose"]
      <3>1. s.saw = row.pending.use /\ s.pc = "compose"
        BY DEF Idle
      <3> HIDE DEF s
      <3>2. HasOutcome(s) /\ \A i \in Ids : ~Carries(s, i) /\ ~Reads(s, i)
        BY <3>1 DEF HasOutcome, Carries, Reads, Running
      <3> QED BY <1>1, <1>2, <2>3, <3>1, <3>2, CallsLoad DEF Chat, s
    <2> QED BY <1>2, <2>1, <2>2, <2>3 DEF Chat
  <1>3. CASE Approve(r)
    <2> DEFINE s == [Idle EXCEPT !.pc = "run", !.copy = ClearPending(row),
                                 !.use = row.pending.use, !.confirmed = TRUE, !.saw = row.pending.use]
    <2>1. s.saw = row.pending.use /\ s.use = row.pending.use /\ s.pc = "run"
      BY DEF Idle
    <2>2. Become(r, s)
      BY <1>3 DEF Approve
    <2> HIDE DEF s
    <2>3. HasOutcome(s) /\ \A i \in Ids : ~Carries(s, i) /\ ~Reads(s, i)
      BY <2>1 DEF HasOutcome, Carries, Reads, Running, Saw
    <2> QED BY <1>1, <1>3, <2>1, <2>2, <2>3, CallsLoad DEF Approve
  <1>4. ASSUME NEW h, NEW status \in Ended, complete(row.pending.use, status),
               NEW next \in {"snapshot", "repair"},
               Become(r, Saving([Idle EXCEPT !.saw = row.pending.use],
                                [ClearPending(row) EXCEPT !.history = h], next))
        PROVE  CallsInv'
    <2> DEFINE x == [ClearPending(row) EXCEPT !.history = h]
               s == Saving([Idle EXCEPT !.saw = row.pending.use], x, next)
    <2>1. x.pending = NoPending
      BY <1>1, SessionFacts
    <2> HIDE DEF x
    <2>2. s.saw = row.pending.use /\ s.pc = "save" /\ s.copy = x /\ s.next = next
      BY DEF Saving, Idle
    <2>3. Become(r, s)
      BY <1>4 DEF x
    <2> HIDE DEF s
    <2>4. HasOutcome(s) /\ Closing(s) /\ \A i \in Ids : ~Carries(s, i) /\ ~Reads(s, i)
      BY <1>1, <2>1, <2>2 DEF HasOutcome, Carries, Reads, Running, Closing
    <2> QED BY <1>1, <1>4, <2>2, <2>3, <2>4, CallsLoad
  <1>5. CASE Reject(r)
    BY <1>4, <1>5 DEF Reject, Ended
  <1>6. CASE \E status \in {"completed", "failed"} : SubmitClientToolResult(r, status)
    BY <1>4, <1>6 DEF SubmitClientToolResult, Ended
  <1> QED BY <1>2, <1>3, <1>5, <1>6

(* The log gets its end for the call that r holds, or runs without holding *)
(* it; r holds it on, to write it off, or forgets it.                      *)
LEMMA CallsEnd ==
    ASSUME IInv, TypeOK, CallsInv, NEW r \in Requests, NEW s, Become(r, s), HasOutcome(s),
           UNCHANGED <<row, contested>>, disturbed \subseteq disturbed',
           NEW u, u.id \in Undisturbed' => Saw(req[r], u.id) \/ Reads(req[r], u.id),
           NEW status \in Ended, complete(u, status),
           \A i \in Undisturbed' :
              /\ Saw(s, i) <=> Saw(req[r], i)
              /\ ~Carries(s, i) /\ ~Reads(s, i)
              /\ Saw(s, i) => Closing(s)
    PROVE  CallsInv'
  <1>1. logs \in [Ids -> Statuses]
    BY DEF TypeOK
  <1>2. ASSUME NEW i \in Undisturbed'
        PROVE  CallOK(i)'
    <2>1. i \in Ids /\ i \in Undisturbed /\ CallOK(i)
      BY DEF Undisturbed, CallsInv
    <2>2. CASE i = u.id
      <3>1. CASE Saw(req[r], i)
        <4>1. \A q \in Requests \ {r} : ~Saw(req[q], i) /\ ~Carries(req[q], i) /\ ~Reads(req[q], i)
          BY <2>1, <3>1, OneHolder
        <4>2. logs[i] # "none"
          BY <2>1, <3>1 DEF CallOK
        <4>3. logs'[i] # "none"
          BY <1>1, <2>1, <2>2, <4>2 DEF complete, Ended
        <4>4. Saw(s, i) /\ ~Carries(s, i) /\ ~Reads(s, i) /\ Closing(s)
          BY <1>2, <3>1
        <4> QED BY <2>1, <4>1, <4>3, <4>4, CallTold
      <3>2. CASE ~Saw(req[r], i)
        <4>1. Reads(req[r], i)
          BY <1>2, <2>2, <3>2
        <4>2. /\ \A q \in Requests \ {r} : ~Saw(req[q], i) /\ ~Carries(req[q], i) /\ ~Reads(req[q], i)
              /\ logs[i] = "started" /\ row.pending.use.id # i
          BY <2>1, <4>1 DEF CallOK
        <4>3. logs'[i] # "none"
          BY <1>1, <2>1, <2>2, <4>2 DEF complete, Ended
        <4>4. ~Saw(s, i) /\ ~Carries(s, i) /\ ~Reads(s, i)
          BY <1>2, <3>2
        <4> QED BY <2>1, <4>2, <4>3, <4>4, CallTold
      <3> QED BY <3>1, <3>2
    <2>3. CASE i # u.id
      <3>1. logs'[i] = logs[i]
        BY <1>1, <2>1, <2>3 DEF complete
      <3>2. Forgets(r, s, i)
        BY <1>2 DEF Forgets
      <3> QED BY <2>1, <3>1, <3>2, CallKeep
    <2> QED BY <2>2, <2>3
  <1> QED BY <1>2, CallsStep

\* Who runs a call holds it, or reads.
LEMMA RunnerKnows ==
    ASSUME IInv, NEW r \in Requests, Running(req[r])
    PROVE  /\ req[r].use \in Use /\ req[r].use.id \in Ids
           /\ Saw(req[r], req[r].use.id) \/ Reads(req[r], req[r].use.id)
           /\ \A i \in Ids : Saw(req[r], i) => i = req[r].use.id
           /\ Destructive(req[r].use) => Saw(req[r], req[r].use.id)
           /\ ~Closing(req[r])
  <1>1. Shape(req[r])
    BY DEF IInv
  <1>2. req[r].use \in Use /\ req[r].use.id \in Ids
    BY <1>1, UseFacts DEF Shape, Running
  <1>3. ~Closing(req[r])
    BY DEF Running, Closing
  <1>4. \A i \in Ids : Saw(req[r], i) => req[r].saw # NoUse
    BY UseFacts DEF Saw, NoUse
  <1>5. req[r].saw # NoUse => req[r].use = req[r].saw
    BY <1>1 DEF Shape, Running
  <1>6. Destructive(req[r].use) => req[r].use = req[r].saw
    BY <1>1 DEF Shape, Running
  <1> QED BY <1>2, <1>3, <1>4, <1>5, <1>6 DEF Saw, Reads

LEMMA CallsCompose ==
    ASSUME IInv, TypeOK, CallsInv, NEW r \in Requests, Compose(r)
    PROVE  CallsInv'
  <1> DEFINE pending == req[r].copy.pending
             cancelled == IF pending = NoPending THEN <<>> ELSE <<Results({pending.use})>>
             x == [ClearPending(req[r].copy) EXCEPT !.history = @ \o cancelled \o <<UserMessage>>]
             s == Saving(req[r], x, "repair")
  <1>1. /\ req[r] \in Request /\ Shape(req[r]) /\ req[r].pc = "compose"
        /\ Become(r, s) /\ UNCHANGED <<row, contested, disturbed>>
        /\ IF pending = NoPending THEN UNCHANGED logs ELSE complete(pending.use, "cancelled")
        /\ IsSession(req[r].copy)
    BY DEF TypeOK, IInv, Typing, Typed, Compose
  <1>2. pending.use = req[r].saw
    BY <1>1 DEF Shape
  <1>3. x.pending = NoPending
    BY <1>1 DEF ClearPending, IsSession
  <1> HIDE DEF x
  <1>4. s.saw = req[r].saw /\ s.pc = "save" /\ s.copy = x /\ s.next = "repair"
    BY <1>1 DEF Request, Saving
  <1> HIDE DEF s
  <1>5. HasOutcome(s) /\ Closing(s) /\ \A i \in Ids : ~Carries(s, i) /\ ~Reads(s, i)
    BY <1>3, <1>4, UseFacts DEF HasOutcome, Closing, Carries, Reads, Running, NoPending, NoUse
  <1>6. \A i \in Undisturbed' : Saw(s, i) <=> Saw(req[r], i)
    BY <1>4 DEF Saw
  <1>7. CASE pending = NoPending
    <2>1. \A i \in Undisturbed' : Forgets(r, s, i)
      BY <1>5, <1>6 DEF Forgets, Undisturbed
    <2> QED BY <1>1, <1>5, <1>7, <2>1, CallsKeep
  <1>8. CASE pending # NoPending
    <2>1. complete(pending.use, "cancelled") /\ Saw(req[r], pending.use.id) /\ "cancelled" \in Ended
      BY <1>1, <1>2, <1>8 DEF Saw, Ended
    <2> HIDE DEF pending
    <2>2. \A i \in Undisturbed' : /\ Saw(s, i) <=> Saw(req[r], i)
                                  /\ ~Carries(s, i) /\ ~Reads(s, i)
                                  /\ Saw(s, i) => Closing(s)
      BY <1>5, <1>6 DEF Undisturbed
    <2> QED BY <1>1, <1>5, <2>1, <2>2, CallsEnd
  <1> QED BY <1>7, <1>8

LEMMA CallsComplete ==
    ASSUME IInv, TypeOK, CallsInv, NEW r \in Requests, CompleteTool(r)
    PROVE  CallsInv'
  <1> DEFINE x == [req[r].copy EXCEPT !.history = Append(@, Results({req[r].use}))]
             next == IF req[r].confirmed THEN "repair"
                     ELSE IF req[r].todo = <<>> THEN "model" ELSE "tools"
             s == [Saving(req[r], x, next) EXCEPT !.use = NoUse, !.confirmed = FALSE, !.outcome = "none"]
  <1>1. /\ req[r] \in Request /\ Shape(req[r]) /\ req[r].pc = "complete" /\ Running(req[r])
        /\ Become(r, s) /\ UNCHANGED <<row, contested, disturbed>>
        /\ complete(req[r].use, req[r].outcome) /\ IsSession(req[r].copy)
        /\ HasOutcome(req[r])
    BY DEF TypeOK, IInv, Typing, Typed, CallsInv, CompleteTool, Running
  <1>2. req[r].outcome \in Ended
    BY <1>1 DEF Request, HasOutcome, Ended
  <1>3. x.pending = NoPending /\ next # "compose"
    BY <1>1, SessionFacts DEF Shape
  <1> HIDE DEF x, next
  <1>4. s.saw = req[r].saw /\ s.pc = "save" /\ s.copy = x /\ s.next = next
    BY <1>1 DEF Request, Saving
  <1> HIDE DEF s
  <1>5. HasOutcome(s) /\ Closing(s) /\ \A i \in Ids : ~Carries(s, i) /\ ~Reads(s, i)
    BY <1>3, <1>4, UseFacts DEF HasOutcome, Closing, Carries, Reads, Running, NoPending, NoUse
  <1>6. \A i \in Undisturbed' : /\ Saw(s, i) <=> Saw(req[r], i)
                                /\ ~Carries(s, i) /\ ~Reads(s, i)
                                /\ Saw(s, i) => Closing(s)
    BY <1>4, <1>5 DEF Saw, Undisturbed
  <1>7. Saw(req[r], req[r].use.id) \/ Reads(req[r], req[r].use.id)
    BY <1>1, RunnerKnows
  <1> QED BY <1>1, <1>2, <1>5, <1>6, <1>7, CallsEnd

LEMMA CallsEnds ==
    ASSUME IInv, TypeOK, CallsInv, NEW r \in Requests,
           ModelFails(r) \/ ToolThrows(r) \/ Crash(r) \/ DeleteSession(r)
    PROVE  CallsInv'
  <1>1. CASE ModelFails(r) \/ Crash(r)
    BY <1>1, CallsAbandon DEF ModelFails, Crash
  <1>2. CASE ToolThrows(r)
    <2>1. /\ Running(req[r]) /\ Abandon(r) /\ UNCHANGED <<row, contested>>
          /\ complete(req[r].use, "failed") \/ UNCHANGED logs
      BY <1>2 DEF ToolThrows, Running
    <2>2. CASE UNCHANGED logs
      BY <2>1, <2>2, CallsAbandon
    <2>3. CASE complete(req[r].use, "failed")
      <3>1. Become(r, Idle) /\ HasOutcome(Idle) /\ disturbed \subseteq disturbed' /\ "failed" \in Ended
        BY <2>1, IdleFacts DEF Abandon, HasOutcome, Ended
      <3>2. \A i \in Undisturbed' : /\ Saw(Idle, i) <=> Saw(req[r], i)
                                    /\ ~Carries(Idle, i) /\ ~Reads(Idle, i)
                                    /\ Saw(Idle, i) => Closing(Idle)
        BY <2>1, AbandonForgets
      <3>3. Saw(req[r], req[r].use.id) \/ Reads(req[r], req[r].use.id)
        BY <2>1, RunnerKnows
      <3> QED BY <2>1, <2>3, <3>1, <3>2, <3>3, CallsEnd
    <2> QED BY <2>1, <2>2, <2>3
  <1>3. CASE DeleteSession(r)
    <2>1. UNCHANGED <<req, logs, contested>> /\ disturbed \subseteq disturbed' /\ row'.pending.use.id = 0
      BY <1>3, NoSessionFacts DEF DeleteSession, NoPending, NoUse
    <2>2. ASSUME NEW i \in Undisturbed'
          PROVE  CallOK(i)'
      <3>1. CallOK(i) /\ i # 0
        BY <2>1, UseFacts DEF Undisturbed, CallsInv
      <3> QED BY <2>1, <3>1 DEF CallOK, Saw, Carries, Closing, Reads, Running
    <2> QED BY <2>1, <2>2 DEF CallsInv, HasOutcome
  <1> QED BY <1>1, <1>2, <1>3

LEMMA CallsNext ==
    ASSUME IInv, TypeOK, CallsInv, [Next]_vars
    PROVE  CallsInv'
  <1>1. ASSUME NEW r \in Requests, Step(r)
        PROVE  CallsInv'
    <2>1. CASE SaveSelect(r) \/ Repair(r) \/ AskModel(r) \/ Reply(r)
      BY <2>1, CallsMemory
    <2>2. CASE SaveWrite(r) \/ Compose(r) \/ CompleteTool(r)
      BY <2>2, CallsWrite, CallsCompose, CallsComplete
    <2>3. CASE Chat(r) \/ Approve(r) \/ Reject(r)
                 \/ \E status \in {"completed", "failed"} : SubmitClientToolResult(r, status)
      BY <2>3, CallsBegin
    <2>4. CASE ProposeTool(r) \/ StartTool(r)
      BY <2>4, CallsProposed
    <2>5. CASE RunTool(r) \/ BeginTool(r) \/ Send(r) \/ Mined(r) \/ ChainFails(r)
      BY <2>5, CallsRun
    <2>6. CASE ModelFails(r) \/ ToolThrows(r) \/ Crash(r) \/ DeleteSession(r)
      BY <2>6, CallsEnds
    <2> QED BY <1>1, <2>1, <2>2, <2>3, <2>4, <2>5, <2>6 DEF Step
  <1>2. CASE UNCHANGED vars
    BY <1>2 DEF vars, CallsInv, Undisturbed, CallOK, HasOutcome, Held
  <1> QED BY <1>1, <1>2 DEF Next

LEMMA CallsInit == Init => CallsInv
  <1> SUFFICES ASSUME Init PROVE CallsInv
    OBVIOUS
  <1>1. \A r \in Requests : req[r] = Idle
    BY DEF Init
  <1>2. \A i \in Ids : i # 0 /\ logs[i] = "none" /\ row.pending.use.id # i
    BY UseFacts, NoSessionFacts DEF Init, NoPending, NoUse
  <1>3. \A i \in Ids, r \in Requests : ~Saw(req[r], i) /\ ~Carries(req[r], i) /\ ~Reads(req[r], i)
    BY <1>1, <1>2, IdleFacts DEF Saw, Carries, Reads, Running, NoUse
  <1> QED BY <1>1, <1>2, <1>3, IdleFacts DEF CallsInv, CallOK, Undisturbed, HasOutcome, Ended

-----------------------------------------------------------------------------
(* Every step keeps the promise of ToolCalls.                              *)

Awaited == {"started", "pending_confirmation"}

StatusOf == [i \in Ids |-> CallStatus(i)]
RanOf == [i \in Ids |-> IF i \in Undisturbed THEN runs[i] ELSE 0]

LEMMA Waives ==
    ASSUME contested \subseteq contested', disturbed \subseteq disturbed',
           \A i \in Undisturbed' : logs'[i] = logs[i] /\ runs'[i] = runs[i]
    PROVE  Promise!Next
  <1> DEFINE C == Ids \ Undisturbed'
  <1>1. Undisturbed' \subseteq Undisturbed /\ C \in SUBSET Ids
    BY DEF Undisturbed
  <1>2. StatusOf' = [c \in Ids |-> IF c \in C THEN "waived" ELSE StatusOf[c]]
    <2>1. ASSUME NEW c \in Ids
          PROVE  CallStatus(c)' = IF c \in C THEN "waived" ELSE CallStatus(c)
      <3>1. CASE c \in C
        BY <3>1 DEF CallStatus
      <3>2. CASE c \notin C
        BY <1>1, <3>2 DEF CallStatus
      <3> QED BY <3>1, <3>2
    <2> QED BY <2>1 DEF StatusOf
  <1>3. RanOf' = [c \in Ids |-> IF c \in C THEN 0 ELSE RanOf[c]]
    BY <1>1 DEF RanOf
  <1>4. \E D \in SUBSET Ids :
           /\ StatusOf' = [c \in Ids |-> IF c \in D THEN "waived" ELSE StatusOf[c]]
           /\ RanOf' = [c \in Ids |-> IF c \in D THEN 0 ELSE RanOf[c]]
    BY <1>1, <1>2, <1>3
  <1> QED BY <1>4 DEF Promise!Next, Promise!Waive, StatusOf, RanOf

\* One undisturbed call moves on.
Moves(i) ==
    \/ logs[i] = "none" /\ logs'[i] \in Awaited /\ runs'[i] = runs[i]
    \/ logs[i] \in Awaited /\ logs'[i] = logs[i] /\ runs[i] = 0 /\ runs'[i] = 1
    \/ logs[i] \in Awaited /\ logs'[i] \in {"completed", "failed"} /\ runs'[i] = runs[i]
    \/ logs[i] \in Awaited /\ logs'[i] = "cancelled" /\ runs[i] = 0 /\ runs'[i] = 0

LEMMA MovesOne ==
    ASSUME NEW i \in Undisturbed, UNCHANGED <<contested, disturbed>>, Moves(i),
           \A j \in Undisturbed \ {i} : logs'[j] = logs[j] /\ runs'[j] = runs[j]
    PROVE  Promise!Next
  <1>1. Undisturbed' = Undisturbed /\ i \in Ids
    BY DEF Undisturbed
  <1>2. /\ StatusOf' = [StatusOf EXCEPT ![i] = CallStatus(i)']
        /\ RanOf' = [RanOf EXCEPT ![i] = runs'[i]]
    <2>1. \A c \in Ids \ {i} : CallStatus(c)' = CallStatus(c)
      BY <1>1 DEF CallStatus
    <2>3. StatusOf' = [StatusOf EXCEPT ![i] = CallStatus(i)']
      BY <1>1, <2>1 DEF StatusOf
    <2>4. RanOf' = [RanOf EXCEPT ![i] = runs'[i]]
      BY <1>1 DEF RanOf
    <2> QED BY <2>3, <2>4
  <1>3. StatusOf[i] = CallStatus(i) /\ RanOf[i] = runs[i]
    BY <1>1 DEF StatusOf, RanOf
  <1>4. CASE logs[i] = "none" /\ logs'[i] \in Awaited /\ runs'[i] = runs[i]
    <2>1. CallStatus(i) = "none" /\ CallStatus(i)' = "open"
      BY <1>1, <1>4 DEF CallStatus, Awaited
    <2>2. RanOf' = RanOf
      BY <1>2, <1>3, <1>4 DEF RanOf
    <2>3. Promise!Open(i)
      BY <1>2, <1>3, <2>1, <2>2 DEF Promise!Open, StatusOf, RanOf
    <2> QED BY <1>1, <2>3 DEF Promise!Next
  <1>5. CASE logs[i] \in Awaited /\ logs'[i] = logs[i] /\ runs[i] = 0 /\ runs'[i] = 1
    <2>1. CallStatus(i) = "open" /\ CallStatus(i)' = "open"
      BY <1>1, <1>5 DEF CallStatus, Awaited
    <2>2. StatusOf' = StatusOf
      BY <1>2, <1>3, <2>1 DEF StatusOf
    <2>3. Promise!Run(i)
      BY <1>2, <1>3, <1>5, <2>1, <2>2 DEF Promise!Run, StatusOf, RanOf
    <2> QED BY <1>1, <2>3 DEF Promise!Next
  <1>6. CASE logs[i] \in Awaited /\ logs'[i] \in {"completed", "failed"} /\ runs'[i] = runs[i]
    <2>1. CallStatus(i) = "open" /\ CallStatus(i)' \in {"completed", "failed"}
      BY <1>1, <1>6 DEF CallStatus, Awaited
    <2>2. RanOf' = RanOf
      BY <1>2, <1>3, <1>6 DEF RanOf
    <2>3. Promise!End(i)
      BY <1>2, <1>3, <2>1, <2>2 DEF Promise!End, StatusOf, RanOf
    <2> QED BY <1>1, <2>3 DEF Promise!Next
  <1>7. CASE logs[i] \in Awaited /\ logs'[i] = "cancelled" /\ runs[i] = 0 /\ runs'[i] = 0
    <2>1. CallStatus(i) = "open" /\ CallStatus(i)' = "cancelled"
      BY <1>1, <1>7 DEF CallStatus, Awaited
    <2>2. RanOf' = RanOf
      BY <1>2, <1>3, <1>7 DEF RanOf
    <2>3. Promise!Cancel(i)
      BY <1>2, <1>3, <1>7, <2>1, <2>2 DEF Promise!Cancel, StatusOf, RanOf
    <2> QED BY <1>1, <2>3 DEF Promise!Next
  <1> QED BY <1>4, <1>5, <1>6, <1>7 DEF Moves

\* The log gets an end for call u, which still has none, or which is waived.
LEMMA EndsOne ==
    ASSUME TypeOK, NEW u, NEW status \in Ended, complete(u, status), UNCHANGED runs,
           contested \subseteq contested', disturbed \subseteq disturbed',
           u.id \in Undisturbed' =>
              /\ UNCHANGED <<contested, disturbed>>
              /\ logs[u.id] \notin Ended \cup {"none"}
              /\ status = "cancelled" => runs[u.id] = 0
    PROVE  Promise!Next
  <1>1. logs \in [Ids -> Statuses] /\ Undisturbed' \subseteq Ids
    BY DEF TypeOK, Undisturbed
  <1>2. \A j \in Ids \ {u.id} : logs'[j] = logs[j]
    BY <1>1 DEF complete
  <1>3. CASE u.id \notin Undisturbed'
    BY <1>1, <1>2, <1>3, Waives
  <1>4. CASE u.id \in Undisturbed'
    <2>1. u.id \in Undisturbed /\ u.id \in Ids
      BY <1>4 DEF Undisturbed
    <2>2. logs[u.id] \in Awaited /\ logs'[u.id] = status
      BY <1>1, <1>4, <2>1 DEF complete, Statuses, Ended, Awaited
    <2>3. Moves(u.id)
      BY <1>4, <2>2 DEF Moves, Ended
    <2> QED BY <1>2, <1>4, <2>1, <2>3, MovesOne DEF Undisturbed
  <1> QED BY <1>3, <1>4

LEMMA PromiseStep ==
    ASSUME IInv, TypeOK, CallsInv, NEW r \in Requests, Step(r)
    PROVE  Promise!Next
  <1>1. CASE \/ SaveSelect(r) \/ SaveWrite(r) \/ Chat(r) \/ Repair(r) \/ AskModel(r) \/ ModelFails(r)
             \/ Reply(r) \/ Approve(r) \/ RunTool(r) \/ Send(r) \/ Mined(r) \/ ChainFails(r)
             \/ DeleteSession(r) \/ Crash(r)
    BY <1>1, Waives
       DEF SaveSelect, SaveWrite, Chat, Repair, AskModel, ModelFails, Reply, Approve, RunTool,
           Send, Mined, ChainFails, DeleteSession, Crash, Abandon, Load
  <1>2. CASE Compose(r)
    <2> DEFINE pending == req[r].copy.pending
    <2>1. /\ Shape(req[r]) /\ req[r].pc = "compose" /\ UNCHANGED <<runs, contested, disturbed>>
          /\ IF pending = NoPending THEN UNCHANGED logs ELSE complete(pending.use, "cancelled")
      BY <1>2 DEF IInv, Compose
    <2>2. pending.use = req[r].saw /\ ~Closing(req[r]) /\ ~Begun(req[r])
      BY <2>1 DEF Shape, Closing, Begun
    <2> HIDE DEF pending
    <2>3. CASE pending = NoPending
      BY <2>1, <2>3, Waives
    <2>4. CASE pending # NoPending
      <3>1. pending.use.id \in Undisturbed =>
               logs[pending.use.id] \notin Ended \cup {"none"} /\ runs[pending.use.id] = 0
        <4>1. Saw(req[r], pending.use.id)
          BY <2>2 DEF Saw
        <4> QED BY <2>2, <4>1 DEF IInv, UseOK, CallsInv, CallOK
      <3>2. Undisturbed' = Undisturbed /\ "cancelled" \in Ended
        BY <2>1 DEF Undisturbed, Ended
      <3> QED BY <2>1, <2>4, <3>1, <3>2, EndsOne
    <2> QED BY <2>3, <2>4
  <1>3. CASE ProposeTool(r) \/ StartTool(r)
    <2> DEFINE u == Head(req[r].todo)
    <2>1. /\ req[r].pc = "tools" /\ UNCHANGED <<runs, contested, disturbed>>
          /\ \E status \in Awaited : createPending(u, status)
          /\ logs \in [Ids -> Statuses]
      BY <1>3 DEF ProposeTool, StartTool, Awaited, TypeOK
    <2>2. u.id \in Ids /\ New(u.id)
      <3>1. req[r].todo # <<>>
        BY <2>1 DEF IInv, Shape
      <3> QED BY <3>1, TodoFacts DEF IInv, FreshInv
    <2> HIDE DEF u
    <2>3. logs[u.id] = "none" /\ logs'[u.id] \in Awaited /\ \A j \in Ids \ {u.id} : logs'[j] = logs[j]
      BY <2>1, <2>2 DEF New, createPending
    <2>4. CASE u.id \in Undisturbed
      <3>1. Moves(u.id)
        BY <2>1, <2>3 DEF Moves
      <3> QED BY <2>1, <2>3, <2>4, <3>1, MovesOne DEF Undisturbed
    <2>5. CASE u.id \notin Undisturbed
      BY <2>1, <2>3, <2>5, Waives DEF Undisturbed
    <2> QED BY <2>4, <2>5
  <1>4. CASE Reject(r) \/ \E status \in {"completed", "failed"} : SubmitClientToolResult(r, status)
    <2>1. /\ req[r].pc = "idle" /\ Load(r) /\ UNCHANGED <<runs, disturbed>>
          /\ \E status \in Ended : complete(row.pending.use, status)
      BY <1>4 DEF Reject, SubmitClientToolResult, Ended
    <2>2. row.pending.use.id \in Undisturbed' =>
             logs[row.pending.use.id] \notin Ended \cup {"none"} /\ runs[row.pending.use.id] = 0
      BY <2>1, LoadAlone
    <2>3. contested \subseteq contested'
      BY <2>1 DEF Load
    <2>4. row.pending.use.id \in Undisturbed' => UNCHANGED contested
      BY <2>1 DEF Load, Found, Undisturbed
    <2> QED BY <2>1, <2>2, <2>3, <2>4, EndsOne
  <1>5. CASE BeginTool(r)
    <2> DEFINE i == req[r].use.id
    <2>1. /\ Running(req[r]) /\ req[r].pc = "run" /\ req[r].left = 0 /\ Destructive(req[r].use)
          /\ UNCHANGED <<logs, contested, disturbed>>
          /\ runs' = [runs EXCEPT ![i] = @ + 1]
          /\ logs \in [Ids -> Statuses] /\ runs \in [Ids -> Nat]
      BY <1>5 DEF BeginTool, Running, TypeOK
    <2>2. i \in Ids /\ Saw(req[r], i) /\ ~Closing(req[r]) /\ ~Begun(req[r])
      BY <2>1, RunnerKnows DEF Begun
    <2> HIDE DEF i
    <2>3. \A j \in Ids \ {i} : runs'[j] = runs[j]
      BY <2>1
    <2>4. CASE i \notin Undisturbed
      BY <2>1, <2>3, <2>4, Waives DEF Undisturbed
    <2>5. CASE i \in Undisturbed
      <3>1. logs[i] \notin Ended \cup {"none"} /\ runs[i] = 0
        BY <2>2, <2>5 DEF IInv, UseOK, CallsInv, CallOK
      <3>2. logs[i] \in Awaited /\ runs'[i] = 1
        BY <2>1, <2>2, <3>1 DEF Statuses, Ended, Awaited
      <3>3. Moves(i)
        BY <2>1, <3>1, <3>2 DEF Moves
      <3> QED BY <2>1, <2>3, <2>5, <3>3, MovesOne DEF Undisturbed
    <2> QED BY <2>4, <2>5
  <1>6. ASSUME Running(req[r])
        PROVE  req[r].use.id \in Undisturbed => logs[req[r].use.id] \notin Ended \cup {"none"}
    <2>1. /\ Saw(req[r], req[r].use.id) \/ Reads(req[r], req[r].use.id)
          /\ ~Closing(req[r])
      BY <1>6, RunnerKnows
    <2> QED BY <2>1 DEF CallsInv, CallOK, Ended
  <1>7. CASE CompleteTool(r)
    <2>1. /\ Running(req[r]) /\ req[r].pc = "complete" /\ UNCHANGED <<runs, contested, disturbed>>
          /\ complete(req[r].use, req[r].outcome) /\ req[r].outcome \in {"completed", "failed"}
      BY <1>7 DEF CompleteTool, Running, TypeOK, Request, CallsInv, HasOutcome
    <2>2. Undisturbed' = Undisturbed /\ req[r].outcome \in Ended /\ req[r].outcome # "cancelled"
      BY <2>1 DEF Undisturbed, Ended
    <2> QED BY <1>6, <2>1, <2>2, EndsOne
  <1>8. CASE ToolThrows(r)
    <2>1. /\ Running(req[r]) /\ Abandon(r) /\ UNCHANGED <<runs, contested>>
          /\ complete(req[r].use, "failed") \/ UNCHANGED logs
          /\ disturbed \subseteq disturbed'
      BY <1>8 DEF ToolThrows, Running, Abandon
    <2>2. CASE UNCHANGED logs
      BY <2>1, <2>2, Waives
    <2>3. CASE complete(req[r].use, "failed")
      <3>1. req[r].use.id \in Undisturbed' => UNCHANGED disturbed
        <4>1. SUFFICES ASSUME req[r].use.id \in Undisturbed' PROVE UNCHANGED disturbed
          OBVIOUS
        <4>2. ~Saw(req[r], req[r].use.id)
          BY <2>1, <4>1, AbandonForgets
        <4>3. req[r].saw = NoUse
          BY <2>1, <4>2 DEF IInv, Shape, Running, Saw
        <4>4. Unsaved(req[r]) = {}
          BY <2>1, <4>3 DEF Unsaved, Found, Running, NoUse
        <4> QED BY <2>1, <4>4 DEF Abandon
      <3>2. Undisturbed' \subseteq Undisturbed /\ "failed" \in Ended
        BY <2>1 DEF Undisturbed, Ended
      <3> QED BY <1>6, <2>1, <2>3, <3>1, <3>2, EndsOne
    <2> QED BY <2>1, <2>2, <2>3
  <1> QED BY <1>1, <1>2, <1>3, <1>4, <1>5, <1>7, <1>8 DEF Step

LEMMA PromiseInit == Init => Promise!Init
  <1> SUFFICES ASSUME Init PROVE Promise!Init
    OBVIOUS
  <1>1. \A i \in Ids : CallStatus(i) = "none" /\ i \in Undisturbed /\ runs[i] = 0
    BY DEF Init, CallStatus, Undisturbed
  <1> QED BY <1>1 DEF Promise!Init

(* The promise of ToolCalls is kept: a call that no two requests met over, *)
(* and whose request was not lost half-way, is logged before anybody can   *)
(* run or reject it, runs at most once while it is open, and ends once.    *)
THEOREM AgentImplementsToolCalls == Spec => RefinesToolCalls
  <1>1. ASSUME IInv, TypeOK, CallsInv, [Next]_vars
        PROVE  [Promise!Next]_<<StatusOf, RanOf>>
    <2>1. CASE Next
      BY <1>1, <2>1, PromiseStep DEF Next
    <2>2. CASE UNCHANGED vars
      <3>1. UNCHANGED <<logs, runs, contested, disturbed>>
        BY <2>2 DEF vars
      <3>2. Undisturbed' = Undisturbed
        BY <3>1 DEF Undisturbed
      <3>3. StatusOf' = StatusOf
        BY <3>1, <3>2 DEF StatusOf, CallStatus
      <3>4. RanOf' = RanOf
        BY <3>1, <3>2 DEF RanOf
      <3> QED BY <3>3, <3>4
    <2> QED BY <1>1, <2>1, <2>2
  <1>2. IInv /\ TypeOK /\ CallsInv /\ [Next]_vars
        => [Promise!Next]_<<[i \in Ids |-> CallStatus(i)],
                            [i \in Ids |-> IF i \in Undisturbed THEN runs[i] ELSE 0]>>
    BY <1>1 DEF StatusOf, RanOf
  <1>3. CallsInv /\ (IInv /\ TypeOK) /\ [Next]_vars => CallsInv'
    BY CallsNext
  <1> QED BY <1>2, <1>3, CallsInit, PromiseInit, AgentInvariant, AgentTypes, PTL
          DEF Spec, RefinesToolCalls, Promise!Spec

-----------------------------------------------------------------------------
(* What a confirmed call pays.                                             *)

\* How often one round is paid for at most.
Tries(u) == IF Game(u) THEN MAX_PLAY_SEND_RETRIES ELSE 1

\* A request with rounds left runs a destructive call, within its bounds.
PayerOK(s) ==
    /\ s.pc \notin {"run", "sent"} => s.left = 0
    /\ s.left > 0 => /\ Destructive(s.use) /\ s.left <= Rounds(s.use)
                     /\ s.attempt \in 1 .. Tries(s.use)
                     /\ runs[s.use.id] # 0

\* The rounds behind it cost their retries at most; this one, its attempts.
PaidOK(s) ==
    s.left > 0 /\ s.use.id \in Undisturbed =>
        sends[s.use.id] <= (Rounds(s.use) - s.left) * Tries(s.use)
                               + (IF s.pc = "run" THEN s.attempt - 1 ELSE s.attempt)

PayInv ==
    /\ \A i \in Undisturbed : runs[i] = 0 => sends[i] = 0
    /\ \A r \in Requests : PayerOK(req[r]) /\ PaidOK(req[r])

LEMMA RoundFacts ==
    ASSUME NEW u \in Use
    PROVE  Rounds(u) \in 1 .. 20 /\ Tries(u) \in Nat \ {0}
  BY DEF Rounds, Tries

LEMMA OneMoreRound ==
    ASSUME NEW n \in Int, NEW m \in Int
    PROVE  (n + 1) * m = n * m + m
  OBVIOUS

LEMMA FewerRounds ==
    ASSUME NEW n \in Int, NEW k \in Int, NEW m \in Nat, n <= k
    PROVE  n * m <= k * m
  OBVIOUS

\* Who pays for a call holds it, and is the only one.
LEMMA OnePayer ==
    ASSUME IInv, TypeOK, PayInv, NEW r \in Requests, req[r].left > 0
    PROVE  /\ req[r].pc \in {"run", "sent"} /\ req[r].use \in Use /\ req[r].use.id \in Ids
           /\ Saw(req[r], req[r].use.id)
           /\ req[r].use.id \in Undisturbed =>
                 \A q \in Requests : req[q].left > 0 /\ req[q].use.id = req[r].use.id => q = r
  <1>1. ASSUME NEW q \in Requests, req[q].left > 0
        PROVE  /\ req[q].pc \in {"run", "sent"} /\ req[q].use \in Use /\ req[q].use.id \in Ids
               /\ Saw(req[q], req[q].use.id)
    <2>1. req[q].left # 0
      BY <1>1
    <2>2. req[q].pc \in {"run", "sent"} /\ Destructive(req[q].use)
      BY <1>1, <2>1 DEF PayInv, PayerOK
    <2> QED BY <2>2, RunnerKnows DEF Running
  <1> QED BY <1>1 DEF IInv, UseOK

\* A step after which r has nothing left to pay.
LEMMA PayNothing ==
    ASSUME IInv, TypeOK, PayInv, NEW r \in Requests, NEW s, Become(r, s), s.left = 0,
           UNCHANGED <<sends, runs>>, contested \subseteq contested', disturbed \subseteq disturbed'
    PROVE  PayInv'
  <1>1. req'[r] = s /\ \A q \in Requests \ {r} : req'[q] = req[q]
    BY BecomeFacts DEF IInv
  <1>2. Undisturbed' \subseteq Undisturbed
    BY DEF Undisturbed
  <1>3. ASSUME NEW q \in Requests
        PROVE  /\ req'[q].pc \notin {"run", "sent"} => req'[q].left = 0
               /\ req'[q].left > 0 =>
                     /\ Destructive(req'[q].use) /\ req'[q].left <= Rounds(req'[q].use)
                     /\ req'[q].attempt \in 1 .. Tries(req'[q].use)
                     /\ runs[req'[q].use.id] # 0
               /\ req'[q].left > 0 /\ req'[q].use.id \in Undisturbed' =>
                     sends[req'[q].use.id] <=
                        (Rounds(req'[q].use) - req'[q].left) * Tries(req'[q].use)
                            + (IF req'[q].pc = "run" THEN req'[q].attempt - 1 ELSE req'[q].attempt)
    <2>1. CASE q = r
      BY <1>1, <2>1
    <2>2. CASE q # r
      BY <1>1, <1>2, <2>2 DEF PayInv, PayerOK, PaidOK
    <2> QED BY <2>1, <2>2
  <1>4. \A i \in Undisturbed' : runs[i] = 0 => sends[i] = 0
    BY <1>2 DEF PayInv
  <1> QED BY <1>3, <1>4 DEF PayInv, PayerOK, PaidOK

\* A step in which r pays, or goes on to pay, for a call it runs.
LEMMA PayOn ==
    ASSUME IInv, TypeOK, PayInv, NEW r \in Requests, NEW s, Become(r, s),
           NEW i \in Ids, Saw(req[r], i), s.use.id = i, s.pc \in {"run", "sent"}, s.left > 0,
           UNCHANGED <<contested, disturbed>>,
           \A j \in Ids \ {i} : sends'[j] = sends[j] /\ runs'[j] = runs[j],
           runs'[i] # 0, Destructive(s.use), s.left <= Rounds(s.use), s.attempt \in 1 .. Tries(s.use),
           i \in Undisturbed =>
              sends'[i] <= (Rounds(s.use) - s.left) * Tries(s.use)
                               + (IF s.pc = "run" THEN s.attempt - 1 ELSE s.attempt)
    PROVE  PayInv'
  <1>1. req'[r] = s /\ \A q \in Requests \ {r} : req'[q] = req[q]
    BY BecomeFacts DEF IInv
  <1>2. Undisturbed' = Undisturbed /\ Undisturbed \subseteq Ids
    BY DEF Undisturbed
  <1>3. \A j \in Undisturbed : runs'[j] = 0 => sends'[j] = 0
    BY <1>2 DEF PayInv
  <1>4. ASSUME NEW q \in Requests \ {r}
        PROVE  PayerOK(req[q])' /\ PaidOK(req[q])'
    <2>1. req'[q] = req[q] /\ PayerOK(req[q]) /\ PaidOK(req[q])
      BY <1>1 DEF PayInv
    <2>2. CASE req[q].left > 0
      <3>1. req[q].use.id \in Ids /\ Saw(req[q], req[q].use.id)
        BY <2>2, OnePayer
      <3>2. CASE req[q].use.id = i
        <4>1. i \notin Undisturbed
          BY <3>1, <3>2 DEF IInv, UseOK
        <4> QED BY <1>2, <2>1, <2>2, <3>2, <4>1 DEF PayerOK, PaidOK
      <3>3. CASE req[q].use.id # i
        BY <1>2, <2>1, <3>1, <3>3 DEF PayerOK, PaidOK
      <3> QED BY <3>2, <3>3
    <2>3. CASE ~(req[q].left > 0)
      BY <2>1, <2>3 DEF PayerOK, PaidOK
    <2> QED BY <2>2, <2>3
  <1>5. PayerOK(req[r])' /\ PaidOK(req[r])'
    BY <1>1, <1>2 DEF PayerOK, PaidOK
  <1> QED BY <1>2, <1>3, <1>4, <1>5 DEF PayInv

LEMMA PayRun ==
    ASSUME IInv, TypeOK, PayInv, NEW r \in Requests,
           RunTool(r) \/ BeginTool(r) \/ Send(r) \/ Mined(r) \/ ChainFails(r)
    PROVE  PayInv'
  <1> DEFINE o == req[r]
             i == o.use.id
             R == Rounds(o.use)
             T == Tries(o.use)
  <1>1. /\ o \in Request /\ o.pc \in {"run", "sent"} /\ Running(o) /\ Shape(o)
        /\ UNCHANGED <<contested, disturbed>>
        /\ runs \in [Ids -> Nat] /\ sends \in [Ids -> Nat]
        /\ o.left \in 0 .. 20 /\ o.attempt \in 0 .. MAX_PLAY_SEND_RETRIES
        /\ PayerOK(o) /\ PaidOK(o)
    BY DEF TypeOK, IInv, PayInv, Request, RunTool, BeginTool, Send, Mined, ChainFails, Running
  <1>2. o.use \in Use /\ i \in Ids /\ ~Closing(o) /\ (Destructive(o.use) => Saw(o, i))
    BY <1>1, RunnerKnows
  <1>3. R \in 1 .. 20 /\ T \in Nat \ {0}
    BY <1>2, RoundFacts
  <1>4. o.left > 0 => /\ Destructive(o.use) /\ Saw(o, i) /\ o.left <= R /\ o.attempt \in 1 .. T
                      /\ runs[i] # 0
                      /\ i \in Undisturbed =>
                            sends[i] <= (R - o.left) * T
                                           + (IF o.pc = "run" THEN o.attempt - 1 ELSE o.attempt)
    BY <1>1, <1>2 DEF PayerOK, PaidOK
  <1>5. ASSUME NEW outcome, Become(r, Outcome(o, outcome)), UNCHANGED <<sends, runs>>
        PROVE  PayInv'
    <2>1. Outcome(o, outcome).left = 0
      BY <1>1 DEF Outcome, Request
    <2> QED BY <1>1, <1>5, <2>1, PayNothing
  <1>6. ASSUME NEW pc \in {"run", "sent"}, NEW left \in Nat \ {0}, NEW attempt \in Nat \ {0},
               Become(r, [o EXCEPT !.pc = pc, !.left = left, !.attempt = attempt]),
               Destructive(o.use), left <= R, attempt <= T, runs'[i] # 0,
               \A j \in Ids \ {i} : sends'[j] = sends[j] /\ runs'[j] = runs[j],
               i \in Undisturbed =>
                  sends'[i] <= (R - left) * T + (IF pc = "run" THEN attempt - 1 ELSE attempt)
        PROVE  PayInv'
    <2> DEFINE s == [o EXCEPT !.pc = pc, !.left = left, !.attempt = attempt]
    <2>1. s.pc = pc /\ s.left = left /\ s.attempt = attempt /\ s.use = o.use
      BY <1>1 DEF Request
    <2>2. Become(r, s)
      BY <1>6
    <2> HIDE DEF s
    <2>3. /\ Destructive(s.use) /\ s.left <= Rounds(s.use) /\ s.attempt \in 1 .. Tries(s.use)
          /\ s.use.id = i /\ s.pc \in {"run", "sent"} /\ s.left > 0
          /\ i \in Undisturbed =>
                sends'[i] <= (Rounds(s.use) - s.left) * Tries(s.use)
                                 + (IF s.pc = "run" THEN s.attempt - 1 ELSE s.attempt)
      BY <1>3, <1>6, <2>1
    <2>4. Saw(req[r], i)
      BY <1>2, <1>6
    <2> HIDE DEF o, i, R, T
    <2> QED BY <1>1, <1>2, <1>6, <2>2, <2>3, <2>4, PayOn
  <1>7. CASE RunTool(r)
    BY <1>5, <1>7 DEF RunTool
  <1>8. CASE BeginTool(r)
    <2>1. /\ o.pc = "run" /\ o.left = 0 /\ Destructive(o.use) /\ UNCHANGED sends
          /\ runs' = [runs EXCEPT ![i] = @ + 1]
          /\ Become(r, [o EXCEPT !.left = R, !.attempt = 1])
      BY <1>8 DEF BeginTool
    <2>2. [o EXCEPT !.left = R, !.attempt = 1] = [o EXCEPT !.pc = "run", !.left = R, !.attempt = 1]
      BY <1>1, <2>1 DEF Request
    <2>3. runs'[i] # 0 /\ \A j \in Ids \ {i} : runs'[j] = runs[j]
      BY <1>1, <1>2, <2>1
    <2>4. i \in Undisturbed => sends[i] = 0
      <3>1. SUFFICES ASSUME i \in Undisturbed PROVE runs[i] = 0
        BY DEF PayInv
      <3>2. ~Begun(o) /\ Saw(o, i)
        BY <1>2, <2>1 DEF Begun
      <3> QED BY <3>1, <3>2 DEF IInv, UseOK
    <2>5. i \in Undisturbed =>
             sends'[i] <= (R - R) * T + (IF "run" = "run" THEN 1 - 1 ELSE 1)
      <3>1. (R - R) * T = 0
        BY <1>3
      <3> QED BY <2>1, <2>4, <3>1
    <2>6. /\ "run" \in {"run", "sent"} /\ R \in Nat \ {0} /\ 1 \in Nat \ {0} /\ R <= R /\ 1 <= T
          /\ Become(r, [o EXCEPT !.pc = "run", !.left = R, !.attempt = 1])
          /\ \A j \in Ids \ {i} : sends'[j] = sends[j] /\ runs'[j] = runs[j]
      BY <1>3, <2>1, <2>2, <2>3
    <2> HIDE DEF o, i, R, T
    <2> QED BY <1>6, <2>1, <2>3, <2>5, <2>6
  <1>9. CASE Send(r)
    <2>1. /\ o.pc = "run" /\ o.left > 0 /\ UNCHANGED runs
          /\ sends' = [sends EXCEPT ![i] = @ + 1]
          /\ Become(r, [o EXCEPT !.pc = "sent"])
      BY <1>9 DEF Send
    <2>2. [o EXCEPT !.pc = "sent"] = [o EXCEPT !.pc = "sent", !.left = o.left, !.attempt = o.attempt]
      BY <1>1 DEF Request
    <2>3. sends'[i] = sends[i] + 1 /\ sends[i] \in Nat /\ \A j \in Ids \ {i} : sends'[j] = sends[j]
      BY <1>1, <1>2, <2>1
    <2>4. (R - o.left) * T \in Int
      BY <1>1, <1>3
    <2>5. i \in Undisturbed => sends'[i] <= (R - o.left) * T + o.attempt
      BY <1>1, <1>4, <2>1, <2>3, <2>4
    <2>6. o.left \in Nat \ {0} /\ o.attempt \in Nat \ {0} /\ o.attempt <= T
      BY <1>1, <1>3, <1>4, <2>1
    <2> HIDE DEF o, i, R, T
    <2> QED BY <1>4, <1>6, <2>1, <2>2, <2>3, <2>5, <2>6
  <1>10. CASE Mined(r)
    <2>1. /\ o.pc = "sent" /\ o.left > 0 /\ UNCHANGED <<sends, runs>>
          /\ Become(r, IF o.left = 1 THEN Outcome(o, "completed")
                       ELSE [o EXCEPT !.pc = "run", !.left = @ - 1, !.attempt = 1])
      BY <1>1, <1>10 DEF Mined, Shape
    <2>2. CASE o.left = 1
      BY <1>5, <2>1, <2>2
    <2>3. CASE o.left # 1
      <3>1. o.left - 1 \in Nat \ {0} /\ o.left - 1 <= R /\ 1 <= T
        BY <1>1, <1>3, <1>4, <2>1, <2>3
      <3>2. (R - (o.left - 1)) * T = (R - o.left) * T + T
        <4>1. R - (o.left - 1) = (R - o.left) + 1 /\ R - o.left \in Int
          BY <1>1, <1>3
        <4> QED BY <1>3, <4>1, OneMoreRound
      <3>3. (R - o.left) * T \in Int
        BY <1>1, <1>3
      <3>4. i \in Undisturbed =>
               sends'[i] <= (R - (o.left - 1)) * T + (IF "run" = "run" THEN 1 - 1 ELSE 1)
        BY <1>1, <1>2, <1>3, <1>4, <2>1, <3>2, <3>3
      <3>5. Become(r, [o EXCEPT !.pc = "run", !.left = o.left - 1, !.attempt = 1])
        BY <2>1, <2>3
      <3>6. /\ "run" \in {"run", "sent"} /\ 1 \in Nat \ {0} /\ Destructive(o.use) /\ runs'[i] # 0
            /\ \A j \in Ids \ {i} : sends'[j] = sends[j] /\ runs'[j] = runs[j]
        BY <1>4, <2>1
      <3> HIDE DEF o, i, R, T
      <3> QED BY <1>6, <3>1, <3>4, <3>5, <3>6
    <2> QED BY <2>2, <2>3
  <1>11. CASE ChainFails(r)
    <2>1. CASE Become(r, Outcome(o, "failed"))
      BY <1>5, <1>11, <2>1 DEF ChainFails
    <2>2. CASE MayRetry(o) /\ Become(r, [o EXCEPT !.pc = "run", !.attempt = @ + 1])
      <3>1. o.left > 0 /\ UNCHANGED <<sends, runs>>
        BY <1>1, <1>11 DEF ChainFails, Shape
      <3>2. [o EXCEPT !.pc = "run", !.attempt = @ + 1]
            = [o EXCEPT !.pc = "run", !.left = o.left, !.attempt = o.attempt + 1]
        BY <1>1 DEF Request
      <3>3. o.attempt + 1 <= T /\ o.attempt + 1 \in Nat \ {0} /\ o.left \in Nat \ {0}
        BY <1>1, <2>2, <3>1 DEF MayRetry, Tries
      <3>4. (R - o.left) * T \in Int
        BY <1>1, <1>3
      <3>5. i \in Undisturbed =>
               sends'[i] <= (R - o.left) * T
                                + (IF "run" = "run" THEN (o.attempt + 1) - 1 ELSE o.attempt + 1)
        BY <1>1, <1>2, <1>4, <3>1, <3>4
      <3>6. /\ "run" \in {"run", "sent"} /\ Destructive(o.use) /\ runs'[i] # 0 /\ o.left <= R
            /\ \A j \in Ids \ {i} : sends'[j] = sends[j] /\ runs'[j] = runs[j]
            /\ Become(r, [o EXCEPT !.pc = "run", !.left = o.left, !.attempt = o.attempt + 1])
        BY <1>4, <2>2, <3>1, <3>2
      <3> HIDE DEF o, i, R, T
      <3> QED BY <1>6, <3>3, <3>5, <3>6
    <2> QED BY <1>11, <2>1, <2>2 DEF ChainFails
  <1> QED BY <1>7, <1>8, <1>9, <1>10, <1>11

LEMMA PayElse ==
    ASSUME IInv, TypeOK, PayInv, NEW r \in Requests, Step(r),
           ~(RunTool(r) \/ BeginTool(r) \/ Send(r) \/ Mined(r) \/ ChainFails(r))
    PROVE  PayInv'
  <1> DEFINE o == req[r]
  <1>1. o \in Request /\ (o.pc \notin {"run", "sent"} => o.left = 0)
    BY DEF TypeOK, PayInv, PayerOK
  <1>2. \A x, next : Saving(o, x, next).left = o.left
    BY <1>1 DEF Saving, Request
  <1>3. Idle.left = 0
    BY IdleFacts
  <1>4. CASE DeleteSession(r)
    <2>1. UNCHANGED <<req, sends, runs>> /\ Undisturbed' \subseteq Undisturbed
      BY <1>4 DEF DeleteSession, Undisturbed
    <2> QED BY <2>1 DEF PayInv, PayerOK, PaidOK
  <1>5. CASE ModelFails(r) \/ ToolThrows(r) \/ Crash(r) \/ Reply(r)
    BY <1>3, <1>5, PayNothing DEF ModelFails, ToolThrows, Crash, Reply, Abandon
  <1>6. CASE SaveSelect(r)
    <2>1. [o EXCEPT !.pc = "write", !.base = row].left = 0
      BY <1>1, <1>6 DEF SaveSelect, Request
    <2> QED BY <1>6, <2>1, PayNothing DEF SaveSelect
  <1>7. CASE SaveWrite(r)
    <2>1. UNCHANGED <<sends, runs, contested>> /\ o.left = 0
      BY <1>1, <1>7 DEF SaveWrite
    <2>2. CASE Abandon(r)
      BY <1>3, <2>1, <2>2, PayNothing DEF Abandon
    <2>3. CASE ~Abandon(r)
      <3>1. UNCHANGED disturbed
            /\ Become(r, [o EXCEPT !.pc = o.next, !.next = "idle", !.base = NoSession,
                                   !.saw = IF o.copy.pending.use = o.saw THEN @ ELSE NoUse])
        BY <1>7, <2>3 DEF SaveWrite
      <3>2. [o EXCEPT !.pc = o.next, !.next = "idle", !.base = NoSession,
                      !.saw = IF o.copy.pending.use = o.saw THEN @ ELSE NoUse].left = 0
        BY <1>1, <2>1 DEF Request
      <3> QED BY <2>1, <3>1, <3>2, PayNothing
    <2> QED BY <2>2, <2>3
  <1>8. CASE Chat(r) \/ Approve(r) \/ Reject(r)
               \/ \E status \in {"completed", "failed"} : SubmitClientToolResult(r, status)
    <2>1. \A x, y, u, next : /\ Saving(Idle, x, next).left = 0
                             /\ Saving([Idle EXCEPT !.saw = u], x, next).left = 0
                             /\ Saving([Idle EXCEPT !.copy = y, !.saw = u], x, next).left = 0
                             /\ [[Idle EXCEPT !.copy = y, !.saw = u] EXCEPT !.pc = "compose"].left = 0
                             /\ [Idle EXCEPT !.pc = "run", !.copy = y, !.use = u,
                                             !.confirmed = TRUE, !.saw = u].left = 0
      BY DEF Saving, Idle
    <2>2. UNCHANGED <<sends, runs, disturbed>> /\ contested \subseteq contested'
      BY <1>8 DEF Chat, Approve, Reject, SubmitClientToolResult, Load
    <2>3. CASE Chat(r)
      <3>1. CASE row = NoSession
        BY <2>1, <2>2, <2>3, <3>1, PayNothing DEF Chat
      <3>2. CASE row # NoSession
        <4> DEFINE loaded == [Idle EXCEPT !.copy = row, !.saw = row.pending.use]
                   in == [loaded EXCEPT !.pc = "compose"]
                   out == Saving(loaded, row, "compose")
        <4>1. Become(r, in) \/ Become(r, out)
          BY <2>3, <3>2 DEF Chat
        <4>2. in.left = 0 /\ out.left = 0
          BY DEF Saving, Idle
        <4> HIDE DEF in, out
        <4> QED BY <2>2, <4>1, <4>2, PayNothing
      <3> QED BY <3>1, <3>2
    <2>4. CASE Approve(r)
      BY <2>1, <2>2, <2>4, PayNothing DEF Approve
    <2>5. CASE Reject(r) \/ \E status \in {"completed", "failed"} : SubmitClientToolResult(r, status)
      <3>1. PICK x, u, next : Become(r, Saving([Idle EXCEPT !.saw = u], x, next))
        BY <2>5 DEF Reject, SubmitClientToolResult
      <3> QED BY <2>1, <2>2, <3>1, PayNothing
    <2> QED BY <1>8, <2>3, <2>4, <2>5
  <1>9. CASE Compose(r) \/ Repair(r)
    <2>1. UNCHANGED <<sends, runs, contested, disturbed>> /\ o.left = 0
      BY <1>1, <1>9 DEF Compose, Repair
    <2>2. [o EXCEPT !.pc = "model"].left = 0
      BY <1>1, <2>1 DEF Request
    <2>3. \E s : Become(r, s) /\ s.left = 0
      BY <1>2, <1>9, <2>1, <2>2 DEF Compose, Repair
    <2> QED BY <2>1, <2>3, PayNothing
  <1>10. CASE AskModel(r) \/ ProposeTool(r)
    <2>1. UNCHANGED <<sends, runs, contested, disturbed>> /\ o.left = 0
      BY <1>1, <1>10 DEF AskModel, ProposeTool
    <2>2. \A x, next, todo : [Saving(o, x, next) EXCEPT !.todo = todo].left = 0
      BY <1>1, <2>1 DEF Request, Saving
    <2>3. PICK x, next, todo : Become(r, [Saving(o, x, next) EXCEPT !.todo = todo])
      BY <1>10 DEF AskModel, ProposeTool
    <2> QED BY <2>1, <2>2, <2>3, PayNothing
  <1>11. CASE StartTool(r)
    <2>1. UNCHANGED <<sends, runs, contested, disturbed>> /\ o.left = 0
      BY <1>1, <1>11 DEF StartTool
    <2>2. \A u : [o EXCEPT !.pc = "run", !.use = u, !.todo = Tail(@)].left = 0
      BY <1>1, <2>1 DEF Request
    <2> QED BY <1>11, <2>1, <2>2, PayNothing DEF StartTool
  <1>12. CASE CompleteTool(r)
    <2>1. UNCHANGED <<sends, runs, contested, disturbed>> /\ o.left = 0
      BY <1>1, <1>12 DEF CompleteTool
    <2>2. \A x, next : [Saving(o, x, next) EXCEPT !.use = NoUse, !.confirmed = FALSE,
                                                  !.outcome = "none"].left = 0
      BY <1>1, <2>1 DEF Request, Saving
    <2> QED BY <1>12, <2>1, <2>2, PayNothing DEF CompleteTool
  <1> QED BY <1>4, <1>5, <1>6, <1>7, <1>8, <1>9, <1>10, <1>11, <1>12 DEF Step

LEMMA PayNext ==
    ASSUME IInv, TypeOK, PayInv, [Next]_vars
    PROVE  PayInv'
  <1>1. CASE UNCHANGED vars
    BY <1>1 DEF vars, PayInv, PayerOK, PaidOK, Undisturbed
  <1> QED BY <1>1, PayRun, PayElse DEF Next

LEMMA PayInit == Init => PayInv
  BY IdleFacts DEF Init, PayInv, PayerOK, PaidOK, Undisturbed

(* What a confirmed call that nothing disturbed pays is bounded, errors of *)
(* the chain notwithstanding: a game, its rounds times the retries of a    *)
(* round; a swap or a transfer, one payment.                               *)
THEOREM AgentPaymentsBounded == Spec => []PaymentsBounded
  <1>1. ASSUME IInv, TypeOK, PayInv, NEW r \in Requests, req[r].pc = "sent",
               req[r].use.id \in Undisturbed
        PROVE  LET u == req[r].use IN
               sends[u.id] <= IF Game(u) THEN Rounds(u) * MAX_PLAY_SEND_RETRIES ELSE 1
    <2> DEFINE u == req[r].use
               left == req[r].left
    <2>1. /\ left > 0 /\ left \in 0 .. 20 /\ u \in Use /\ u.id \in Ids
          /\ sends[u.id] \in Nat /\ Destructive(u)
          /\ left <= Rounds(u) /\ req[r].attempt \in 1 .. Tries(u)
      <3>1. req[r].left > 0 /\ req[r].use \in Use
        BY <1>1 DEF IInv, Shape
      <3> QED BY <1>1, <3>1, UseFacts DEF TypeOK, Request, PayInv, PayerOK
    <2>2. sends[u.id] <= (Rounds(u) - left) * Tries(u) + req[r].attempt
      BY <1>1, <2>1 DEF PayInv, PaidOK
    <2>3. Rounds(u) \in 1 .. 20 /\ Tries(u) \in Nat \ {0}
      BY <2>1, RoundFacts
    <2> HIDE DEF u, left
    <2>4. (Rounds(u) - left + 1) * Tries(u) = (Rounds(u) - left) * Tries(u) + Tries(u)
      BY <2>1, <2>3, OneMoreRound
    <2>5. (Rounds(u) - left + 1) * Tries(u) <= Rounds(u) * Tries(u)
      BY <2>1, <2>3, FewerRounds
    <2>6. (Rounds(u) - left) * Tries(u) \in Int /\ Rounds(u) * Tries(u) \in Int
      BY <2>1, <2>3
    <2>7. sends[u.id] <= Rounds(u) * Tries(u)
      <3>1. \A n, k, a, T, B \in Int : n <= k + a /\ a <= T /\ k + T <= B => n <= B
        OBVIOUS
      <3>2. req[r].attempt \in Int /\ req[r].attempt <= Tries(u) /\ sends[u.id] \in Int
            /\ Tries(u) \in Int
        BY <2>1, <2>3
      <3>3. (Rounds(u) - left) * Tries(u) + Tries(u) <= Rounds(u) * Tries(u)
        BY <2>4, <2>5
      <3> QED BY <2>2, <2>6, <3>1, <3>2, <3>3
    <2>8. ~Game(u) => Rounds(u) = 1 /\ Tries(u) = 1
      BY DEF Game, Rounds, Tries
    <2>9. Game(u) => Tries(u) = MAX_PLAY_SEND_RETRIES
      BY DEF Tries
    <2> QED BY <2>7, <2>8, <2>9 DEF u
  <1>2. IInv /\ TypeOK /\ PayInv => PaymentsBounded
    BY <1>1 DEF PaymentsBounded
  <1>3. PayInv /\ (IInv /\ TypeOK) /\ [Next]_vars => PayInv'
    BY PayNext
  <1> QED BY <1>2, <1>3, PayInit, AgentInvariant, AgentTypes, PTL DEF Spec

=============================================================================
