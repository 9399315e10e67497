---------------------------- MODULE Conversations ----------------------------
(***************************************************************************)
(* The backup of one conversation: its conversations row, its messages,    *)
(* and the calls that write them.                                          *)
(*                                                                         *)
(* A call carries the whole conversation.  syncConversation and recordChat *)
(* (through saveConversation, after it has charged the user, see Accounts) *)
(* find or create the row, delete the messages that are there, and insert  *)
(* those of the body one by one; nothing makes these statements one.  A    *)
(* message is the call that brought it and its place in that call's body.  *)
(***************************************************************************)
EXTENDS Integers, Sequences

CONSTANTS
    Requests,     \* calls served at a time
    Lengths,      \* lengths of the bodies
    MaxCalls      \* bound: calls of a run

ASSUME ConversationAssumption ==
    /\ Lengths \subseteq Nat
    /\ MaxCalls \in Nat

VARIABLES
    stored,       \* whether the conversations row exists
    messages,     \* its messages, in the order of createdAt
    req,          \* the calls in flight
    calls,        \* calls started so far
    \* bookkeeping: nothing in the code reads these
    body,         \* the length of each call's body
    overlapped,   \* pairs of calls that were in flight together
    last          \* the call whose body the backup should be, if it is known

vars == <<stored, messages, req, calls, body, overlapped, last>>

None == 0
Calls == 1 .. MaxCalls
Message == [call : Calls, index : Nat \ {0}]
Body(c) == [i \in 1 .. body[c] |-> [call |-> c, index |-> i]]

Steps == {"idle", "find", "select", "insert", "clear", "save", "touch", "rewrite"}
Request == [pc : Steps, op : {"sync", "record"}, call : Calls \cup {None},
            next : Nat,                   \* messages saved
            alone : BOOLEAN]              \* nothing else happened since it started
Idle == [pc |-> "idle", op |-> "sync", call |-> None, next |-> 0, alone |-> FALSE]

Init ==
    /\ stored = FALSE /\ messages = <<>>
    /\ req = [r \in Requests |-> Idle]
    /\ calls = 0 /\ body = [c \in Calls |-> 0]
    /\ overlapped = {} /\ last = None

-----------------------------------------------------------------------------
Active == {r \in Requests : req[r].pc # "idle"}
Goto(r, pc) == req' = [req EXCEPT ![r].pc = pc]
Abort(r) == req' = [req EXCEPT ![r] = Idle]

(* syncConversation, or saveConversation in recordChat, is called.         *)
Call(r, op, length) ==
    /\ req[r].pc = "idle"
    /\ calls < MaxCalls
    /\ calls' = calls + 1
    /\ body' = [body EXCEPT ![calls + 1] = length]
    /\ req' = [q \in Requests |->
         IF q = r THEN [pc |-> "find", op |-> op, call |-> calls + 1, next |-> 0,
                        alone |-> Active = {}]
         ELSE IF q \in Active THEN [req[q] EXCEPT !.alone = FALSE] ELSE req[q]]
    /\ overlapped' = overlapped \cup {{calls + 1, req[q].call} : q \in Active}
    /\ UNCHANGED <<stored, messages, last>>

FindConversation(r) ==
    /\ req[r].pc = "find"
    /\ Goto(r, IF stored THEN "clear" ELSE "select")
    /\ UNCHANGED <<stored, messages, calls, body, overlapped, last>>

(* save(conversation) of a new row: SELECT by id, then INSERT, or UPDATE   *)
(* when the row has appeared.                                              *)
SaveSelect(r) ==
    /\ req[r].pc = "select"
    /\ Goto(r, IF stored THEN "clear" ELSE "insert")
    /\ UNCHANGED <<stored, messages, calls, body, overlapped, last>>

\* The INSERT fails on the primary key when the row has appeared since.
SaveInsert(r) ==
    /\ req[r].pc = "insert"
    /\ IF stored
       THEN Abort(r) /\ UNCHANGED stored
       ELSE Goto(r, "clear") /\ stored' = TRUE
    /\ UNCHANGED <<messages, calls, body, overlapped, last>>

KeepMessages(r) == messages                          \* mutation: old messages stay
Cleared(r) == <<>>

ClearMessages(r) ==
    /\ req[r].pc = "clear"
    /\ messages' = Cleared(r)
    /\ last' = None
    /\ Goto(r, "save")
    /\ UNCHANGED <<stored, calls, body, overlapped>>

FromZero(r) == req[r].next                           \* mutation: the index does not advance
NextIndex(r) == req[r].next + 1

\* What a call that ran to its end promises, unless it was not alone.
Promise(r) == IF req[r].alone THEN req[r].call ELSE None

(* The insert of the next message; its foreign key needs the row.          *)
SaveMessage(r) ==
    LET rq == req[r] IN
    /\ rq.pc = "save"
    /\ rq.next < body[rq.call]
    /\ IF stored
       THEN /\ messages' = Append(messages, [call |-> rq.call, index |-> NextIndex(r)])
            /\ req' = [req EXCEPT ![r].next = NextIndex(r)]
       ELSE Abort(r) /\ UNCHANGED messages
    /\ UNCHANGED <<stored, calls, body, overlapped, last>>

(* recordChat is done; syncConversation sets updatedAt, by another         *)
(* save(conversation), which inserts the row again when it has gone.       *)
EndOfBody(r) ==
    /\ req[r].pc = "save"
    /\ req[r].next >= body[req[r].call]
    /\ IF req[r].op = "record"
       THEN Abort(r) /\ last' = Promise(r)
       ELSE Goto(r, "touch") /\ UNCHANGED last
    /\ UNCHANGED <<stored, messages, calls, body, overlapped>>

TouchSelect(r) ==
    /\ req[r].pc = "touch"
    /\ IF stored
       THEN Abort(r) /\ last' = Promise(r)
       ELSE Goto(r, "rewrite") /\ UNCHANGED last
    /\ UNCHANGED <<stored, messages, calls, body, overlapped>>

\* (When the row has reappeared the INSERT fails, which changes as little.)
TouchInsert(r) ==
    /\ req[r].pc = "rewrite"
    /\ stored' = TRUE
    /\ Abort(r)
    /\ last' = Promise(r)
    /\ UNCHANGED <<messages, calls, body, overlapped>>

(* deleteConversation; its messages go with it (ON DELETE CASCADE).        *)
DeleteConversation ==
    /\ stored
    /\ stored' = FALSE
    /\ messages' = <<>>
    /\ last' = None
    /\ req' = [q \in Requests |->
         IF q \in Active THEN [req[q] EXCEPT !.alone = FALSE] ELSE req[q]]
    /\ UNCHANGED <<calls, body, overlapped>>

\* The instance dies, or a statement throws.
Crash(r) ==
    /\ r \in Active
    /\ Abort(r)
    /\ UNCHANGED <<stored, messages, calls, body, overlapped, last>>

-----------------------------------------------------------------------------
Step(r) ==
    \/ \E op \in {"sync", "record"}, length \in Lengths : Call(r, op, length)
    \/ FindConversation(r) \/ SaveSelect(r) \/ SaveInsert(r)
    \/ ClearMessages(r) \/ SaveMessage(r) \/ EndOfBody(r)
    \/ TouchSelect(r) \/ TouchInsert(r)
    \/ Crash(r)

Next == (\E r \in Requests : Step(r)) \/ DeleteConversation

Spec == Init /\ [][Next]_vars

-----------------------------------------------------------------------------
(* Properties.                                                             *)

\* The type of the state.
TypeOK ==
    /\ stored \in BOOLEAN
    /\ messages \in Seq(Message)
    /\ req \in [Requests -> Request]
    /\ calls \in 0 .. MaxCalls
    /\ body \in [Calls -> Nat]
    /\ overlapped \subseteq SUBSET Calls
    /\ last \in Calls \cup {None}

(* After a call that ran to its end alone, the backup is that call's body, *)
(* all of it and nothing else, until the next call clears it or the user   *)
(* deletes it: whatever earlier calls left behind, half-way or interleaved.*)
BackupIsLastCall == last # None => stored /\ messages = Body(last)

(* Messages of two calls are mixed only if the calls overlapped; those of  *)
(* one call keep their order, none missing between them and none twice.    *)
MixedOnlyIfOverlapped ==
    \A i, j \in DOMAIN messages :
        LET m == messages[i] n == messages[j] IN
        /\ m.call = n.call \/ {m.call, n.call} \in overlapped
        /\ i < j /\ m.call = n.call /\ (\A k \in i + 1 .. j - 1 : messages[k].call # m.call)
              => n.index = m.index + 1
=============================================================================
