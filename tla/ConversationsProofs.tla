------------------------- MODULE ConversationsProofs -------------------------
(***************************************************************************)
(* Proof, for any number of calls, of bodies of any length, that the       *)
(* backup is the body of the last call that ran to its end alone.          *)
(***************************************************************************)
EXTENDS Conversations, TLAPS

USE ConversationAssumption

\* The first n messages of a call's body.
Prefix(c, n) == [i \in 1 .. n |-> [call |-> c, index |-> i]]

\* Where a call stands, and what is in the tables if it has been alone.
CallOK(r) ==
    /\ req[r].pc # "idle" => req[r].call \in 1 .. calls
    /\ req[r].pc = "save" => req[r].next <= body[req[r].call]
    /\ (req[r].pc # "idle" /\ req[r].alone) =>
          /\ Active = {r}
          /\ req[r].pc \in {"clear", "save", "touch"} => stored
          /\ req[r].pc = "clear" => req[r].next = 0
          /\ req[r].pc = "save" => messages = Prefix(req[r].call, req[r].next)
          /\ req[r].pc = "touch" => messages = Body(req[r].call)
          /\ req[r].pc # "rewrite"
    /\ req[r].pc \in {"find", "select", "insert", "clear"} => req[r].next = 0

\* While a call's promise stands, nobody is past the deletion of messages.
PromiseOK ==
    last # None =>
        /\ last \in 1 .. calls
        /\ stored
        /\ messages = Body(last)
        /\ \A r \in Requests : req[r].pc \notin {"save", "touch", "rewrite"}

IInv ==
    /\ TypeOK
    /\ \A r \in Requests : CallOK(r)
    /\ PromiseOK

\* What Abort and Goto do to the calls in flight.
LEMMA AbortFacts ==
    ASSUME TypeOK, NEW r \in Requests, Abort(r)
    PROVE  /\ req' \in [Requests -> Request]
           /\ req'[r] = Idle
           /\ \A q \in Requests \ {r} : req'[q] = req[q]
           /\ Active' = Active \ {r}
<1>1. Idle \in Request /\ Idle.pc = "idle"
  BY DEF Idle, Request, Steps, None
<1> QED
  BY <1>1 DEF TypeOK, Abort, Active

LEMMA GotoFacts ==
    ASSUME TypeOK, NEW r \in Requests, NEW pc \in Steps \ {"idle"}, req[r].pc # "idle",
           Goto(r, pc)
    PROVE  /\ req' \in [Requests -> Request]
           /\ req'[r].pc = pc /\ req'[r].call = req[r].call
           /\ req'[r].next = req[r].next /\ req'[r].alone = req[r].alone
           /\ \A q \in Requests \ {r} : req'[q] = req[q]
           /\ Active' = Active
<1>1. [req[r] EXCEPT !.pc = pc] \in Request /\ [req[r] EXCEPT !.pc = pc].pc = pc
  <2>1. req[r] \in Request /\ pc \in Steps
    BY DEF TypeOK
  <2> QED
    BY <2>1 DEF Request
<1>2. req' = [req EXCEPT ![r] = [req[r] EXCEPT !.pc = pc]]
  BY DEF Goto
<1>3. req' \in [Requests -> Request] /\ req'[r] = [req[r] EXCEPT !.pc = pc]
  BY <1>1, <1>2 DEF TypeOK
<1>4. \A q \in Requests \ {r} : req'[q] = req[q]
  BY <1>2 DEF TypeOK
<1>5. req'[r].pc # "idle"
  BY <1>1, <1>3
<1>6. \A q \in Requests : req'[q].pc # "idle" <=> req[q].pc # "idle"
  BY <1>4, <1>5
<1>7. Active' = Active
  BY <1>6 DEF Active
<1>8. LET n == [req[r] EXCEPT !.pc = pc] IN
        n.pc = pc /\ n.call = req[r].call /\ n.next = req[r].next /\ n.alone = req[r].alone
  <2>1. req[r] \in Request /\ pc \in Steps
    BY DEF TypeOK
  <2> QED
    BY <2>1 DEF Request
<1> QED
  BY <1>3, <1>4, <1>7, <1>8

\* A call that ends, normally or not, leaves the others as they were.
LEMMA AbortRest ==
    ASSUME IInv, NEW r \in Requests, Abort(r), r \in Active,
           stored' \in BOOLEAN, last' \in Calls \cup {None},
           UNCHANGED <<messages, calls, body, overlapped>>
    PROVE  TypeOK' /\ \A q \in Requests : CallOK(q)'
<1>1. /\ req' \in [Requests -> Request]
      /\ req'[r] = Idle
      /\ \A q \in Requests \ {r} : req'[q] = req[q]
      /\ Active' = Active \ {r}
  BY AbortFacts DEF IInv
<1>2. TypeOK'
  BY <1>1 DEF IInv, TypeOK
<1>3. ASSUME NEW q \in Requests PROVE CallOK(q)'
  <2>1. CASE q = r
    BY <1>1, <2>1 DEF CallOK, Idle
  <2>2. CASE q # r
    <3>1. req[q].pc # "idle" => ~req[q].alone
      BY <2>2 DEF IInv, CallOK, Active
    <3> QED
      BY <1>1, <2>2, <3>1 DEF IInv, CallOK
  <2> QED
    BY <2>1, <2>2
<1> QED
  BY <1>2, <1>3

\* A request that aborts, while the tables stay, breaks nothing.
LEMMA AbortStep ==
    ASSUME IInv, NEW r \in Requests, Abort(r), r \in Active,
           UNCHANGED <<stored, messages, calls, body, overlapped, last>>
    PROVE  IInv'
<1>1. TypeOK' /\ \A q \in Requests : CallOK(q)'
  BY AbortRest DEF IInv, TypeOK
<1>2. /\ req'[r] = Idle
      /\ \A q \in Requests \ {r} : req'[q] = req[q]
  BY AbortFacts DEF IInv
<1>3. PromiseOK'
  BY <1>2 DEF IInv, PromiseOK, Idle, Body
<1> QED
  BY <1>1, <1>3 DEF IInv

LEMMA CrashInv ==
    ASSUME IInv, NEW r \in Requests, Crash(r)
    PROVE  IInv'
BY AbortStep DEF Crash

\* The other calls, next to a step of r: none of them was alone.
LEMMA OtherCallsOK ==
    ASSUME IInv, NEW r \in Requests, r \in Active,
           \A q \in Requests \ {r} : req'[q] = req[q],
           calls' = calls, body' = body
    PROVE  \A q \in Requests \ {r} : CallOK(q)'
<1> SUFFICES ASSUME NEW q \in Requests \ {r} PROVE CallOK(q)'
  OBVIOUS
<1>1. req[q].pc # "idle" => ~req[q].alone
  BY DEF IInv, CallOK, Active
<1> QED
  BY <1>1 DEF IInv, CallOK

LEMMA CallInv ==
    ASSUME IInv, NEW r \in Requests, NEW op \in {"sync", "record"}, NEW length \in Lengths,
           Call(r, op, length)
    PROVE  IInv'
<1> DEFINE new == [pc |-> "find", op |-> op, call |-> calls + 1, next |-> 0,
                   alone |-> Active = {}]
<1>1. /\ calls \in Nat /\ calls < MaxCalls /\ calls' = calls + 1
      /\ calls + 1 \in Calls /\ length \in Nat
      /\ body' = [body EXCEPT ![calls + 1] = length]
      /\ UNCHANGED <<stored, messages, last>>
      /\ req[r].pc = "idle"
  BY DEF IInv, TypeOK, Call, Calls
<1>2. new \in Request
  BY <1>1 DEF Request, Steps
<1>3. /\ req' \in [Requests -> Request] /\ req'[r] = new
      /\ \A q \in Requests \ {r} :
            /\ req[q].pc = "idle" => req'[q] = req[q]
            /\ req[q].pc # "idle" => req'[q] = [req[q] EXCEPT !.alone = FALSE]
  <2>1. \A q \in Requests : req[q] \in Request
    BY DEF IInv, TypeOK
  <2>2. \A q \in Requests : [req[q] EXCEPT !.alone = FALSE] \in Request
    BY <2>1 DEF Request
  <2>3. \A q \in Active : q \in Requests /\ req[q].pc # "idle"
    BY DEF Active
  <2>4. req' = [q \in Requests |-> IF q = r THEN new
                  ELSE IF q \in Active THEN [req[q] EXCEPT !.alone = FALSE] ELSE req[q]]
    BY DEF Call
  <2>5. \A q \in Requests : req'[q] = IF q = r THEN new
                  ELSE IF q \in Active THEN [req[q] EXCEPT !.alone = FALSE] ELSE req[q]
    <3> HIDE DEF new
    <3> QED
      BY <2>4
  <2>6. \A q \in Requests : req'[q] \in Request
    <3> HIDE DEF new
    <3> QED
      BY <1>2, <2>1, <2>2, <2>5
  <2>7. req' \in [Requests -> Request]
    <3> HIDE DEF new
    <3> QED
      BY <2>4, <2>6
  <2> HIDE DEF new
  <2> QED
    BY <2>5, <2>7 DEF Active
<1>10. \A q \in Requests \ {r} :
         /\ req'[q].pc = req[q].pc /\ req'[q].call = req[q].call /\ req'[q].next = req[q].next
         /\ req[q].pc # "idle" => ~req'[q].alone
  <2>1. \A q \in Requests : req[q] \in Request
    BY DEF IInv, TypeOK
  <2>2. \A q \in Requests : LET n == [req[q] EXCEPT !.alone = FALSE] IN
          n.pc = req[q].pc /\ n.call = req[q].call /\ n.next = req[q].next /\ ~n.alone
    BY <2>1 DEF Request
  <2> QED
    BY <1>3, <2>2
<1>11. /\ req'[r].pc = "find" /\ req'[r].call = calls + 1 /\ req'[r].next = 0
       /\ req'[r].alone = (Active = {})
  BY <1>3
<1>4. overlapped' \subseteq SUBSET Calls
  <2>1. \A q \in Active : req[q].call \in Calls
    BY <1>1 DEF IInv, CallOK, Active, Calls
  <2>2. \A q \in Active : {calls + 1, req[q].call} \in SUBSET Calls
    BY <1>1, <2>1
  <2> QED
    BY <2>2 DEF Call, IInv, TypeOK
<1>5. TypeOK'
  BY <1>1, <1>3, <1>4 DEF IInv, TypeOK, Calls
<1>6. \A c \in 1 .. calls : body'[c] = body[c]
  BY <1>1 DEF IInv, TypeOK, Calls
<1>7. ASSUME NEW q \in Requests PROVE CallOK(q)'
  <2>1. CASE q = r
    <3>1. Active = {} => Active' = {r}
      BY <1>10, <1>11 DEF Active
    <3>2. req'[r].alone => Active = {}
      BY <1>11
    <3>3. req'[r].call \in 1 .. calls'
      BY <1>1, <1>11
    <3> QED
      BY <1>11, <2>1, <3>1, <3>2, <3>3 DEF CallOK
  <2>2. CASE q # r /\ req[q].pc = "idle"
    BY <1>10, <2>2 DEF CallOK
  <2>3. CASE q # r /\ req[q].pc # "idle"
    <3>1. /\ req'[q].pc = req[q].pc /\ req'[q].call = req[q].call
          /\ req'[q].next = req[q].next /\ ~req'[q].alone
      BY <1>10, <2>3
    <3>2. req[q].call \in 1 .. calls /\ body'[req[q].call] = body[req[q].call]
      BY <1>6, <2>3 DEF IInv, CallOK
    <3> QED
      BY <1>1, <3>1, <3>2 DEF IInv, CallOK
  <2> QED
    BY <2>1, <2>2, <2>3
<1>8. PromiseOK'
  <2> SUFFICES ASSUME last # None PROVE PromiseOK'
    BY <1>1 DEF PromiseOK
  <2>1. Body(last)' = Body(last)
    BY <1>1, <1>6 DEF IInv, PromiseOK, Body
  <2>2. \A q \in Requests : req'[q].pc \notin {"save", "touch", "rewrite"}
    BY <1>10, <1>11 DEF IInv, PromiseOK
  <2> QED
    BY <1>1, <2>1, <2>2 DEF IInv, PromiseOK
<1> QED
  BY <1>5, <1>7, <1>8 DEF IInv

\* A step of r that goes on: what is left to show is its own part.
LEMMA GotoStep ==
    ASSUME IInv, NEW r \in Requests, NEW pc \in Steps \ {"idle"}, r \in Active, Goto(r, pc),
           stored' \in BOOLEAN, messages' \in Seq(Message), last' \in Calls \cup {None},
           UNCHANGED <<calls, body, overlapped>>,
           CallOK(r)', PromiseOK'
    PROVE  IInv'
<1>1. req[r].pc # "idle"
  BY DEF Active
<1>2. /\ req' \in [Requests -> Request]
      /\ \A q \in Requests \ {r} : req'[q] = req[q]
  BY <1>1, GotoFacts DEF IInv
<1>3. TypeOK'
  BY <1>2 DEF IInv, TypeOK
<1>4. \A q \in Requests \ {r} : CallOK(q)'
  BY <1>2, OtherCallsOK
<1> QED
  BY <1>3, <1>4 DEF IInv

LEMMA FindInv ==
    ASSUME IInv, NEW r \in Requests, FindConversation(r) \/ SaveSelect(r)
    PROVE  IInv'
<1> DEFINE to == IF stored THEN "clear"
                 ELSE IF req[r].pc = "find" THEN "select" ELSE "insert"
<1>1. /\ req[r].pc \in {"find", "select"} /\ Goto(r, to)
      /\ UNCHANGED <<stored, messages, calls, body, overlapped, last>>
  BY DEF FindConversation, SaveSelect
<1>2. to \in Steps \ {"idle"} /\ to \in {"select", "insert", "clear"} /\ (to = "clear" => stored)
  BY DEF Steps
<1>3. r \in Active
  BY <1>1 DEF Active
<1> HIDE DEF to
<1>4. /\ req'[r].pc = to /\ req'[r].call = req[r].call
      /\ req'[r].next = req[r].next /\ req'[r].alone = req[r].alone
      /\ \A q \in Requests \ {r} : req'[q] = req[q]
      /\ Active' = Active
  BY <1>1, <1>2, GotoFacts DEF IInv
<1>5. CallOK(r)'
  BY <1>1, <1>2, <1>4 DEF IInv, CallOK
<1>6. PromiseOK'
  BY <1>1, <1>2, <1>4 DEF IInv, PromiseOK, Body
<1> QED
  BY <1>1, <1>2, <1>3, <1>5, <1>6, GotoStep DEF IInv, TypeOK

LEMMA SaveInsertInv ==
    ASSUME IInv, NEW r \in Requests, SaveInsert(r)
    PROVE  IInv'
<1>1. req[r].pc = "insert" /\ r \in Active
  BY DEF SaveInsert, Active
<1>2. CASE stored
  BY <1>1, <1>2, AbortStep DEF SaveInsert
<1>3. CASE ~stored
  <2>1. /\ Goto(r, "clear") /\ stored' = TRUE
        /\ UNCHANGED <<messages, calls, body, overlapped, last>>
    BY <1>3 DEF SaveInsert
  <2>2. "clear" \in Steps \ {"idle"}
    BY DEF Steps
  <2>3. /\ req'[r].pc = "clear" /\ req'[r].call = req[r].call
        /\ req'[r].next = req[r].next /\ req'[r].alone = req[r].alone
        /\ Active' = Active
    BY <1>1, <2>1, <2>2, GotoFacts DEF IInv
  <2>4. CallOK(r)'
    BY <1>1, <2>1, <2>3 DEF IInv, CallOK
  <2>5. PromiseOK'
    BY <1>3, <2>1 DEF IInv, PromiseOK
  <2> QED
    BY <1>1, <2>1, <2>2, <2>4, <2>5, GotoStep DEF IInv, TypeOK
<1> QED
  BY <1>2, <1>3

\* The deletion of the messages starts the new backup from nothing.
LEMMA ClearInv ==
    ASSUME IInv, NEW r \in Requests, ClearMessages(r)
    PROVE  IInv'
<1>1. /\ req[r].pc = "clear" /\ r \in Active
      /\ Goto(r, "save") /\ messages' = <<>> /\ last' = None
      /\ UNCHANGED <<stored, calls, body, overlapped>>
  BY DEF ClearMessages, Cleared, Active
<1>2. "save" \in Steps \ {"idle"}
  BY DEF Steps
<1>3. /\ req'[r].pc = "save" /\ req'[r].call = req[r].call
      /\ req'[r].next = 0 /\ req'[r].alone = req[r].alone
      /\ Active' = Active
  BY <1>1, <1>2, GotoFacts DEF IInv, CallOK
<1>4. req[r].call \in Calls /\ body[req[r].call] \in Nat
  BY <1>1 DEF IInv, CallOK, TypeOK, Calls
<1>5. Prefix(req[r].call, 0) = <<>>
  BY DEF Prefix
<1>7. messages' = [i \in 1 .. 0 |-> [call |-> req'[r].call, index |-> i]]
  BY <1>1, <1>3, <1>5 DEF Prefix
<1>8. CallOK(r)'
  BY <1>1, <1>3, <1>4, <1>7 DEF IInv, CallOK, Prefix
<1>9. PromiseOK'
  BY <1>1 DEF PromiseOK
<1>10. messages' \in Seq(Message) /\ stored' \in BOOLEAN /\ last' \in Calls \cup {None}
  BY <1>1 DEF IInv, TypeOK
<1> QED
  BY <1>1, <1>2, <1>8, <1>9, <1>10, GotoStep

\* One more message makes the next prefix of the body.
LEMMA PrefixGrows ==
    ASSUME NEW c \in Calls, NEW n \in Nat
    PROVE  Append(Prefix(c, n), [call |-> c, index |-> n + 1]) = Prefix(c, n + 1)
<1>1. Prefix(c, n) \in Seq(Message) /\ Len(Prefix(c, n)) = n
  BY DEF Prefix, Message
<1>2. Prefix(c, n + 1) \in Seq(Message) /\ Len(Prefix(c, n + 1)) = n + 1
  BY DEF Prefix, Message
<1>3. [call |-> c, index |-> n + 1] \in Message
  BY DEF Message
<1>4. \A i \in 1 .. n : Prefix(c, n)[i] = Prefix(c, n + 1)[i]
  BY DEF Prefix
<1>5. Prefix(c, n + 1)[n + 1] = [call |-> c, index |-> n + 1]
  BY DEF Prefix
<1> QED
  BY <1>1, <1>2, <1>3, <1>4, <1>5

LEMMA SaveMessageInv ==
    ASSUME IInv, NEW r \in Requests, SaveMessage(r)
    PROVE  IInv'
<1>1. /\ req[r].pc = "save" /\ r \in Active
      /\ req[r].next < body[req[r].call]
      /\ UNCHANGED <<stored, calls, body, overlapped, last>>
  BY DEF SaveMessage, Active
<1>2. /\ req[r] \in Request /\ req[r].next \in Nat /\ req[r].call \in Calls
      /\ body[req[r].call] \in Nat
  BY <1>1 DEF IInv, TypeOK, CallOK, Request, Calls
<1>3. CASE ~stored
  BY <1>1, <1>3, AbortStep DEF SaveMessage
<1>4. CASE stored
  <2> DEFINE n == req[r].next
  <2> DEFINE new == [req[r] EXCEPT !.next = n + 1]
  <2>1. /\ messages' = Append(messages, [call |-> req[r].call, index |-> n + 1])
        /\ req' = [req EXCEPT ![r] = new]
    BY <1>4 DEF SaveMessage, NextIndex
  <2>2. /\ new \in Request /\ new.pc = "save" /\ new.call = req[r].call
        /\ new.next = n + 1 /\ new.alone = req[r].alone
    BY <1>1, <1>2 DEF Request
  <2> HIDE DEF new
  <2>3. /\ req' \in [Requests -> Request] /\ req'[r] = new
        /\ \A q \in Requests \ {r} : req'[q] = req[q]
    BY <2>1, <2>2 DEF IInv, TypeOK
  <2>4. \A q \in Requests : req'[q].pc # "idle" <=> req[q].pc # "idle"
    BY <1>1, <2>2, <2>3
  <2>5. Active' = Active
    BY <2>4 DEF Active
  <2>6. [call |-> req[r].call, index |-> n + 1] \in Message
    BY <1>2 DEF Message
  <2>7. TypeOK'
    BY <1>1, <2>1, <2>3, <2>6 DEF IInv, TypeOK
  <2>8. req[r].alone => messages' = Prefix(req[r].call, n + 1)
    BY <1>1, <1>2, <2>1, PrefixGrows DEF IInv, CallOK
  <2>9. req[r].alone => messages' = [i \in 1 .. new.next |-> [call |-> new.call, index |-> i]]
    BY <2>2, <2>8 DEF Prefix
  <2>10. CallOK(r)'
    BY <1>1, <1>2, <1>4, <2>2, <2>3, <2>5, <2>9 DEF IInv, CallOK, Prefix
  <2>11. \A q \in Requests \ {r} : CallOK(q)'
    BY <1>1, <2>3, OtherCallsOK
  <2>12. PromiseOK'
    BY <1>1 DEF IInv, PromiseOK
  <2> QED
    BY <2>7, <2>10, <2>11, <2>12 DEF IInv
<1> QED
  BY <1>3, <1>4

\* A call that is done: what it promises is what is in the tables.
LEMMA DoneInv ==
    ASSUME IInv, NEW r \in Requests, r \in Active, Abort(r), last' = Promise(r),
           stored' \in BOOLEAN, UNCHANGED <<messages, calls, body, overlapped>>,
           req[r].alone => stored' /\ messages = Body(req[r].call)
    PROVE  IInv'
<1>1. req[r].pc # "idle" /\ req[r].call \in 1 .. calls /\ req[r].call \in Calls
  BY DEF Active, IInv, CallOK, TypeOK, Calls
<1>2. last' \in Calls \cup {None}
  BY <1>1 DEF Promise
<1>3. TypeOK' /\ \A q \in Requests : CallOK(q)'
  BY <1>2, AbortRest
<1>4. ASSUME last' # None PROVE PromiseOK'
  <2>1. req[r].alone /\ last' = req[r].call
    BY <1>4 DEF Promise
  <2>2. Active = {r}
    BY <1>1, <2>1 DEF IInv, CallOK
  <2>3. \A q \in Requests : req'[q].pc = "idle"
    BY <2>2, AbortFacts DEF IInv, Active, Idle
  <2>4. messages' = Body(last)'
    BY <2>1 DEF Body
  <2> QED
    BY <1>1, <2>1, <2>3, <2>4 DEF PromiseOK
<1>5. PromiseOK'
  BY <1>4 DEF PromiseOK
<1> QED
  BY <1>3, <1>5 DEF IInv

LEMMA EndOfBodyInv ==
    ASSUME IInv, NEW r \in Requests, EndOfBody(r)
    PROVE  IInv'
<1>1. /\ req[r].pc = "save" /\ r \in Active
      /\ req[r].next >= body[req[r].call]
      /\ UNCHANGED <<stored, messages, calls, body, overlapped>>
  BY DEF EndOfBody, Active
<1>2. /\ req[r] \in Request /\ req[r].next \in Nat /\ req[r].call \in Calls
      /\ body[req[r].call] \in Nat /\ req[r].next <= body[req[r].call]
  BY <1>1 DEF IInv, TypeOK, CallOK, Request, Calls
<1>3. req[r].next = body[req[r].call]
  BY <1>1, <1>2
<1>4. req[r].alone => stored /\ messages = Body(req[r].call)
  BY <1>1, <1>3 DEF IInv, CallOK, Prefix, Body
<1>5. stored' \in BOOLEAN
  BY <1>1 DEF IInv, TypeOK
<1>6. CASE req[r].op = "record"
  <2>1. Abort(r) /\ last' = Promise(r)
    BY <1>6 DEF EndOfBody
  <2> QED
    BY <1>1, <1>4, <1>5, <2>1, DoneInv
<1>7. CASE req[r].op # "record"
  <2>1. Goto(r, "touch") /\ UNCHANGED last
    BY <1>7 DEF EndOfBody
  <2>2. "touch" \in Steps \ {"idle"}
    BY DEF Steps
  <2>3. /\ req'[r].pc = "touch" /\ req'[r].call = req[r].call
        /\ req'[r].next = req[r].next /\ req'[r].alone = req[r].alone
        /\ Active' = Active
    BY <1>1, <2>1, <2>2, GotoFacts DEF IInv
  <2>4. Body(req[r].call)' = Body(req[r].call)
    BY <1>1, <2>3 DEF Body
  <2>5. CallOK(r)'
    BY <1>1, <1>4, <2>3, <2>4 DEF IInv, CallOK
  <2>6. PromiseOK'
    BY <1>1, <2>1 DEF IInv, PromiseOK
  <2> QED
    BY <1>1, <2>1, <2>2, <2>5, <2>6, GotoStep DEF IInv, TypeOK
<1> QED
  BY <1>6, <1>7

LEMMA TouchInv ==
    ASSUME IInv, NEW r \in Requests, TouchSelect(r) \/ TouchInsert(r)
    PROVE  IInv'
<1>1. CASE TouchSelect(r)
  <2>1. /\ req[r].pc = "touch" /\ r \in Active
        /\ UNCHANGED <<stored, messages, calls, body, overlapped>>
    BY <1>1 DEF TouchSelect, Active
  <2>2. req[r].alone => stored /\ messages = Body(req[r].call)
    BY <2>1 DEF IInv, CallOK
  <2>3. CASE stored
    <3>1. Abort(r) /\ last' = Promise(r) /\ stored' \in BOOLEAN
      BY <1>1, <2>1, <2>3 DEF TouchSelect, IInv, TypeOK
    <3> QED
      BY <2>1, <2>2, <3>1, DoneInv
  <2>4. CASE ~stored
    <3>1. Goto(r, "rewrite") /\ UNCHANGED last
      BY <1>1, <2>4 DEF TouchSelect
    <3>2. "rewrite" \in Steps \ {"idle"}
      BY DEF Steps
    <3>3. /\ req'[r].pc = "rewrite" /\ req'[r].call = req[r].call
          /\ req'[r].alone = req[r].alone
      BY <2>1, <3>1, <3>2, GotoFacts DEF IInv
    <3>4. CallOK(r)'
      BY <2>1, <2>2, <2>4, <3>3 DEF IInv, CallOK
    <3>5. PromiseOK'
      BY <2>1, <3>1 DEF IInv, PromiseOK
    <3> QED
      BY <2>1, <3>1, <3>2, <3>4, <3>5, GotoStep DEF IInv, TypeOK
  <2> QED
    BY <2>3, <2>4
<1>2. CASE TouchInsert(r)
  <2>1. /\ req[r].pc = "rewrite" /\ r \in Active /\ stored' = TRUE
        /\ Abort(r) /\ last' = Promise(r)
        /\ UNCHANGED <<messages, calls, body, overlapped>>
    BY <1>2 DEF TouchInsert, Active
  <2>2. ~req[r].alone
    BY <2>1 DEF IInv, CallOK
  <2> QED
    BY <2>1, <2>2, DoneInv
<1> QED
  BY <1>1, <1>2

LEMMA DeleteInv ==
    ASSUME IInv, DeleteConversation
    PROVE  IInv'
<1> DEFINE left(q) == [req[q] EXCEPT !.alone = FALSE]
<1>1. /\ stored' = FALSE /\ messages' = <<>> /\ last' = None
      /\ UNCHANGED <<calls, body, overlapped>>
      /\ req' = [q \in Requests |-> IF q \in Active THEN left(q) ELSE req[q]]
  BY DEF DeleteConversation
<1>2. \A q \in Requests : req[q] \in Request
  BY DEF IInv, TypeOK
<1>3. \A q \in Requests :
        /\ left(q) \in Request /\ left(q).pc = req[q].pc /\ left(q).call = req[q].call
        /\ left(q).next = req[q].next /\ ~left(q).alone
  BY <1>2 DEF Request
<1> HIDE DEF left
<1>4. req' \in [Requests -> Request]
  <2>1. \A q \in Requests : (IF q \in Active THEN left(q) ELSE req[q]) \in Request
    BY <1>2, <1>3
  <2> QED
    BY <1>1, <2>1
<1>5. TypeOK'
  <2>1. stored' \in BOOLEAN /\ messages' \in Seq(Message) /\ last' \in Calls \cup {None}
    <3>1. stored' = FALSE /\ messages' = <<>> /\ last' = None
      BY <1>1
    <3>2. messages' \in Seq(Message)
      BY <3>1
    <3> QED
      BY <3>1, <3>2
  <2>2. calls' \in 0 .. MaxCalls /\ body' \in [Calls -> Nat] /\ overlapped' \subseteq SUBSET Calls
    BY <1>1 DEF IInv, TypeOK
  <2> QED
    BY <1>4, <2>1, <2>2 DEF TypeOK
<1>6. ASSUME NEW q \in Requests PROVE CallOK(q)'
  <2>1. /\ req'[q].pc = req[q].pc /\ req'[q].call = req[q].call /\ req'[q].next = req[q].next
        /\ req[q].pc # "idle" => ~req'[q].alone
    BY <1>1, <1>3 DEF Active
  <2> QED
    BY <1>1, <2>1 DEF IInv, CallOK
<1>7. PromiseOK'
  BY <1>1 DEF PromiseOK
<1> QED
  BY <1>5, <1>6, <1>7 DEF IInv

-----------------------------------------------------------------------------
LEMMA InitIInv == Init => IInv
<1> SUFFICES ASSUME Init PROVE IInv
  OBVIOUS
<1>1. Idle \in Request /\ Idle.pc = "idle"
  BY DEF Idle, Request, Steps
<1>2. TypeOK
  <2>1. req \in [Requests -> Request]
    BY <1>1 DEF Init
  <2>2. calls \in 0 .. MaxCalls /\ messages \in Seq(Message)
    BY DEF Init
  <2>3. body \in [Calls -> Nat] /\ last \in Calls \cup {None}
    BY DEF Init
  <2> QED
    BY <2>1, <2>2, <2>3 DEF Init, TypeOK
<1>3. \A r \in Requests : req[r] = Idle
  BY DEF Init
<1>4. \A r \in Requests : CallOK(r)
  BY <1>1, <1>3 DEF CallOK
<1>5. PromiseOK
  BY DEF Init, PromiseOK
<1> QED
  BY <1>2, <1>4, <1>5 DEF IInv

LEMMA NextIInv == IInv /\ [Next]_vars => IInv'
<1> SUFFICES ASSUME IInv, [Next]_vars PROVE IInv'
  OBVIOUS
<1>1. CASE UNCHANGED vars
  <2>1. TypeOK' /\ PromiseOK'
    BY <1>1 DEF IInv, vars, TypeOK, PromiseOK, Body
  <2>2. \A r \in Requests : CallOK(r)'
    BY <1>1 DEF IInv, vars, CallOK, Active, Body, Prefix
  <2> QED
    BY <2>1, <2>2 DEF IInv
<1>2. CASE DeleteConversation
  BY <1>2, DeleteInv
<1>3. ASSUME NEW r \in Requests, Step(r) PROVE IInv'
  <2>1. CASE \E op \in {"sync", "record"}, length \in Lengths : Call(r, op, length)
    BY <2>1, CallInv
  <2>2. CASE FindConversation(r) \/ SaveSelect(r)
    BY <2>2, FindInv
  <2>3. CASE SaveInsert(r)
    BY <2>3, SaveInsertInv
  <2>4. CASE ClearMessages(r)
    BY <2>4, ClearInv
  <2>5. CASE SaveMessage(r)
    BY <2>5, SaveMessageInv
  <2>6. CASE EndOfBody(r)
    BY <2>6, EndOfBodyInv
  <2>7. CASE TouchSelect(r) \/ TouchInsert(r)
    BY <2>7, TouchInv
  <2>8. CASE Crash(r)
    BY <2>8, CrashInv
  <2> QED
    BY <1>3, <2>1, <2>2, <2>3, <2>4, <2>5, <2>6, <2>7, <2>8 DEF Step
<1> QED
  BY <1>1, <1>2, <1>3 DEF Next

\* Every reachable state satisfies the inductive invariant: the body a call
\* has written so far, and what stands when it is done.
THEOREM BackupInvariant == Spec => []IInv
BY InitIInv, NextIInv, PTL DEF Spec

\* The state is always of its type.
THEOREM ConversationsTypeCorrect == Spec => []TypeOK
<1>1. IInv => TypeOK
  BY DEF IInv
<1> QED
  BY <1>1, BackupInvariant, PTL

(* For any number of calls with bodies of any length, interrupted or       *)
(* interleaved: after one that ran to its end alone (find, delete all,     *)
(* insert each, touch) the backup is that call's body.                     *)
THEOREM LastCallIsTheBackup == Spec => []BackupIsLastCall
<1>1. IInv => BackupIsLastCall
  BY DEF IInv, PromiseOK, BackupIsLastCall
<1> QED
  BY <1>1, BackupInvariant, PTL

-----------------------------------------------------------------------------
(* What the messages of several calls look like.                           *)

\* Message i is the last one of call c.
LastOf(list, i, c) ==
    list[i].call = c /\ \A k \in i + 1 .. Len(list) : list[k].call # c

\* A call that saves messages met the calls whose messages it finds, and goes
\* on where its own end.
MeetsOthers(r) ==
    req[r].pc = "save" =>
        \A i \in DOMAIN messages :
            /\ messages[i].call = req[r].call \/ {messages[i].call, req[r].call} \in overlapped
            /\ LastOf(messages, i, req[r].call) => messages[i].index = req[r].next

PairsOK ==
    \A p, q \in Active : p # q =>
        req[p].call # req[q].call /\ {req[p].call, req[q].call} \in overlapped

MixInv ==
    /\ PairsOK
    /\ \A r \in Requests : MeetsOthers(r)
    /\ MixedOnlyIfOverlapped

\* A step that adds no message and starts no call.
LEMMA MixKept ==
    ASSUME IInv, MixInv, overlapped' = overlapped,
           \A q \in Requests : req'[q].pc # "idle" => req[q].pc # "idle" /\ req'[q].call = req[q].call,
           \/ messages' = <<>>
           \/ /\ messages' = messages
              /\ \A q \in Requests : req'[q].pc = "save" =>
                    req[q].pc = "save" /\ req'[q].next = req[q].next
    PROVE  MixInv'
<1>1. PairsOK'
  BY DEF MixInv, PairsOK, Active
<1>2. CASE messages' = <<>>
  <2>1. DOMAIN messages' = {}
    BY <1>2
  <2> QED
    BY <1>1, <2>1 DEF MixInv, MeetsOthers, MixedOnlyIfOverlapped
<1>3. CASE /\ messages' = messages
           /\ \A q \in Requests : req'[q].pc = "save" =>
                 req[q].pc = "save" /\ req'[q].next = req[q].next
  <2>1. ASSUME NEW q \in Requests, req'[q].pc = "save"
        PROVE  MeetsOthers(q)'
    <3>1. req[q].pc = "save" /\ req'[q].next = req[q].next /\ req'[q].call = req[q].call
      BY <1>3, <2>1
    <3>2. MeetsOthers(q)
      BY DEF MixInv
    <3> QED
      BY <1>3, <3>1, <3>2 DEF MeetsOthers
  <2>2. MixedOnlyIfOverlapped'
    BY <1>3 DEF MixInv, MixedOnlyIfOverlapped
  <2>3. \A q \in Requests : MeetsOthers(q)'
    BY <2>1 DEF MeetsOthers
  <2> QED
    BY <1>1, <2>2, <2>3 DEF MixInv
<1> QED
  BY <1>2, <1>3

\* A new call meets all that are in flight.
LEMMA MixCall ==
    ASSUME IInv, MixInv, NEW r \in Requests, NEW op \in {"sync", "record"},
           NEW length \in Lengths, Call(r, op, length)
    PROVE  MixInv'
<1>1. /\ calls' = calls + 1 /\ calls \in Nat /\ messages' = messages
      /\ overlapped' = overlapped \cup {{calls + 1, req[q].call} : q \in Active}
      /\ req[r].pc = "idle"
  BY DEF Call, IInv, TypeOK
<1>2. req'[r].pc = "find" /\ req'[r].call = calls + 1
  BY DEF Call
<1>3. ASSUME NEW q \in Requests \ {r}
      PROVE  req'[q].pc = req[q].pc /\ req'[q].call = req[q].call /\ req'[q].next = req[q].next
  <2>1. req'[q] = req[q] \/ req'[q] = [req[q] EXCEPT !.alone = FALSE]
    BY DEF Call
  <2> QED
    BY <2>1 DEF IInv, TypeOK, Request
<1>4. Active' = Active \cup {r} /\ r \notin Active
  BY <1>1, <1>2, <1>3 DEF Active
<1>5. \A q \in Active : q # r /\ req[q].call \in 1 .. calls /\ req[q].call # calls + 1
  BY <1>1, <1>4 DEF IInv, CallOK, Active
<1>6. PairsOK'
  <2>1. \A q \in Active : {calls + 1, req[q].call} \in overlapped'
    BY <1>1
  <2>2. \A q \in Active : {req[q].call, calls + 1} \in overlapped'
    BY <2>1
  <2>3. \A q \in Active : q \in Requests
    BY DEF Active
  <2>4. ASSUME NEW p \in Active', NEW q \in Active', p # q
        PROVE  req'[p].call # req'[q].call /\ {req'[p].call, req'[q].call} \in overlapped'
    <3>1. CASE p = r
      BY <1>2, <1>3, <1>4, <1>5, <2>1, <2>3, <2>4, <3>1
    <3>2. CASE q = r
      BY <1>2, <1>3, <1>4, <1>5, <2>2, <2>3, <2>4, <3>2
    <3>3. CASE p # r /\ q # r
      BY <1>1, <1>3, <1>4, <2>3, <2>4, <3>3 DEF MixInv, PairsOK
    <3> QED
      BY <3>1, <3>2, <3>3
  <2> QED
    BY <2>4 DEF PairsOK
<1>7. ASSUME NEW q \in Requests, req'[q].pc = "save"
      PROVE  MeetsOthers(q)'
  <2>1. /\ q # r /\ req[q].pc = "save"
        /\ req'[q].call = req[q].call /\ req'[q].next = req[q].next
    BY <1>2, <1>3, <1>7
  <2>2. MeetsOthers(q)
    BY DEF MixInv
  <2> QED
    BY <1>1, <2>1, <2>2 DEF MeetsOthers
<1>8. \A q \in Requests : MeetsOthers(q)'
  BY <1>7 DEF MeetsOthers
<1>9. MixedOnlyIfOverlapped'
  BY <1>1 DEF MixInv, MixedOnlyIfOverlapped
<1> QED
  BY <1>6, <1>8, <1>9 DEF MixInv

\* The next message of a call.
LEMMA MixSave ==
    ASSUME IInv, MixInv, NEW r \in Requests, SaveMessage(r), stored
    PROVE  MixInv'
<1> DEFINE c == req[r].call
           message == [call |-> c, index |-> req[r].next + 1]
           n == Len(messages)
<1>1. /\ req[r].pc = "save" /\ overlapped' = overlapped
      /\ messages' = Append(messages, message)
      /\ req' = [req EXCEPT ![r].next = req[r].next + 1]
  BY DEF SaveMessage, NextIndex
<1>2. messages \in Seq(Message) /\ req[r] \in Request /\ c \in Calls /\ req[r].next \in Nat
  <2>1. messages \in Seq(Message) /\ req[r] \in Request /\ c \in 1 .. calls /\ calls \in 0 .. MaxCalls
    BY <1>1 DEF IInv, TypeOK, CallOK
  <2> QED
    BY <2>1 DEF Request, Calls
<1>3. message \in Message /\ message.call = c /\ message.index = req[r].next + 1
  BY <1>2 DEF Message
<1>4. /\ n \in Nat /\ Len(messages') = n + 1 /\ messages'[n + 1] = message
      /\ \A i \in 1 .. n : messages'[i] = messages[i]
      /\ DOMAIN messages = 1 .. n /\ DOMAIN messages' = 1 .. n + 1
  BY <1>1, <1>2, <1>3
<1>5. /\ req'[r].pc = "save" /\ req'[r].call = c /\ req'[r].next = req[r].next + 1
      /\ \A q \in Requests \ {r} : req'[q] = req[q]
      /\ Active' = Active /\ r \in Active
  BY <1>1, <1>2 DEF Active, IInv, TypeOK, Request
<1>6. overlapped' = overlapped
  BY <1>1
<1> HIDE DEF n, message, c
<1>7. \A i \in 1 .. n : /\ messages[i].call = c \/ {messages[i].call, c} \in overlapped
                        /\ LastOf(messages, i, c) => messages[i].index = req[r].next
  BY <1>1, <1>4 DEF MixInv, MeetsOthers, c
<1>8. PairsOK'
  <2>1. \A q \in Active : req'[q].call = req[q].call
    BY <1>5 DEF Active, c
  <2>2. ASSUME NEW p \in Active', NEW q \in Active', p # q
        PROVE  req'[p].call # req'[q].call /\ {req'[p].call, req'[q].call} \in overlapped'
    <3>1. p \in Active /\ q \in Active
      BY <1>5, <2>2
    <3>2. req[p].call # req[q].call /\ {req[p].call, req[q].call} \in overlapped
      BY <2>2, <3>1 DEF MixInv, PairsOK
    <3>3. req'[p].call = req[p].call /\ req'[q].call = req[q].call
      BY <2>1, <3>1
    <3> QED
      BY <1>6, <3>2, <3>3
  <2> QED
    BY <2>2 DEF PairsOK
<1>9. ASSUME NEW q \in Requests, req'[q].pc = "save", NEW i \in 1 .. n + 1
      PROVE  /\ messages'[i].call = req'[q].call
                \/ {messages'[i].call, req'[q].call} \in overlapped
             /\ LastOf(messages', i, req'[q].call) => messages'[i].index = req'[q].next
  <2>1. CASE q = r
    <3>1. CASE i = n + 1
      BY <1>3, <1>4, <1>5, <2>1, <3>1
    <3>2. CASE i \in 1 .. n
      <4>1. ~LastOf(messages', i, c)
        BY <1>3, <1>4, <3>2 DEF LastOf
      <4> QED
        BY <1>4, <1>5, <1>7, <2>1, <3>2, <4>1
    <3> QED
      BY <1>4, <3>1, <3>2
  <2>2. CASE q # r
    <3>1. q \in Active /\ req'[q] = req[q] /\ req[q].call # c /\ {c, req[q].call} \in overlapped
      BY <1>5, <1>9, <2>2 DEF MixInv, PairsOK, Active, c
    <3>2. CASE i = n + 1
      BY <1>3, <1>4, <3>1, <3>2 DEF LastOf
    <3>3. CASE i \in 1 .. n
      <4>1. /\ messages[i].call = req[q].call \/ {messages[i].call, req[q].call} \in overlapped
            /\ LastOf(messages, i, req[q].call) => messages[i].index = req[q].next
        BY <1>4, <1>9, <3>1, <3>3 DEF MixInv, MeetsOthers
      <4>2. LastOf(messages', i, req[q].call) => LastOf(messages, i, req[q].call)
        BY <1>4, <3>1, <3>3 DEF LastOf
      <4> QED
        BY <1>4, <3>1, <3>3, <4>1, <4>2
    <3> QED
      BY <1>4, <3>2, <3>3
  <2> QED
    BY <2>1, <2>2
<1>10. ASSUME NEW q \in Requests
      PROVE  MeetsOthers(q)'
  <2>1. req'[q].pc = "save" =>
            \A i \in DOMAIN messages' :
                /\ messages'[i].call = req'[q].call
                   \/ {messages'[i].call, req'[q].call} \in overlapped'
                /\ LastOf(messages', i, req'[q].call) => messages'[i].index = req'[q].next
    BY <1>4, <1>9, <1>6
  <2> QED
    BY <2>1 DEF MeetsOthers
<1>11. ASSUME NEW i \in 1 .. n + 1, NEW j \in 1 .. n + 1
       PROVE  LET m == messages'[i] o == messages'[j] IN
              /\ m.call = o.call \/ {m.call, o.call} \in overlapped
              /\ i < j /\ m.call = o.call
                 /\ (\A k \in i + 1 .. j - 1 : messages'[k].call # m.call)
                    => o.index = m.index + 1
  <2>1. CASE i \in 1 .. n /\ j \in 1 .. n
    <3>1. \A k \in i + 1 .. j - 1 : messages'[k] = messages[k]
      BY <1>4, <2>1
    <3> QED
      BY <1>4, <2>1, <3>1 DEF MixInv, MixedOnlyIfOverlapped
  <2>2. CASE i \in 1 .. n /\ j = n + 1
    <3>1. messages'[i] = messages[i] /\ messages'[j] = message
      BY <1>4, <2>2
    <3>2. messages[i].call = c \/ {messages[i].call, c} \in overlapped
      BY <1>7, <2>2
    <3>3. ASSUME messages[i].call = c, \A k \in i + 1 .. j - 1 : messages'[k].call # c
          PROVE  message.index = messages[i].index + 1
      <4>1. LastOf(messages, i, c)
        BY <1>4, <2>2, <3>3 DEF LastOf, n
      <4> QED
        BY <1>3, <1>7, <2>2, <4>1
    <3> QED
      BY <1>3, <3>1, <3>2, <3>3
  <2>3. CASE i = n + 1
    <3>1. CASE j \in 1 .. n
      <4>1. messages[j].call = c \/ {c, messages[j].call} \in overlapped
        BY <1>7, <3>1
      <4>2. messages'[j] = messages[j] /\ messages'[i] = message /\ ~(i < j)
        BY <1>4, <2>3, <3>1
      <4>3. messages'[i].call = c
        BY <1>3, <4>2
      <4> QED
        BY <4>1, <4>2, <4>3
    <3>2. CASE j = n + 1
      BY <1>4, <2>3, <3>2
    <3> QED
      BY <1>4, <3>1, <3>2
  <2> QED
    BY <1>4, <2>1, <2>2, <2>3
<1>12. MixedOnlyIfOverlapped'
  BY <1>1, <1>4, <1>11 DEF MixedOnlyIfOverlapped
<1> QED
  <2>1. \A q \in Requests : MeetsOthers(q)'
    BY <1>10
  <2> QED
    BY <1>8, <1>12, <2>1 DEF MixInv

LEMMA MixNext ==
    ASSUME IInv, MixInv, [Next]_vars
    PROVE  MixInv'
<1>1. CASE UNCHANGED vars
  BY <1>1, MixKept DEF vars
<1>2. CASE DeleteConversation
  <2>1. \A q \in Requests : req'[q].pc = req[q].pc /\ req'[q].call = req[q].call
    BY <1>2 DEF DeleteConversation, IInv, TypeOK, Request, Active
  <2> QED
    BY <1>2, <2>1, MixKept DEF DeleteConversation
<1>3. ASSUME NEW r \in Requests, Step(r)
      PROVE  MixInv'
  <2>1. ASSUME Abort(r), messages' = messages, overlapped' = overlapped
        PROVE  MixInv'
    BY <2>1, MixKept DEF Abort, IInv, TypeOK, Idle
  <2>2. ASSUME NEW pc \in Steps, Goto(r, pc), req[r].pc # "idle", overlapped' = overlapped,
               messages' = <<>> \/ (messages' = messages /\ pc # "save")
        PROVE  MixInv'
    <3>1. /\ req'[r].pc = pc /\ req'[r].call = req[r].call
          /\ \A q \in Requests \ {r} : req'[q] = req[q]
      BY <2>2 DEF Goto, IInv, TypeOK, Request
    <3> QED
      BY <2>2, <3>1, MixKept
  <2>3. CASE \E op \in {"sync", "record"}, length \in Lengths : Call(r, op, length)
    BY <2>3, MixCall
  <2>4. CASE FindConversation(r) \/ SaveSelect(r) \/ SaveInsert(r) \/ ClearMessages(r)
    BY <2>1, <2>2, <2>4
       DEF FindConversation, SaveSelect, SaveInsert, ClearMessages, Cleared, Steps
  <2>5. CASE SaveMessage(r)
    BY <2>1, <2>5, MixSave DEF SaveMessage
  <2>6. CASE EndOfBody(r) \/ TouchSelect(r) \/ TouchInsert(r) \/ Crash(r)
    BY <2>1, <2>2, <2>6 DEF EndOfBody, TouchSelect, TouchInsert, Crash, Steps
  <2> QED
    BY <1>3, <2>3, <2>4, <2>5, <2>6 DEF Step
<1> QED
  BY <1>1, <1>2, <1>3 DEF Next

(* For any number of calls: the backup mixes the messages of calls only if *)
(* they were in flight together, and keeps the order of each.              *)
THEOREM OverlapsOnlyMix == Spec => []MixedOnlyIfOverlapped
<1>1. Init => MixInv
  <2>1. ASSUME Init PROVE MixInv
    <3>1. messages = <<>> /\ Active = {} /\ \A r \in Requests : req[r].pc = "idle"
      BY <2>1 DEF Init, Active, Idle
    <3>2. DOMAIN messages = {}
      BY <3>1
    <3> QED
      BY <3>1, <3>2 DEF MixInv, PairsOK, MeetsOthers, MixedOnlyIfOverlapped
  <2> QED
    BY <2>1
<1>2. IInv /\ MixInv /\ [Next]_vars => MixInv'
  BY MixNext
<1>3. MixInv => MixedOnlyIfOverlapped
  BY DEF MixInv
<1> QED
  BY <1>1, <1>2, <1>3, BackupInvariant, PTL DEF Spec
=============================================================================
