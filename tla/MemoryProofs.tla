---------------------------- MODULE MemoryProofs ----------------------------
(***************************************************************************)
(* Background learning (MemoryLearning), for any documents, any number of  *)
(* turns, policy calls, operations and failures: learning that was switched*)
(* off or cancelled has ended and does not come back, and learning yields  *)
(* to the foreground.  And about the documents of the store, whoever writes*)
(* them: what was acknowledged stays until an operation asks to remove it. *)
(***************************************************************************)
EXTENDS MemoryLearning, SequenceTheorems, TLAPS

Phase == BeforeBatch \cup InBatch \cup Ended

LearningQueue ==
  [pc : Phase, aborted : BOOLEAN, attempt : {"none", "live", "aborted"},
   pending : Seq(Nat), seen : BOOLEAN, requests : Nat]

PolicyCall == [want : BOOLEAN, pc : {"update", "read", "decide", "drain", "acked", "rejected"},
               next : BOOLEAN, tail : Nat]

\* Who has operations on the documents that are not settled.
Owners == {ops[i].by : i \in 1 .. Len(ops)}

\* An operation has these fields, whatever their values.
OpFields(op) == op \in [by : {op.by}, input : {op.input}, pc : {op.pc}, left : {op.left}]

OpsInv ==
  /\ Len(ops) \in Nat /\ ops = [i \in 1 .. Len(ops) |-> ops[i]]
  /\ \A i \in 1 .. Len(ops) : OpFields(ops[i])

StateInv ==
  /\ turns \in Nat /\ agent \in Agent /\ (agent.inTurn => agent.busy /\ turns # 0)
  /\ learning \in Seq(LearningQueue) /\ calls \in Seq(PolicyCall)
  /\ enabled \in BOOLEAN /\ service \in {"up", "closing", "closed"} /\ rested \in BOOLEAN
  /\ OpsInv

-----------------------------------------------------------------------------
(* The queues                                                              *)

\* A drain waits for the one before it, and a queue is replaced when it has
\* ended or was cancelled.
OrderInv ==
  /\ \A q \in DOMAIN learning : learning[q].pc # "waiting" =>
       \A p \in 1 .. q - 1 : learning[p].pc \in Ended
  /\ \A q \in 1 .. Len(learning) - 1 : learning[q].pc \in Ended \/ learning[q].aborted

\* A turn that has ended is in at most one queue, or dropped, or learned; one
\* that was dropped may wait in a queue that was cancelled.
Completed == IF agent.inTurn THEN 1 .. turns - 1 ELSE 1 .. turns
Waiting(q) == Range(learning[q].pending)

TurnsInv ==
  /\ dropped \subseteq Completed /\ learned \subseteq Completed
  /\ learned \cap dropped = {}
  /\ \A q \in DOMAIN learning :
       /\ Waiting(q) \subseteq Completed /\ Waiting(q) \cap learned = {}
       /\ ~Cancelled(q) => Waiting(q) \cap dropped = {}
       /\ \A p \in DOMAIN learning : p # q => Waiting(p) \cap Waiting(q) = {}

\* An attempt that no turn has cancelled has seen none, and a child that is at
\* work while a turn runs is cancelled.
Attempting == {"idle", "delay", "recheck", "rechecked"} \cup InBatch
Rested == {"delay", "recheck", "rechecked"}

AttemptInv ==
  \A q \in DOMAIN learning :
    /\ learning[q].pc \in Attempting => learning[q].attempt # "none"
    /\ learning[q].pc \in Rested /\ ~AttemptCancelled(q) => rested
    /\ agent.inTurn /\ learning[q].pc \in InBatch => AttemptCancelled(q)

\* Only a child, or one that could not be cleaned up, has operations.
OwnersInv ==
  \A by \in Owners : by = 0 \/ /\ by \in DOMAIN learning
                               /\ learning[by].pc \in {"child", "dispose", "failed"}

-----------------------------------------------------------------------------
(* The policy                                                              *)

LastWord(c) == ~calls[c].want /\ \A later \in c + 1 .. Len(calls) : ~calls[later].want

Off(c) == LastWord(c) /\ calls[c].pc \in {"drain", "acked"} /\ ~calls[c].next

\* A queue that will see that learning is off before it begins.
Quiet(q) ==
  \/ learning[q].pc \in Ended \cup {"waiting", "policy"}
  \/ learning[q].pc = "polled" /\ ~learning[q].seen

CallsInv ==
  \A c \in DOMAIN calls :
    /\ calls[c].pc # "update" => \A earlier \in 1 .. c - 1 : calls[earlier].pc # "update"
    /\ LastWord(c) /\ calls[c].pc \in {"read", "decide", "drain", "acked"} => ~enabled
    /\ calls[c].pc = "drain" => calls[c].tail \in DOMAIN learning
    /\ Off(c) => \A q \in DOMAIN learning :
                   Quiet(q) \/ (calls[c].pc = "drain" /\ q <= calls[c].tail)

ClosedInv == service = "closed" => \A q \in DOMAIN learning : learning[q].pc \in Ended

LearningInv ==
  StateInv /\ OrderInv /\ TurnsInv /\ AttemptInv /\ OwnersInv /\ CallsInv /\ ClosedInv

-----------------------------------------------------------------------------
(* The operations on the documents                                         *)

\* Lemma: a sequence is the function of its elements.
LEMMA SequenceIs ==
  ASSUME NEW S, NEW t \in Seq(S)
  PROVE  Len(t) \in Nat /\ t = [i \in 1 .. Len(t) |-> t[i]]
<1>1. Len(t) \in Nat /\ t \in [1 .. Len(t) -> S]
  BY LenProperties
<1> QED  BY <1>1

\* Lemma: the operations are a sequence.
LEMMA OpsSequence == OpsInv => ops \in Seq({ops[i] : i \in 1 .. Len(ops)})
BY DEF OpsInv

\* Lemma: an operation settles.
LEMMA SettleOps ==
  ASSUME OpsInv, ops # <<>>, Settle(1)
  PROVE  /\ OpsInv' /\ Owners' \subseteq Owners /\ ops' = Tail(ops)
         /\ Len(ops') = Len(ops) - 1 /\ \A i \in 1 .. Len(ops') : ops'[i] = ops[i + 1]
<1> DEFINE S == {ops[i] : i \in 1 .. Len(ops)}
<1>1. ops \in Seq(S)
  BY OpsSequence
<1> HIDE DEF S
<1>2. ops' = Tail(ops)
  <2>1. SubSeq(ops, 1, 0) = <<>> /\ SubSeq(ops, 2, Len(ops)) \in Seq(S)
    BY <1>1, SubSeqProperties
  <2>2. SubSeq(ops, 2, Len(ops)) = Tail(ops)
    BY <1>1
  <2> QED  BY <2>1, <2>2 DEF Settle, RemoveAt
<1>3. /\ Tail(ops) \in Seq(S) /\ Len(Tail(ops)) = Len(ops) - 1
      /\ \A i \in 1 .. Len(ops) - 1 : Tail(ops)[i] = ops[i + 1]
      /\ Len(ops) \in Nat /\ Len(ops) # 0
  BY <1>1
<1>4. ops' = [i \in 1 .. Len(ops') |-> ops'[i]]
  BY <1>2, <1>3, SequenceIs
<1>5. \A i \in 1 .. Len(ops') : i + 1 \in 1 .. Len(ops) /\ ops'[i] = ops[i + 1]
  BY <1>2, <1>3
<1> QED  BY <1>2, <1>3, <1>4, <1>5 DEF OpsInv, Owners

\* Lemma: an operation goes on.
LEMMA StepOps ==
  ASSUME OpsInv, ops # <<>>, NEW pc, NEW left, Step(1, pc, left)
  PROVE  /\ OpsInv' /\ Owners' \subseteq Owners
         /\ Len(ops') = Len(ops) /\ \A i \in 2 .. Len(ops) : ops'[i] = ops[i]
         /\ ops'[1].input = ops[1].input /\ ops'[1].pc = pc /\ ops'[1].left = left
<1> DEFINE S == {ops[i] : i \in 1 .. Len(ops)}
           op == [ops[1] EXCEPT !.pc = pc, !.left = left]
<1>1. ops \in Seq(S) /\ Len(ops) \in Nat /\ 1 \in 1 .. Len(ops)
  BY OpsSequence
<1>2. ops' = [ops EXCEPT ![1] = op]
  BY DEF Step
<1>3. OpFields(ops[1])
  BY <1>1 DEF OpsInv
<1>4. /\ OpFields(op) /\ op.by = ops[1].by
      /\ op.input = ops[1].input /\ op.pc = pc /\ op.left = left
  <2> DEFINE o == ops[1]
             new == [o EXCEPT !.pc = pc, !.left = left]
  <2>1. OpFields(o) /\ op = new
    BY <1>3
  <2> HIDE DEF o, op
  <2> QED  BY <2>1 DEF OpFields, o
<1> HIDE DEF S, op
<1>5. /\ Len(ops') = Len(ops) /\ ops' = [i \in 1 .. Len(ops) |-> ops'[i]]
      /\ \A i \in 1 .. Len(ops) : ops'[i] = IF i = 1 THEN op ELSE ops[i]
  <2>1. ops \in Seq(S \cup {op}) /\ op \in S \cup {op}
    BY <1>1
  <2>2. ops' \in Seq(S \cup {op}) /\ Len(ops') = Len(ops)
    BY <1>1, <1>2, <2>1
  <2>3. \A i \in 1 .. Len(ops) : ops'[i] = IF i = 1 THEN op ELSE ops[i]
    BY <1>1, <1>2, <2>1
  <2> QED  BY <2>2, <2>3, SequenceIs
<1>6. ASSUME NEW i \in 1 .. Len(ops)
      PROVE  /\ OpFields(ops'[i])
             /\ ops'[i].by = ops[i].by
  <2>1. CASE i = 1
    BY <1>4, <1>5, <2>1
  <2>2. CASE i # 1
    BY <1>5, <2>2 DEF OpsInv
  <2> QED  BY <2>1, <2>2
<1>7. ops'[1] = op /\ \A i \in 2 .. Len(ops) : ops'[i] = ops[i]
  BY <1>1, <1>5
<1> QED  BY <1>1, <1>4, <1>5, <1>6, <1>7 DEF OpsInv, Owners

\* Lemma: an operation is queued.
LEMMA SubmitOps ==
  ASSUME OpsInv, NEW by, NEW input, Submit(by, input)
  PROVE  /\ OpsInv' /\ Owners' \subseteq Owners \cup {by}
         /\ ops # <<>> => Head(ops') = Head(ops)
         /\ Len(ops') = Len(ops) + 1 /\ \A i \in 1 .. Len(ops) : ops'[i] = ops[i]
         /\ ops'[Len(ops) + 1].input = input /\ ops'[Len(ops) + 1].pc = "queued"
<1> DEFINE op == [by |-> by, input |-> input, pc |-> "queued", left |-> <<>>]
           S == {ops[i] : i \in 1 .. Len(ops)} \cup {op}
<1>1. ops' = Append(ops, op)
  BY DEF Submit
<1>2. ops \in Seq(S) /\ op \in S
  BY OpsSequence
<1>3. OpFields(op) /\ op.by = by /\ op.input = input /\ op.pc = "queued"
  BY DEF OpFields
<1> HIDE DEF op, S
<1>4. /\ Len(ops) \in Nat /\ Len(ops') = Len(ops) + 1
      /\ ops' = [i \in 1 .. Len(ops') |-> ops'[i]]
      /\ \A i \in 1 .. Len(ops) : ops'[i] = ops[i]
      /\ ops'[Len(ops) + 1] = op
  <2>1. ops' \in Seq(S) /\ Len(ops) \in Nat /\ Len(ops') = Len(ops) + 1
    BY <1>1, <1>2
  <2>2. ops' = [i \in 1 .. Len(ops') |-> ops'[i]]
    BY <2>1, SequenceIs
  <2> QED  BY <1>1, <1>2, <2>1, <2>2
<1>5. ASSUME NEW i \in 1 .. Len(ops')
      PROVE  /\ OpFields(ops'[i])
             /\ ops'[i].by \in Owners \cup {by}
  <2>1. CASE i \in 1 .. Len(ops)
    BY <1>4, <2>1 DEF OpsInv, Owners
  <2>2. CASE i = Len(ops) + 1
    BY <1>3, <1>4, <2>2
  <2> QED  BY <1>4, <2>1, <2>2
<1>6. ops # <<>> => Head(ops') = Head(ops)
  BY <1>1, <1>2
<1> QED  BY <1>3, <1>4, <1>5, <1>6 DEF OpsInv, Owners

\* Lemma: the operation at the head of the queue settles or goes on; one that is
\* cancelled does not begin.
LEMMA StoreSteps ==
  ASSUME OpsInv, NEW cancelled, StoreStep(cancelled)
  PROVE  /\ OpsInv' /\ Owners' \subseteq Owners
         /\ ops # <<>> /\ (Head(ops).pc = "queued" /\ Head(ops).by \in cancelled => ops' = Tail(ops))
<1>1. PICK i \in DOMAIN ops : \/ BeginOp(i, cancelled) \/ Oversized(i, cancelled)
                              \/ Abandoned(i, cancelled) \/ Checked(i, cancelled)
                              \/ CommitFile(i)
  BY DEF StoreStep
<1>2. i = 1 /\ ops # <<>>
  BY <1>1 DEF BeginOp, Oversized, Abandoned, Checked, CommitFile, InTurn
<1>3. Settle(1) \/ \E pc, left : Step(1, pc, left)
  BY <1>1, <1>2 DEF BeginOp, Oversized, Abandoned, Checked, CommitFile, Acknowledge
<1>4. ops[1].pc = "queued" /\ ops[1].by \in cancelled => Settle(1)
  BY <1>1, <1>2 DEF BeginOp, Oversized, Abandoned, Checked, CommitFile
<1>5. Head(ops) = ops[1]
  BY <1>2, OpsSequence
<1> QED  BY <1>2, <1>3, <1>4, <1>5, SettleOps, StepOps

-----------------------------------------------------------------------------
(* A step of a drain                                                       *)

\* What a step of a drain does to its queue, to the turns and to the operations.
QueueMoved(q) ==
  /\ learning'[q] \in LearningQueue
  /\ learning' = [learning EXCEPT ![q] = learning'[q]]
  /\ learning[q].pc \notin Ended /\ learning'[q].pc # "waiting"
  /\ learning[q].pc = "waiting" => \A p \in 1 .. q - 1 : learning[p].pc \in Ended
  /\ learning'[q].pc \in Ended \/ learning'[q].aborted = learning[q].aborted
  /\ UNCHANGED foreground

TurnsMoved(q) ==
  \/ /\ learning'[q].pending = learning[q].pending /\ learning'[q].pc \notin Ended
     /\ UNCHANGED <<learned, dropped>>
  \/ /\ learning'[q].pending = <<>> /\ learned' = learned
     /\ dropped' \in {dropped, dropped \cup Waiting(q)}
  \/ /\ learning'[q].pending = <<>> /\ dropped' = dropped
     /\ learned' = learned \cup Waiting(q)
     /\ rested /\ ~agent.busy /\ ~AttemptCancelled(q)

AttemptMoved(q) ==
  /\ learning'[q].pc \in Attempting => learning'[q].attempt # "none"
  /\ rested' \in {rested, TRUE}
  /\ \/ rested' = TRUE
     \/ learning'[q].pc \notin Rested
     \/ learning[q].pc \in Rested /\ learning'[q].attempt = learning[q].attempt
  /\ learning'[q].pc \in InBatch =>
       \/ ~agent.busy
       \/ learning[q].pc \in InBatch /\ learning'[q].attempt = learning[q].attempt

OwnersMoved(q) ==
  /\ OpsInv' /\ Owners' \subseteq Owners \cup {q}
  /\ q \in Owners' => learning'[q].pc \in {"child", "dispose", "failed"}

Moved(q) ==
  /\ QueueMoved(q) /\ TurnsMoved(q) /\ AttemptMoved(q) /\ OwnersMoved(q)
  /\ Quiet(q) /\ ~enabled => Quiet(q)'

\* Lemma: the queue becomes what the step says.
LEMMA AdvanceIs ==
  ASSUME StateInv, NEW q \in DOMAIN learning, NEW queue \in LearningQueue, Advance(q, queue)
  PROVE  /\ learning' = [learning EXCEPT ![q] = learning'[q]] /\ learning'[q] = queue
         /\ dropped' = IF queue.pc \in Ended THEN dropped \cup Waiting(q) ELSE dropped
BY DEF StateInv, Advance, Waiting

\* Lemma: a queue that is new, and a drain that ends.
LEMMA FinishedIs ==
  /\ NewQueue \in LearningQueue /\ NewQueue.pc = "waiting" /\ NewQueue.pending = <<>>
  /\ ~NewQueue.aborted
  /\ \A pc \in Ended : /\ Finished(pc) \in LearningQueue /\ Finished(pc).pc = pc
                       /\ Finished(pc).pending = <<>>
<1>1. <<>> \in Seq(Nat)
  OBVIOUS
<1>2. /\ NewQueue \in LearningQueue /\ NewQueue.pc = "waiting" /\ NewQueue.pending = <<>>
      /\ ~NewQueue.aborted
  BY <1>1 DEF NewQueue, LearningQueue, Phase, BeforeBatch
<1>3. ASSUME NEW pc \in Ended
      PROVE  /\ Finished(pc) \in LearningQueue /\ Finished(pc).pc = pc
             /\ Finished(pc).pending = <<>>
  BY <1>2 DEF Finished, LearningQueue, Phase
<1> QED  BY <1>2, <1>3

\* Lemma: the head of the loop.
LEMMA LoopedIs ==
  ASSUME StateInv, NEW q \in DOMAIN learning
  PROVE  /\ Looped(q) \in LearningQueue
         /\ \/ Looped(q).pc = "done" /\ Looped(q).pending = <<>>
            \/ /\ Looped(q).pc = "policy" /\ Looped(q).pending = learning[q].pending
               /\ Looped(q).aborted = learning[q].aborted
<1>1. learning[q] \in LearningQueue
  BY DEF StateInv
<1>2. Finished("done") \in LearningQueue /\ Finished("done").pc = "done"
      /\ Finished("done").pending = <<>>
  BY FinishedIs DEF Ended
<1> DEFINE next == [learning[q] EXCEPT !.pc = "policy", !.attempt = "none", !.requests = 0]
<1>3. /\ next \in LearningQueue /\ next.pc = "policy" /\ next.pending = learning[q].pending
      /\ next.aborted = learning[q].aborted
  BY <1>1 DEF LearningQueue, Phase, BeforeBatch
<1>4. Looped(q) \in {next, Finished("done")}
  BY DEF Looped
<1> HIDE DEF next
<1> QED  BY <1>2, <1>3, <1>4

\* Lemma: a step back to the head of the loop, or to the end.
LEMMA EndMoves ==
  ASSUME StateInv, OwnersInv, NEW q \in DOMAIN learning, NEW queue \in LearningQueue,
         Advance(q, queue), learning[q].pc \notin Ended,
         learning[q].pc = "waiting" => \A p \in 1 .. q - 1 : learning[p].pc \in Ended,
         \/ queue.pc \in Ended /\ queue.pending = <<>>
         \/ /\ queue.pc = "policy" /\ queue.pending = learning[q].pending
            /\ queue.aborted = learning[q].aborted,
         q \in Owners => queue.pc = "failed",
         UNCHANGED <<storeVars, foreground, rested, learned>>
  PROVE  Moved(q)
<1>1. QueueMoved(q)
  BY AdvanceIs DEF QueueMoved, Ended
<1>2. TurnsMoved(q)
  BY AdvanceIs DEF TurnsMoved, Ended
<1>3. AttemptMoved(q)
  BY AdvanceIs DEF AttemptMoved, Ended, Attempting, InBatch, Rested
<1>4. OwnersMoved(q)
  BY AdvanceIs DEF OwnersMoved, OpsInv, Owners, storeVars, StateInv
<1>5. Quiet(q)'
  BY AdvanceIs DEF Quiet
<1> QED  BY <1>1, <1>2, <1>3, <1>4, <1>5 DEF Moved

\* Lemma: a step within an attempt.
LEMMA InnerMoves ==
  ASSUME StateInv, NEW q \in DOMAIN learning, NEW queue \in LearningQueue,
         Advance(q, queue), UNCHANGED foreground,
         learning[q].pc \notin Ended \cup {"waiting"}, queue.pc \notin Ended \cup {"waiting"},
         queue.aborted = learning[q].aborted,
         \/ queue.pending = learning[q].pending /\ learned' = learned
         \/ /\ queue.pending = <<>> /\ learned' = learned \cup Waiting(q)
            /\ rested /\ ~agent.busy /\ ~AttemptCancelled(q),
         rested' \in {rested, TRUE},
         queue.pc \in Attempting => queue.attempt # "none",
         queue.pc \in Rested =>
           rested' = TRUE \/ (learning[q].pc \in Rested /\ queue.attempt = learning[q].attempt),
         queue.pc \in InBatch =>
           ~agent.busy \/ (learning[q].pc \in InBatch /\ queue.attempt = learning[q].attempt),
         OpsInv', Owners' \subseteq Owners \cup {q},
         q \in Owners' => queue.pc \in {"child", "dispose"},
         Quiet(q) => queue.pc = "polled" /\ queue.seen = enabled
  PROVE  Moved(q)
<1>0. /\ learning' = [learning EXCEPT ![q] = learning'[q]] /\ learning'[q] = queue
      /\ dropped' = dropped
  BY AdvanceIs
<1>1. QueueMoved(q)
  BY <1>0 DEF QueueMoved
<1>2. TurnsMoved(q)
  BY <1>0 DEF TurnsMoved
<1>3. AttemptMoved(q)
  BY <1>0 DEF AttemptMoved
<1>4. OwnersMoved(q)
  BY <1>0 DEF OwnersMoved
<1>5. Quiet(q) /\ ~enabled => Quiet(q)'
  BY <1>0 DEF Quiet, Ended
<1> QED  BY <1>1, <1>2, <1>3, <1>4, <1>5 DEF Moved

\* Lemma: a step of the policy or of its child moves that learning on alone.
LEMMA DrainMoves ==
  ASSUME StateInv, AttemptInv, OwnersInv, NEW q \in DOMAIN learning,
         DrainStep(q) \/ DrainFailed(q) \/ \E input \in Asked : ChildTool(q, input)
  PROVE  Moved(q)
<1> DEFINE old == learning[q]
<1>0. /\ old \in LearningQueue /\ OpsInv /\ (q \in Owners => old.pc \in {"child", "dispose", "failed"})
      /\ q # 0 /\ (old.pc \in Attempting => old.attempt # "none")
  BY DEF StateInv, OwnersInv, AttemptInv
<1>a. UNCHANGED storeVars => OpsInv' /\ Owners' = Owners
  BY <1>0 DEF OpsInv, Owners, storeVars
<1>b. q \in Owners <=> Working(q)
  BY <1>0 DEF Owners, Working, OpsInv
<1>1. CASE Drain(q) \/ Raised(q) \/ ChildDisposed(q)
  <2>1. /\ Advance(q, Looped(q)) /\ UNCHANGED <<storeVars, foreground, rested, learned>>
        /\ old.pc \in {"waiting", "idle", "delay", "project", "dispose"}
        /\ (old.pc = "waiting" => \A p \in 1 .. q - 1 : learning[p].pc \in Ended)
        /\ (old.pc = "dispose" => ~Working(q))
    BY <1>1 DEF Drain, Raised, ChildDisposed
  <2>2. old.pc \notin Ended /\ q \notin Owners
    BY <1>0, <1>b, <2>1 DEF Ended
  <2> QED  BY <2>1, <2>2, LoopedIs, EndMoves DEF Ended
<1>2. CASE DrainFailed(q)
  <2>1. /\ Advance(q, Finished("failed")) /\ UNCHANGED <<storeVars, foreground, rested, learned>>
        /\ old.pc \in {"policy", "recheck", "project", "dispose"}
    BY <1>2 DEF DrainFailed
  <2> QED  BY <2>1, FinishedIs, EndMoves DEF Ended
<1>3. CASE PolicyRead(q)
  <2>1. PICK pc \in {"polled", "rechecked"} :
          /\ Advance(q, [old EXCEPT !.pc = pc, !.seen = enabled])
          /\ old.pc = IF pc = "polled" THEN "policy" ELSE "recheck"
          /\ UNCHANGED <<storeVars, foreground, rested, learned>>
    BY <1>3 DEF PolicyRead
  <2> DEFINE queue == [old EXCEPT !.pc = pc, !.seen = enabled]
  <2>2. /\ queue \in LearningQueue /\ queue.pc = pc /\ queue.seen = enabled
        /\ queue.aborted = old.aborted /\ queue.attempt = old.attempt
        /\ queue.pending = old.pending
    BY <1>0 DEF LearningQueue, Phase, BeforeBatch, StateInv
  <2> HIDE DEF queue
  <2>3. Quiet(q) => pc = "polled"
    BY <2>1 DEF Quiet, Ended
  <2>4. Advance(q, queue)
    BY <2>1 DEF queue
  <2>5. q \notin Owners
    BY <1>0, <2>1
  <2> QED  BY <1>0, <1>a, <2>1, <2>2, <2>3, <2>4, <2>5, InnerMoves
           DEF Ended, InBatch, Rested, Attempting
<1>4. CASE Polled(q)
  <2>0. old.pc = "polled" /\ UNCHANGED <<storeVars, foreground, rested, learned>>
    BY <1>4 DEF Polled
  <2>1. CASE ~old.seen
    <3>1. Advance(q, Finished("done"))
      BY <1>4, <2>1 DEF Polled
    <3> QED  BY <1>0, <2>0, <3>1, FinishedIs, EndMoves DEF Ended
  <2>2. CASE old.seen
    <3> DEFINE queue == [old EXCEPT !.pc = "idle", !.attempt = "live"]
    <3>1. Advance(q, queue)
      BY <1>4, <2>2 DEF Polled
    <3>2. /\ queue \in LearningQueue /\ queue.pc = "idle" /\ queue.attempt = "live"
          /\ queue.aborted = old.aborted /\ queue.pending = old.pending
      BY <1>0 DEF LearningQueue, Phase, BeforeBatch
    <3> HIDE DEF queue
    <3>3. ~Quiet(q) /\ q \notin Owners
      BY <1>0, <2>0, <2>2 DEF Quiet, Ended
    <3> QED  BY <1>0, <1>a, <2>0, <3>1, <3>2, <3>3, InnerMoves
             DEF Ended, InBatch, Rested, Attempting
  <2> QED  BY <2>1, <2>2
<1>5. CASE IdleSeen(q) \/ Delayed(q) \/ ChildCreated(q) \/ ChildEnded(q)
  <2>1. PICK pc \in {"delay", "recheck", "child", "dispose"} :
          /\ Advance(q, [old EXCEPT !.pc = pc]) /\ UNCHANGED <<storeVars, foreground, learned>>
          /\ old.pc = CASE pc = "delay" -> "idle" [] pc = "recheck" -> "delay"
                        [] pc = "child" -> "project" [] pc = "dispose" -> "child"
          /\ IF pc = "delay" THEN rested' = TRUE ELSE rested' = rested
    BY <1>5 DEF IdleSeen, Delayed, ChildCreated, ChildEnded
  <2> DEFINE queue == [old EXCEPT !.pc = pc]
  <2>2. /\ queue \in LearningQueue /\ queue.pc = pc
        /\ queue.aborted = old.aborted /\ queue.attempt = old.attempt
        /\ queue.pending = old.pending
    BY <1>0 DEF LearningQueue, Phase, BeforeBatch, InBatch
  <2>4. Advance(q, queue)
    BY <2>1 DEF queue
  <2> HIDE DEF queue
  <2>3. ~Quiet(q)
    BY <2>1 DEF Quiet, Ended
  <2>5. q \in Owners => pc \in {"child", "dispose"}
    BY <1>0, <2>1
  <2>6. old.pc \in {"idle", "delay", "project", "child"} /\ old.attempt # "none"
    BY <1>0, <2>1 DEF Attempting, InBatch
  <2>7. /\ old.pc \notin Ended \cup {"waiting"} /\ queue.pc \notin Ended \cup {"waiting"}
        /\ rested' \in {rested, TRUE}
        /\ (queue.pc \in Rested => rested' = TRUE \/ old.pc \in Rested)
        /\ (queue.pc \in InBatch => old.pc \in InBatch)
    BY <2>1, <2>2, <2>6 DEF Ended, InBatch, Rested
  <2> QED  BY <1>a, <2>1, <2>2, <2>3, <2>4, <2>5, <2>6, <2>7, InnerMoves
<1>6. CASE Rechecked(q)
  <2>0. old.pc = "rechecked" /\ UNCHANGED <<storeVars, foreground, rested>> /\ q \notin Owners
    BY <1>0, <1>6 DEF Rechecked
  <2>1. CASE TakeBatch(q) /\ ~AttemptCancelled(q) /\ ~agent.busy
    <3> DEFINE queue == [old EXCEPT !.pc = "project", !.pending = <<>>]
    <3>1. Advance(q, queue) /\ learned' = learned \cup Waiting(q)
      BY <2>1 DEF TakeBatch, Waiting
    <3>2. <<>> \in Seq(Nat)
      OBVIOUS
    <3>3. /\ queue \in LearningQueue /\ queue.pc = "project" /\ queue.pending = <<>>
          /\ queue.aborted = old.aborted /\ queue.attempt = old.attempt
      BY <1>0, <3>2 DEF LearningQueue, Phase, InBatch
    <3> HIDE DEF queue
    <3>4. rested
      BY <2>0, <2>1 DEF AttemptInv, Rested
    <3>5. ~Quiet(q) /\ old.attempt # "none"
      BY <1>0, <2>0 DEF Quiet, Ended, Attempting
    <3> QED  BY <1>a, <2>0, <2>1, <3>1, <3>3, <3>4, <3>5, InnerMoves
             DEF Ended, InBatch, Rested, Attempting
  <2>2. CASE ~(TakeBatch(q) /\ ~AttemptCancelled(q) /\ ~agent.busy)
    <3>1. /\ learned' = learned
          /\ Advance(q, Finished("done")) \/ Advance(q, Looped(q))
      BY <1>6, <2>2 DEF Rechecked
    <3> QED  BY <2>0, <3>1, FinishedIs, LoopedIs, EndMoves DEF Ended
  <2> QED  BY <2>1, <2>2
<1>7. ASSUME NEW input, ChildTool(q, input)  PROVE Moved(q)
  <2> DEFINE queue == [old EXCEPT !.requests = @ + 1]
  <2>1. /\ old.pc = "child" /\ Submit(q, input) /\ Advance(q, queue)
        /\ UNCHANGED <<foreground, rested, learned>>
    BY <1>7 DEF ChildTool
  <2>2. /\ queue \in LearningQueue /\ queue.pc = old.pc /\ queue.pending = old.pending
        /\ queue.aborted = old.aborted /\ queue.attempt = old.attempt
    BY <1>0 DEF LearningQueue
  <2> HIDE DEF queue
  <2>3. OpsInv' /\ Owners' \subseteq Owners \cup {q}
    BY <1>0, <2>1, SubmitOps
  <2>4. ~Quiet(q) /\ old.attempt # "none"
    BY <1>0, <2>1 DEF Quiet, Ended, Attempting, InBatch
  <2> QED  BY <2>1, <2>2, <2>3, <2>4, InnerMoves DEF Ended, InBatch, Rested
<1> QED  BY <1>1, <1>2, <1>3, <1>4, <1>5, <1>6, <1>7 DEF DrainStep

-----------------------------------------------------------------------------
(* The other steps                                                         *)

\* Queues are added, and none goes on or loses its cancellation.
LearningKept ==
  /\ learning' \in Seq(LearningQueue)
  /\ Len(learning') \in {Len(learning), Len(learning) + 1}
  /\ \A q \in DOMAIN learning :
       /\ learning'[q].pc = learning[q].pc /\ learning'[q].seen = learning[q].seen
       /\ learning[q].aborted => learning'[q].aborted
  /\ Len(learning') = Len(learning) + 1 =>
       /\ learning'[Len(learning) + 1].pc = "waiting" /\ service = "up"
       /\ \A q \in Mapped : learning[q].aborted

\* Lemma: only the last queue is in the map.
LEMMA MappedIs ==
  ASSUME StateInv
  PROVE  /\ Len(learning) \in Nat /\ DOMAIN learning = 1 .. Len(learning)
         /\ Mapped \subseteq {Len(learning)} /\ Mapped \subseteq DOMAIN learning
         /\ \A q \in Mapped : learning[q].pc \notin Ended
         /\ learning # <<>> /\ learning[Len(learning)].pc \notin Ended => Len(learning) \in Mapped
BY DEF StateInv, Mapped, Last

\* Lemma: as many queues, none of which goes on.
LEMMA SameQueues ==
  ASSUME StateInv, learning' \in Seq(LearningQueue), Len(learning') = Len(learning),
         \A q \in DOMAIN learning :
           /\ learning'[q].pc = learning[q].pc /\ learning'[q].seen = learning[q].seen
           /\ learning[q].aborted => learning'[q].aborted
  PROVE  LearningKept
<1>1. Len(learning) # Len(learning) + 1
  BY DEF StateInv
<1> QED  BY <1>1 DEF LearningKept

\* Lemma: the queue in the map is cancelled.
LEMMA AbortMappedIs ==
  ASSUME StateInv, AbortMapped
  PROVE  /\ LearningKept /\ Len(learning') = Len(learning)
         /\ \A q \in DOMAIN learning :
              /\ learning'[q].attempt = learning[q].attempt
              /\ learning'[q].pending = learning[q].pending
         /\ dropped' = dropped \cup UNION {Waiting(q) : q \in Mapped}
         /\ \A q \in Mapped : learning'[q].aborted
<1>0. Len(learning) \in Nat /\ DOMAIN learning = 1 .. Len(learning)
      /\ learning \in Seq(LearningQueue)
  BY MappedIs DEF StateInv
<1>1. learning' = [q \in 1 .. Len(learning) |->
         IF q \in Mapped THEN [learning[q] EXCEPT !.aborted = TRUE] ELSE learning[q]]
  BY <1>0 DEF AbortMapped
<1>2. ASSUME NEW q \in 1 .. Len(learning)
      PROVE  /\ learning'[q] \in LearningQueue
             /\ learning'[q].pc = learning[q].pc /\ learning'[q].seen = learning[q].seen
             /\ learning'[q].attempt = learning[q].attempt
             /\ learning'[q].pending = learning[q].pending
             /\ learning[q].aborted => learning'[q].aborted
             /\ q \in Mapped => learning'[q].aborted
  <2>1. learning[q] \in LearningQueue
    BY <1>0
  <2>2. learning'[q] = IF q \in Mapped THEN [learning[q] EXCEPT !.aborted = TRUE] ELSE learning[q]
    BY <1>1
  <2> QED  BY <2>1, <2>2 DEF LearningQueue
<1>3. learning' \in Seq(LearningQueue) /\ Len(learning') = Len(learning)
  <2> HIDE DEF Mapped
  <2>1. learning' \in [1 .. Len(learning) -> LearningQueue]
    BY <1>1, <1>2
  <2> QED  BY <1>0, <2>1
<1>4. dropped' = dropped \cup UNION {Waiting(q) : q \in Mapped}
  BY DEF AbortMapped, Waiting
<1>5. \A q \in Mapped : learning'[q].aborted
  BY <1>2, MappedIs
<1>6. LearningKept
  BY <1>0, <1>2, <1>3, SameQueues
<1> QED  BY <1>0, <1>2, <1>3, <1>4, <1>5, <1>6

\* Lemma: the attempt of the queue in the map is cancelled.
LEMMA TurnStartedIs ==
  ASSUME StateInv, TurnStarted
  PROVE  /\ LearningKept /\ Len(learning') = Len(learning)
         /\ \A q \in DOMAIN learning :
              /\ learning'[q].aborted = learning[q].aborted
              /\ learning'[q].pending = learning[q].pending
              /\ learning'[q].attempt = IF q \in Mapped /\ learning[q].attempt = "live"
                                        THEN "aborted" ELSE learning[q].attempt
<1>0. Len(learning) \in Nat /\ DOMAIN learning = 1 .. Len(learning)
      /\ learning \in Seq(LearningQueue)
  BY MappedIs DEF StateInv
<1>1. learning' = [q \in 1 .. Len(learning) |->
         IF q \in Mapped /\ learning[q].attempt = "live"
         THEN [learning[q] EXCEPT !.attempt = "aborted"] ELSE learning[q]]
  BY <1>0 DEF TurnStarted
<1>2. ASSUME NEW q \in 1 .. Len(learning)
      PROVE  /\ learning'[q] \in LearningQueue
             /\ learning'[q].pc = learning[q].pc /\ learning'[q].seen = learning[q].seen
             /\ learning'[q].aborted = learning[q].aborted
             /\ learning'[q].pending = learning[q].pending
             /\ learning'[q].attempt = IF q \in Mapped /\ learning[q].attempt = "live"
                                       THEN "aborted" ELSE learning[q].attempt
  <2>1. learning[q] \in LearningQueue
    BY <1>0
  <2>2. learning'[q] = IF q \in Mapped /\ learning[q].attempt = "live"
                       THEN [learning[q] EXCEPT !.attempt = "aborted"] ELSE learning[q]
    BY <1>1
  <2> QED  BY <2>1, <2>2 DEF LearningQueue
<1>3. learning' \in Seq(LearningQueue) /\ Len(learning') = Len(learning)
  <2>1. learning' \in [1 .. Len(learning) -> LearningQueue]
    BY <1>1, <1>2
  <2> QED  BY <1>0, <2>1
<1>4. LearningKept
  BY <1>0, <1>2, <1>3, SameQueues
<1> QED  BY <1>0, <1>2, <1>3, <1>4

\* Lemma: a turn joins the queue in the map, or begins a new one.
LEMMA EnqueuedIs ==
  ASSUME StateInv, Enqueued, service = "up"
  PROVE  /\ LearningKept
         /\ \A q \in DOMAIN learning :
              /\ learning'[q].aborted = learning[q].aborted
              /\ learning'[q].attempt = learning[q].attempt
              /\ Range(learning'[q].pending) \subseteq Waiting(q) \cup {turns}
              /\ \/ learning'[q].pending = learning[q].pending
                 \/ /\ q = Len(learning) /\ Len(learning') = Len(learning)
         /\ Len(learning') = Len(learning) + 1 =>
              /\ Range(learning'[Len(learning) + 1].pending) = {turns}
              /\ ~learning'[Len(learning) + 1].aborted
              /\ \A q \in DOMAIN learning : learning'[q].pending = learning[q].pending
<1>0. Len(learning) \in Nat /\ DOMAIN learning = 1 .. Len(learning)
      /\ learning \in Seq(LearningQueue) /\ turns \in Nat
  BY MappedIs DEF StateInv
<1>1. CASE \E q \in Mapped : ~learning[q].aborted
  <2> DEFINE n == Len(learning)
             old == learning[n]
             batch == Append(old.pending, turns)
  <2>1. n \in DOMAIN learning /\ old \in LearningQueue /\ Last(learning) = old
    BY <1>0, <1>1, MappedIs DEF Last
  <2>2. PICK first \in DOMAIN batch :
          learning' = [learning EXCEPT ![n].pending = SubSeq(batch, first, Len(batch))]
    BY <1>1, <2>1 DEF Enqueued
  <2>3. batch \in Seq(Nat) /\ Range(batch) = Waiting(n) \cup {turns}
    <3> DEFINE p == old.pending
    <3>1. p \in Seq(Nat) /\ Waiting(n) = Range(p)
      BY <2>1 DEF LearningQueue, Waiting
    <3> HIDE DEF p
    <3> DEFINE t == Append(p, turns)
    <3>2. /\ t \in Seq(Nat) /\ Len(p) \in Nat /\ DOMAIN p = 1 .. Len(p)
          /\ DOMAIN t = 1 .. Len(p) + 1 /\ t[Len(p) + 1] = turns
          /\ \A i \in 1 .. Len(p) : t[i] = p[i]
      BY <1>0, <3>1
    <3> HIDE DEF t
    <3>3. Range(t) = Range(p) \cup {turns}
      <4>1. ASSUME NEW x \in Range(t)  PROVE x \in Range(p) \cup {turns}
        BY <3>2, <4>1 DEF Range
      <4>2. ASSUME NEW x \in Range(p)  PROVE x \in Range(t)
        <5>1. PICK i \in 1 .. Len(p) : x = p[i]
          BY <3>2, <4>2 DEF Range
        <5> QED  BY <3>2, <5>1 DEF Range
      <4>3. turns \in Range(t)
        BY <3>2 DEF Range
      <4> QED  BY <4>1, <4>2, <4>3
    <3> QED  BY <3>1, <3>2, <3>3 DEF p, t
  <2> DEFINE rest == SubSeq(batch, first, Len(batch))
  <2> HIDE DEF batch
  <2>4. rest \in Seq(Nat) /\ Range(rest) \subseteq Range(batch)
    <3>1. first \in 1 .. Len(batch) /\ Len(batch) \in Nat
      BY <2>3
    <3>2. \A i \in first .. Len(batch) : batch[i] \in Nat
      BY <2>3, <3>1
    <3>3. /\ rest \in Seq(Nat) /\ Len(rest) = Len(batch) - first + 1
          /\ \A i \in 1 .. Len(batch) - first + 1 : rest[i] = batch[first + i - 1]
      BY <2>3, <3>1, <3>2, SubSeqProperties
    <3> QED  BY <2>3, <3>1, <3>3 DEF Range
  <2> HIDE DEF rest
  <2>5. learning' = [learning EXCEPT ![n] = [old EXCEPT !.pending = rest]]
    BY <2>2 DEF rest
  <2> DEFINE new == [old EXCEPT !.pending = rest]
  <2>6. /\ new \in LearningQueue /\ new.pc = old.pc /\ new.seen = old.seen
        /\ new.aborted = old.aborted /\ new.attempt = old.attempt /\ new.pending = rest
    BY <2>1, <2>4 DEF LearningQueue
  <2> HIDE DEF new, old
  <2>7. /\ learning' \in Seq(LearningQueue) /\ Len(learning') = n /\ learning'[n] = new
        /\ \A q \in DOMAIN learning : q # n => learning'[q] = learning[q]
    BY <1>0, <2>1, <2>5, <2>6 DEF new
  <2>8. \A q \in DOMAIN learning :
          /\ learning'[q].pc = learning[q].pc /\ learning'[q].seen = learning[q].seen
          /\ learning'[q].aborted = learning[q].aborted
          /\ learning'[q].attempt = learning[q].attempt
          /\ Range(learning'[q].pending) \subseteq Waiting(q) \cup {turns}
          /\ q # n => learning'[q].pending = learning[q].pending
    BY <2>3, <2>4, <2>6, <2>7 DEF old, Waiting
  <2>9. LearningKept
    BY <1>0, <2>7, <2>8, SameQueues
  <2>10. Len(learning') = Len(learning) /\ Len(learning') # Len(learning) + 1
    <3>1. \A k \in Nat : k # k + 1
      OBVIOUS
    <3>2. Len(learning') = Len(learning)
      BY <2>7
    <3> QED  BY <1>0, <3>1, <3>2
  <2> QED  BY <2>8, <2>9, <2>10
<1>2. CASE ~\E q \in Mapped : ~learning[q].aborted
  <2> DEFINE new == [NewQueue EXCEPT !.pending = <<turns>>]
  <2>1. learning' = Append(learning, new)
    BY <1>2 DEF Enqueued
  <2>2. /\ new \in LearningQueue /\ new.pc = "waiting" /\ ~new.aborted
        /\ new.pending = <<turns>>
    <3>1. <<turns>> \in Seq(Nat)
      BY <1>0
    <3> QED  BY <3>1, FinishedIs DEF LearningQueue
  <2> HIDE DEF new
  <2>3. Range(<<turns>>) = {turns}
    BY DEF Range
  <2>4. /\ learning' \in Seq(LearningQueue) /\ Len(learning') = Len(learning) + 1
        /\ \A q \in DOMAIN learning : learning'[q] = learning[q]
        /\ learning'[Len(learning) + 1] = new
    BY <1>0, <2>1, <2>2
  <2> QED  BY <1>0, <1>2, <2>2, <2>3, <2>4 DEF LearningKept, Waiting
<1> QED  BY <1>1, <1>2

\* Lemma: a step that leaves the queues alone.
LEMMA SameLearning == StateInv /\ learning' = learning => LearningKept
BY DEF StateInv, LearningKept

\* Steps of a drain, and the steps that change the queues otherwise.
DrainNext ==
  \E q \in DOMAIN learning :
    DrainStep(q) \/ DrainFailed(q) \/ \E input \in Asked : ChildTool(q, input)

\* Lemma: no other step does.
LEMMA NextIs ==
  ASSUME [LearningNext]_learningVars
  PROVE  \/ DrainNext
         \/ TurnStarted \/ AgentDisposed \/ \E completed \in BOOLEAN : TurnEnded(completed)
         \/ \E c \in DOMAIN calls : PolicyDecided(c) /\ AbortMapped
         \/ UNCHANGED <<learning, learned, rested, agent, turns>>
               /\ (dropped' = dropped \/ CloseService)
         \/ UNCHANGED <<learning, learned, rested, dropped, turns, service, calls, enabled>>
               /\ (AgentBusy \/ Interrupted \/ AgentIdle \/ AgentResumed)
BY DEF LearningNext, DrainNext, Foreground, AgentBusy, Interrupted, AgentIdle, AgentResumed,
       ForegroundTool, DocumentStep, DocumentFailed, SetPolicy, CallStep, PolicyUpdated,
       PolicyReadBack, PolicyDecided, Drained, PolicyFailed, Closed, CloseService, learningVars, learnVars, learner

\* Lemma: a step is one of the policy or leaves every learning where it is.
LEMMA StepLearning ==
  ASSUME StateInv, [LearningNext]_learningVars
  PROVE  DrainNext \/ LearningKept
<1>1. ASSUME NEW completed, TurnEnded(completed)  PROVE LearningKept
  BY <1>1, EnqueuedIs, SameLearning DEF TurnEnded
<1>2. TurnStarted => LearningKept
  BY TurnStartedIs
<1>3. AbortMapped => LearningKept
  BY AbortMappedIs
<1> QED  BY <1>1, <1>2, <1>3, NextIs, SameLearning DEF AgentDisposed

-----------------------------------------------------------------------------
(* Each part of the invariant                                              *)

\* Lemma: a call goes on.
LEMMA CallIs ==
  ASSUME StateInv, NEW c \in DOMAIN calls, CallStep(c) \/ PolicyFailed(c)
  PROVE  /\ calls' \in Seq(PolicyCall) /\ Len(calls') = Len(calls)
         /\ \A d \in DOMAIN calls : d # c => calls'[d] = calls[d]
         /\ calls'[c].want = calls[c].want
         /\ \/ /\ calls[c].pc = "update" /\ calls'[c].pc = "read"
               /\ enabled' = calls[c].want /\ learning' = learning
               /\ \A earlier \in 1 .. c - 1 : calls[earlier].pc # "update"
            \/ /\ calls[c].pc = "read" /\ calls'[c].pc = "decide"
               /\ enabled' = enabled /\ learning' = learning
            \/ /\ calls[c].pc = "decide" /\ calls'[c].pc = "acked" /\ calls'[c].next = calls[c].next
               /\ (calls[c].next \/ Mapped = {}) /\ enabled' = enabled /\ learning' = learning
            \/ /\ calls[c].pc = "decide" /\ calls'[c].pc = "drain" /\ enabled' = enabled
               /\ calls'[c].tail = Len(learning) /\ Mapped # {} /\ AbortMapped
            \/ /\ calls[c].pc = "drain" /\ calls'[c].pc \in {"acked", "rejected"}
               /\ calls'[c].next = calls[c].next /\ enabled' = enabled /\ learning' = learning
               /\ learning[calls[c].tail].pc \in Ended
            \/ /\ calls'[c].pc = "rejected" /\ enabled' = enabled /\ learning' = learning
               /\ \A earlier \in 1 .. c - 1 : calls[earlier].pc # "update"
<1> DEFINE old == calls[c]
<1>0. /\ calls \in Seq(PolicyCall) /\ old \in PolicyCall /\ enabled \in BOOLEAN
      /\ Len(learning) \in Nat /\ Len(calls) \in Nat /\ DOMAIN calls = 1 .. Len(calls)
  BY DEF StateInv
<1>1. ASSUME NEW new \in PolicyCall, calls' = [calls EXCEPT ![c] = new]
      PROVE  /\ calls' \in Seq(PolicyCall) /\ Len(calls') = Len(calls) /\ calls'[c] = new
             /\ \A d \in DOMAIN calls : d # c => calls'[d] = calls[d]
  BY <1>0, <1>1
<1>3. CASE PolicyUpdated(c)
  <2>1. calls' = [calls EXCEPT ![c] = [old EXCEPT !.pc = "read"]]
    BY <1>3 DEF PolicyUpdated
  <2> DEFINE new == [old EXCEPT !.pc = "read"]
  <2>4. new \in PolicyCall /\ new.want = old.want /\ new.pc = "read"
    BY <1>0 DEF PolicyCall
  <2>5. calls' = [calls EXCEPT ![c] = new]
    BY <2>1
  <2> HIDE DEF new, old
  <2>2. /\ calls' \in Seq(PolicyCall) /\ Len(calls') = Len(calls)
        /\ \A d \in DOMAIN calls : d # c => calls'[d] = calls[d]
        /\ calls'[c].want = old.want /\ calls'[c].pc = "read"
    BY <1>1, <2>4, <2>5
  <2> QED  BY <1>3, <2>2 DEF PolicyUpdated, old
<1>4. CASE PolicyReadBack(c)
  <2>1. calls' = [calls EXCEPT ![c] = [old EXCEPT !.pc = "decide", !.next = enabled]]
    BY <1>4 DEF PolicyReadBack
  <2> DEFINE new == [old EXCEPT !.pc = "decide", !.next = enabled]
  <2>4. new \in PolicyCall /\ new.want = old.want /\ new.pc = "decide"
    BY <1>0 DEF PolicyCall
  <2>5. calls' = [calls EXCEPT ![c] = new]
    BY <2>1
  <2> HIDE DEF new, old
  <2>2. /\ calls' \in Seq(PolicyCall) /\ Len(calls') = Len(calls)
        /\ \A d \in DOMAIN calls : d # c => calls'[d] = calls[d]
        /\ calls'[c].want = old.want /\ calls'[c].pc = "decide"
    BY <1>1, <2>4, <2>5
  <2> QED  BY <1>4, <2>2 DEF PolicyReadBack, old
<1>5. CASE PolicyDecided(c) /\ (old.next \/ Mapped = {})
  <2>1. calls' = [calls EXCEPT ![c] = [old EXCEPT !.pc = "acked"]]
    BY <1>5 DEF PolicyDecided
  <2>2. old.pc = "decide" /\ enabled' = enabled /\ learning' = learning
    BY <1>5 DEF PolicyDecided
  <2> DEFINE new == [old EXCEPT !.pc = "acked"]
  <2>4. new \in PolicyCall /\ new.want = old.want /\ new.pc = "acked" /\ new.next = old.next
    BY <1>0 DEF PolicyCall
  <2>5. calls' = [calls EXCEPT ![c] = new]
    BY <2>1
  <2> HIDE DEF new, old
  <2>3. /\ calls' \in Seq(PolicyCall) /\ Len(calls') = Len(calls)
        /\ \A d \in DOMAIN calls : d # c => calls'[d] = calls[d]
        /\ calls'[c].want = old.want /\ calls'[c].pc = "acked" /\ calls'[c].next = old.next
    BY <1>1, <2>4, <2>5
  <2> QED  BY <1>5, <2>2, <2>3 DEF old
<1>6. CASE PolicyDecided(c) /\ ~(old.next \/ Mapped = {})
  <2>1. calls' = [calls EXCEPT ![c] = [old EXCEPT !.pc = "drain", !.tail = Len(learning)]]
    BY <1>6 DEF PolicyDecided
  <2>2. old.pc = "decide" /\ enabled' = enabled /\ AbortMapped /\ Mapped # {}
    BY <1>6 DEF PolicyDecided
  <2> DEFINE new == [old EXCEPT !.pc = "drain", !.tail = Len(learning)]
  <2>4. new \in PolicyCall /\ new.want = old.want /\ new.pc = "drain" /\ new.tail = Len(learning)
    BY <1>0 DEF PolicyCall
  <2>5. calls' = [calls EXCEPT ![c] = new]
    BY <2>1
  <2> HIDE DEF new, old
  <2>3. /\ calls' \in Seq(PolicyCall) /\ Len(calls') = Len(calls)
        /\ \A d \in DOMAIN calls : d # c => calls'[d] = calls[d]
        /\ calls'[c].want = old.want /\ calls'[c].pc = "drain"
        /\ calls'[c].tail = Len(learning)
    BY <1>1, <2>4, <2>5
  <2> QED  BY <2>2, <2>3 DEF old
<1>7. CASE Drained(c)
  <2>1. PICK pc \in {"acked", "rejected"} : calls' = [calls EXCEPT ![c] = [old EXCEPT !.pc = pc]]
    BY <1>7 DEF Drained
  <2>2. old.pc = "drain" /\ enabled' = enabled /\ learning' = learning
        /\ learning[old.tail].pc \in Ended
    BY <1>7 DEF Drained
  <2> DEFINE new == [old EXCEPT !.pc = pc]
  <2>4. new \in PolicyCall /\ new.want = old.want /\ new.pc = pc /\ new.next = old.next
    BY <1>0 DEF PolicyCall
  <2>5. calls' = [calls EXCEPT ![c] = new]
    BY <2>1
  <2> HIDE DEF new, old
  <2>3. /\ calls' \in Seq(PolicyCall) /\ Len(calls') = Len(calls)
        /\ \A d \in DOMAIN calls : d # c => calls'[d] = calls[d]
        /\ calls'[c].want = old.want /\ calls'[c].pc = pc /\ calls'[c].next = old.next
    BY <1>1, <2>4, <2>5
  <2> QED  BY <2>2, <2>3 DEF old
<1>8. CASE PolicyFailed(c)
  <2>1. calls' = [calls EXCEPT ![c] = [old EXCEPT !.pc = "rejected"]]
    BY <1>8 DEF PolicyFailed
  <2> DEFINE new == [old EXCEPT !.pc = "rejected"]
  <2>4. new \in PolicyCall /\ new.want = old.want /\ new.pc = "rejected"
    BY <1>0 DEF PolicyCall
  <2>5. calls' = [calls EXCEPT ![c] = new]
    BY <2>1
  <2> HIDE DEF new, old
  <2>2. /\ calls' \in Seq(PolicyCall) /\ Len(calls') = Len(calls)
        /\ \A d \in DOMAIN calls : d # c => calls'[d] = calls[d]
        /\ calls'[c].want = old.want /\ calls'[c].pc = "rejected"
    BY <1>1, <2>4, <2>5
  <2> QED  BY <1>8, <2>2 DEF PolicyFailed, old
<1> QED  BY <1>3, <1>4, <1>5, <1>6, <1>7, <1>8 DEF CallStep

\* Lemma: what happens to the operations otherwise.
LEMMA OpsStep ==
  ASSUME StateInv, [LearningNext]_learningVars
  PROVE  DrainNext \/ (OpsInv' /\ Owners' \subseteq Owners \cup {0})
<1>0. OpsInv
  BY DEF StateInv
<1>1. CASE UNCHANGED storeVars
  BY <1>0, <1>1 DEF OpsInv, Owners, storeVars
<1>2. ASSUME NEW input, ForegroundTool(input)  PROVE OpsInv' /\ Owners' \subseteq Owners \cup {0}
  BY <1>0, <1>2, SubmitOps DEF ForegroundTool
<1>3. DocumentStep => OpsInv' /\ Owners' \subseteq Owners
  BY <1>0, StoreSteps DEF DocumentStep
<1>4. ASSUME DocumentFailed  PROVE OpsInv' /\ Owners' \subseteq Owners
  <2>1. ops # <<>> /\ Settle(1)
    BY <1>4 DEF DocumentFailed, FileFailed, InTurn
  <2> QED  BY <1>0, <2>1, SettleOps
<1>5. \/ DrainNext \/ UNCHANGED storeVars \/ DocumentStep \/ DocumentFailed
      \/ \E input : ForegroundTool(input)
  BY DEF LearningNext, DrainNext, Foreground, AgentBusy, TurnStarted, Interrupted, TurnEnded,
         AgentIdle, AgentDisposed, AgentResumed, SetPolicy, CallStep, PolicyUpdated,
         PolicyReadBack, PolicyDecided, Drained, PolicyFailed, CloseService, Closed, learningVars
<1> QED  BY <1>1, <1>2, <1>3, <1>4, <1>5

\* Lemma: the queue that moves, in its place.
LEMMA MovedIs ==
  ASSUME StateInv, NEW q \in DOMAIN learning, QueueMoved(q)
  PROVE  /\ learning' \in Seq(LearningQueue) /\ Len(learning') = Len(learning)
         /\ DOMAIN learning' = DOMAIN learning
         /\ \A p \in DOMAIN learning : p # q => learning'[p] = learning[p]
<1> DEFINE new == learning'[q]
<1>1. new \in LearningQueue /\ learning' = [learning EXCEPT ![q] = new]
  BY DEF QueueMoved
<1> HIDE DEF new
<1> QED  BY <1>1 DEF StateInv

\* Lemma: what may change of the rest.
LEMMA RestIs ==
  ASSUME StateInv, [LearningNext]_learningVars, ~DrainNext
  PROVE  /\ \/ UNCHANGED <<calls, enabled>>
            \/ /\ \E want \in BOOLEAN : SetPolicy(want)
               /\ UNCHANGED <<enabled, learning>>
            \/ \E c \in DOMAIN calls : CallStep(c) \/ PolicyFailed(c)
         /\ service' = service \/ CloseService \/ Closed
         /\ rested' = rested \/ TurnStarted
BY DEF LearningNext, DrainNext, Foreground, AgentBusy, TurnStarted, Interrupted, TurnEnded,
       AgentIdle, AgentDisposed, AgentResumed, ForegroundTool, DocumentStep, DocumentFailed,
       SetPolicy, CallStep, PolicyUpdated, PolicyReadBack, PolicyDecided, Drained, PolicyFailed,
       CloseService, Closed, learningVars, learnVars, learner

\* Lemma: a turn of the agent starts and ends by the two actions of turns alone.
LEMMA AgentIs ==
  ASSUME StateInv, [LearningNext]_learningVars
  PROVE  \/ TurnStarted \/ \E completed \in BOOLEAN : TurnEnded(completed)
         \/ /\ turns' = turns /\ agent' \in Agent /\ agent'.inTurn = agent.inTurn
            /\ agent.inTurn => agent'.busy = agent.busy
<1>0. agent \in Agent
  BY DEF StateInv
<1>1. CASE UNCHANGED <<turns, agent>>
  BY <1>0, <1>1
<1>2. CASE AgentBusy \/ Interrupted \/ AgentIdle \/ AgentDisposed \/ AgentResumed
  <2>1. /\ turns' = turns
        /\ \/ agent' = [agent EXCEPT !.busy = TRUE] /\ ~agent.busy
           \/ agent' = [agent EXCEPT !.interrupted = TRUE]
           \/ agent' = [agent EXCEPT !.busy = FALSE] /\ ~agent.inTurn
           \/ agent' = [agent EXCEPT !.alive = FALSE]
           \/ agent' = [agent EXCEPT !.alive = TRUE]
    BY <1>2 DEF AgentBusy, Interrupted, AgentIdle, AgentDisposed, AgentResumed
  <2>2. agent.inTurn => agent.busy
    BY DEF StateInv
  <2>3. ASSUME NEW f \in {"busy", "interrupted", "alive"}, NEW b \in BOOLEAN,
               agent' = [agent EXCEPT ![f] = b]
        PROVE  /\ agent' \in Agent /\ agent'.inTurn = agent.inTurn
               /\ f # "busy" => agent'.busy = agent.busy
    BY <1>0, <2>3 DEF Agent
  <2>4. CASE agent' = [agent EXCEPT !.busy = TRUE] /\ ~agent.busy
    <3>1. agent' \in Agent /\ agent'.inTurn = agent.inTurn
      BY <2>3, <2>4
    <3>2. ~agent.inTurn
      BY <2>2, <2>4
    <3> QED  BY <2>1, <3>1, <3>2
  <2>5. CASE agent' = [agent EXCEPT !.busy = FALSE] /\ ~agent.inTurn
    BY <2>1, <2>3, <2>5
  <2>6. CASE \/ agent' = [agent EXCEPT !.interrupted = TRUE]
             \/ agent' = [agent EXCEPT !.alive = FALSE]
             \/ agent' = [agent EXCEPT !.alive = TRUE]
    BY <2>1, <2>3, <2>6
  <2> QED  BY <2>1, <2>4, <2>5, <2>6
<1>3. ASSUME NEW q \in DOMAIN learning, NEW input,
             DrainStep(q) \/ DrainFailed(q) \/ ChildTool(q, input)
      PROVE  UNCHANGED <<turns, agent>>
  BY <1>3 DEF DrainStep, Drain, PolicyRead, Polled, IdleSeen, Delayed, Raised, Rechecked,
     ChildCreated, ChildEnded, ChildDisposed, DrainFailed, ChildTool, foreground
<1> QED  BY <1>1, <1>2, <1>3
         DEF LearningNext, Foreground, ForegroundTool, DocumentStep, DocumentFailed,
             SetPolicy, CallStep, PolicyUpdated, PolicyReadBack, PolicyDecided, Drained,
             PolicyFailed, CloseService, Closed, learningVars, learnVars, learner

\* Lemma: every step keeps the types of the state.
LEMMA StateStep ==
  ASSUME StateInv, AttemptInv, OwnersInv, [LearningNext]_learningVars
  PROVE  StateInv'
<1>1. turns' \in Nat /\ agent' \in Agent /\ (agent'.inTurn => agent'.busy /\ turns' # 0)
  <2>0. turns \in Nat /\ agent \in Agent /\ (agent.inTurn => agent.busy /\ turns # 0)
    BY DEF StateInv
  <2>1. CASE TurnStarted
    <3>1. turns' = turns + 1 /\ agent' = [agent EXCEPT !.inTurn = TRUE] /\ agent.busy
      BY <2>1 DEF TurnStarted
    <3>2. agent' \in Agent /\ agent'.busy = agent.busy
      BY <2>0, <3>1 DEF Agent
    <3> QED  BY <2>0, <3>1, <3>2
  <2>2. ASSUME NEW completed, TurnEnded(completed)
        PROVE  turns' = turns /\ agent' \in Agent /\ ~agent'.inTurn
    <3>1. turns' = turns /\ agent' = [agent EXCEPT !.inTurn = FALSE, !.interrupted = FALSE]
      BY <2>2 DEF TurnEnded
    <3> QED  BY <2>0, <3>1 DEF Agent
  <2> QED  BY <2>0, <2>1, <2>2, AgentIs
<1>2. CASE DrainNext
  <2>1. PICK q \in DOMAIN learning : Moved(q)
    BY <1>2, DrainMoves DEF DrainNext
  <2>2. learning' \in Seq(LearningQueue) /\ OpsInv' /\ UNCHANGED <<calls, enabled, service>>
    BY <2>1, MovedIs DEF Moved, QueueMoved, OwnersMoved, foreground
  <2>3. rested' \in BOOLEAN
    BY <2>1 DEF Moved, AttemptMoved, StateInv
  <2> QED  BY <1>1, <2>2, <2>3 DEF StateInv
<1>3. CASE ~DrainNext
  <2>1. learning' \in Seq(LearningQueue) /\ OpsInv'
    BY <1>3, StepLearning, OpsStep DEF LearningKept
  <2>2. calls' \in Seq(PolicyCall) /\ enabled' \in BOOLEAN
    <3>0. calls \in Seq(PolicyCall) /\ enabled \in BOOLEAN
      BY DEF StateInv
    <3>1. ASSUME NEW want \in BOOLEAN, SetPolicy(want)  PROVE calls' \in Seq(PolicyCall)
      <4> DEFINE call == [want |-> want, pc |-> "update", next |-> want, tail |-> 0]
      <4>1. calls' = Append(calls, call) /\ call \in PolicyCall
        BY <3>1 DEF SetPolicy, PolicyCall
      <4> HIDE DEF call
      <4> QED  BY <3>0, <4>1
    <3>2. ASSUME NEW c \in DOMAIN calls, CallStep(c) \/ PolicyFailed(c)
          PROVE  calls' \in Seq(PolicyCall) /\ enabled' \in BOOLEAN
      <4>0. calls[c] \in PolicyCall
        BY <3>0, <3>2
      <4>1. calls[c].want \in BOOLEAN
        BY <4>0, ZenonT(30) DEF PolicyCall
      <4> QED  BY <3>0, <3>2, <4>1, CallIs
    <3> QED  BY <1>3, <3>0, <3>1, <3>2, RestIs
  <2>3. service' \in {"up", "closing", "closed"}
    BY <1>3, RestIs DEF StateInv, CloseService, Closed
  <2>4. rested' \in BOOLEAN
    BY <1>3, RestIs DEF StateInv, TurnStarted
  <2> QED  BY <1>1, <2>1, <2>2, <2>3, <2>4 DEF StateInv
<1> QED  BY <1>2, <1>3

\* Lemma: a child that is released has nothing left.
LEMMA OwnersStep ==
  ASSUME StateInv, AttemptInv, OwnersInv, [LearningNext]_learningVars
  PROVE  OwnersInv'
<1>1. CASE DrainNext
  <2>1. PICK q \in DOMAIN learning : Moved(q)
    BY <1>1, DrainMoves DEF DrainNext
  <2> QED  BY <2>1, MovedIs DEF Moved, QueueMoved, OwnersMoved, OwnersInv
<1>2. CASE ~DrainNext
  <2>1. LearningKept /\ Owners' \subseteq Owners \cup {0}
    BY <1>2, StepLearning, OpsStep
  <2>2. DOMAIN learning \subseteq DOMAIN learning'
    BY <2>1 DEF LearningKept, StateInv
  <2> QED  BY <2>1, <2>2 DEF LearningKept, OwnersInv
<1> QED  BY <1>1, <1>2

\* Lemma: drains go on one after the other.
LEMMA OrderStep ==
  ASSUME StateInv, AttemptInv, OwnersInv, OrderInv, [LearningNext]_learningVars
  PROVE  OrderInv'
<1>0. Len(learning) \in Nat /\ DOMAIN learning = 1 .. Len(learning)
  BY MappedIs
<1>1. CASE DrainNext
  <2>1. PICK q \in DOMAIN learning : Moved(q)
    BY <1>1, DrainMoves DEF DrainNext
  <2>2. /\ DOMAIN learning' = DOMAIN learning /\ Len(learning') = Len(learning)
        /\ \A p \in DOMAIN learning : p # q => learning'[p] = learning[p]
        /\ learning[q].pc \notin Ended
        /\ (learning[q].pc = "waiting" => \A p \in 1 .. q - 1 : learning[p].pc \in Ended)
        /\ (learning'[q].pc \in Ended \/ learning'[q].aborted = learning[q].aborted)
    BY <2>1, MovedIs DEF Moved, QueueMoved
  <2>3. ASSUME NEW r \in DOMAIN learning, learning'[r].pc # "waiting", NEW p \in 1 .. r - 1
        PROVE  learning'[p].pc \in Ended
    <3>1. p \in DOMAIN learning /\ r \in Nat /\ q \in Nat
      BY <1>0
    <3>2. CASE r = q
      <4>1. p # q /\ learning[p].pc \in Ended
        BY <2>2, <3>1, <3>2 DEF OrderInv
      <4> QED  BY <2>2, <3>1, <4>1
    <3>3. CASE r # q
      <4>1. learning[p].pc \in Ended
        BY <2>2, <2>3, <3>3 DEF OrderInv
      <4> QED  BY <2>2, <3>1, <4>1
    <3> QED  BY <3>2, <3>3
  <2>4. ASSUME NEW r \in 1 .. Len(learning) - 1
        PROVE  learning'[r].pc \in Ended \/ learning'[r].aborted
    <3>1. r \in DOMAIN learning /\ (learning[r].pc \in Ended \/ learning[r].aborted)
      BY <1>0 DEF OrderInv
    <3> QED  BY <2>2, <3>1
  <2> QED  BY <2>2, <2>3, <2>4 DEF OrderInv
<1>2. CASE ~DrainNext
  <2>1. LearningKept
    BY <1>2, StepLearning
  <2>2. /\ Len(learning') \in Nat /\ DOMAIN learning' = 1 .. Len(learning')
        /\ Len(learning') \in {Len(learning), Len(learning) + 1}
        /\ Len(learning') = Len(learning) + 1 =>
             /\ learning'[Len(learning) + 1].pc = "waiting"
             /\ \A q \in Mapped : learning[q].aborted
    BY <2>1 DEF LearningKept
  <2>k. \A q \in DOMAIN learning : /\ learning'[q].pc = learning[q].pc
                                   /\ learning[q].aborted => learning'[q].aborted
    BY <2>1 DEF LearningKept
  <2> DEFINE n == Len(learning)
             m == Len(learning')
  <2>3. ASSUME NEW r \in DOMAIN learning', learning'[r].pc # "waiting", NEW p \in 1 .. r - 1
        PROVE  learning'[p].pc \in Ended
    <3>1. r \in 1 .. m /\ n \in Nat /\ m \in {n, n + 1} /\ (m = n + 1 => r # n + 1)
      BY <1>0, <2>2, <2>3
    <3> HIDE DEF n, m
    <3>2. r \in 1 .. n /\ p \in 1 .. n
      BY <3>1
    <3>a. r \in DOMAIN learning /\ p \in DOMAIN learning
      BY <1>0, <3>2 DEF n
    <3>3. learning[r].pc # "waiting"
      BY <2>k, <2>3, <3>a
    <3>4. learning[p].pc \in Ended
      BY <2>3, <3>a, <3>3 DEF OrderInv
    <3> QED  BY <2>k, <3>a, <3>4
  <2>4. ASSUME NEW r \in 1 .. Len(learning') - 1
        PROVE  learning'[r].pc \in Ended \/ learning'[r].aborted
    <3>1. r \in 1 .. m - 1 /\ n \in Nat /\ m \in {n, n + 1}
      BY <1>0, <2>2
    <3> HIDE DEF n, m
    <3>2. r \in 1 .. n /\ (r \in 1 .. n - 1 \/ (r = n /\ m = n + 1))
      BY <3>1
    <3>a. r \in DOMAIN learning
      BY <1>0, <3>2 DEF n
    <3>3. CASE r \in 1 .. n - 1
      <4>1. learning[r].pc \in Ended \/ learning[r].aborted
        BY <3>3 DEF OrderInv, n
      <4> QED  BY <2>k, <3>a, <4>1
    <3>4. CASE r = n /\ m = n + 1
      <4>1. learning[r].pc \in Ended \/ r \in Mapped
        <5>1. learning # <<>>
          BY <3>2 DEF n
        <5> QED  BY <3>4, <5>1, MappedIs DEF n
      <4>2. learning[r].pc \in Ended \/ learning[r].aborted
        BY <2>2, <3>4, <4>1 DEF n, m
      <4> QED  BY <2>k, <3>a, <4>2
    <3> QED  BY <3>2, <3>3, <3>4
  <2> QED  BY <2>3, <2>4 DEF OrderInv
<1> QED  BY <1>1, <1>2

\* Lemma: apart from the drains and the start of a turn, attempts are left alone.
LEMMA AttemptsKept ==
  ASSUME StateInv, [LearningNext]_learningVars, ~DrainNext, ~TurnStarted
  PROVE  /\ \A q \in DOMAIN learning : learning'[q].attempt = learning[q].attempt
         /\ rested' = rested /\ (agent'.inTurn => agent.inTurn)
<1>1. ASSUME NEW completed, TurnEnded(completed)
      PROVE  /\ \A q \in DOMAIN learning : learning'[q].attempt = learning[q].attempt
             /\ ~agent'.inTurn
  <2>1. agent' = [agent EXCEPT !.inTurn = FALSE, !.interrupted = FALSE] /\ agent \in Agent
    BY <1>1 DEF TurnEnded, StateInv
  <2>2. ~agent'.inTurn
    BY <2>1 DEF Agent
  <2> QED  BY <1>1, <2>2, EnqueuedIs DEF TurnEnded
<1>2. AbortMapped => \A q \in DOMAIN learning : learning'[q].attempt = learning[q].attempt
  BY AbortMappedIs
<1>3. \A q \in DOMAIN learning : learning'[q].attempt = learning[q].attempt
  BY <1>1, <1>2, NextIs DEF AgentDisposed
<1>4. agent'.inTurn => agent.inTurn
  BY <1>1, AgentIs
<1>5. rested' = rested
  BY RestIs
<1> QED  BY <1>3, <1>4, <1>5

\* Lemma: a signal that is aborted stays aborted.
LEMMA ServiceStep ==
  ASSUME StateInv, AttemptInv, OwnersInv, [LearningNext]_learningVars, service # "up"
  PROVE  service' # "up"
<1>1. CASE DrainNext
  <2>1. PICK q \in DOMAIN learning : Moved(q)
    BY <1>1, DrainMoves DEF DrainNext
  <2> QED  BY <2>1 DEF Moved, QueueMoved, foreground
<1>2. CASE ~DrainNext
  BY <1>2, RestIs DEF CloseService, Closed
<1> QED  BY <1>1, <1>2

\* Lemma: every step keeps what is known of an attempt.
LEMMA AttemptStep ==
  ASSUME StateInv, OrderInv, AttemptInv, OwnersInv, [LearningNext]_learningVars
  PROVE  AttemptInv'
<1>0. service # "up" => service' # "up"
  BY ServiceStep
<1>1. CASE DrainNext
  <2>1. PICK q \in DOMAIN learning : Moved(q)
    BY <1>1, DrainMoves DEF DrainNext
  <2>2. /\ DOMAIN learning' = DOMAIN learning /\ agent' = agent /\ service' = service
        /\ \A r \in DOMAIN learning : r # q => learning'[r] = learning[r]
    BY <2>1, MovedIs DEF Moved, QueueMoved, AttemptMoved, foreground
  <2>r. rested => rested'
    <3>1. rested' \in {rested, TRUE}
      BY <2>1 DEF Moved, AttemptMoved
    <3> QED  BY <3>1
  <2>3. ASSUME NEW r \in DOMAIN learning, r # q
        PROVE  /\ learning'[r].pc \in Attempting => learning'[r].attempt # "none"
               /\ learning'[r].pc \in Rested /\ ~AttemptCancelled(r)' => rested'
               /\ agent'.inTurn /\ learning'[r].pc \in InBatch => AttemptCancelled(r)'
    <3>1. learning'[r] = learning[r] /\ agent' = agent /\ service' = service
      BY <2>2, <2>3
    <3>2. AttemptCancelled(r)' <=> AttemptCancelled(r)
      BY <3>1 DEF AttemptCancelled, Cancelled
    <3> QED  BY <2>r, <3>1, <3>2 DEF AttemptInv
  <2>4. /\ learning'[q].pc \in Attempting => learning'[q].attempt # "none"
        /\ learning'[q].pc \in Rested /\ ~AttemptCancelled(q)' => rested'
        /\ agent'.inTurn /\ learning'[q].pc \in InBatch => AttemptCancelled(q)'
    <3>1. /\ learning'[q].pc \in Attempting => learning'[q].attempt # "none"
          /\ \/ rested'
             \/ learning'[q].pc \notin Rested
             \/ learning[q].pc \in Rested /\ learning'[q].attempt = learning[q].attempt
          /\ learning'[q].pc \in InBatch =>
               \/ ~agent.busy
               \/ learning[q].pc \in InBatch /\ learning'[q].attempt = learning[q].attempt
      BY <2>1 DEF Moved, AttemptMoved
    <3>2. /\ learning'[q].pc \in Ended \/ learning'[q].aborted = learning[q].aborted
          /\ (agent.inTurn => agent.busy)
      BY <2>1 DEF Moved, QueueMoved, StateInv
    <3>3. learning'[q].pc \in Rested /\ ~AttemptCancelled(q)' => rested'
      <4>1. ASSUME learning'[q].pc \in Rested, ~AttemptCancelled(q)', ~rested'
            PROVE  FALSE
        <5>1. /\ learning[q].pc \in Rested /\ learning'[q].attempt = learning[q].attempt
              /\ learning'[q].pc \notin Ended
          BY <3>1, <4>1 DEF Rested, Ended
        <5>2. AttemptCancelled(q)
          BY <2>r, <4>1, <5>1 DEF AttemptInv
        <5>3. learning'[q].aborted = learning[q].aborted
          BY <3>2, <5>1
        <5>4. AttemptCancelled(q)'
          BY <2>2, <5>1, <5>2, <5>3 DEF AttemptCancelled, Cancelled
        <5> QED  BY <4>1, <5>4
      <4> QED  BY <4>1
    <3>4. agent'.inTurn /\ learning'[q].pc \in InBatch => AttemptCancelled(q)'
      BY <2>2, <3>1, <3>2 DEF AttemptInv, AttemptCancelled, Cancelled, InBatch, Ended
    <3> QED  BY <3>1, <3>3, <3>4
  <2> QED  BY <2>2, <2>3, <2>4 DEF AttemptInv
<1>2. CASE TurnStarted
  <2>1. /\ DOMAIN learning' = DOMAIN learning /\ service' = service
        /\ \A q \in DOMAIN learning :
              /\ learning'[q].pc = learning[q].pc /\ learning'[q].aborted = learning[q].aborted
              /\ learning'[q].attempt = IF q \in Mapped /\ learning[q].attempt = "live"
                                        THEN "aborted" ELSE learning[q].attempt
    <3>1. LearningKept /\ Len(learning') = Len(learning)
      BY <1>2, TurnStartedIs
    <3>2. DOMAIN learning' = DOMAIN learning
      BY <3>1 DEF LearningKept, StateInv
    <3> QED  BY <1>2, <3>1, <3>2, TurnStartedIs DEF LearningKept, TurnStarted
  <2>2. ASSUME NEW r \in DOMAIN learning, learning[r].pc \in Attempting
        PROVE  learning'[r].attempt # "none" /\ AttemptCancelled(r)'
    <3>1. learning[r].attempt \in {"live", "aborted"}
      <4>1. learning[r] \in LearningQueue
        BY DEF StateInv
      <4>2. learning[r].attempt \in {"none", "live", "aborted"}
        BY <4>1 DEF LearningQueue
      <4> QED  BY <2>2, <4>2 DEF AttemptInv
    <3>2. CASE r \in Mapped
      BY <2>1, <3>1, <3>2 DEF AttemptCancelled
    <3>3. CASE r \notin Mapped
      <4>1. r # Len(learning) /\ r \in 1 .. Len(learning) /\ Len(learning) \in Nat
        <5>1. learning # <<>> /\ learning[r].pc \notin Ended
          BY <2>2 DEF Attempting, InBatch, Ended, StateInv
        <5> QED  BY <3>3, <5>1, MappedIs
      <4>2. r \in 1 .. Len(learning) - 1
        BY <4>1
      <4>3. learning[r].aborted
        BY <2>2, <4>2 DEF OrderInv, Attempting, InBatch, Ended
      <4> QED  BY <2>1, <3>1, <4>3 DEF AttemptCancelled, Cancelled
    <3> QED  BY <3>2, <3>3
  <2>3. Rested \subseteq Attempting /\ InBatch \subseteq Attempting
    BY DEF Rested, Attempting
  <2> QED  BY <2>1, <2>2, <2>3 DEF AttemptInv
<1>3. CASE ~DrainNext /\ ~TurnStarted
  <2>1. /\ \A q \in DOMAIN learning : learning'[q].attempt = learning[q].attempt
        /\ rested' = rested /\ (agent'.inTurn => agent.inTurn)
    BY <1>3, AttemptsKept
  <2>2. LearningKept
    BY <1>3, StepLearning
  <2>3. \A q \in DOMAIN learning : learning'[q].pc = learning[q].pc
                                   /\ (learning[q].aborted => learning'[q].aborted)
    BY <2>2 DEF LearningKept
  <2>4. ASSUME NEW r \in DOMAIN learning
        PROVE  /\ learning'[r].pc \in Attempting => learning'[r].attempt # "none"
               /\ learning'[r].pc \in Rested /\ ~AttemptCancelled(r)' => rested'
               /\ agent'.inTurn /\ learning'[r].pc \in InBatch => AttemptCancelled(r)'
    BY <1>0, <2>1, <2>3 DEF AttemptInv, AttemptCancelled, Cancelled
  <2>5. ASSUME NEW r \in DOMAIN learning', r \notin DOMAIN learning
        PROVE  learning'[r].pc = "waiting"
    <3> DEFINE n == Len(learning)
               m == Len(learning')
    <3>1. /\ n \in Nat /\ m \in {n, n + 1} /\ r \in 1 .. m /\ r \notin 1 .. n
          /\ (m = n + 1 => learning'[n + 1].pc = "waiting")
      BY <2>2, <2>5, MappedIs DEF LearningKept
    <3> HIDE DEF n, m
    <3> QED  BY <3>1
  <2>6. "waiting" \notin Attempting /\ "waiting" \notin Rested /\ "waiting" \notin InBatch
    BY DEF Attempting, Rested, InBatch
  <2> QED  BY <2>4, <2>5, <2>6 DEF AttemptInv
<1> QED  BY <1>1, <1>2, <1>3

\* Lemma: a step that hands no turn over, and drops turns of queues it cancels.
LEMMA TurnsKept ==
  ASSUME TurnsInv, NEW D,
         Completed \subseteq Completed', DOMAIN learning' = DOMAIN learning,
         \A q \in DOMAIN learning : Waiting(q)' = Waiting(q) /\ (Cancelled(q) => Cancelled(q)'),
         D \subseteq Completed, D \cap learned = {},
         \A q \in DOMAIN learning : ~Cancelled(q)' => Waiting(q) \cap D = {},
         learned' = learned, dropped' = dropped \cup D
  PROVE  TurnsInv'
<1>1. /\ dropped' \subseteq Completed' /\ learned' \subseteq Completed'
      /\ learned' \cap dropped' = {}
  BY DEF TurnsInv
<1>2. ASSUME NEW q \in DOMAIN learning
      PROVE  /\ Waiting(q)' \subseteq Completed' /\ Waiting(q)' \cap learned' = {}
             /\ ~Cancelled(q)' => Waiting(q)' \cap dropped' = {}
             /\ \A p \in DOMAIN learning : p # q => Waiting(p)' \cap Waiting(q)' = {}
  <2>1. /\ Waiting(q)' \subseteq Completed' /\ Waiting(q)' \cap learned' = {}
        /\ \A p \in DOMAIN learning : p # q => Waiting(p)' \cap Waiting(q)' = {}
    BY DEF TurnsInv
  <2>2. ASSUME ~Cancelled(q)'  PROVE Waiting(q)' \cap dropped' = {}
    <3>1. Waiting(q) \cap dropped = {} /\ Waiting(q) \cap D = {} /\ Waiting(q)' = Waiting(q)
      BY <2>2 DEF TurnsInv
    <3> QED  BY <3>1
  <2> QED  BY <2>1, <2>2
<1> QED  BY <1>1, <1>2 DEF TurnsInv

\* Lemma: a step that drops nothing.
LEMMA TurnsSame ==
  ASSUME TurnsInv, Completed \subseteq Completed', DOMAIN learning' = DOMAIN learning,
         \A q \in DOMAIN learning : Waiting(q)' = Waiting(q) /\ (Cancelled(q) => Cancelled(q)'),
         learned' = learned, dropped' = dropped
  PROVE  TurnsInv'
<1> DEFINE D == {}
<1>1. /\ D \subseteq Completed /\ D \cap learned = {} /\ dropped' = dropped \cup D
      /\ \A q \in DOMAIN learning : Waiting(q) \cap D = {}
  OBVIOUS
<1> HIDE DEF D
<1> QED  BY <1>1, TurnsKept

\* Lemma: the turns that wait in some of the queues, all of which are cancelled.
LEMMA TurnsDropped ==
  ASSUME TurnsInv, Completed \subseteq Completed', DOMAIN learning' = DOMAIN learning,
         \A q \in DOMAIN learning : Waiting(q)' = Waiting(q) /\ (Cancelled(q) => Cancelled(q)'),
         NEW S \in SUBSET DOMAIN learning, \A q \in S : Cancelled(q)',
         learned' = learned, dropped' = dropped \cup UNION {Waiting(q) : q \in S}
  PROVE  TurnsInv'
<1> DEFINE D == UNION {Waiting(q) : q \in S}
<1>1. \A q \in DOMAIN learning : /\ Waiting(q) \subseteq Completed /\ Waiting(q) \cap learned = {}
                                 /\ \A p \in DOMAIN learning : p # q => Waiting(p) \cap Waiting(q) = {}
  BY DEF TurnsInv
<1>2. D \subseteq Completed /\ D \cap learned = {}
  BY <1>1
<1>3. ASSUME NEW q \in DOMAIN learning, ~Cancelled(q)'  PROVE Waiting(q) \cap D = {}
  <2>1. q \notin S
    BY <1>3
  <2>2. \A p \in S : Waiting(p) \cap Waiting(q) = {}
    BY <1>1, <2>1
  <2> QED  BY <2>2
<1>4. dropped' = dropped \cup D
  OBVIOUS
<1> HIDE DEF D
<1> QED  BY <1>2, <1>3, <1>4, TurnsKept

\* Lemma: a drain drops the turns of its queue, or hands them over.
LEMMA TurnsDrained ==
  ASSUME TurnsInv, StateInv, NEW q \in DOMAIN learning, Moved(q)
  PROVE  TurnsInv'
<1>1. /\ DOMAIN learning' = DOMAIN learning /\ agent' = agent /\ service' = service
      /\ turns' = turns
      /\ \A r \in DOMAIN learning : r # q => learning'[r] = learning[r]
  BY MovedIs DEF Moved, QueueMoved, foreground
<1>2. Completed' = Completed
  BY <1>1 DEF Completed
<1>3. \A r \in DOMAIN learning : r # q => Waiting(r)' = Waiting(r) /\ Cancelled(r)' = Cancelled(r)
  BY <1>1 DEF Waiting, Cancelled
<1>4. CASE /\ learning'[q].pending = learning[q].pending /\ learning'[q].pc \notin Ended
           /\ UNCHANGED <<learned, dropped>>
  <2>1. Waiting(q)' = Waiting(q) /\ Cancelled(q)' = Cancelled(q)
    BY <1>1, <1>4 DEF Moved, QueueMoved, Waiting, Cancelled
  <2> QED  BY <1>1, <1>2, <1>3, <1>4, <2>1, TurnsSame
<1>5. CASE learning'[q].pending = <<>> /\ \/ /\ learned' = learned
                                             /\ dropped' \in {dropped, dropped \cup Waiting(q)}
                                          \/ /\ dropped' = dropped
                                             /\ learned' = learned \cup Waiting(q)
  <2>1. Waiting(q)' = {}
    BY <1>5 DEF Waiting, Range
  <2>2. /\ Waiting(q) \subseteq Completed /\ Waiting(q) \cap learned = {}
        /\ \A r \in DOMAIN learning : r # q => Waiting(r) \cap Waiting(q) = {}
    BY DEF TurnsInv
  <2>3. \/ learned' = learned /\ dropped' = dropped
        \/ learned' = learned /\ dropped' = dropped \cup Waiting(q)
        \/ dropped' = dropped /\ learned' = learned \cup Waiting(q)
    BY <1>5
  <2>4. /\ dropped' \subseteq Completed /\ learned' \subseteq Completed
        /\ dropped' \subseteq dropped \cup Waiting(q) /\ learned' \subseteq learned \cup Waiting(q)
    BY <2>2, <2>3 DEF TurnsInv
  <2>5. learned' \cap dropped' = {}
    <3>1. CASE dropped' = dropped
      <4>1. learned \cap dropped = {}
        BY DEF TurnsInv
      <4>2. ASSUME ~Cancelled(q)  PROVE Waiting(q) \cap dropped = {}
        BY <4>2 DEF TurnsInv
      <4>3. learned' # learned => ~Cancelled(q)
        BY DEF Moved, TurnsMoved, AttemptCancelled
      <4> QED  BY <2>3, <3>1, <4>1, <4>2, <4>3
    <3>2. CASE learned' = learned
      BY <2>2, <2>4, <3>2 DEF TurnsInv
    <3> QED  BY <2>3, <3>1, <3>2
  <2>6. ASSUME NEW r \in DOMAIN learning
        PROVE  /\ Waiting(r)' \subseteq Completed /\ Waiting(r)' \cap learned' = {}
               /\ ~Cancelled(r)' => Waiting(r)' \cap dropped' = {}
               /\ \A p \in DOMAIN learning : p # r => Waiting(p)' \cap Waiting(r)' = {}
    <3>1. CASE r = q
      BY <2>1, <3>1
    <3>2. CASE r # q
      <4>1. /\ Waiting(r)' = Waiting(r) /\ Cancelled(r)' = Cancelled(r)
            /\ Waiting(r) \cap Waiting(q) = {}
        BY <1>3, <2>2, <3>2
      <4>2. /\ Waiting(r) \subseteq Completed /\ Waiting(r) \cap learned = {}
            /\ ~Cancelled(r) => Waiting(r) \cap dropped = {}
            /\ \A p \in DOMAIN learning : p # r => Waiting(p) \cap Waiting(r) = {}
        BY DEF TurnsInv
      <4>3. \A p \in DOMAIN learning : Waiting(p)' \subseteq Waiting(p)
        BY <1>3, <2>1
      <4> QED  BY <2>4, <4>1, <4>2, <4>3
    <3> QED  BY <3>1, <3>2
  <2> QED  BY <1>1, <1>2, <2>4, <2>5, <2>6 DEF TurnsInv
<1> QED  BY <1>4, <1>5 DEF Moved, TurnsMoved

\* Lemma: the turn that ends joins one queue.
LEMMA TurnsEnded ==
  ASSUME StateInv, TurnsInv, NEW completed, TurnEnded(completed)
  PROVE  TurnsInv'
<1>1. /\ turns' = turns /\ turns \in Nat /\ turns # 0 /\ agent.inTurn /\ ~agent'.inTurn
      /\ UNCHANGED <<service, dropped, learned>>
  <2>1. /\ turns' = turns /\ agent.inTurn /\ UNCHANGED <<service, dropped, learned>>
        /\ agent' = [agent EXCEPT !.inTurn = FALSE, !.interrupted = FALSE]
    BY DEF TurnEnded
  <2>2. turns \in Nat /\ turns # 0 /\ agent \in Agent
    BY <2>1 DEF StateInv
  <2>3. ~agent'.inTurn
    BY <2>1, <2>2 DEF Agent
  <2> QED  BY <2>1, <2>2, <2>3
<1>2. Completed \subseteq Completed' /\ turns \in Completed' /\ turns \notin Completed
  BY <1>1 DEF Completed
<1>3. CASE learning' = learning
  <2>2. \A q \in DOMAIN learning : Waiting(q)' = Waiting(q) /\ (Cancelled(q) => Cancelled(q)')
    BY <1>1, <1>3 DEF Waiting, Cancelled
  <2> QED  BY <1>1, <1>2, <1>3, <2>2, TurnsSame
<1>4. CASE Enqueued /\ service = "up"
  <2>1. LearningKept /\ Len(learning) \in Nat /\ DOMAIN learning = 1 .. Len(learning)
    BY <1>4, EnqueuedIs, MappedIs
  <2>2. /\ Len(learning') \in {Len(learning), Len(learning) + 1}
        /\ DOMAIN learning' = 1 .. Len(learning')
    BY <2>1 DEF LearningKept
  <2>3. \A q \in DOMAIN learning :
          /\ Waiting(q)' \subseteq Waiting(q) \cup {turns}
          /\ Cancelled(q)' = Cancelled(q)
          /\ learning'[q].pending = learning[q].pending
             \/ (q = Len(learning) /\ Len(learning') = Len(learning))
    BY <1>1, <1>4, EnqueuedIs DEF Waiting, Cancelled
  <2>4. Len(learning') = Len(learning) + 1 =>
          /\ \A new \in Nat : new = Len(learning) + 1 => Waiting(new)' = {turns}
          /\ \A q \in DOMAIN learning : Waiting(q)' = Waiting(q)
    BY <1>4, EnqueuedIs DEF Waiting
  <2>5. ASSUME NEW q \in DOMAIN learning, learning'[q].pending = learning[q].pending
        PROVE  Waiting(q)' = Waiting(q)
    BY <2>5 DEF Waiting
  <2>6. \A q \in DOMAIN learning :
          /\ Waiting(q) \subseteq Completed /\ Waiting(q) \cap learned = {}
          /\ ~Cancelled(q) => Waiting(q) \cap dropped = {}
          /\ \A p \in DOMAIN learning : p # q => Waiting(p) \cap Waiting(q) = {}
    BY DEF TurnsInv
  <2>7. turns \notin learned /\ turns \notin dropped
        /\ \A q \in DOMAIN learning : turns \notin Waiting(q)
    BY <1>2, <2>6 DEF TurnsInv
  <2>8. ASSUME NEW q \in DOMAIN learning
        PROVE  /\ Waiting(q)' \subseteq Completed' /\ Waiting(q)' \cap learned = {}
               /\ ~Cancelled(q)' => Waiting(q)' \cap dropped = {}
    BY <1>2, <2>3, <2>6, <2>7
  <2>9. CASE Len(learning') = Len(learning)
    <3>1. ASSUME NEW q \in DOMAIN learning, NEW p \in DOMAIN learning, p # q
          PROVE  Waiting(p)' \cap Waiting(q)' = {}
      <4>1. Waiting(p) \cap Waiting(q) = {} /\ turns \notin Waiting(p) /\ turns \notin Waiting(q)
        BY <2>6, <2>7, <3>1
      <4>2. Waiting(p)' = Waiting(p) \/ Waiting(q)' = Waiting(q)
        BY <2>3, <2>5, <3>1
      <4> QED  BY <2>3, <4>1, <4>2
    <3>2. DOMAIN learning' = DOMAIN learning
      BY <2>1, <2>2, <2>9
    <3>3. dropped \subseteq Completed' /\ learned \subseteq Completed' /\ learned \cap dropped = {}
      BY <1>2 DEF TurnsInv
    <3> QED  BY <1>1, <2>8, <3>1, <3>2, <3>3 DEF TurnsInv
  <2>10. CASE Len(learning') = Len(learning) + 1
    <3>0. PICK new \in Nat : new = Len(learning) + 1
      BY <2>1
    <3>1. Waiting(new)' = {turns} /\ \A q \in DOMAIN learning : Waiting(q)' = Waiting(q)
      BY <2>4, <2>10, <3>0
    <3>2. DOMAIN learning' = DOMAIN learning \cup {new}
      BY <2>1, <2>2, <2>10, <3>0
    <3>3. dropped \subseteq Completed' /\ learned \subseteq Completed' /\ learned \cap dropped = {}
      BY <1>2 DEF TurnsInv
    <3>4. /\ Waiting(new)' \subseteq Completed' /\ Waiting(new)' \cap learned = {}
          /\ Waiting(new)' \cap dropped = {}
      BY <1>2, <2>7, <3>1
    <3>5. ASSUME NEW q \in DOMAIN learning', NEW p \in DOMAIN learning', p # q
          PROVE  Waiting(p)' \cap Waiting(q)' = {}
      <4>1. CASE p \in DOMAIN learning /\ q \in DOMAIN learning
        BY <2>6, <3>1, <3>5, <4>1
      <4>2. CASE p = new /\ q \in DOMAIN learning
        BY <2>7, <3>1, <4>2
      <4>3. CASE q = new /\ p \in DOMAIN learning
        BY <2>7, <3>1, <4>3
      <4> QED  BY <3>2, <3>5, <4>1, <4>2, <4>3
    <3> QED  BY <1>1, <2>8, <3>2, <3>3, <3>4, <3>5 DEF TurnsInv
  <2> QED  BY <2>2, <2>9, <2>10
<1> QED  BY <1>3, <1>4 DEF TurnEnded

\* Lemma: no turn is learned again, or after it was dropped.
LEMMA TurnsStep ==
  ASSUME StateInv, AttemptInv, OwnersInv, TurnsInv, [LearningNext]_learningVars
  PROVE  TurnsInv'
<1>0. service # "up" => service' # "up"
  BY ServiceStep
<1>1. CASE DrainNext
  <2>1. PICK q \in DOMAIN learning : Moved(q)
    BY <1>1, DrainMoves DEF DrainNext
  <2> QED  BY <2>1, TurnsDrained
<1>2. ASSUME NEW completed, TurnEnded(completed)  PROVE TurnsInv'
  BY <1>2, TurnsEnded
<1>3. CASE TurnStarted
  <2>1. LearningKept /\ Len(learning') = Len(learning)
    BY <1>3, TurnStartedIs
  <2>2. DOMAIN learning' = DOMAIN learning
    BY <2>1 DEF LearningKept, StateInv
  <2>3. UNCHANGED <<service, dropped, learned>> /\ turns' = turns + 1
        /\ ~agent.inTurn /\ agent' = [agent EXCEPT !.inTurn = TRUE]
    BY <1>3 DEF TurnStarted
  <2>4. Completed \subseteq Completed'
    <3>1. agent'.inTurn /\ turns \in Nat
      BY <2>3 DEF StateInv, Agent
    <3> QED  BY <2>3, <3>1 DEF Completed
  <2>5. \A q \in DOMAIN learning : Waiting(q)' = Waiting(q) /\ (Cancelled(q) => Cancelled(q)')
    <3>1. \A q \in DOMAIN learning : /\ learning'[q].aborted = learning[q].aborted
                                     /\ learning'[q].pending = learning[q].pending
      BY <1>3, TurnStartedIs
    <3> QED  BY <2>3, <3>1 DEF Waiting, Cancelled
  <2> QED  BY <2>2, <2>3, <2>4, <2>5, TurnsSame
<1>a. ASSUME ~TurnStarted, ~\E completed \in BOOLEAN : TurnEnded(completed)
      PROVE  Completed' = Completed
  BY <1>a, AgentIs DEF Completed
<1>4. CASE /\ AbortMapped /\ UNCHANGED <<service, learned>>
           /\ ~TurnStarted /\ ~\E completed \in BOOLEAN : TurnEnded(completed)
  <2>1. /\ LearningKept /\ Len(learning') = Len(learning)
        /\ dropped' = dropped \cup UNION {Waiting(q) : q \in Mapped}
    BY <1>4, AbortMappedIs
  <2>2. DOMAIN learning' = DOMAIN learning /\ Mapped \in SUBSET DOMAIN learning
    BY <2>1, MappedIs DEF LearningKept, StateInv
  <2>3. \A q \in DOMAIN learning : Waiting(q)' = Waiting(q) /\ (Cancelled(q) => Cancelled(q)')
    BY <1>4, <2>1, AbortMappedIs DEF Waiting, Cancelled, LearningKept
  <2>4. \A q \in Mapped : Cancelled(q)'
    BY <1>4, AbortMappedIs DEF Cancelled
  <2> QED  BY <1>4, <1>a, <2>1, <2>2, <2>3, <2>4, TurnsDropped
<1>5. CASE /\ UNCHANGED <<learning, learned>> /\ (dropped' = dropped \/ CloseService)
           /\ ~TurnStarted /\ ~\E completed \in BOOLEAN : TurnEnded(completed)
  <2>1. \A q \in DOMAIN learning : Waiting(q)' = Waiting(q) /\ (Cancelled(q) => Cancelled(q)')
    BY <1>0, <1>5 DEF Waiting, Cancelled
  <2>2. CASE dropped' = dropped
    BY <1>5, <1>a, <2>1, <2>2, TurnsSame
  <2>3. CASE CloseService
    <3>1. dropped' = dropped \cup UNION {Waiting(q) : q \in DOMAIN learning}
      BY <2>3 DEF CloseService, Waiting
    <3>2. \A q \in DOMAIN learning : Cancelled(q)'
      BY <2>3 DEF CloseService, Cancelled
    <3> QED  BY <1>5, <1>a, <2>1, <3>1, <3>2, TurnsDropped
  <2> QED  BY <1>5, <2>2, <2>3
<1> QED  BY <1>1, <1>2, <1>3, <1>4, <1>5, NextIs
         DEF AgentDisposed, PolicyDecided, learner

\* Lemma: out of the map, every queue has ended.
LEMMA AllEnded ==
  ASSUME StateInv, OrderInv, NEW r \in DOMAIN learning, learning[r].pc \in Ended
  PROVE  \A q \in 1 .. r : learning[q].pc \in Ended
<1>1. r \in Nat /\ \A q \in 1 .. r : q = r \/ q \in 1 .. r - 1
  BY MappedIs
<1>2. \A q \in 1 .. r - 1 : learning[q].pc \in Ended
  BY DEF OrderInv, Ended
<1> QED  BY <1>1, <1>2

\* Lemma: when no queue is mapped, every learning has ended.
LEMMA UnmappedEnded ==
  ASSUME StateInv, OrderInv, Mapped = {}
  PROVE  \A q \in DOMAIN learning : learning[q].pc \in Ended
<1> SUFFICES ASSUME NEW q \in DOMAIN learning  PROVE learning[q].pc \in Ended
  OBVIOUS
<1>1. /\ Len(learning) \in Nat /\ DOMAIN learning = 1 .. Len(learning)
      /\ learning # <<>> /\ Len(learning) \in DOMAIN learning
  BY DEF StateInv
<1>2. learning[Len(learning)].pc \in Ended
  BY <1>1, MappedIs
<1> QED  BY <1>1, <1>2, AllEnded

\* Lemma: when learning is off, a queue that will see it does.
LEMMA QuietKept ==
  ASSUME StateInv, AttemptInv, OwnersInv, [LearningNext]_learningVars, ~enabled
  PROVE  /\ DOMAIN learning \subseteq DOMAIN learning'
         /\ \A r \in DOMAIN learning' :
              \/ Quiet(r)'
              \/ r \in DOMAIN learning /\ ~Quiet(r)
<1>1. CASE DrainNext
  <2>1. PICK q \in DOMAIN learning : Moved(q)
    BY <1>1, DrainMoves DEF DrainNext
  <2>2. /\ DOMAIN learning' = DOMAIN learning /\ (Quiet(q) => Quiet(q)')
        /\ \A r \in DOMAIN learning : r # q => learning'[r] = learning[r]
    BY <2>1, MovedIs DEF Moved
  <2>3. \A r \in DOMAIN learning : r # q => Quiet(r)' = Quiet(r)
    BY <2>2 DEF Quiet
  <2> QED  BY <2>2, <2>3
<1>2. CASE ~DrainNext
  <2>1. LearningKept
    BY <1>2, StepLearning
  <2>2. /\ Len(learning) \in Nat /\ DOMAIN learning = 1 .. Len(learning)
        /\ Len(learning') \in {Len(learning), Len(learning) + 1}
        /\ DOMAIN learning' = 1 .. Len(learning')
    BY <2>1, MappedIs DEF LearningKept
  <2>3. \A r \in DOMAIN learning : Quiet(r)' = Quiet(r)
    BY <2>1 DEF LearningKept, Quiet
  <2>4. ASSUME NEW r \in DOMAIN learning', r \notin DOMAIN learning  PROVE Quiet(r)'
    <3> DEFINE n == Len(learning)
               m == Len(learning')
    <3>1. /\ n \in Nat /\ m \in {n, n + 1} /\ r \in 1 .. m /\ r \notin 1 .. n
          /\ (m = n + 1 => learning'[n + 1].pc = "waiting")
      BY <2>1, <2>2, <2>4 DEF LearningKept
    <3> HIDE DEF n, m
    <3>2. learning'[r].pc = "waiting"
      BY <3>1
    <3> QED  BY <3>2 DEF Quiet
  <2>5. DOMAIN learning \subseteq DOMAIN learning'
    BY <2>1 DEF LearningKept, StateInv
  <2> QED  BY <2>3, <2>4, <2>5
<1> QED  BY <1>1, <1>2

\* What CallsInv says of one call.
CallInv(c) ==
  /\ calls[c].pc # "update" => \A earlier \in 1 .. c - 1 : calls[earlier].pc # "update"
  /\ LastWord(c) /\ calls[c].pc \in {"read", "decide", "drain", "acked"} => ~enabled
  /\ calls[c].pc = "drain" => calls[c].tail \in DOMAIN learning
  /\ Off(c) => \A q \in DOMAIN learning :
                 Quiet(q) \/ (calls[c].pc = "drain" /\ q <= calls[c].tail)

\* Lemma: a call that does not move.
LEMMA CallWaits ==
  ASSUME StateInv, AttemptInv, OwnersInv, [LearningNext]_learningVars,
         NEW c \in DOMAIN calls, CallInv(c), calls'[c] = calls[c],
         \A earlier \in 1 .. c - 1 :
           calls[earlier].pc # "update" => calls'[earlier].pc # "update",
         LastWord(c)' => LastWord(c),
         LastWord(c) /\ calls[c].pc \in {"read", "decide", "drain", "acked"} /\ ~enabled => ~enabled'
  PROVE  CallInv(c)'
<1>1. DOMAIN learning \subseteq DOMAIN learning'
  <2>1. CASE DrainNext
    <3>1. PICK q \in DOMAIN learning : Moved(q)
      BY <2>1, DrainMoves DEF DrainNext
    <3> QED  BY <3>1, MovedIs DEF Moved
  <2>2. CASE ~DrainNext
    <3>1. LearningKept
      BY <2>2, StepLearning
    <3> QED  BY <3>1 DEF LearningKept, StateInv
  <2> QED  BY <2>1, <2>2
<1>2. ASSUME Off(c)', NEW q \in DOMAIN learning'
      PROVE  Quiet(q)' \/ (calls'[c].pc = "drain" /\ q <= calls'[c].tail)
  <2>1. Off(c) /\ ~enabled
    BY <1>2 DEF Off, CallInv
  <2>2. \/ Quiet(q)'
        \/ q \in DOMAIN learning /\ ~Quiet(q)
    BY <1>2, <2>1, QuietKept
  <2> QED  BY <2>1, <2>2 DEF CallInv
<1> QED  BY <1>1, <1>2 DEF CallInv

\* Lemma: nobody moves a call, or one that moves, or one that is new.
LEMMA CallsStep ==
  ASSUME StateInv, AttemptInv, OrderInv, OwnersInv, CallsInv, [LearningNext]_learningVars
  PROVE  CallsInv'
<1>0. /\ calls \in Seq(PolicyCall) /\ Len(calls) \in Nat /\ DOMAIN calls = 1 .. Len(calls)
      /\ \A c \in DOMAIN calls : CallInv(c)
  BY DEF StateInv, CallsInv, CallInv
<1>1. CASE UNCHANGED <<calls, enabled>>
  <2>1. ASSUME NEW c \in DOMAIN calls  PROVE CallInv(c)'
    <3>1. LastWord(c)' = LastWord(c)
      BY <1>1 DEF LastWord
    <3> QED  BY <1>0, <1>1, <3>1, CallWaits
  <2> QED  BY <1>1, <2>1 DEF CallsInv, CallInv
<1>2. ASSUME NEW want \in BOOLEAN, SetPolicy(want), UNCHANGED <<enabled, learning>>
      PROVE  CallsInv'
  <2> DEFINE call == [want |-> want, pc |-> "update", next |-> want, tail |-> 0]
             n == Len(calls)
  <2>1. calls' = Append(calls, call) /\ call \in PolicyCall /\ call.pc = "update"
    BY <1>2 DEF SetPolicy, PolicyCall
  <2> HIDE DEF call
  <2>2. /\ Len(calls') = n + 1 /\ DOMAIN calls' = 1 .. n + 1 /\ calls'[n + 1] = call
        /\ \A c \in 1 .. n : calls'[c] = calls[c]
    BY <1>0, <2>1
  <2>3. ASSUME NEW c \in 1 .. n  PROVE CallInv(c)'
    <3>1. /\ \A later \in c + 1 .. n : later \in c + 1 .. n + 1 /\ calls'[later] = calls[later]
          /\ c \in DOMAIN calls /\ \A earlier \in 1 .. c - 1 : earlier \in 1 .. n
      BY <1>0, <2>2
    <3>2. LastWord(c)' => LastWord(c)
      BY <2>2, <3>1 DEF LastWord
    <3> QED  BY <1>0, <1>2, <2>2, <3>1, <3>2, CallWaits
  <2>4. ASSUME NEW c \in {n + 1}  PROVE CallInv(c)'
    <3>1. calls'[c].pc = "update"
      BY <2>1, <2>2, <2>4
    <3> QED  BY <3>1 DEF CallInv, Off
  <2>5. \A c \in DOMAIN calls' : c \in 1 .. n \/ c \in {n + 1}
    BY <1>0, <2>2
  <2>6. \A c \in DOMAIN calls' : CallInv(c)'
    BY <2>3, <2>4, <2>5
  <2> QED  BY <2>6 DEF CallsInv, CallInv
<1>3. ASSUME NEW d \in DOMAIN calls, CallStep(d) \/ PolicyFailed(d)
      PROVE  CallsInv'
  <2> DEFINE old == calls[d].pc
             new == calls'[d].pc
  <2>1. /\ calls' \in Seq(PolicyCall) /\ Len(calls') = Len(calls) /\ DOMAIN calls' = DOMAIN calls
        /\ \A c \in DOMAIN calls : c # d => calls'[c] = calls[c]
        /\ calls'[d].want = calls[d].want
    <3>1. /\ calls' \in Seq(PolicyCall) /\ Len(calls') = Len(calls)
          /\ \A c \in DOMAIN calls : c # d => calls'[c] = calls[c]
          /\ calls'[d].want = calls[d].want
      BY <1>3, CallIs
    <3> QED  BY <1>0, <3>1
  <2>2. \A c \in DOMAIN calls : calls'[c].want = calls[c].want
    BY <2>1
  <2>3. ASSUME NEW c \in DOMAIN calls  PROVE LastWord(c)' = LastWord(c)
    <3>1. \A later \in c + 1 .. Len(calls) : later \in DOMAIN calls
      BY <1>0
    <3> QED  BY <2>1, <2>2, <3>1 DEF LastWord
  <2>4. \/ /\ old = "update" /\ new = "read" /\ enabled' = calls[d].want
           /\ \A earlier \in 1 .. d - 1 : calls[earlier].pc # "update"
        \/ /\ old = "read" /\ new = "decide" /\ enabled' = enabled
        \/ /\ old = "decide" /\ new = "acked" /\ calls'[d].next = calls[d].next
           /\ (calls[d].next \/ Mapped = {}) /\ enabled' = enabled /\ learning' = learning
        \/ /\ old = "decide" /\ new = "drain" /\ enabled' = enabled
           /\ calls'[d].tail = Len(learning) /\ Mapped # {} /\ AbortMapped
        \/ /\ old = "drain" /\ new \in {"acked", "rejected"} /\ learning' = learning
           /\ calls'[d].next = calls[d].next /\ enabled' = enabled
           /\ learning[calls[d].tail].pc \in Ended
        \/ /\ new = "rejected" /\ enabled' = enabled
           /\ \A earlier \in 1 .. d - 1 : calls[earlier].pc # "update"
    BY <1>3, CallIs
  <2>5. new # "update"
    BY <2>4
  <2>6. ASSUME NEW c \in DOMAIN calls, c # d  PROVE CallInv(c)'
    <3>1. ASSUME NEW earlier \in 1 .. c - 1, calls[earlier].pc # "update"
          PROVE  calls'[earlier].pc # "update"
      <4>1. earlier \in DOMAIN calls
        BY <1>0, <2>6
      <4> QED  BY <2>1, <2>5, <3>1, <4>1
    <3>2. ASSUME LastWord(c), calls[c].pc \in {"read", "decide", "drain", "acked"}, ~enabled
          PROVE  ~enabled'
      <4>1. CASE enabled' = enabled
        BY <3>2, <4>1
      <4>2. CASE old = "update" /\ enabled' = calls[d].want
        <5>1. d \notin 1 .. c - 1
          BY <1>0, <3>2, <4>2 DEF CallInv
        <5>2. d \in c + 1 .. Len(calls)
          BY <1>0, <2>6, <5>1
        <5> QED  BY <3>2, <4>2, <5>2 DEF LastWord
      <4> QED  BY <2>4, <4>1, <4>2
    <3> QED  BY <1>0, <2>1, <2>3, <2>6, <3>1, <3>2, CallWaits
  <2>7. CallInv(d)'
    <3>1. \A earlier \in 1 .. d - 1 : calls'[earlier].pc # "update"
      <4>1. \A earlier \in 1 .. d - 1 : calls[earlier].pc # "update"
        BY <1>0, <2>4 DEF CallInv
      <4>2. \A earlier \in 1 .. d - 1 : earlier \in DOMAIN calls /\ earlier # d
        BY <1>0
      <4> QED  BY <2>1, <4>1, <4>2
    <3>2. ASSUME LastWord(d)', new \in {"read", "decide", "drain", "acked"}  PROVE ~enabled'
      <4>1. LastWord(d) /\ ~calls[d].want
        BY <2>3, <3>2 DEF LastWord
      <4>2. old = "update" \/ (~enabled /\ enabled' = enabled)
        BY <1>0, <2>4, <3>2, <4>1 DEF CallInv
      <4> QED  BY <2>4, <3>2, <4>1, <4>2
    <3>3. ASSUME new = "drain"
          PROVE  calls'[d].tail = Len(learning) /\ DOMAIN learning' = DOMAIN learning
                 /\ Len(learning) \in DOMAIN learning
      <4>1. calls'[d].tail = Len(learning) /\ Mapped # {} /\ AbortMapped
        BY <2>4, <3>3
      <4>2. DOMAIN learning' = DOMAIN learning
        BY <4>1, AbortMappedIs DEF LearningKept, StateInv
      <4> QED  BY <4>1, <4>2, MappedIs
    <3>4. ASSUME Off(d)', NEW q \in DOMAIN learning'
          PROVE  Quiet(q)' \/ (new = "drain" /\ q <= calls'[d].tail)
      <4>0. LastWord(d)' /\ new \in {"drain", "acked"} /\ ~calls'[d].next
        BY <3>4 DEF Off
      <4>1. CASE new = "drain"
        <5>1. q \in 1 .. Len(learning) /\ calls'[d].tail = Len(learning) /\ Len(learning) \in Nat
          BY <3>3, <3>4, <4>1, MappedIs
        <5> QED  BY <4>1, <5>1
      <4>2. CASE new = "acked" /\ old = "decide"
        <5>1. Mapped = {} /\ learning' = learning
          BY <2>4, <4>0, <4>2
        <5>2. learning'[q].pc \in Ended
          BY <3>4, <5>1, UnmappedEnded
        <5> QED  BY <5>2 DEF Quiet
      <4>3. CASE new = "acked" /\ old = "drain"
        <5>1. /\ learning' = learning /\ ~calls[d].next /\ learning[calls[d].tail].pc \in Ended
              /\ calls[d].tail \in DOMAIN learning
          BY <1>0, <2>4, <4>0, <4>3 DEF CallInv
        <5>2. Off(d)
          BY <2>3, <4>0, <4>3, <5>1 DEF Off
        <5>3. Quiet(q) \/ q <= calls[d].tail
          BY <1>0, <3>4, <5>1, <5>2 DEF CallInv
        <5>4. CASE q <= calls[d].tail
          <6>1. q \in 1 .. calls[d].tail
            BY <3>4, <5>1, <5>4, MappedIs
          <6>2. learning[q].pc \in Ended
            BY <5>1, <6>1, AllEnded
          <6> QED  BY <5>1, <6>2 DEF Quiet
        <5>5. CASE Quiet(q)
          BY <5>1, <5>5 DEF Quiet
        <5> QED  BY <5>3, <5>4, <5>5
      <4> QED  BY <2>4, <4>0, <4>1, <4>2, <4>3
    <3> QED  BY <3>1, <3>2, <3>3, <3>4 DEF CallInv
  <2>8. \A c \in DOMAIN calls' : CallInv(c)'
    BY <2>1, <2>6, <2>7
  <2> QED  BY <2>8 DEF CallsInv, CallInv
<1>4. CASE DrainNext
  <2>1. PICK q \in DOMAIN learning : Moved(q)
    BY <1>4, DrainMoves DEF DrainNext
  <2> QED  BY <1>1, <2>1 DEF Moved, QueueMoved, foreground
<1> QED  BY <1>1, <1>2, <1>3, <1>4, RestIs

\* Lemma: a service that has closed has no drain.
LEMMA ClosedStep ==
  ASSUME StateInv, AttemptInv, OrderInv, OwnersInv, ClosedInv, [LearningNext]_learningVars
  PROVE  ClosedInv'
<1>1. CASE DrainNext
  <2>1. PICK q \in DOMAIN learning : Moved(q)
    BY <1>1, DrainMoves DEF DrainNext
  <2>2. service' = service /\ learning[q].pc \notin Ended
    BY <2>1 DEF Moved, QueueMoved, foreground
  <2> QED  BY <2>2 DEF ClosedInv
<1>2. CASE ~DrainNext /\ service = "closed"
  <2>1. LearningKept /\ service # "up"
    BY <1>2, StepLearning
  <2>2. /\ learning' \in Seq(LearningQueue) /\ Len(learning') = Len(learning)
        /\ \A q \in DOMAIN learning : learning'[q].pc = learning[q].pc
    BY <2>1 DEF LearningKept
  <2>3. DOMAIN learning' = DOMAIN learning
    BY <2>2 DEF StateInv
  <2> QED  BY <1>2, <2>2, <2>3 DEF ClosedInv
<1>3. CASE ~DrainNext /\ service # "closed"
  <2>1. service' = "closed" => Mapped = {} /\ learning' = learning
    BY <1>3, RestIs DEF CloseService, Closed, learner
  <2> QED  BY <2>1, UnmappedEnded DEF ClosedInv
<1> QED  BY <1>1, <1>2, <1>3

-----------------------------------------------------------------------------
(* The theorems                                                            *)

\* Lemma: a new process.
LEMMA LearningStarts == LearningInit => LearningInv
<1> SUFFICES ASSUME LearningInit  PROVE LearningInv
  OBVIOUS
<1>1. /\ learning = <<>> /\ calls = <<>> /\ ops = <<>> /\ turns = 0 /\ ~agent.inTurn
      /\ dropped = {} /\ learned = {} /\ service = "up" /\ enabled \in BOOLEAN /\ rested = FALSE
      /\ agent = [alive |-> TRUE, busy |-> FALSE, inTurn |-> FALSE, interrupted |-> FALSE]
  BY DEF LearningInit, StoreInit
<1>2. learning \in Seq(LearningQueue) /\ calls \in Seq(PolicyCall) /\ ops \in Seq({})
  BY <1>1
<1>3. Len(ops) = 0 /\ ops = [i \in 1 .. Len(ops) |-> ops[i]]
  <2>1. Len(ops) = 0
    BY <1>1
  <2> QED  BY <1>2, <2>1, SequenceIs
<1>4. OpsInv /\ Owners = {}
  BY <1>3 DEF OpsInv, Owners
<1>5. agent \in Agent
  BY <1>1 DEF Agent
<1>6. StateInv
  BY <1>1, <1>2, <1>4, <1>5 DEF StateInv
<1>7. DOMAIN learning = {} /\ DOMAIN calls = {} /\ Len(learning) = 0
  BY <1>1
<1>8. \A i \in 1 .. Len(learning) - 1 : FALSE
  BY <1>7
<1> QED  BY <1>1, <1>4, <1>6, <1>7, <1>8
         DEF LearningInv, OrderInv, TurnsInv, AttemptInv, OwnersInv, CallsInv, ClosedInv

\* Lemma: and every step.
LEMMA LearningStep == LearningInv /\ [LearningNext]_learningVars => LearningInv'
BY StateStep, OrderStep, TurnsStep, AttemptStep, OwnersStep, CallsStep, ClosedStep DEF LearningInv

\* Lemma: learning that is off is quiet, and nothing it dropped comes back.
LEMMA LearningOff == LearningInv => OffStaysOff
<1> SUFFICES ASSUME LearningInv  PROVE OffStaysOff
  OBVIOUS
<1>0. StateInv /\ TurnsInv /\ OwnersInv /\ CallsInv /\ ClosedInv
  BY DEF LearningInv
<1>1. ASSUME SwitchedOff \/ service = "closed", NEW q \in DOMAIN learning
      PROVE  learning[q].pc \in Ended \cup {"waiting", "policy", "polled"}
  <2>1. CASE service = "closed"
    BY <1>0, <2>1 DEF ClosedInv
  <2>2. CASE SwitchedOff
    <3>1. PICK c \in DOMAIN calls : calls[c].pc = "acked" /\ LastWord(c) /\ ~calls[c].next
      BY <2>2 DEF SwitchedOff, LastWord
    <3>2. Off(c)
      BY <3>1 DEF Off
    <3>3. Quiet(q)
      BY <1>0, <3>1, <3>2 DEF CallsInv
    <3> QED  BY <3>3 DEF Quiet
  <2> QED  BY <1>1, <2>1, <2>2
<1>2. ASSUME SwitchedOff \/ service = "closed", NEW i \in DOMAIN ops, ops[i].by # 0
      PROVE  learning[ops[i].by].pc = "failed"
  <2>1. DOMAIN ops = 1 .. Len(ops)
    BY <1>0 DEF StateInv, OpsInv
  <2>2. ops[i].by \in Owners
    BY <2>1 DEF Owners
  <2>3. ops[i].by \in DOMAIN learning /\ learning[ops[i].by].pc \in {"child", "dispose", "failed"}
    BY <1>0, <1>2, <2>2 DEF OwnersInv
  <2> QED  BY <1>1, <1>2, <2>3 DEF Ended
<1>3. OffIsQuiet
  BY <1>1, <1>2 DEF OffIsQuiet, Ended, InBatch
<1>4. NeverRevived
  BY <1>0 DEF TurnsInv, NeverRevived, Waiting
<1> QED  BY <1>3, <1>4 DEF OffStaysOff

\* Lemma: a batch is taken after a wait that no turn interrupted.
LEMMA BatchRested ==
  ASSUME LearningInv, [LearningNext]_learningVars, learned' # learned
  PROVE  rested /\ ~agent.busy
<1>1. CASE DrainNext
  <2>1. PICK q \in DOMAIN learning : Moved(q)
    BY <1>1, DrainMoves DEF DrainNext, LearningInv
  <2> QED  BY <2>1 DEF Moved, TurnsMoved
<1>2. CASE ~DrainNext
  BY <1>2, NextIs DEF TurnStarted, AgentDisposed, TurnEnded, PolicyDecided, learner
<1> QED  BY <1>1, <1>2

\* Lemma: while a turn runs, an operation of a child that waits is cancelled.
LEMMA ChildrenCancelled ==
  ASSUME LearningInv, agent.inTurn, ops # <<>>, Head(ops).by # 0
  PROVE  Head(ops).by \in CancelledCallers
<1>0. OpsInv /\ OwnersInv /\ AttemptInv
  BY DEF LearningInv, StateInv
<1>1. Head(ops) = ops[1] /\ 1 \in 1 .. Len(ops)
  BY <1>0, OpsSequence
<1> DEFINE by == ops[1].by
<1>2. by \in Owners
  BY <1>1 DEF Owners
<1>3. by \in DOMAIN learning /\ learning[by].pc \in {"child", "dispose", "failed"}
  BY <1>0, <1>1, <1>2 DEF OwnersInv
<1>4. learning[by].pc = "child" => AttemptCancelled(by)
  BY <1>0, <1>3 DEF AttemptInv, InBatch
<1> QED  BY <1>1, <1>3, <1>4 DEF CancelledCallers, Ended

\* Lemma: what a step does to the documents and to the operations on them.
LEMMA StoreEffects ==
  ASSUME [LearningNext]_learningVars
  PROVE  \/ UNCHANGED storeVars \/ DocumentStep \/ DocumentFailed
         \/ \E by, input : input \in Asked /\ Submit(by, input)
<1>1. ASSUME NEW input \in Asked, ForegroundTool(input)
      PROVE  \E by, in : in \in Asked /\ Submit(by, in)
  BY <1>1 DEF ForegroundTool
<1>2. ASSUME NEW q, NEW input \in Asked, ChildTool(q, input)
      PROVE  \E by, in : in \in Asked /\ Submit(by, in)
  BY <1>2 DEF ChildTool
<1>3. ASSUME NEW q, DrainStep(q) \/ DrainFailed(q)  PROVE UNCHANGED storeVars
  BY <1>3 DEF DrainStep, Drain, PolicyRead, Polled, IdleSeen, Delayed, Raised, Rechecked,
     ChildCreated, ChildEnded, ChildDisposed, DrainFailed
<1>4. ASSUME NEW c, CallStep(c) \/ PolicyFailed(c)  PROVE UNCHANGED storeVars
  BY <1>4 DEF CallStep, PolicyUpdated, PolicyReadBack, PolicyDecided, Drained, PolicyFailed
<1> QED  BY <1>1, <1>2, <1>3, <1>4
         DEF LearningNext, Foreground, AgentBusy, TurnStarted, Interrupted, TurnEnded,
             AgentIdle, AgentDisposed, AgentResumed, SetPolicy, CloseService, Closed,
             learningVars

\* Lemma: such an operation does not begin.
LEMMA ChildrenHeld ==
  ASSUME LearningInv, [LearningNext]_learningVars,
         agent.inTurn, ops # <<>>, Head(ops).by # 0, Head(ops).pc = "queued"
  PROVE  Head(ops') = Head(ops) \/ ops' = Tail(ops)
<1>0. OpsInv
  BY DEF LearningInv, StateInv
<1>1. CASE UNCHANGED storeVars
  BY <1>1 DEF storeVars
<1>2. ASSUME NEW by, NEW input, Submit(by, input)  PROVE Head(ops') = Head(ops)
  BY <1>0, <1>2, SubmitOps
<1>3. DocumentStep => ops' = Tail(ops)
  BY <1>0, ChildrenCancelled, StoreSteps DEF DocumentStep
<1>4. ASSUME DocumentFailed  PROVE ops' = Tail(ops)
  <2>1. Settle(1)
    BY <1>4 DEF DocumentFailed, FileFailed, InTurn
  <2> QED  BY <1>0, <2>1, SettleOps
<1> QED  BY <1>1, <1>2, <1>3, <1>4, StoreEffects

\* Theorem: once switching off is acknowledged, or the service has closed, no
\* batch is at work and no write of a child is left, except those of a child
\* whose cleanup failed; and turns that were dropped or handed to a child are
\* not learned again (index.ts: setPolicy(), enqueueLearning(), drainLearning()).
THEOREM OffForGood == LearningSpec => []OffStaysOff
<1>1. LearningInit => LearningInv
  BY LearningStarts
<1>2. LearningInv /\ [LearningNext]_learningVars => LearningInv'
  BY LearningStep
<1>3. LearningInv => OffStaysOff
  BY LearningOff
<1> QED  BY <1>1, <1>2, <1>3, PTL DEF LearningSpec

\* Theorem: a batch is taken only after one uninterrupted wait, and while a turn
\* runs no operation of a child begins (index.ts: drainLearning(), the
\* turn/start handler; store.ts: the queue of operations).
THEOREM ForegroundFirst == LearningSpec => YieldsToForeground
<1> DEFINE Yields ==
      /\ learned' # learned => rested /\ ~agent.busy
      /\ agent.inTurn /\ ops # <<>> /\ Head(ops).by # 0 /\ Head(ops).pc = "queued" /\ ops' # <<>>
           => Head(ops') = Head(ops) \/ ops' = Tail(ops)
<1>1. LearningInit => LearningInv
  BY LearningStarts
<1>2. LearningInv /\ [LearningNext]_learningVars => LearningInv'
  BY LearningStep
<1>3. LearningInv /\ [LearningNext]_learningVars => [Yields]_learningVars
  BY BatchRested, ChildrenHeld
<1>4. LearningSpec => [][Yields]_learningVars
  BY <1>1, <1>2, <1>3, PTL DEF LearningSpec
<1> QED  BY <1>4 DEF YieldsToForeground

-----------------------------------------------------------------------------
(***************************************************************************)
(* The documents.  While an operation is at work its files are those that  *)
(* it planned, computed from documents nobody else has changed since; what *)
(* is no longer among them is done.                                        *)
(***************************************************************************)
Text == Seq(STRING)

\* The document has the summary.
Has(doc, key) ==
  IF doc = Index THEN key \in Keys(docs[Index]) ELSE \E line \in docs[doc] : Remembers(line, key)

\* What an operation makes of a document.
After(op, doc) ==
  IF op.kind = "forget"
  THEN IF doc = Index THEN WithoutBullet(docs[Index], op.key) ELSE WithoutLine(docs[doc], op.key)
  ELSE IF doc = Index THEN IndexAfter(op, docs[Index])
  ELSE IF doc = op.topic THEN TopicAfter(op, docs[doc])
  ELSE IF doc = op.oldTopic THEN WithoutLine(docs[doc], op.old) ELSE docs[doc]

Files(op) == {[doc |-> doc, after |-> After(op, doc)] : doc \in Doc}

Docs(left) == {left[i].doc : i \in 1 .. Len(left)}

Planned(op, left) ==
  /\ left \in Seq(Files(op))
  /\ \A i, j \in 1 .. Len(left) : left[i].doc = left[j].doc => i = j

\* A write leaves its summary in the index and in its topic.
Entering(op, left) ==
  op.kind = "write" =>
    \A doc \in {Index, op.topic} \ {NoTopic} : Has(doc, op.key) \/ doc \in Docs(left)

DocsInv ==
  /\ DOMAIN docs = Doc /\ \A topic \in Topic : docs[topic] \subseteq Text
  /\ remembered \subseteq Summary \X (Topic \cup {NoTopic})

WaitingInv ==
  /\ \A i \in 1 .. Len(ops) : ops[i].input \in Input
  /\ \A i \in 2 .. Len(ops) : ops[i].pc = "queued"

WorkInv ==
  ops # <<>> /\ ops[1].pc # "queued" =>
    /\ Planned(ops[1].input, ops[1].left) /\ ops[1].left # <<>>
    /\ Entering(ops[1].input, ops[1].left)
    /\ Withdrawn(ops[1].input) = {}

StoreInv == OpsInv /\ DocsInv /\ WaitingInv /\ WorkInv /\ NothingLost

\* Lemma: what an operation asks for.
LEMMA InputIs ==
  ASSUME NEW op \in Input
  PROVE  /\ op.kind \in {"write", "forget"} /\ op.key \in Summary /\ op.key \in Text
         /\ op.detail \in Text /\ op.topic \in Topic \cup {NoTopic}
         /\ op.oldTopic \in Topic \cup {NoTopic}
         /\ op.old \in Summary \cup {NoSummary}
         /\ op.kind = "write" /\ op.old = NoSummary => op.oldTopic = NoTopic
<1>1. Summary \subseteq Text /\ Detail \subseteq Text /\ NoDetail \in Text
  BY StoreAssumption DEF Text, NoDetail
<1>2. CASE op \in WriteInput /\ Meaningful(op)
  BY <1>1, <1>2 DEF WriteInput, Meaningful
<1>3. CASE op \in ForgetInput
  BY <1>1, <1>3 DEF ForgetInput
<1> QED  BY <1>2, <1>3 DEF Input

\* Lemma: of two prefixes of a line one is a prefix of the other.
LEMMA PrefixesCompare ==
  ASSUME NEW a \in Text, NEW b \in Text, NEW line \in Text, IsPrefix(a, line), IsPrefix(b, line)
  PROVE  IsPrefix(a, b) \/ IsPrefix(b, a)
<1> USE DEF Text
<1>1. ASSUME NEW s \in Text, IsPrefix(s, line)
      PROVE  Len(s) <= Len(line) /\ \A i \in 1 .. Len(s) : s[i] = line[i]
  <2>1. SubSeq(s, 1, Len(s)) = SubSeq(line, 1, Len(s)) /\ Len(s) <= Len(line)
    BY <1>1 DEF IsPrefix
  <2>2. \A i \in 1 .. Len(s) : SubSeq(s, 1, Len(s))[i] = s[i] /\ SubSeq(line, 1, Len(s))[i] = line[i]
    BY <2>1
  <2> QED  BY <2>1, <2>2
<1>2. ASSUME NEW s \in Text, NEW t \in Text, Len(s) <= Len(t), \A i \in 1 .. Len(s) : s[i] = t[i]
      PROVE  IsPrefix(s, t)
  <2>1. /\ SubSeq(s, 1, Len(s)) \in Text /\ SubSeq(t, 1, Len(s)) \in Text
        /\ Len(SubSeq(s, 1, Len(s))) = Len(s) /\ Len(SubSeq(t, 1, Len(s))) = Len(s)
        /\ \A i \in 1 .. Len(s) : SubSeq(s, 1, Len(s))[i] = s[i] /\ SubSeq(t, 1, Len(s))[i] = t[i]
    BY <1>2
  <2>2. SubSeq(s, 1, Len(s)) = SubSeq(t, 1, Len(s))
    BY <1>2, <2>1, SeqEqual
  <2> QED  BY <1>2, <2>2 DEF IsPrefix
<1>3. CASE Len(a) <= Len(b)
  <2>1. \A i \in 1 .. Len(a) : a[i] = b[i]
    BY <1>1, <1>3
  <2> QED  BY <1>2, <1>3, <2>1
<1>4. CASE Len(b) <= Len(a)
  <2>1. \A i \in 1 .. Len(b) : b[i] = a[i]
    BY <1>1, <1>4
  <2> QED  BY <1>2, <1>4, <2>1
<1> QED  BY <1>3, <1>4

\* Lemma: a line remembers the summary it begins with.
LEMMA LineRemembers ==
  ASSUME NEW key \in Text, NEW detail \in Text
  PROVE  Remembers(key \o detail, key) /\ key \o detail \in Text
<1> USE DEF Text
<1>1. /\ key \o detail \in Text /\ Len(key \o detail) = Len(key) + Len(detail)
      /\ \A i \in 1 .. Len(key) : (key \o detail)[i] = key[i]
  BY ConcatProperties
<1>2. /\ SubSeq(key, 1, Len(key)) \in Text /\ SubSeq(key \o detail, 1, Len(key)) \in Text
      /\ Len(SubSeq(key, 1, Len(key))) = Len(key) /\ Len(SubSeq(key \o detail, 1, Len(key))) = Len(key)
      /\ \A i \in 1 .. Len(key) : /\ SubSeq(key, 1, Len(key))[i] = key[i]
                                  /\ SubSeq(key \o detail, 1, Len(key))[i] = (key \o detail)[i]
  BY <1>1
<1>3. SubSeq(key, 1, Len(key)) = SubSeq(key \o detail, 1, Len(key))
  BY <1>1, <1>2, SeqEqual
<1> QED  BY <1>1, <1>3 DEF Remembers, IsPrefix

\* Lemma: a write enters its summary, wherever it writes it.
LEMMA WriteEnters ==
  ASSUME NEW op \in Input, op.kind = "write"
  PROVE  /\ \A bullets : op.key \in Keys(IndexAfter(op, bullets))
         /\ \A lines : \E line \in TopicAfter(op, lines) : Remembers(line, op.key)
         /\ \A lines \in SUBSET Text : TopicAfter(op, lines) \subseteq Text
<1>1. op.key \in Text /\ op.detail \in Text
  BY InputIs
<1>2. ASSUME NEW bullets
      PROVE  op.key \in Keys(WithBullet(bullets, [key |-> op.key, link |-> op.topic]))
  <2> DEFINE new == [key |-> op.key, link |-> op.topic]
  <2>1. CASE op.key \in Keys(bullets)
    BY <2>1 DEF WithBullet
  <2>2. CASE op.key \notin Keys(bullets)
    <3>1. new \in WithBullet(bullets, new) /\ new.key = op.key
      BY <2>2 DEF WithBullet
    <3> QED  BY <3>1 DEF Keys
  <2> QED  BY <2>1, <2>2
<1>3. /\ \A lines : \E line \in WithLine(lines, op.key, op.detail) : Remembers(line, op.key)
      /\ \A lines \in SUBSET Text : WithLine(lines, op.key, op.detail) \subseteq Text
  BY <1>1, LineRemembers DEF WithLine
<1>4. \A bullets : op.key \in Keys(IndexAfter(op, bullets))
  BY <1>2 DEF IndexAfter
<1>5. \A lines : \E line \in TopicAfter(op, lines) : Remembers(line, op.key)
  BY <1>3 DEF TopicAfter
<1>6. \A lines \in SUBSET Text : TopicAfter(op, lines) \subseteq Text
  BY <1>3 DEF TopicAfter, WithoutLine
<1> QED  BY <1>4, <1>5, <1>6

\* Lemma: what a write makes of a document has its summary.
LEMMA AfterHas ==
  ASSUME NEW op \in Input, op.kind = "write", NEW doc \in {Index, op.topic} \ {NoTopic},
         docs'[doc] = After(op, doc)
  PROVE  Has(doc, op.key)'
<1>1. doc # Index => doc = op.topic
  OBVIOUS
<1> QED  BY <1>1, WriteEnters DEF Has, After

-----------------------------------------------------------------------------
(* What is kept                                                            *)

Kept(entry) ==
  IF entry[2] = NoTopic THEN entry[1] \in Keys(docs[Index])
  ELSE Ambiguous(entry[1]) \/ \E line \in docs[entry[2]] : Remembers(line, entry[1])

\* Lemma: taking lines out of a topic takes out one that remembers another
\* summary only if the two cannot be told apart.
LEMMA LineStays ==
  ASSUME NEW key \in Summary, NEW other \in Summary, other # key, ~Ambiguous(key),
         NEW lines \in SUBSET Text, NEW line \in lines, Remembers(line, key)
  PROVE  line \in WithoutLine(lines, other)
<1>1. key \in Text /\ other \in Text /\ line \in Text
  BY StoreAssumption DEF Text
<1>2. ASSUME Remembers(line, other)  PROVE FALSE
  <2>1. IsPrefix(key, other) \/ IsPrefix(other, key)
    BY <1>1, <1>2, PrefixesCompare DEF Remembers
  <2> QED  BY <2>1 DEF Ambiguous, Remembers
<1> QED  BY <1>2 DEF WithoutLine

\* Lemma: a document that an operation replaces keeps what it does not withdraw.
LEMMA Keeps ==
  ASSUME NEW op \in Input, NEW doc \in Doc, DocsInv,
         docs' = [docs EXCEPT ![doc] = After(op, doc)],
         NEW entry \in remembered, entry \notin Withdrawn(op), Kept(entry)
  PROVE  Kept(entry)'
<1> DEFINE key == entry[1]
           topic == entry[2]
<1>1. key \in Summary /\ topic \in Topic \cup {NoTopic} /\ NoTopic \notin Topic /\ Index \notin Topic
  BY StoreAssumption DEF DocsInv
<1>2. /\ op.kind \in {"write", "forget"} /\ op.key \in Summary
      /\ op.kind = "write" /\ op.oldTopic \in Topic => op.old \in Summary
  BY <1>1, InputIs
<1>3. /\ op.kind = "forget" => key # op.key
      /\ op.kind = "write" /\ key = op.old => op.key = key /\ topic = NoTopic
  BY DEF Withdrawn
<1>4. docs'[doc] = After(op, doc) /\ \A other \in Doc : other # doc => docs'[other] = docs[other]
  BY DEF DocsInv
<1>5. CASE topic = NoTopic
  <2>1. PICK bullet \in docs[Index] : bullet.key = key
    BY <1>5 DEF Kept, Keys
  <2>2. CASE doc # Index
    BY <1>4, <1>5, <2>2 DEF Kept, Doc
  <2>3. CASE doc = Index /\ op.kind = "forget"
    BY <1>3, <1>4, <1>5, <2>1, <2>3 DEF Kept, Keys, After, WithoutBullet
  <2>4. CASE doc = Index /\ op.kind = "write"
    <3>1. docs'[Index] = IndexAfter(op, docs[Index])
      BY <1>4, <2>4 DEF After
    <3>2. CASE key = op.key
      BY <1>5, <2>4, <3>1, <3>2, WriteEnters DEF Kept
    <3>3. CASE key # op.key
      <4>1. bullet \in IndexAfter(op, docs[Index])
        BY <1>3, <2>1, <2>4, <3>3 DEF IndexAfter, WithBullet, WithoutBullet
      <4> QED  BY <1>5, <2>1, <3>1, <4>1 DEF Kept, Keys
    <3> QED  BY <3>2, <3>3
  <2> QED  BY <1>2, <2>2, <2>3, <2>4
<1>6. CASE topic # NoTopic /\ Ambiguous(key)
  BY <1>6 DEF Kept
<1>7. CASE topic # NoTopic /\ ~Ambiguous(key)
  <2>0. topic \in Topic /\ topic \in Doc /\ topic # Index /\ docs[topic] \subseteq Text
    BY <1>1, <1>7 DEF Doc, DocsInv
  <2>1. PICK line \in docs[topic] : Remembers(line, key)
    BY <1>7 DEF Kept
  <2>2. ASSUME \E other \in docs'[topic] : Remembers(other, key)  PROVE Kept(entry)'
    BY <1>7, <2>2 DEF Kept
  <2>3. ASSUME NEW other \in Summary, other # key, NEW lines \in SUBSET Text, line \in lines
        PROVE  line \in WithoutLine(lines, other)
    BY <1>1, <1>7, <2>1, <2>3, LineStays
  <2>4. CASE doc # topic
    BY <1>4, <2>0, <2>1, <2>2, <2>4
  <2>5. CASE doc = topic /\ op.kind = "forget"
    <3>1. docs'[topic] = WithoutLine(docs[topic], op.key)
      BY <1>4, <2>0, <2>5 DEF After
    <3> QED  BY <1>2, <1>3, <2>0, <2>1, <2>2, <2>3, <2>5, <3>1
  <2>6. CASE doc = topic /\ op.kind = "write" /\ topic = op.topic
    <3>1. docs'[topic] = TopicAfter(op, docs[topic])
      BY <1>4, <2>0, <2>6 DEF After
    <3>2. CASE key = op.key
      BY <2>2, <2>6, <3>1, <3>2, WriteEnters
    <3>3. CASE key # op.key
      <4> DEFINE pruned == IF op.oldTopic = op.topic
                            THEN WithoutLine(docs[topic], op.old) ELSE docs[topic]
                 kept == IF Replaces(op) THEN WithoutLine(pruned, op.key) ELSE docs[topic]
      <4>1. line \in pruned /\ pruned \subseteq Text
        <5>1. CASE op.oldTopic = op.topic
          <6>1. op.old \in Summary /\ op.old # key
            BY <1>2, <1>3, <1>7, <2>0, <2>6, <5>1
          <6> QED  BY <2>0, <2>1, <2>3, <5>1, <6>1 DEF WithoutLine
        <5> QED  BY <2>0, <2>1, <5>1
      <4>2. line \in kept
        BY <1>2, <2>1, <2>3, <3>3, <4>1
      <4>3. kept \subseteq TopicAfter(op, docs[topic])
        BY DEF TopicAfter, WithLine
      <4> QED  BY <2>1, <2>2, <3>1, <4>2, <4>3
    <3> QED  BY <3>2, <3>3
  <2>7. CASE doc = topic /\ op.kind = "write" /\ topic # op.topic /\ topic = op.oldTopic
    <3>1. docs'[topic] = WithoutLine(docs[topic], op.old)
      BY <1>4, <2>0, <2>7 DEF After
    <3>2. op.old \in Summary /\ op.old # key
      BY <1>2, <1>3, <1>7, <2>0, <2>7
    <3> QED  BY <2>0, <2>1, <2>2, <2>3, <3>1, <3>2
  <2>8. CASE doc = topic /\ op.kind = "write" /\ topic # op.topic /\ topic # op.oldTopic
    <3>1. docs'[topic] = docs[topic]
      BY <1>4, <2>0, <2>8 DEF After
    <3> QED  BY <2>1, <2>2, <3>1
  <2> QED  BY <1>2, <2>4, <2>5, <2>6, <2>7, <2>8
<1> QED  BY <1>5, <1>6, <1>7

-----------------------------------------------------------------------------
(* The files an operation plans                                            *)

\* Lemma: a document that changes is a file of the plan.
LEMMA ReplacementIs ==
  ASSUME NEW op, NEW doc \in Doc
  PROVE  /\ Planned(op, Replacement(doc, After(op, doc)))
         /\ Docs(Replacement(doc, After(op, doc))) \subseteq {doc}
         /\ Docs(Replacement(doc, After(op, doc))) = {} => After(op, doc) = docs[doc]
<1> DEFINE file == [doc |-> doc, after |-> After(op, doc)]
<1>1. file \in Files(op) /\ file.doc = doc
  BY DEF Files
<1>2. CASE After(op, doc) = docs[doc]
  <2>1. Replacement(doc, After(op, doc)) = <<>>
    BY <1>2 DEF Replacement
  <2> QED  BY <1>2, <2>1 DEF Planned, Docs
<1>3. CASE After(op, doc) # docs[doc]
  <2>1. Replacement(doc, After(op, doc)) = <<file>>
    BY <1>3 DEF Replacement
  <2> HIDE DEF file
  <2>2. /\ <<file>> \in Seq(Files(op)) /\ Len(<<file>>) = 1 /\ <<file>>[1] = file
    BY <1>1
  <2>3. Docs(<<file>>) = {doc}
    BY <1>1, <2>2 DEF Docs
  <2> QED  BY <2>1, <2>2, <2>3 DEF Planned
<1> QED  BY <1>2, <1>3

\* Lemma: two plans of different documents.
LEMMA PlansJoin ==
  ASSUME NEW op, NEW a, NEW b, Planned(op, a), Planned(op, b), Docs(a) \cap Docs(b) = {}
  PROVE  Planned(op, a \o b) /\ Docs(a \o b) = Docs(a) \cup Docs(b)
<1> DEFINE m == Len(a)
           n == Len(b)
<1>1. a \in Seq(Files(op)) /\ b \in Seq(Files(op)) /\ m \in Nat /\ n \in Nat
  BY DEF Planned
<1>2. /\ a \o b \in Seq(Files(op)) /\ Len(a \o b) = m + n
      /\ \A i \in 1 .. m : (a \o b)[i] = a[i]
      /\ \A i \in 1 .. n : (a \o b)[m + i] = b[i]
  <2>1. /\ a \o b \in Seq(Files(op)) /\ Len(a \o b) = m + n
        /\ \A i \in 1 .. m + n : (a \o b)[i] = IF i <= m THEN a[i] ELSE b[i - m]
    BY <1>1, ConcatProperties
  <2> QED  BY <1>1, <2>1
<1>3. \A i \in 1 .. m + n : i \in 1 .. m \/ (i - m \in 1 .. n /\ i = m + (i - m))
  BY <1>1
<1>4. \A i \in 1 .. m + n :
        \/ i \in 1 .. m /\ (a \o b)[i] = a[i]
        \/ i - m \in 1 .. n /\ (a \o b)[i] = b[i - m]
  BY <1>2, <1>3
<1>5. Docs(a \o b) = Docs(a) \cup Docs(b)
  <2>1. \A i \in 1 .. m : i \in 1 .. m + n
    BY <1>1
  <2>2. \A i \in 1 .. n : m + i \in 1 .. m + n
    BY <1>1
  <2>3. Docs(a) \subseteq Docs(a \o b)
    BY <1>2, <2>1 DEF Docs
  <2>4. Docs(b) \subseteq Docs(a \o b)
    BY <1>2, <2>2 DEF Docs
  <2>5. Docs(a \o b) \subseteq Docs(a) \cup Docs(b)
    BY <1>2, <1>4 DEF Docs
  <2> QED  BY <2>3, <2>4, <2>5
<1>6. ASSUME NEW i \in 1 .. m + n, NEW j \in 1 .. m + n, (a \o b)[i].doc = (a \o b)[j].doc
      PROVE  i = j
  <2>1. CASE i \in 1 .. m /\ (a \o b)[i] = a[i] /\ j \in 1 .. m /\ (a \o b)[j] = a[j]
    BY <1>6, <2>1 DEF Planned
  <2>2. CASE /\ i - m \in 1 .. n /\ (a \o b)[i] = b[i - m]
             /\ j - m \in 1 .. n /\ (a \o b)[j] = b[j - m]
    <3>1. i - m = j - m
      BY <1>6, <2>2 DEF Planned
    <3> QED  BY <1>1, <1>6, <3>1
  <2>3. CASE i \in 1 .. m /\ (a \o b)[i] = a[i] /\ j - m \in 1 .. n /\ (a \o b)[j] = b[j - m]
    BY <1>6, <2>3 DEF Docs
  <2>4. CASE j \in 1 .. m /\ (a \o b)[j] = a[j] /\ i - m \in 1 .. n /\ (a \o b)[i] = b[i - m]
    BY <1>6, <2>4 DEF Docs
  <2> QED  BY <1>4, <2>1, <2>2, <2>3, <2>4
<1> QED  BY <1>2, <1>5, <1>6 DEF Planned

\* Lemma: what an operation plans.
LEMMA PlanIs ==
  ASSUME NEW op \in Input
  PROVE  Planned(op, PlannedWrites(op)) /\ Entering(op, PlannedWrites(op))
<1> DEFINE R(doc) == Replacement(doc, After(op, doc))
<1>1. /\ op.topic \in Topic \cup {NoTopic} /\ op.oldTopic \in Topic \cup {NoTopic}
      /\ NoTopic \notin Topic /\ Index \notin Topic /\ Index # NoTopic
  BY InputIs, StoreAssumption
<1>2. Planned(op, <<>>) /\ Docs(<<>>) = {}
  BY DEF Planned, Docs
<1>3. \A doc \in Doc : /\ Planned(op, R(doc)) /\ Docs(R(doc)) \subseteq {doc}
                       /\ Docs(R(doc)) = {} => After(op, doc) = docs[doc]
  BY ReplacementIs
<1> HIDE DEF R
<1>4. Index \in Doc /\ \A topic \in Topic : topic \in Doc
  BY DEF Doc
<1>5. CASE op.kind = "forget"
  <2> DEFINE t == IF op.topic = NoTopic THEN <<>> ELSE R(op.topic)
  <2>1. PlannedWrites(op) = R(Index) \o t
    BY <1>1, <1>5 DEF PlannedWrites, Removals, After, R
  <2>2. Planned(op, t) /\ Docs(t) \subseteq {op.topic} /\ (op.topic = NoTopic => Docs(t) = {})
    BY <1>1, <1>2, <1>3, <1>4
  <2> HIDE DEF t
  <2>3. Planned(op, R(Index)) /\ Docs(R(Index)) \cap Docs(t) = {}
    BY <1>1, <1>3, <1>4, <2>2
  <2>4. Planned(op, R(Index) \o t)
    BY <2>2, <2>3, PlansJoin
  <2> QED  BY <1>5, <2>1, <2>4 DEF Entering
<1>6. CASE op.kind = "write"
  <2> DEFINE t == IF op.topic = NoTopic THEN <<>> ELSE R(op.topic)
             u == IF op.oldTopic \in {NoTopic, op.topic} THEN <<>> ELSE R(op.oldTopic)
  <2>1. PlannedWrites(op) = t \o R(Index) \o u
    BY <1>1, <1>6 DEF PlannedWrites, FileWrites, After, R
  <2>2. Planned(op, t) /\ Docs(t) \subseteq {op.topic} /\ (op.topic = NoTopic => Docs(t) = {})
    BY <1>1, <1>2, <1>3, <1>4
  <2>3. /\ Planned(op, u) /\ Docs(u) \subseteq {op.oldTopic}
        /\ (op.oldTopic \in {NoTopic, op.topic} => Docs(u) = {})
    BY <1>1, <1>2, <1>3, <1>4
  <2>4. op.topic # NoTopic /\ op.topic \notin Docs(t) => After(op, op.topic) = docs[op.topic]
    BY <1>1, <1>3, <1>4, <2>2
  <2> HIDE DEF t, u
  <2>5. Planned(op, R(Index)) /\ Docs(R(Index)) \subseteq {Index}
        /\ (Index \notin Docs(R(Index)) => After(op, Index) = docs[Index])
    BY <1>3, <1>4
  <2>9. /\ Docs(t) \cap Docs(R(Index)) = {}
        /\ (Docs(t) \cup Docs(R(Index))) \cap Docs(u) = {}
    <3>1. op.topic # Index /\ op.oldTopic # Index
      BY <1>1
    <3> QED  BY <2>2, <2>3, <2>5, <3>1
  <2>6. Planned(op, t \o R(Index)) /\ Docs(t \o R(Index)) = Docs(t) \cup Docs(R(Index))
    BY <2>2, <2>5, <2>9, PlansJoin
  <2>7. /\ Planned(op, t \o R(Index) \o u)
        /\ Docs(t \o R(Index) \o u) = Docs(t) \cup Docs(R(Index)) \cup Docs(u)
    <3>1. PICK v : v = t \o R(Index)
      OBVIOUS
    <3>2. Planned(op, v) /\ Docs(v) = Docs(t) \cup Docs(R(Index))
      BY <2>6, <3>1
    <3>3. Docs(v) \cap Docs(u) = {}
      BY <2>9, <3>2
    <3>4. Planned(op, v \o u) /\ Docs(v \o u) = Docs(v) \cup Docs(u)
      BY <2>3, <3>2, <3>3, PlansJoin, Z3
    <3> QED  BY <3>1, <3>2, <3>4
  <2>8. ASSUME NEW doc \in {Index, op.topic} \ {NoTopic}, doc \notin Docs(PlannedWrites(op))
        PROVE  Has(doc, op.key)
    <3>1. After(op, doc) = docs[doc]
      BY <2>1, <2>4, <2>5, <2>7, <2>8
    <3> QED  BY <1>1, <1>6, <2>8, <3>1, WriteEnters DEF Has, After
  <2> QED  BY <2>1, <2>7, <2>8 DEF Entering
<1> QED  BY <1>5, <1>6, InputIs

-----------------------------------------------------------------------------
(* The steps of the store                                                  *)

\* Lemma: what is remembered is kept.
LEMMA NothingLostIs == NothingLost <=> \A entry \in remembered : Kept(entry)
BY DEF NothingLost, Kept

\* Lemma: an operation that settles leaves the next one waiting.
LEMMA SettleWaits ==
  ASSUME OpsInv, WaitingInv, ops # <<>>, Settle(1)
  PROVE  OpsInv' /\ WaitingInv' /\ WorkInv'
<1>1. /\ OpsInv' /\ Len(ops') = Len(ops) - 1 /\ Len(ops) \in Nat /\ ops' = Tail(ops)
      /\ \A i \in 1 .. Len(ops') : ops'[i] = ops[i + 1]
  BY SettleOps DEF OpsInv
<1>2. \A i \in 1 .. Len(ops') : i + 1 \in 1 .. Len(ops) /\ i + 1 \in 2 .. Len(ops)
  BY <1>1
<1>3. \A i \in 1 .. Len(ops') : ops'[i].input \in Input /\ ops'[i].pc = "queued"
  BY <1>1, <1>2 DEF WaitingInv
<1>4. \A i \in 2 .. Len(ops') : i \in 1 .. Len(ops')
  BY <1>1
<1>5. ops' # <<>> => 1 \in 1 .. Len(ops')
  <2>1. Len(ops') \in Nat /\ (Len(ops') = 0 => ops' = <<>>)
    BY <1>1 DEF OpsInv
  <2> QED  BY <2>1
<1>6. WaitingInv'
  BY <1>3, <1>4 DEF WaitingInv
<1>7. WorkInv'
  BY <1>3, <1>5 DEF WorkInv
<1> QED  BY <1>1, <1>6, <1>7

\* Lemma: an operation that goes on leaves the others waiting.
LEMMA StepWaits ==
  ASSUME OpsInv, WaitingInv, ops # <<>>, NEW pc, NEW left, Step(1, pc, left)
  PROVE  OpsInv' /\ WaitingInv'
<1>1. /\ OpsInv' /\ Len(ops') = Len(ops) /\ Len(ops) \in Nat
      /\ \A i \in 2 .. Len(ops) : ops'[i] = ops[i]
      /\ ops'[1].input = ops[1].input
  BY StepOps DEF OpsInv
<1>2. \A i \in 1 .. Len(ops) : i = 1 \/ i \in 2 .. Len(ops)
  BY <1>1
<1>3. \A i \in 1 .. Len(ops) : ops'[i].input = ops[i].input
  BY <1>1, <1>2
<1> QED  BY <1>1, <1>3 DEF WaitingInv

\* Lemma: the operation at work is one of those submitted.
LEMMA HeadOp ==
  ASSUME OpsInv, WaitingInv, ops # <<>>
  PROVE  ops[1].input \in Input
<1>1. 1 \in 1 .. Len(ops)
  BY OpsSequence
<1> QED  BY <1>1 DEF WaitingInv

\* Lemma: a plan stays one while the documents stay as they are.
LEMMA PlanStays ==
  ASSUME NEW op, NEW left, UNCHANGED docs, Planned(op, left), Entering(op, left)
  PROVE  Planned(op, left)' /\ Entering(op, left)'
<1>1. \A doc : After(op, doc)' = After(op, doc) /\ Has(doc, op.key)' = Has(doc, op.key)
  BY DEF After, Has
<1>2. Files(op)' = Files(op)
  BY <1>1 DEF Files
<1>3. Planned(op, left)'
  BY <1>2 DEF Planned
<1>4. Entering(op, left)'
  BY <1>1 DEF Entering, Docs
<1> QED  BY <1>3, <1>4

\* Lemma: an operation is queued.
LEMMA SubmitStep ==
  ASSUME StoreInv, NEW by, NEW input \in Input, Submit(by, input)
  PROVE  StoreInv'
<1>1. /\ OpsInv' /\ Len(ops') = Len(ops) + 1 /\ Len(ops) \in Nat
      /\ \A i \in 1 .. Len(ops) : ops'[i] = ops[i]
      /\ ops'[Len(ops) + 1].input = input /\ ops'[Len(ops) + 1].pc = "queued"
  BY SubmitOps DEF StoreInv, OpsInv
<1>2. \A i \in 1 .. Len(ops) + 1 : i \in 1 .. Len(ops) \/ i = Len(ops) + 1
  BY <1>1
<1>3. \A i \in 2 .. Len(ops) + 1 : i \in 2 .. Len(ops) \/ i = Len(ops) + 1
  BY <1>1
<1>4. \A i \in 2 .. Len(ops) : i \in 1 .. Len(ops)
  BY <1>1
<1>5. WaitingInv'
  BY <1>1, <1>2, <1>3, <1>4 DEF StoreInv, WaitingInv
<1>6. UNCHANGED <<docs, remembered>>
  BY DEF Submit
<1>7. DocsInv' /\ NothingLost'
  BY <1>6 DEF StoreInv, DocsInv, NothingLost
<1>8. CASE ops = <<>>
  <2>1. ops'[1].pc = "queued"
    BY <1>1, <1>8
  <2> QED  BY <1>1, <1>5, <1>7, <2>1 DEF StoreInv, WorkInv
<1>9. CASE ops # <<>>
  <2>1. ops'[1] = ops[1]
    <3>1. 1 \in 1 .. Len(ops)
      BY <1>9, OpsSequence DEF StoreInv
    <3> QED  BY <1>1, <3>1
  <2>2. PICK op, left : op = ops[1].input /\ left = ops[1].left
    OBVIOUS
  <2>3. ASSUME ops[1].pc = "queued"  PROVE WorkInv'
    BY <2>1, <2>3 DEF WorkInv
  <2>4. ASSUME ops[1].pc # "queued"  PROVE WorkInv'
    <3>1. Planned(op, left) /\ Entering(op, left) /\ left # <<>> /\ Withdrawn(op) = {}
      BY <1>9, <2>2, <2>4 DEF StoreInv, WorkInv
    <3>2. Planned(op, left)' /\ Entering(op, left)'
      BY <1>6, <3>1, PlanStays
    <3>3. Withdrawn(op)' = {}
      BY <1>6, <3>1 DEF Withdrawn
    <3> QED  BY <2>1, <2>2, <3>1, <3>2, <3>3 DEF WorkInv
  <2>5. WorkInv'
    BY <2>3, <2>4
  <2> QED  BY <1>1, <1>5, <1>7, <2>5 DEF StoreInv
<1> QED  BY <1>8, <1>9

\* Lemma: an operation that has written everything is acknowledged.
LEMMA AcknowledgeStep ==
  ASSUME OpsInv, WaitingInv, ops # <<>>, NEW op, op = ops[1].input, op \in Input,
         DocsInv, DOMAIN docs' = Doc, \A topic \in Topic : docs'[topic] \subseteq Text,
         Acknowledge(1),
         \A entry \in remembered : entry \notin Withdrawn(op) => Kept(entry)',
         op.kind = "write" => \A doc \in {Index, op.topic} \ {NoTopic} : Has(doc, op.key)'
  PROVE  StoreInv'
<1>1. OpsInv' /\ WaitingInv' /\ WorkInv'
  BY SettleWaits DEF Acknowledge
<1>2. Index # NoTopic /\ Index \notin Topic /\ NoTopic \notin Topic
  BY StoreAssumption
<1>3. ASSUME op.kind = "write", NEW entry \in Promised(op)  PROVE Kept(entry)'
  <2>1. entry[1] = op.key /\ entry[2] \in {NoTopic, op.topic}
    BY <1>3 DEF Promised
  <2>2. CASE entry[2] = NoTopic
    <3>1. Has(Index, op.key)'
      BY <1>2, <1>3
    <3> QED  BY <2>1, <2>2, <3>1 DEF Kept, Has
  <2>3. CASE entry[2] # NoTopic
    <3>1. Has(op.topic, op.key)' /\ op.topic # Index
      BY <1>2, <1>3, <2>1, <2>3, InputIs
    <3> QED  BY <2>1, <2>3, <3>1 DEF Kept, Has
  <2> QED  BY <2>2, <2>3
<1>4. \A entry \in remembered' : Kept(entry)'
  BY <1>3 DEF Acknowledge
<1>5. NothingLost'
  BY <1>4 DEF NothingLost, Kept
<1>6. Promised(op) \subseteq Summary \X (Topic \cup {NoTopic})
  BY InputIs DEF Promised
<1>7. DocsInv'
  BY <1>6 DEF DocsInv, Acknowledge
<1> QED  BY <1>1, <1>5, <1>7 DEF StoreInv

\* Lemma: an operation's turn comes.
LEMMA BeginStep ==
  ASSUME StoreInv, NEW cancelled, BeginOp(1, cancelled)
  PROVE  StoreInv'
<1>0. /\ OpsInv /\ DocsInv /\ WaitingInv /\ ops # <<>> /\ docs' = docs
      /\ \A entry \in remembered : Kept(entry)
  BY NothingLostIs DEF StoreInv, BeginOp, InTurn
<1>1. PICK op \in Input : op = ops[1].input
  BY <1>0, HeadOp
<1>2. PICK files : files = PlannedWrites(op)
  OBVIOUS
<1>3. Planned(op, files) /\ Entering(op, files)
  BY <1>2, PlanIs
<1>4. \A entry \in remembered : Kept(entry)'
  BY <1>0 DEF Kept
<1>5. CASE files = <<>>
  <2>1. Acknowledge(1)
    BY <1>1, <1>2, <1>5 DEF BeginOp
  <2>2. Docs(files) = {}
    BY <1>5 DEF Docs
  <2>3. op.kind = "write" => \A doc \in {Index, op.topic} \ {NoTopic} : Has(doc, op.key)'
    BY <1>0, <1>3, <2>2 DEF Entering, Has
  <2>4. DOMAIN docs' = Doc /\ \A topic \in Topic : docs'[topic] \subseteq Text
    BY <1>0 DEF DocsInv
  <2> QED  BY <1>0, <1>1, <1>4, <2>1, <2>3, <2>4, AcknowledgeStep
<1>6. CASE files # <<>>
  <2>1. Step(1, Resumes(op), files) /\ remembered' = remembered \ Withdrawn(op)
    BY <1>1, <1>2, <1>6 DEF BeginOp
  <2>2. OpsInv' /\ WaitingInv' /\ ops'[1].input = op /\ ops'[1].left = files
    BY <1>0, <1>1, <2>1, StepOps, StepWaits
  <2>3. DocsInv'
    BY <1>0, <2>1 DEF DocsInv
  <2>4. Planned(op, files)' /\ Entering(op, files)' /\ Withdrawn(op)' = {}
    <3>1. Withdrawn(op)' = {}
      BY <2>1 DEF Withdrawn
    <3> QED  BY <1>0, <1>3, <3>1, PlanStays
  <2>5. WorkInv'
    BY <1>6, <2>2, <2>4 DEF WorkInv
  <2>6. NothingLost'
    BY <1>4, <2>1 DEF NothingLost, Kept
  <2> QED  BY <2>2, <2>3, <2>5, <2>6 DEF StoreInv
<1> QED  BY <1>5, <1>6

\* Lemma: a file is replaced.
LEMMA CommitStep ==
  ASSUME StoreInv, CommitFile(1)
  PROVE  StoreInv'
<1>0. /\ OpsInv /\ DocsInv /\ WaitingInv /\ WorkInv /\ ops # <<>> /\ ops[1].pc = "committing"
      /\ \A entry \in remembered : Kept(entry)
  BY NothingLostIs DEF StoreInv, CommitFile, InTurn
<1>1. PICK op \in Input : op = ops[1].input
  BY <1>0, HeadOp
<1>2. PICK left : left = ops[1].left
  OBVIOUS
<1>3. Planned(op, left) /\ left # <<>> /\ Entering(op, left) /\ Withdrawn(op) = {}
  BY <1>0, <1>1, <1>2 DEF WorkInv
<1>4. PICK n \in Nat : n = Len(left)
  BY <1>3 DEF Planned
<1>5. PICK rest : rest = Tail(left)
  OBVIOUS
<1>6. /\ rest \in Seq(Files(op)) /\ Len(rest) = n - 1 /\ n # 0
      /\ \A i \in 1 .. n - 1 : rest[i] = left[i + 1]
  BY <1>3, <1>4, <1>5 DEF Planned
<1>7. PICK doc \in Doc : Head(left) = [doc |-> doc, after |-> After(op, doc)]
  BY <1>3 DEF Planned, Files
<1>8. /\ docs' = [docs EXCEPT ![doc] = After(op, doc)]
      /\ IF rest = <<>> THEN Acknowledge(1)
         ELSE Step(1, Resumes(op), rest) /\ UNCHANGED remembered
  <2>1. Head(left).doc = doc /\ Head(left).after = After(op, doc)
    BY <1>7
  <2> QED  BY <1>1, <1>2, <1>5, <2>1 DEF CommitFile
<1>9. /\ DOMAIN docs' = Doc /\ docs'[doc] = After(op, doc)
      /\ \A other \in Doc : other # doc => docs'[other] = docs[other]
  BY <1>0, <1>8 DEF DocsInv
<1>10. \A i \in 1 .. n : left[i].doc = doc \/ left[i].doc \in Docs(rest)
  <2>1. left[1].doc = doc
    BY <1>3, <1>7 DEF Planned
  <2>2. ASSUME NEW i \in 1 .. n, i # 1  PROVE left[i].doc \in Docs(rest)
    <3>1. i - 1 \in 1 .. n - 1 /\ rest[i - 1] = left[i]
      BY <1>4, <1>6, <2>2
    <3> QED  BY <1>6, <3>1 DEF Docs
  <2> QED  BY <2>1, <2>2
<1>11. ASSUME NEW i \in 1 .. n - 1
       PROVE  rest[i] \in Files(op)'
  <2>1. PICK other \in Doc : rest[i] = [doc |-> other, after |-> After(op, other)]
    BY <1>6 DEF Files
  <2>2. i + 1 \in 1 .. n /\ 1 \in 1 .. n /\ i + 1 # 1 /\ left[1] = Head(left)
    BY <1>3, <1>4, <1>6 DEF Planned
  <2>3. other # doc
    BY <1>3, <1>4, <1>6, <1>7, <2>1, <2>2 DEF Planned
  <2>4. docs'[other] = docs[other] /\ (other = Index => docs'[Index] = docs[Index])
    BY <1>9, <2>3
  <2>5. After(op, other)' = After(op, other)
    BY <2>4 DEF After
  <2> QED  BY <2>1, <2>5 DEF Files
<1>12. Planned(op, rest)'
  <2>1. rest \in Seq(Files(op)')
    BY <1>6, <1>11
  <2>2. ASSUME NEW i \in 1 .. n - 1, NEW j \in 1 .. n - 1, rest[i].doc = rest[j].doc  PROVE i = j
    <3>1. i + 1 \in 1 .. n /\ j + 1 \in 1 .. n
      BY <1>4
    <3>2. i + 1 = j + 1
      BY <1>3, <1>4, <1>6, <2>2, <3>1 DEF Planned
    <3> QED  BY <3>2
  <2> QED  BY <1>6, <2>1, <2>2 DEF Planned
<1>13. Entering(op, rest)'
  <2>1. SUFFICES ASSUME op.kind = "write", NEW d \in {Index, op.topic} \ {NoTopic}
                 PROVE  Has(d, op.key)' \/ d \in Docs(rest)
    BY DEF Entering, Docs
  <2>2. CASE d = doc
    BY <1>9, <2>1, <2>2, AfterHas
  <2>3. CASE d # doc /\ d \in Docs(left)
    BY <1>4, <1>10, <2>3 DEF Docs
  <2>4. CASE d # doc /\ Has(d, op.key)
    <3>1. d \in Doc
      BY <2>1, InputIs DEF Doc
    <3> QED  BY <1>9, <2>4, <3>1 DEF Has
  <2> QED  BY <1>3, <2>1, <2>2, <2>3, <2>4 DEF Entering
<1>14. \A entry \in remembered : Kept(entry)'
  BY <1>0, <1>3, <1>8, Keeps
<1>15. \A topic \in Topic : docs'[topic] \subseteq Text
  <2>1. SUFFICES ASSUME NEW topic \in Topic  PROVE docs'[topic] \subseteq Text
    OBVIOUS
  <2>2. topic \in Doc /\ topic # Index /\ docs[topic] \subseteq Text
    BY <1>0, StoreAssumption DEF Doc, DocsInv
  <2>3. After(op, topic) \subseteq Text
    BY <2>2, InputIs, WriteEnters DEF After, WithoutLine
  <2> QED  BY <1>9, <2>2, <2>3
<1>16. CASE rest = <<>>
  <2>1. Docs(rest) = {}
    BY <1>16 DEF Docs
  <2>2. op.kind = "write" => \A d \in {Index, op.topic} \ {NoTopic} : Has(d, op.key)'
    BY <1>13, <2>1 DEF Entering, Docs
  <2> QED  BY <1>0, <1>1, <1>8, <1>9, <1>14, <1>15, <1>16, <2>2, AcknowledgeStep
<1>17. CASE rest # <<>>
  <2>1. OpsInv' /\ WaitingInv' /\ ops'[1].input = op /\ ops'[1].left = rest
    BY <1>0, <1>1, <1>8, <1>17, StepOps, StepWaits
  <2>2. remembered' = remembered /\ Withdrawn(op)' = {}
    BY <1>3, <1>8, <1>17 DEF Withdrawn
  <2>3. DocsInv'
    BY <1>0, <1>9, <1>15, <2>2 DEF DocsInv
  <2>4. WorkInv'
    BY <1>12, <1>13, <1>17, <2>1, <2>2 DEF WorkInv
  <2>5. NothingLost'
    BY <1>14, <2>2 DEF NothingLost, Kept
  <2> QED  BY <2>1, <2>3, <2>4, <2>5 DEF StoreInv
<1> QED  BY <1>16, <1>17

\* Lemma: an operation that is cut short.
LEMMA CutShort ==
  ASSUME StoreInv, ops # <<>>, Settle(1), UNCHANGED <<docs, remembered>>
  PROVE  StoreInv'
<1>1. OpsInv' /\ WaitingInv' /\ WorkInv'
  BY SettleWaits DEF StoreInv
<1>2. DocsInv' /\ NothingLost'
  BY DEF StoreInv, DocsInv, NothingLost
<1> QED  BY <1>1, <1>2 DEF StoreInv

\* Lemma: a step of the store.
LEMMA StoreInvStep ==
  ASSUME StoreInv, NEW cancelled, StoreStep(cancelled)
  PROVE  StoreInv'
<1>1. PICK i \in DOMAIN ops : \/ BeginOp(i, cancelled) \/ Oversized(i, cancelled)
                              \/ Abandoned(i, cancelled) \/ Checked(i, cancelled)
                              \/ CommitFile(i)
  BY DEF StoreStep
<1>2. i = 1 /\ ops # <<>>
  BY <1>1 DEF BeginOp, Oversized, Abandoned, Checked, CommitFile, InTurn
<1>3. ASSUME Checked(1, cancelled)  PROVE StoreInv'
  <2>1. PICK left : left = ops[1].left
    OBVIOUS
  <2>2. /\ Step(1, "committing", left) /\ UNCHANGED <<docs, remembered>>
        /\ ops[1].pc = "checking"
    BY <1>3, <2>1 DEF Checked
  <2>3. /\ OpsInv' /\ WaitingInv'
        /\ ops'[1].input = ops[1].input /\ ops'[1].left = ops[1].left
    BY <1>2, <2>1, <2>2, StepOps, StepWaits DEF StoreInv
  <2>4. DocsInv' /\ NothingLost'
    BY <2>2 DEF StoreInv, DocsInv, NothingLost
  <2>5. PICK op : op = ops[1].input
    OBVIOUS
  <2>6. Planned(op, left) /\ left # <<>> /\ Entering(op, left) /\ Withdrawn(op) = {}
    BY <1>2, <2>1, <2>2, <2>5 DEF StoreInv, WorkInv
  <2>7. Planned(op, left)' /\ Entering(op, left)' /\ Withdrawn(op)' = {}
    <3>1. Withdrawn(op)' = {}
      BY <2>2, <2>6 DEF Withdrawn
    <3> QED  BY <2>2, <2>6, <3>1, PlanStays
  <2>8. WorkInv'
    BY <2>1, <2>3, <2>5, <2>6, <2>7 DEF WorkInv
  <2> QED  BY <2>3, <2>4, <2>8 DEF StoreInv
<1>4. Oversized(1, cancelled) \/ Abandoned(1, cancelled) => StoreInv'
  BY <1>2, CutShort DEF Oversized, Abandoned
<1> QED  BY <1>1, <1>2, <1>3, <1>4, BeginStep, CommitStep

\* Lemma: documents a process may find.
LEMMA StoreStarts == LearningInit => StoreInv
<1> SUFFICES ASSUME LearningInit  PROVE StoreInv
  OBVIOUS
<1>1. PICK stored \in Stored : StoreInit(stored)
  BY DEF LearningInit
<1>2. OpsInv /\ ops = <<>>
  BY <1>1, LearningStarts DEF LearningInv, StateInv, StoreInit
<1>3. /\ DOMAIN stored = Doc /\ stored[Index] \subseteq Bullet
      /\ \A topic \in Topic : stored[topic] \subseteq Seq(STRING)
  BY LearningAssumption
<1>4. Keys(stored[Index]) \subseteq Summary
  BY <1>3 DEF Keys, Bullet
<1>5. DocsInv
  BY <1>1, <1>3, <1>4 DEF StoreInit, DocsInv, Text
<1>6. NothingLost
  BY <1>1 DEF StoreInit, NothingLost
<1>7. WaitingInv /\ WorkInv
  BY <1>2 DEF WaitingInv, WorkInv
<1> QED  BY <1>2, <1>5, <1>6, <1>7 DEF StoreInv

\* Lemma: a step keeps what is remembered.
LEMMA StoreInvKept == StoreInv /\ [LearningNext]_learningVars => StoreInv'
<1> SUFFICES ASSUME StoreInv, [LearningNext]_learningVars  PROVE StoreInv'
  OBVIOUS
<1>1. CASE UNCHANGED storeVars
  <2>1. OpsInv' /\ WaitingInv'
    BY <1>1 DEF StoreInv, OpsInv, OpFields, WaitingInv, storeVars
  <2>2. DocsInv' /\ NothingLost'
    BY <1>1 DEF StoreInv, DocsInv, NothingLost, storeVars
  <2>3. WorkInv'
    BY <1>1 DEF StoreInv, WorkInv, Planned, Files, After, Entering, Has, Docs, Withdrawn, storeVars
  <2> QED  BY <2>1, <2>2, <2>3 DEF StoreInv
<1>2. CASE DocumentStep
  BY <1>2, StoreInvStep DEF DocumentStep
<1>3. CASE DocumentFailed
  BY <1>3, CutShort DEF DocumentFailed, FileFailed, InTurn
<1>4. ASSUME NEW by, NEW input \in Asked, Submit(by, input)  PROVE StoreInv'
  BY <1>4, StoreAssumption, SubmitStep
<1> QED  BY <1>1, <1>2, <1>3, <1>4, StoreEffects

\* Lemma: only the operation at work replaces documents.
LEMMA DocsChange ==
  ASSUME StoreInv, [LearningNext]_learningVars, docs' # docs
  PROVE  \E op \in Input, doc \in Doc :
           op = ops[1].input /\ docs' = [docs EXCEPT ![doc] = After(op, doc)]
<1>1. CommitFile(1)
  <2>1. DocumentStep
    BY StoreEffects DEF storeVars, DocumentFailed, FileFailed, Submit
  <2> QED  BY <2>1 DEF DocumentStep, StoreStep, BeginOp, Oversized, Abandoned, Checked,
                       CommitFile, InTurn
<1>2. /\ OpsInv /\ WaitingInv /\ WorkInv /\ ops # <<>> /\ ops[1].pc = "committing"
  BY <1>1 DEF StoreInv, CommitFile, InTurn
<1>3. PICK op \in Input : op = ops[1].input
  BY <1>2, HeadOp
<1>4. Planned(op, ops[1].left) /\ ops[1].left # <<>>
  BY <1>2, <1>3 DEF WorkInv
<1>5. PICK doc \in Doc : Head(ops[1].left) = [doc |-> doc, after |-> After(op, doc)]
  BY <1>4 DEF Planned, Files
<1>6. Head(ops[1].left).doc = doc /\ Head(ops[1].left).after = After(op, doc)
  BY <1>5
<1> QED  BY <1>1, <1>3, <1>6 DEF CommitFile

\* Lemma: what leaves the index was asked for.
LEMMA IndexLeft ==
  ASSUME StoreInv, [LearningNext]_learningVars, docs' # docs,
         NEW key \in Keys(docs[Index]) \ Keys(docs'[Index])
  PROVE  LET op == ops[1].input
         IN  \/ op.kind = "forget" /\ key = op.key
             \/ op.kind = "write" /\ key = op.old /\ op.key \in Keys(docs'[Index])
<1>1. PICK op \in Input, doc \in Doc :
        op = ops[1].input /\ docs' = [docs EXCEPT ![doc] = After(op, doc)]
  BY DocsChange
<1>2. doc = Index /\ docs'[Index] = After(op, Index)
  BY <1>1 DEF StoreInv, DocsInv, Doc
<1>3. PICK bullet \in docs[Index] : bullet.key = key
  BY DEF Keys
<1>4. bullet \notin docs'[Index]
  BY <1>3 DEF Keys
<1>5. CASE op.kind = "forget"
  BY <1>1, <1>2, <1>3, <1>4, <1>5 DEF After, WithoutBullet
<1>6. CASE op.kind = "write"
  <2>1. docs'[Index] = IndexAfter(op, docs[Index])
    BY <1>2, <1>6 DEF After
  <2>2. op.key \in Keys(docs'[Index])
    BY <1>6, <2>1, WriteEnters
  <2>3. key # op.key
    BY <2>2
  <2>4. key = op.old
    BY <1>3, <1>4, <2>1, <2>3 DEF IndexAfter, WithBullet, WithoutBullet
  <2> QED  BY <1>1, <1>6, <2>2, <2>4
<1> QED  BY <1>5, <1>6, InputIs

-----------------------------------------------------------------------------
(* The theorems about the documents                                        *)

\* Theorem: what a caller was told is remembered stays, in the index and in the
\* topic it named, until an operation asks to remove it, whoever else writes
\* meanwhile and wherever an operation is cut short (store.ts: write(), forget()
\* and the queue of operations).
THEOREM AcknowledgedStays == LearningSpec => []NothingLost
<1>1. LearningInit => StoreInv
  BY StoreStarts
<1>2. StoreInv /\ [LearningNext]_learningVars => StoreInv'
  BY StoreInvKept
<1>3. StoreInv => NothingLost
  BY DEF StoreInv
<1> QED  BY <1>1, <1>2, <1>3, PTL DEF LearningSpec

\* Theorem: a summary leaves the index only because an operation asks for it, and
\* a correction never leaves a moment with neither the old summary nor the new
\* (store.ts: write(), forget()).
THEOREM OldOrNew == LearningSpec => CorrectionKeepsOne
<1> DEFINE KeepsOne ==
      \A key \in Keys(docs[Index]) \ Keys(docs'[Index]) :
        LET op == ops[1].input
        IN  \/ op.kind = "forget" /\ key = op.key
            \/ op.kind = "write" /\ key = op.old /\ op.key \in Keys(docs'[Index])
<1>1. LearningInit => StoreInv
  BY StoreStarts
<1>2. StoreInv /\ [LearningNext]_learningVars => StoreInv'
  BY StoreInvKept
<1>3. StoreInv /\ [LearningNext]_learningVars => [KeepsOne]_docs
  BY IndexLeft
<1>4. LearningSpec => [][KeepsOne]_docs
  BY <1>1, <1>2, <1>3, PTL DEF LearningSpec
<1> QED  BY <1>4 DEF CorrectionKeepsOne
=============================================================================
