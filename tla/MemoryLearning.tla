--------------------------- MODULE MemoryLearning ---------------------------
(***************************************************************************)
(* Background learning of one Session (packages/memory/src/index.ts): the  *)
(* turns that completed wait in a queue, and when the Session has been     *)
(* idle long enough a child agent reads them as one batch and uses the     *)
(* memory tools.  The foreground uses the same tools on the same           *)
(* documents, starts turns whenever it likes, and may switch learning off, *)
(* dispose its agent or close the service, each of which cancels learning. *)
(*                                                                         *)
(* A learning queue is drained by a chain of awaits; a queue that was      *)
(* cancelled is replaced by a new one, whose drain waits for the old one.  *)
(***************************************************************************)
EXTENDS MemoryStore

CONSTANTS
  MaxTurn,       \* bound: turns started
  MaxCall,       \* bound: calls of setPolicy()
  MaxAsk,        \* bound: operations submitted and calls together
  MaxRequest,    \* MAX_LEARNING_REQUESTS
  MaxFileFault,      \* bound: failures and disposals
  Stored         \* documents a process may find

ASSUME LearningAssumption ==
  /\ MaxTurn \in Nat /\ MaxCall \in Nat /\ MaxAsk \in Nat /\ MaxRequest \in Nat /\ MaxFileFault \in Nat
  /\ Caller = 0 .. MaxTurn
  /\ \A stored \in Stored :
       /\ DOMAIN stored = Doc /\ stored[Index] \subseteq Bullet
       /\ \A topic \in Topic : stored[topic] \subseteq Seq(STRING)

VARIABLES
  turns,       \* turns started
  agent,       \* the Session's agent
  learning,    \* the queues created, in order; the last one may be in the map
  enabled,     \* the policy file: generateMemories
  calls,       \* calls of setPolicy(), in order
  service,     \* of the memory service
  learningFaults,      \* failures so far
  rested,      \* history: no turn has started since the last wait for idle began
  dropped,     \* history: turns whose learning was cancelled while they waited
  learned      \* history: turns handed to a child

learnVars == <<turns, agent, learning, enabled, calls, service, learningFaults, rested, dropped, learned>>
learningVars == <<storeVars, learnVars>>

-----------------------------------------------------------------------------
(* Records                                                                 *)

\* inTurn: between turn/start and turn/end; busy: status is not "idle".
Agent == [alive : BOOLEAN, busy : BOOLEAN, inTurn : BOOLEAN, interrupted : BOOLEAN]

\* The await the drain of a queue is suspended at.
BeforeBatch == {"waiting", "policy", "polled", "idle", "delay", "recheck", "rechecked"}
InBatch == {"project", "child", "dispose"}
Ended == {"done", "failed"}

Turn == 1 .. MaxTurn                     \* a candidate is named by its turn

Queue ==
  [pc : BeforeBatch \cup InBatch \cup Ended,
   aborted : BOOLEAN,                      \* controller.signal
   attempt : {"none", "live", "aborted"},
   pending : SeqOf(Turn, MaxTurn),
   seen : BOOLEAN,                         \* the policy it read
   requests : 0 .. MaxRequest]

NewQueue == [pc |-> "waiting", aborted |-> FALSE, attempt |-> "none", pending |-> <<>>,
             seen |-> FALSE, requests |-> 0]

Call == [want : BOOLEAN, pc : {"update", "read", "decide", "drain", "acked", "rejected"},
         next : BOOLEAN, tail : 0 .. MaxTurn]

LearningTypeOK ==
  /\ StoreTypeOK
  /\ turns \in 0 .. MaxTurn
  /\ agent \in Agent
  /\ Len(learning) <= MaxTurn /\ Range(learning) \subseteq Queue
  /\ enabled \in BOOLEAN
  /\ Len(calls) <= MaxCall /\ Range(calls) \subseteq Call
  /\ service \in {"up", "closing", "closed"}
  /\ learningFaults \in 0 .. MaxFileFault
  /\ rested \in BOOLEAN
  /\ dropped \subseteq 1 .. MaxTurn /\ learned \subseteq 1 .. MaxTurn

\* A new process: the policy file and the documents may be there already.
LearningInit ==
  /\ \E stored \in Stored : StoreInit(stored)
  /\ turns = 0
  /\ agent = [alive |-> TRUE, busy |-> FALSE, inTurn |-> FALSE, interrupted |-> FALSE]
  /\ learning = <<>>
  /\ enabled \in BOOLEAN
  /\ calls = <<>>
  /\ service = "up"
  /\ learningFaults = 0
  /\ rested = FALSE
  /\ dropped = {} /\ learned = {}

-----------------------------------------------------------------------------
(* Queues                                                                  *)

Asks == submitted + Len(calls) < MaxAsk

Faulty == learningFaults < MaxFileFault /\ learningFaults' = learningFaults + 1

\* learningQueues.get(): a queue leaves the map when its drain ends.
Mapped == IF learning # <<>> /\ Last(learning).pc \notin Ended THEN {Len(learning)} ELSE {}

\* The signal of the queue and of the service, and that of one attempt.
Cancelled(q) == learning[q].aborted \/ service # "up"
AttemptCancelled(q) == Cancelled(q) \/ learning[q].attempt = "aborted"

\* Mutant: the child's tools are not given its signal.
CancelledCallersUnsignalled == IF agent.interrupted THEN {0} ELSE {}

\* Callers of the memory tools whose signal is aborted.
CancelledCallers ==
  {q \in DOMAIN learning :
     learning[q].pc \in Ended \/ learning[q].pc = "dispose" \/ AttemptCancelled(q)}
    \cup (IF agent.interrupted THEN {0} ELSE {})

Working(by) == \E i \in DOMAIN ops : ops[i].by = by

\* controller.abort() on the queue in the map.
AbortMapped ==
  /\ learning' = [q \in DOMAIN learning |->
       IF q \in Mapped THEN [learning[q] EXCEPT !.aborted = TRUE] ELSE learning[q]]
  /\ dropped' = dropped \cup UNION {Range(learning[q].pending) : q \in Mapped}

Advance(q, queue) ==
  /\ learning' = [learning EXCEPT ![q] = queue]
  /\ dropped' = IF queue.pc \in Ended
                THEN dropped \cup Range(learning[q].pending) ELSE dropped

Finished(pc) == [NewQueue EXCEPT !.pc = pc]

\* The head of the loop: out of candidates, or cancelled, the drain ends.
Looped(q) ==
  IF learning[q].pending = <<>> \/ Cancelled(q)
  THEN Finished("done")
  ELSE [learning[q] EXCEPT !.pc = "policy", !.attempt = "none", !.requests = 0]

\* enqueueLearning(): join the queue in the map, unless it was cancelled.  A
\* batch that would be too big first loses the assistants' text, which nothing
\* here tells apart, and then whole turns, the oldest first.
Enqueued ==
  IF \E q \in Mapped : ~learning[q].aborted
  THEN LET batch == Append(Last(learning).pending, turns) IN
       \E first \in DOMAIN batch :
         learning' = [learning EXCEPT ![Len(learning)].pending = SubSeq(batch, first, Len(batch))]
  ELSE learning' = Append(learning, [NewQueue EXCEPT !.pending = <<turns>>])

-----------------------------------------------------------------------------
(* The foreground                                                          *)

AgentBusy ==
  /\ agent.alive /\ ~agent.busy /\ turns < MaxTurn
  /\ agent' = [agent EXCEPT !.busy = TRUE]
  /\ UNCHANGED <<storeVars, turns, learning, enabled, calls, service, learningFaults, rested,
                 dropped, learned>>

\* turn/start cancels the attempt of the queue in the map.
TurnStarted ==
  /\ agent.busy /\ ~agent.inTurn /\ turns < MaxTurn
  /\ turns' = turns + 1
  /\ agent' = [agent EXCEPT !.inTurn = TRUE]
  /\ learning' = [q \in DOMAIN learning |->
       IF q \in Mapped /\ learning[q].attempt = "live"
       THEN [learning[q] EXCEPT !.attempt = "aborted"] ELSE learning[q]]
  /\ rested' = FALSE
  /\ UNCHANGED <<storeVars, enabled, calls, service, learningFaults, dropped, learned>>

\* The turn's own memory tools.
ForegroundTool(input) ==
  /\ agent.inTurn /\ ~agent.interrupted /\ ~Working(0)
  /\ Asks /\ Submit(0, input)
  /\ UNCHANGED learnVars

Interrupted ==
  /\ agent.inTurn /\ ~agent.interrupted
  /\ agent' = [agent EXCEPT !.interrupted = TRUE]
  /\ UNCHANGED <<storeVars, turns, learning, enabled, calls, service, learningFaults, rested,
                 dropped, learned>>

\* turn/end: a completed turn whose user text fits becomes a candidate.
TurnEnded(completed) ==
  /\ agent.inTurn /\ ~Working(0)
  /\ agent' = [agent EXCEPT !.inTurn = FALSE, !.interrupted = FALSE]
  /\ IF completed /\ ~agent.interrupted /\ service = "up"
     THEN Enqueued ELSE UNCHANGED learning
  /\ UNCHANGED <<storeVars, turns, enabled, calls, service, learningFaults, rested, dropped, learned>>

AgentIdle ==
  /\ agent.busy /\ ~agent.inTurn
  /\ agent' = [agent EXCEPT !.busy = FALSE]
  /\ UNCHANGED <<storeVars, turns, learning, enabled, calls, service, learningFaults, rested,
                 dropped, learned>>

\* agent/disposed, and a new agent of the same Session later.
AgentDisposed ==
  /\ agent.alive /\ ~agent.busy
  /\ Faulty
  /\ agent' = [agent EXCEPT !.alive = FALSE]
  /\ AbortMapped
  /\ UNCHANGED <<storeVars, turns, enabled, calls, service, rested, learned>>

AgentResumed ==
  /\ ~agent.alive
  /\ agent' = [agent EXCEPT !.alive = TRUE]
  /\ UNCHANGED <<storeVars, turns, learning, enabled, calls, service, learningFaults, rested,
                 dropped, learned>>

-----------------------------------------------------------------------------
(* The drain of a queue                                                    *)

foreground == <<turns, agent, enabled, calls, service>>

\* Mutant: a new queue does not wait for the one it replaces.
DrainAtOnce(q) ==
  /\ learning[q].pc = "waiting"
  /\ Advance(q, Looped(q))
  /\ UNCHANGED <<storeVars, foreground, learningFaults, rested, learned>>

\* The tail of the queue before it has ended: each drain waits for the last.
Drain(q) ==
  /\ learning[q].pc = "waiting"
  /\ \A earlier \in 1 .. q - 1 : learning[earlier].pc \in Ended
  /\ Advance(q, Looped(q))
  /\ UNCHANGED <<storeVars, foreground, learningFaults, rested, learned>>

PolicyRead(q) ==
  /\ \/ /\ learning[q].pc = "policy"
        /\ Advance(q, [learning[q] EXCEPT !.pc = "polled", !.seen = enabled])
     \/ /\ learning[q].pc = "recheck"
        /\ Advance(q, [learning[q] EXCEPT !.pc = "rechecked", !.seen = enabled])
  /\ UNCHANGED <<storeVars, foreground, learningFaults, rested, learned>>

Polled(q) ==
  /\ learning[q].pc = "polled"
  /\ Advance(q, IF learning[q].seen
                THEN [learning[q] EXCEPT !.pc = "idle", !.attempt = "live"]
                ELSE Finished("done"))
  /\ UNCHANGED <<storeVars, foreground, learningFaults, rested, learned>>

\* whenIdle(): the wait of idleDelayMs begins.
IdleSeen(q) ==
  /\ learning[q].pc = "idle" /\ ~AttemptCancelled(q)
  /\ agent.alive /\ ~agent.busy
  /\ Advance(q, [learning[q] EXCEPT !.pc = "delay"])
  /\ rested' = TRUE
  /\ UNCHANGED <<storeVars, foreground, learningFaults, learned>>

Delayed(q) ==
  /\ learning[q].pc = "delay" /\ ~AttemptCancelled(q)
  /\ Advance(q, [learning[q] EXCEPT !.pc = "recheck"])
  /\ UNCHANGED <<storeVars, foreground, learningFaults, rested, learned>>

\* Mutant: the wait for the agent to be idle does not listen to the signal.
RaisedLate(q) ==
  /\ learning[q].pc \in {"delay", "project"} /\ AttemptCancelled(q)
  /\ Advance(q, Looped(q))
  /\ UNCHANGED <<storeVars, foreground, learningFaults, rested, learned>>

\* An abort ends the wait; only the queue's own signal ends the drain.
Raised(q) ==
  /\ learning[q].pc \in {"idle", "delay", "project"} /\ AttemptCancelled(q)
  /\ Advance(q, Looped(q))
  /\ UNCHANGED <<storeVars, foreground, learningFaults, rested, learned>>

\* The policy was read: stop, try again, or take the whole batch.
TakeBatch(q) ==
  /\ Advance(q, [learning[q] EXCEPT !.pc = "project", !.pending = <<>>])
  /\ learned' = learned \cup Range(learning[q].pending)

\* Mutant: the abort is not looked at again.
RecheckedBlindly(q) ==
  /\ learning[q].pc = "rechecked"
  /\ IF ~learning[q].seen
     THEN Advance(q, Finished("done")) /\ UNCHANGED learned
     ELSE IF agent.busy
     THEN Advance(q, Looped(q)) /\ UNCHANGED learned
     ELSE TakeBatch(q)
  /\ UNCHANGED <<storeVars, foreground, learningFaults, rested>>

Rechecked(q) ==
  /\ learning[q].pc = "rechecked"
  /\ IF ~learning[q].seen
     THEN Advance(q, Finished("done")) /\ UNCHANGED learned
     ELSE IF AttemptCancelled(q) \/ agent.busy
     THEN Advance(q, Looped(q)) /\ UNCHANGED learned
     ELSE TakeBatch(q)
  /\ UNCHANGED <<storeVars, foreground, learningFaults, rested>>

\* learnBatch() has created the child.
ChildCreated(q) ==
  /\ learning[q].pc = "project" /\ ~AttemptCancelled(q)
  /\ Advance(q, [learning[q] EXCEPT !.pc = "child"])
  /\ UNCHANGED <<storeVars, foreground, learningFaults, rested, learned>>

\* Mutant: nobody counts the child's requests.
ChildToolUnlimited(q, input) ==
  /\ learning[q].pc = "child" /\ ~AttemptCancelled(q) /\ ~Working(q)
  /\ Asks /\ Submit(q, input)
  /\ Advance(q, [learning[q] EXCEPT !.requests = @ + 1])
  /\ UNCHANGED <<foreground, learningFaults, rested, learned>>

\* The child uses a memory tool, one after another.
ChildTool(q, input) ==
  /\ learning[q].pc = "child" /\ ~AttemptCancelled(q)
  /\ ~Working(q) /\ learning[q].requests < MaxRequest
  /\ Asks /\ Submit(q, input)
  /\ Advance(q, [learning[q] EXCEPT !.requests = @ + 1])
  /\ UNCHANGED <<foreground, learningFaults, rested, learned>>

\* The child has nothing more to do or no request left, or it is cancelled.
ChildEnded(q) ==
  /\ learning[q].pc = "child"
  /\ ~Working(q) \/ AttemptCancelled(q)
  /\ Advance(q, [learning[q] EXCEPT !.pc = "dispose"])
  /\ UNCHANGED <<storeVars, foreground, learningFaults, rested, learned>>

\* Mutant: the child is released while a tool of its is still at work.
ChildDisposedEarly(q) ==
  /\ learning[q].pc = "dispose"
  /\ Advance(q, Looped(q))
  /\ UNCHANGED <<storeVars, foreground, learningFaults, rested, learned>>

\* handle.dispose() waits for the tool at work.
ChildDisposed(q) ==
  /\ learning[q].pc = "dispose" /\ ~Working(q)
  /\ Advance(q, Looped(q))
  /\ UNCHANGED <<storeVars, foreground, learningFaults, rested, learned>>

\* An unreadable policy, a child that cannot be created, or one that cannot
\* be cleaned up ends the drain with an error, whatever is pending.
DrainFailed(q) ==
  /\ learning[q].pc \in {"policy", "recheck", "project", "dispose"}
  /\ Faulty
  /\ Advance(q, Finished("failed"))
  /\ UNCHANGED <<storeVars, foreground, rested, learned>>

-----------------------------------------------------------------------------
(* setPolicy() and the end of the service                                  *)

learner == <<turns, agent, rested, learned>>

SetPolicy(want) ==
  /\ Asks /\ Len(calls) < MaxCall
  /\ calls' = Append(calls, [want |-> want, pc |-> "update", next |-> want, tail |-> 0])
  /\ UNCHANGED <<storeVars, learner, learning, enabled, service, learningFaults, dropped>>

\* updateSessionPolicy(): updates of one policy file run one at a time.
PolicyUpdated(c) ==
  /\ calls[c].pc = "update"
  /\ \A earlier \in 1 .. c - 1 : calls[earlier].pc # "update"
  /\ enabled' = calls[c].want
  /\ calls' = [calls EXCEPT ![c].pc = "read"]
  /\ UNCHANGED <<storeVars, learner, learning, service, learningFaults, dropped>>

PolicyReadBack(c) ==
  /\ calls[c].pc = "read"
  /\ calls' = [calls EXCEPT ![c] = [@ EXCEPT !.pc = "decide", !.next = enabled]]
  /\ UNCHANGED <<storeVars, learner, learning, enabled, service, learningFaults, dropped>>

\* Disabled, the queue is cancelled and its drain awaited.
PolicyDecided(c) ==
  /\ calls[c].pc = "decide"
  /\ IF calls[c].next \/ Mapped = {}
     THEN /\ calls' = [calls EXCEPT ![c].pc = "acked"]
          /\ UNCHANGED <<learning, dropped>>
     ELSE /\ calls' = [calls EXCEPT ![c] = [@ EXCEPT !.pc = "drain", !.tail = Len(learning)]]
          /\ AbortMapped
  /\ UNCHANGED <<storeVars, learner, enabled, service, learningFaults>>

Drained(c) ==
  /\ calls[c].pc = "drain" /\ learning[calls[c].tail].pc \in Ended
  /\ calls' = [calls EXCEPT ![c].pc =
       IF learning[calls[c].tail].pc = "done" THEN "acked" ELSE "rejected"]
  /\ UNCHANGED <<storeVars, learner, learning, enabled, service, learningFaults, dropped>>

\* The policy file cannot be written, or read back.
PolicyFailed(c) ==
  /\ calls[c].pc \in {"update", "read"}
  /\ \A earlier \in 1 .. c - 1 : calls[earlier].pc # "update"
  /\ Faulty
  /\ calls' = [calls EXCEPT ![c].pc = "rejected"]
  /\ UNCHANGED <<storeVars, learner, learning, enabled, service, dropped>>

\* The service is disposed: everything is cancelled, every drain awaited.
CloseService ==
  /\ service = "up"
  /\ Faulty
  /\ service' = "closing"
  /\ dropped' = dropped \cup UNION {Range(learning[q].pending) : q \in DOMAIN learning}
  /\ UNCHANGED <<storeVars, learner, learning, enabled, calls>>

Closed ==
  /\ service = "closing" /\ Mapped = {}
  /\ service' = "closed"
  /\ UNCHANGED <<storeVars, learner, learning, enabled, calls, learningFaults, dropped>>

-----------------------------------------------------------------------------
(* The specification                                                       *)

DocumentStep == StoreStep(CancelledCallers) /\ UNCHANGED learnVars

DocumentFailed ==
  /\ \E i \in DOMAIN ops : FileFailed(i)
  /\ Faulty
  /\ UNCHANGED <<turns, agent, learning, enabled, calls, service, rested, dropped, learned>>

DrainStep(q) ==
  \/ Drain(q) \/ PolicyRead(q) \/ Polled(q) \/ IdleSeen(q) \/ Delayed(q) \/ Raised(q)
  \/ Rechecked(q) \/ ChildCreated(q) \/ ChildEnded(q) \/ ChildDisposed(q)

CallStep(c) == PolicyUpdated(c) \/ PolicyReadBack(c) \/ PolicyDecided(c) \/ Drained(c)

Foreground ==
  \/ AgentBusy \/ TurnStarted \/ Interrupted \/ AgentIdle \/ AgentDisposed \/ AgentResumed
  \/ \E completed \in BOOLEAN : TurnEnded(completed)
  \/ \E input \in Asked : ForegroundTool(input)

LearningNext ==
  \/ Foreground
  \/ DocumentStep \/ DocumentFailed
  \/ \E q \in DOMAIN learning :
       DrainStep(q) \/ DrainFailed(q) \/ \E input \in Asked : ChildTool(q, input)
  \/ \E want \in BOOLEAN : SetPolicy(want)
  \/ \E c \in DOMAIN calls : CallStep(c) \/ PolicyFailed(c)
  \/ CloseService \/ Closed

LearningSpec == LearningInit /\ [][LearningNext]_learningVars

-----------------------------------------------------------------------------
(* Properties                                                              *)

\* Learning was switched off and that was acknowledged, and nobody has asked
\* to switch it on since.
SwitchedOff ==
  \E c \in DOMAIN calls :
    /\ calls[c].pc = "acked" /\ ~calls[c].want /\ ~calls[c].next
    /\ \A later \in c + 1 .. Len(calls) : ~calls[later].want

\* Once switching off is acknowledged, or the service has closed, no batch is
\* at work and no write of a child is left, except those of a child whose
\* cleanup failed.
OffIsQuiet ==
  SwitchedOff \/ service = "closed" =>
    /\ \A q \in DOMAIN learning : learning[q].pc \notin InBatch
    /\ \A i \in DOMAIN ops : ops[i].by # 0 => learning[ops[i].by].pc = "failed"

\* Turns whose learning was cancelled while they waited, and turns that were
\* handed to a child, are not learned again, however learning is switched.
NeverRevived ==
  /\ learned \cap dropped = {}
  /\ \A q \in DOMAIN learning : Range(learning[q].pending) \cap learned = {}

\* Learning that was switched off or cancelled has ended and does not come back.
OffStaysOff == OffIsQuiet /\ NeverRevived

\* Old and new queues of the Session never learn at the same time.
OneLearner ==
  \A p, q \in DOMAIN learning :
    learning[p].pc \in InBatch /\ learning[q].pc \in InBatch => p = q

\* Learning yields to the foreground.  A batch is taken only after one
\* uninterrupted wait: no turn has started since that wait began, and the
\* agent is idle now.  While a turn runs, no operation of a child begins, not
\* even one that was queued behind another when the turn started.
YieldsToForeground ==
  [][ /\ learned' # learned => rested /\ ~agent.busy
      /\ agent.inTurn /\ ops # <<>> /\ Head(ops).by # 0 /\ Head(ops).pc = "queued" /\ ops' # <<>>
           => Head(ops') = Head(ops) \/ ops' = Tail(ops) ]_learningVars

\* A call that waits for a drain is never stuck: the drain, a drain before it
\* or an operation on the documents can go on without the foreground.
DrainProceeds ==
  \A c \in DOMAIN calls :
    calls[c].pc = "drain" =>
      \/ ENABLED Drained(c)
      \/ \E q \in 1 .. calls[c].tail : ENABLED DrainStep(q)
      \/ ENABLED DocumentStep
=============================================================================
