------------------------ MODULE ExecutionProjection ------------------------
(* What a Session has executed (runtime/execution/projection): the nodes    *)
(* folded from the events of the window and the requests of its steps, kept *)
(* incrementally, and the snapshot with the overlays of the moment; and the *)
(* conversation that is built from it (modules/transcript/model.ts).        *)
(*                                                                          *)
(* The Host is external: it logs one of the given Sessions event by event.  *)
(* The window of the client grows at its end, is extended to the front, or  *)
(* is replaced after a reconnection, by other entries for the same events.  *)
(* The run state, the streamed thought and the image analysis come by       *)
(* channels of their own.                                                   *)
EXTENDS Integers, SequencesExt

CONSTANTS
  Sessions,      \* set of sequences of events
  PageSizes,     \* events of a page
  EpochBound,    \* bound: reconnections
  FrameBound     \* bound: changes between two frames

ASSUME ExecutionAssumption ==
  /\ \A log \in Sessions : Len(log) > 0
  /\ PageSizes \subseteq Nat \ {0}
  /\ EpochBound \in Nat
  /\ FrameBound \in Nat \ {0}

VARIABLES
  log,        \* the Session of this behaviour
  input,      \* [entries, cursor, epoch, running, thought, vision]; an entry is [seq, read]
  projector,  \* [input, executions, calls, snapshot, version]; the version counts replays
  shown       \* TranscriptModel: [in, snapshot, details, history, projection, changes]

executionVars == <<log, input, projector, shown>>

None == "none"
NoKey == <<"none", 0>>
TurnKey(n) == <<"turn", n>>
StepKey(n) == <<"step", n>>
ThoughtKey(n) == <<"thought", n>>
ToolKey(n) == <<"tool", n>>
PromptKey(n) == <<"prompt", n>>
VisionKey(n) == <<"vision", n>>
CommandKey(n) == <<"command", n>>

-----------------------------------------------------------------------------
(* ExecutionReducer: nodes in the order of their first event                *)

NoExecutions == [nodes |-> <<>>, issues |-> {}]

NodePlace(r, key) == SelectInSeq(r.nodes, LAMBDA node : node.key = key)

IsOpen(node) == node.phase # "settled"

Issue(r, code, key) == [r EXCEPT !.issues = @ \cup {<<code, key>>}]

Added(r, key, parent, phase, outcome, ended, durable) ==
  LET known == parent = NoKey \/ NodePlace(r, parent) # 0 IN
  [nodes |-> Append(r.nodes, [key |-> key, parent |-> parent, phase |-> phase, outcome |-> outcome,
                              started |-> phase = "running", ended |-> ended, durable |-> durable]),
   issues |-> IF known THEN r.issues ELSE r.issues \cup {<<"missing-parent", key>>}]

Declare(r, key, parent) ==
  LET i == NodePlace(r, key) IN
  IF i = 0 THEN Added(r, key, parent, "pending", None, 0, TRUE)
  ELSE IF r.nodes[i].parent # parent THEN Issue(r, "identity-conflict", key)
  ELSE IF IsOpen(r.nodes[i]) THEN r
  ELSE Issue(r, "terminal-reopened", key)

StartNode(r, key, parent, durable) ==
  LET i == NodePlace(r, key) IN
  IF i = 0 THEN Added(r, key, parent, "running", None, 0, durable)
  ELSE IF r.nodes[i].parent # parent THEN Issue(r, "identity-conflict", key)
  ELSE IF IsOpen(r.nodes[i]) THEN [r EXCEPT !.nodes[i].phase = "running", !.nodes[i].started = TRUE]
  ELSE Issue(r, "terminal-reopened", key)

SettleNode(r, key, parent, outcome, at) ==
  LET i == NodePlace(r, key) IN
  IF i = 0 THEN Issue(Added(r, key, parent, "settled", outcome, at, TRUE), "missing-start", key)
  ELSE IF r.nodes[i].parent # parent THEN Issue(r, "identity-conflict", key)
  ELSE IF IsOpen(r.nodes[i]) THEN [r EXCEPT !.nodes[i].phase = "settled",
                                            !.nodes[i].outcome = outcome, !.nodes[i].ended = at]
  ELSE IF r.nodes[i].outcome # outcome THEN Issue(r, "conflicting-outcome", key)
  ELSE r

OpenNodes(r) == SelectSeq(r.nodes, IsOpen)

\* openChildren(parentKey, true): open nodes all of whose ancestors up to the
\* given one are open.
OpenDescendants(r, key) ==
  LET open == Range(OpenNodes(r))
      under[depth \in 0..3] ==
        IF depth = 0 THEN {key}
        ELSE {node.key : node \in {n \in open : n.parent \in under[depth - 1]}}
  IN  SelectSeq(r.nodes, LAMBDA node : IsOpen(node) /\ node.key \in UNION {under[d] : d \in 1..3})

\* Nodes are settled one after the other; a tool without a result is an issue.
SettleAll(r, nodes, at, outcome(_)) ==
  FoldLeft(LAMBDA q, node :
      LET settled == SettleNode(q, node.key, node.parent, outcome(node), at) IN
      IF node.key[1] = "tool" THEN Issue(settled, "tool-result-missing", node.key) ELSE settled,
    r, nodes)

-----------------------------------------------------------------------------
(* applyExecutionEntry()                                                    *)

EndTurn(r, e, seq) ==
  SettleNode(SettleAll(r, OpenDescendants(r, TurnKey(e.turn)), seq,
                   LAMBDA node : IF e.outcome = "failed" THEN "failed" ELSE "interrupted"),
         TurnKey(e.turn), NoKey, e.outcome, seq)

EndStep(r, e, seq) ==
  LET children == SelectSeq(OpenNodes(r), LAMBDA node :
                    node.parent = StepKey(e.step) /\ node.key[1] \in {"thought", "tool"})
  IN  SettleNode(SettleAll(r, children, seq,
                       LAMBDA node : IF node.key[1] = "thought" THEN "completed" ELSE "interrupted"),
             StepKey(e.step), TurnKey(e.turn), "completed", seq)

Only(values) == CHOOSE value \in values : TRUE

\* A node that one event begins and ends.
Complete(r, key, parent, outcome, seq) ==
  Only({SettleNode(begun, key, parent, outcome, seq) : begun \in {StartNode(r, key, parent, TRUE)}})

\* An accepted prompt belongs to the last turn that is open.
AcceptPrompt(r, e, seq) ==
  LET turns == SelectSeq(OpenNodes(r), LAMBDA node : node.key[1] = "turn")
      parent == IF turns = <<>> THEN NoKey ELSE Last(turns).key
  IN  Only({IF e.vision THEN Complete(asked, VisionKey(e.id), PromptKey(e.id), "completed", seq) ELSE asked :
              asked \in {Complete(r, PromptKey(e.id), parent, "completed", seq)}})

DeclareStep(r, e) == Only({Declare(r, StepKey(e.step), TurnKey(e.turn))})

ApplyExecutionEntry(r, e, seq) ==
  CASE e.type = "turn/start" -> StartNode(r, TurnKey(e.turn), NoKey, TRUE)
    [] e.type = "turn/end" -> EndTurn(r, e, seq)
    [] e.type = "step/start" -> StartNode(r, StepKey(e.step), TurnKey(e.turn), TRUE)
    [] e.type = "step/end" -> EndStep(r, e, seq)
    [] e.type = "assistant/message" ->
         IF ~e.reasoning THEN r
         ELSE Complete(DeclareStep(r, e), ThoughtKey(e.step), StepKey(e.step), e.outcome, seq)
    [] e.type = "tool/call" -> StartNode(DeclareStep(r, e), ToolKey(e.id), StepKey(e.step), TRUE)
    [] e.type = "tool/result" -> SettleNode(DeclareStep(r, e), ToolKey(e.id), StepKey(e.step), e.outcome, seq)
    [] e.type = "command/run" -> StartNode(r, CommandKey(e.id), NoKey, TRUE)
    [] e.type = "command/done" -> SettleNode(r, CommandKey(e.id), NoKey, e.outcome, seq)
    [] e.type = "user/message" /\ e.human -> AcceptPrompt(r, e, seq)
    [] OTHER -> r

-----------------------------------------------------------------------------
(* StepModelCallAccumulator                                                 *)

NoCalls == [calls |-> <<>>, active |-> 0, header |-> 0]
NoBoundary == [through |-> 0, header |-> 0, version |-> 0]

\* call(): the place of the call of a step, which is new at the end.
CallOf(m, step) ==
  LET i == SelectInSeq(m.calls, LAMBDA call : call.step = step) IN
  IF i # 0 THEN [m |-> m, at |-> i]
  ELSE [m |-> [m EXCEPT !.calls = Append(@, [step |-> step, request |-> NoBoundary, response |-> 0])],
        at |-> Len(m.calls) + 1]

Bounded(m, seq, version) ==
  IF m.active = 0 \/ m.calls[m.active].response # 0 THEN m
  ELSE [m EXCEPT !.calls[m.active].request = [through |-> seq, header |-> m.header, version |-> version]]

ApplyCall(m, e, seq, version) ==
  CASE e.type \in {"turn/start", "turn/end", "step/end"} -> [m EXCEPT !.active = 0]
    [] e.type = "step/start" ->
         LET c == CallOf(m, e.step) IN Bounded([c.m EXCEPT !.active = c.at], seq, version)
    [] e.type = "request/header" -> Bounded([m EXCEPT !.header = seq], seq, version)
    [] e.type \in {"user/message", "tool/result"} -> Bounded(m, seq, version)
    [] e.type = "assistant/message" ->
         LET c == CallOf(m, e.step) IN [c.m EXCEPT !.calls[c.at].response = seq]
    [] OTHER -> m

\* resolveModelRequest(); events are numbered from 1.
FirstMissing(entries) ==
  FoldLeft(LAMBDA next, entry : IF entry.seq = next THEN next + 1 ELSE next, 1, entries)

RequestAvailability(entries, boundary) ==
  IF boundary = NoBoundary THEN "missing-boundary"
  ELSE IF FirstMissing(entries) <= boundary.through THEN "missing-history"
  ELSE IF boundary.header = 0 THEN "missing-header"
  ELSE "available"

-----------------------------------------------------------------------------
(* The snapshot and the projector                                           *)

Applied(acc, entries, version) ==
  FoldLeft(LAMBDA a, entry :
      [executions |-> ApplyExecutionEntry(a.executions, log[entry.seq], entry.seq),
       calls |-> ApplyCall(a.calls, log[entry.seq], entry.seq, version)],
    acc, entries)

NothingApplied == [executions |-> NoExecutions, calls |-> NoCalls]

Replay(entries, version) == Applied(NothingApplied, entries, version)

\* materializeExecutionSnapshot(): the thought that is streamed, the end of what
\* an idle Session left open, and an analysis that has no node of its own.
Thinks(executions, in) ==
  IF in.thought.phase = None THEN executions
  ELSE Only({IF in.thought.phase # "ended" THEN r
             ELSE SettleNode(r, ThoughtKey(in.thought.step), StepKey(in.thought.step), "completed", 0) :
               r \in {StartNode(executions, ThoughtKey(in.thought.step), StepKey(in.thought.step), FALSE)}})

Idles(executions) ==
  FoldLeft(LAMBDA q, node : Issue(SettleNode(q, node.key, node.parent, "interrupted", 0),
                                  "open-node-idle-tail", node.key),
           executions, OpenNodes(executions))

Materialize(executions, in) ==
  Only({IF in.vision = 0 \/ NodePlace(ended, VisionKey(in.vision)) # 0 THEN ended
        ELSE StartNode(ended, VisionKey(in.vision), NoKey, FALSE) :
          ended \in {IF in.running THEN r ELSE Idles(r) : r \in {Thinks(executions, in)}}})

Snapshot(executions, calls, in) ==
  [nodes |-> executions.nodes, issues |-> executions.issues, calls |-> calls.calls, entries |-> in.entries]

\* appendedHistoryEntries()
IsAppended(previous, next) ==
  /\ Len(next) >= Len(previous)
  /\ IF Len(next) = Len(previous) THEN next = previous
     ELSE previous # <<>> => next[1] = previous[1] /\ next[Len(previous)] = Last(previous)

Reusable(previous, in) ==
  /\ in.entries = previous.entries /\ in.vision = previous.vision /\ in.thought = previous.thought
  /\ in.running = previous.running

\* project()
Projected(p, in) ==
  LET appended == IsAppended(p.input.entries, in.entries)
      version == IF appended THEN p.version ELSE p.version + 1
  IN  Only({[input |-> in, executions |-> acc.executions, calls |-> acc.calls, version |-> version,
             snapshot |-> IF Reusable(p.input, in) THEN p.snapshot
                          ELSE Snapshot(Materialize(acc.executions, in), acc.calls, in)] :
              acc \in {Applied(IF appended THEN [executions |-> p.executions, calls |-> p.calls] ELSE NothingApplied,
                               IF appended THEN SubSeq(in.entries, Len(p.input.entries) + 1, Len(in.entries))
                               ELSE in.entries, version)}})

-----------------------------------------------------------------------------
(* TranscriptModel: the conversation                                        *)

NodeAt(snapshot, key) ==
  LET i == SelectInSeq(snapshot.nodes, LAMBDA node : node.key = key) IN
  IF i = 0 THEN <<>> ELSE <<snapshot.nodes[i]>>

Item(kind, node) == [kind |-> kind, key |-> node.key, node |-> <<node>>, result |-> FALSE]
Text(kind, seq) == [kind |-> kind, key |-> <<"event", seq>>, node |-> <<>>, result |-> FALSE]

\* The items of one event, each of a node that is known.
ItemsOf(snapshot, entry, details) ==
  LET e == log[entry.seq]
      of(kind, key) == [i \in DOMAIN NodeAt(snapshot, key) |-> Item(kind, NodeAt(snapshot, key)[i])]
      resulted(item) ==
        \E other \in Range(snapshot.entries) :
          other.seq = item.node[1].ended /\ log[other.seq].type \in {"tool/result", "command/done"}
      tool == of(IF e.diff THEN "diff" ELSE "tool", ToolKey(e.id))
      command == of("text", CommandKey(e.id))
  IN  CASE e.type = "user/message" /\ e.human -> of("prompt", PromptKey(e.id)) \o of("tool", VisionKey(e.id))
        [] e.type = "user/message" -> IF details THEN <<Text("text", entry.seq)>> ELSE <<>>
        [] e.type = "assistant/message" ->
             (IF e.reasoning THEN of("thinking", ThoughtKey(e.step)) ELSE <<>>) \o <<Text("text", entry.seq)>>
        [] e.type = "tool/call" -> [i \in DOMAIN tool |-> [tool[i] EXCEPT !.result = resulted(tool[i])]]
        [] e.type = "command/run" -> [i \in DOMAIN command |-> [command[i] EXCEPT !.result = resulted(command[i])]]
        [] e.type = "command/done" -> SelectSeq(command, LAMBDA c : ~IsOpen(c.node[1]) /\ ~c.node[1].started)
        [] e.type = "turn/end" -> IF e.outcome = "failed" THEN <<Text("text", entry.seq)>> ELSE <<>>
        [] OTHER -> <<>>

BuildTranscriptHistory(snapshot, entries, details) ==
  FoldLeft(LAMBDA items, entry : items \o ItemsOf(snapshot, entry, details), <<>>, entries)

\* collectTranscriptSources(): the streamed thought, and the prompt whose images
\* are analysed, which does not end the activity before it.
Sources(snapshot, in, history) ==
  LET thought == IF in.thought.phase = None THEN <<>> ELSE NodeAt(snapshot, ThoughtKey(in.thought.step))
      vision == SelectSeq(IF in.vision = 0 THEN <<>> ELSE NodeAt(snapshot, VisionKey(in.vision)),
                          LAMBDA node : ~node.durable)
  IN  history \o [i \in DOMAIN thought |-> Item("thinking", thought[i])]
      \o (IF in.vision = 0 THEN <<>> ELSE <<Text("supplement", 0)>>)
      \o [i \in DOMAIN vision |-> Item("tool", vision[i])]

\* groupTranscriptActivity(): thoughts and tools in a row are one activity, and
\* the last one that no content follows is the tail.
Grouped(sources) ==
  FoldLeft(LAMBDA g, item :
      IF item.kind \notin {"thinking", "tool"}
      THEN [items |-> Append(g.items, <<item>>), tail |-> IF item.kind = "supplement" THEN g.tail ELSE 0,
            joins |-> FALSE]
      ELSE IF g.joins THEN [g EXCEPT !.items[g.tail] = Append(@, item)]
      ELSE [items |-> Append(g.items, <<item>>), tail |-> Len(g.items) + 1, joins |-> TRUE],
    [items |-> <<>>, tail |-> 0, joins |-> FALSE], sources)

\* An activity is live as long as what its nodes belong to is not settled.
OwnerOf(snapshot, node) ==
  LET up[depth \in 0..3] ==
        IF depth = 0 THEN node
        ELSE LET parent == NodeAt(snapshot, up[depth - 1].parent) IN
             IF parent = <<>> THEN up[depth - 1] ELSE parent[1]
  IN  up[3]

ActiveActivityKey(snapshot, g) ==
  IF g.tail # 0 /\ \E item \in Range(g.items[g.tail]) : IsOpen(OwnerOf(snapshot, item.node[1]))
  THEN g.items[g.tail][1].key ELSE NoKey

Projection(snapshot, in, history) ==
  Only({[items |-> g.items, active |-> ActiveActivityKey(snapshot, g)] :
          g \in {Grouped(Sources(snapshot, in, history))}})

HistoryChanged(previous, snapshot, in, details) ==
  in.entries # previous.in.entries \/ snapshot # previous.snapshot \/ details # previous.details

\* project()
Drawn(previous, snapshot, in, details) ==
  Only({[in |-> in, snapshot |-> snapshot, details |-> details, history |-> history, changes |-> 0,
         projection |-> IF previous.in = in /\ previous.snapshot = snapshot /\ previous.details = details
                        THEN previous.projection ELSE Projection(snapshot, in, history)] :
          history \in {IF HistoryChanged(previous, snapshot, in, details)
                       THEN BuildTranscriptHistory(snapshot, in.entries, details) ELSE previous.history}})

-----------------------------------------------------------------------------
(* The window of the client, and what it is told besides                    *)

NoThought == [phase |-> None, step |-> 0]

Cursor == input.cursor

\* createSnapshot(): every change is projected at once, and drawn some time later.
Projects ==
  /\ projector' = Projected(projector, input')
  /\ shown.changes < FrameBound
  /\ shown' = [shown EXCEPT !.changes = @ + 1]
  /\ UNCHANGED log

Entries(from, to, read) == [i \in 1..(to - from + 1) |-> [seq |-> from + i - 1, read |-> read]]

PageStart(to) == {IF to > size THEN to - size + 1 ELSE 1 : size \in PageSizes}

\* The step a model answers at the cursor, or none.
Answering(to) ==
  LET begun == {i \in 1..to : log[i].type = "step/start"} IN
  IF begun = {} THEN 0
  ELSE IF \E i \in Max(begun)..to : log[i].type \in {"assistant/message", "step/end", "turn/end"} THEN 0
  ELSE log[Max(begun)].step

\* What an event settles besides: the streamed thought, the prompt that waits.
Told(in, e) ==
  [in EXCEPT !.thought = IF e.type = "assistant/message" /\ e.step = @.step THEN NoThought ELSE @,
             !.vision = IF e.type = "user/message" /\ e.id = @ THEN 0 ELSE @]

\* The Host ends the stream of an attempt before its step.
AppendEvent ==
  /\ Cursor \in 1..Len(log) - 1
  /\ input.thought.phase # None => log[Cursor + 1].type \notin {"step/end", "turn/end"}
  /\ input' = [Told(input, log[Cursor + 1]) EXCEPT !.entries = @ \o Entries(Cursor + 1, Cursor + 1, input.epoch),
                                                  !.cursor = @ + 1]

HydrateWindow ==
  /\ input.epoch < EpochBound
  /\ \E to \in Max({1, Cursor})..Len(log), phase \in {None, "started", "ended"} :
       \E from \in PageStart(to) :
         /\ phase # None => Answering(to) # 0
         /\ input' = [FoldLeft(Told, input, SubSeq(log, from, to)) EXCEPT
                        !.entries = Entries(from, to, input.epoch + 1), !.cursor = to, !.epoch = @ + 1,
                        !.thought = IF phase = None THEN NoThought ELSE [phase |-> phase, step |-> Answering(to)]]

PrependPage ==
  /\ input.entries # <<>> /\ input.entries[1].seq > 1
  /\ \E from \in PageStart(input.entries[1].seq - 1) :
       input' = [input EXCEPT !.entries = Entries(from, input.entries[1].seq - 1, input.epoch) \o @]

SetRunState == input' = [input EXCEPT !.running = ~@]

AcceptAssistantFrame ==
  /\ Cursor # 0 /\ Answering(Cursor) # 0
  /\ \E phase \in {None, "started", "ended"} :
       /\ phase = "ended" => input.thought.phase = "started"
       /\ phase = "started" => input.thought.phase = None
       /\ input' = [input EXCEPT !.thought = IF phase = None THEN NoThought
                                             ELSE [phase |-> phase, step |-> Answering(Cursor)]]

\* The images of a prompt are analysed until it is admitted or rejected.
SetSubmissionActivity ==
  \E i \in Cursor + 1..Len(log) :
    /\ log[i].type = "user/message" /\ log[i].vision
    /\ input' = [input EXCEPT !.vision = IF @ = 0 THEN log[i].id ELSE 0]

DrawTranscript ==
  /\ shown.changes > 0
  /\ \E details \in BOOLEAN : shown' = Drawn(shown, projector.snapshot, input, details)
  /\ UNCHANGED <<log, input, projector>>

ExecutionInit ==
  LET nothing == [entries |-> <<>>, cursor |-> 0, epoch |-> 0, running |-> FALSE, thought |-> NoThought, vision |-> 0]
      empty == Snapshot(NoExecutions, NoCalls, nothing)
  IN  /\ log \in Sessions
      /\ input = nothing
      /\ projector = [input |-> nothing, executions |-> NoExecutions, calls |-> NoCalls, version |-> 0,
                      snapshot |-> empty]
      /\ shown = [in |-> nothing, snapshot |-> empty, details |-> FALSE, history |-> <<>>, changes |-> 0,
                  projection |-> [items |-> <<>>, active |-> NoKey]]

ExecutionNext ==
  \/ /\ \/ AppendEvent \/ HydrateWindow \/ PrependPage
        \/ SetRunState \/ AcceptAssistantFrame \/ SetSubmissionActivity
     /\ Projects
  \/ DrawTranscript

ExecutionSpec == ExecutionInit /\ [][ExecutionNext]_executionVars

-----------------------------------------------------------------------------
(* Properties                                                               *)

Whole == Replay(Entries(1, Cursor, 0), 0)

\* The snapshot that is kept up event by event is the one a replay of the window
\* gives.  What is open belongs to what is open, and nothing of an idle Session
\* is open but an analysis that has not been sent (runtime/execution/projection/projector.ts, accumulator.ts).
SnapshotExact ==
  /\ \E replayed \in {Replay(input.entries, projector.version)} :
       projector.snapshot = Snapshot(Materialize(replayed.executions, input), replayed.calls, input)
  /\ \A node \in Range(OpenNodes(projector.snapshot)) :
       /\ IsOpen(OwnerOf(projector.snapshot, node))
       /\ input.running \/ (node.key[1] = "vision" /\ ~node.durable)

\* What a page of a Session shows is what the whole Session shows: a node of a
\* window that begins anywhere is open or settled as it is in the whole log.
WindowTruthful ==
  \E w \in {Whole} : \A node \in Range(projector.executions.nodes) :
    \E whole \in Range(w.executions.nodes) :
      /\ whole.key = node.key /\ whole.outcome = node.outcome /\ whole.ended = node.ended
      /\ IsOpen(whole) = IsOpen(node)

\* A request that is available is that of the whole log: its events are all
\* there, each at its own place, and no input of the step came after it and
\* before the answer (runtime/execution/projection/model-call.ts).
RequestsAnswerable ==
  \E w \in {Whole} : \A call \in Range(projector.snapshot.calls) :
    RequestAvailability(projector.snapshot.entries, call.request) = "available" =>
      /\ \A i \in 1..call.request.through : projector.snapshot.entries[i].seq = i
      /\ \E whole \in Range(w.calls.calls) :
           /\ whole.step = call.step /\ whole.response = call.response
           /\ whole.request.through = call.request.through /\ whole.request.header = call.request.header
      /\ call.response # 0 => call.request.through < call.response

\* The conversation that was drawn is that of a fresh build, shows nothing
\* twice, and has a live activity only as long as something runs
\* (modules/transcript/model.ts).
TranscriptExact ==
  LET items == FlattenSeq(shown.projection.items) IN
  /\ shown.projection = Projection(shown.snapshot, shown.in,
                                   BuildTranscriptHistory(shown.snapshot, shown.in.entries, shown.details))
  /\ \A i, j \in DOMAIN items : items[i].key = items[j].key => i = j
  /\ shown.projection.active # NoKey =>
       shown.in.running \/ shown.in.vision # 0
=============================================================================
