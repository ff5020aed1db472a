------------------------------- MODULE MCViews -------------------------------
(* The views of a Session and the requests of its Host, which share no state, *)
(* side by side: a behaviour is one of a single part, chosen at the start.    *)
EXTENDS Trajectory, RequestInspection, RequestDirectory, RequestSearch,
        TrajectoryMetrics, TextDocument, TabIndicator, PromptPipeline, ExecutionProjection,
        TranscriptView, Interaction, TLC

CONSTANTS l1, l2, p1, r1, r2

VARIABLE part

-----------------------------------------------------------------------------
(* The views                                                                *)

\* A turn with a step and a message, and the start of another turn.
Event(role, key, kind, turn, step) ==
  [role |-> role, key |-> key, kind |-> kind, turn |-> turn, step |-> step]

MCEventLog ==
  << Event("start", "t1", "turn", 1, 0), Event("start", "s1", "step", 1, 1),
     Event("plain", "u", "user", 0, 0), Event("end", "s1", "step", 1, 1),
     Event("start", "t2", "turn", 2, 0) >>

MCTabNames == <<"summary", "payload">>

\* Matches of the only query in each format.
MCHits == [format \in {"structured", "json"}, q \in Query |-> IF format = "json" THEN 2 ELSE 3]

\* Two sections, with a fold and a row of two lines in each.
Record(key, under, folds, rows) == [key |-> key, under |-> under, folds |-> folds, rows |-> rows]

MCTree ==
  << Record("tools", "root", TRUE, 1), Record("tool", "tools", TRUE, 1), Record("schema", "tool", FALSE, 2),
     Record("m", "root", TRUE, 1), Record("body", "m", FALSE, 2), Record("meta", "m", TRUE, 1),
     Record("role", "meta", FALSE, 1) >>

\* A turn, its step, and two tools of the step.
MCParent == <<0, 1, 2, 2>>
MCKind == <<"turn", "step", "tool", "tool">>

\* Two Sessions: a turn that thinks and calls a tool, and one that fails between
\* two tools, with a command beside it and a prompt with images after it.
Logged_(type) ==
  [type |-> type, turn |-> 1, step |-> 1, id |-> 1, outcome |-> "completed",
   reasoning |-> FALSE, human |-> TRUE, vision |-> FALSE, diff |-> FALSE]

MCSessions ==
  { << Logged_("turn/start"), Logged_("request/header"), [Logged_("user/message") EXCEPT !.vision = TRUE],
       Logged_("step/start"), [Logged_("assistant/message") EXCEPT !.reasoning = TRUE],
       Logged_("tool/call"), Logged_("tool/result"), Logged_("step/end"),
       [Logged_("step/start") EXCEPT !.step = 2], [Logged_("assistant/message") EXCEPT !.step = 2],
       Logged_("turn/end") >>,
    << Logged_("turn/start"), Logged_("command/run"), Logged_("step/start"),
       [Logged_("assistant/message") EXCEPT !.reasoning = TRUE, !.outcome = "interrupted"],
       [Logged_("tool/call") EXCEPT !.diff = TRUE], [Logged_("tool/call") EXCEPT !.id = 2],
       [Logged_("tool/result") EXCEPT !.outcome = "failed"],
       [Logged_("user/message") EXCEPT !.human = FALSE, !.id = 2],
       [Logged_("turn/end") EXCEPT !.outcome = "failed"], Logged_("command/done"),
       [Logged_("turn/start") EXCEPT !.turn = 2], [Logged_("user/message") EXCEPT !.id = 3, !.vision = TRUE] >> }

MCText ==
  {<<"a", "w", "a", "lf", "a">>, <<"a", "cr", "lf", "w", "tab", "a">>, <<"lf", "w", "w", "cr", "a", "lf">>}

\* A thought that streams, a notice, the end of the turn and a prompt; before
\* them a page with another prompt, a message nobody typed, a large diff and a
\* tool that joins the thought.
Entry_(key, kind, rows, status, turn) == [key |-> key, kind |-> kind, rows |-> rows, status |-> status, turn |-> turn]

MCArrivals ==
  << Entry_("t", "thinking", 1, "running", 2), Entry_("n", "supplement", 1, "completed", 2),
     Entry_("t", "thinking", 3, "running", 2), Entry_("z", "end", 0, "completed", 2),
     Entry_("p", "prompt", 3, "completed", 3) >>

MCOlder ==
  << Entry_("q", "prompt", 3, "completed", 1), Entry_("c", "context", 1, "completed", 1),
     Entry_("e", "diff", 4, "completed", 1), Entry_("s", "tool", 0, "completed", 2) >>

\* An approval, and two questions of which one is answered in the editor.
TwoRequests == {r1, r2}
MCPages == (r1 :> <<"approval">>) @@ (r2 :> <<"choice", "text-input">>)
MCPressed == {"escape", "ctrl-c", "enter", "backspace", "alt-a", "x"}

-----------------------------------------------------------------------------

viewVars == <<trajectoryVars, inspectionVars, directoryVars, search, metricsVars, textVars, indicatorVars,
              pipelineVars, executionVars, transcriptVars, interactionVars>>

Parts == {"trajectory", "inspection", "directory", "search", "metrics", "text", "indicator",
          "prompt", "execution", "transcript", "interaction"}

\* The parts that do not run start in one state.
ViewsInit ==
  /\ part \in Parts
  /\ TrajectoryInit /\ (part # "trajectory" => loaded.from = 1)
  /\ DirectoryInit /\ (part # "directory" => expanded = {"tools"})
  /\ IndicatorInit /\ (part # "indicator" => \A e \in Elements : ~dom[e].in /\ dom[e].href = Bare)
  /\ ExecutionInit /\ (part # "execution" => Len(log) = 11)
  /\ TranscriptInit /\ ~source.details /\ screen.rows = 5
  /\ InspectionInit /\ SearchInit /\ MetricsInit /\ TextInit /\ PipelineInit /\ InteractionInit

\* The parts that do not run stay as they are.
Alone(p, variables) == IF part = p THEN TRUE ELSE UNCHANGED variables

ViewsNext ==
  /\ UNCHANGED part
  /\ Alone("trajectory", trajectoryVars) /\ Alone("inspection", inspectionVars)
  /\ Alone("directory", directoryVars) /\ Alone("search", search) /\ Alone("metrics", metricsVars)
  /\ Alone("text", textVars) /\ Alone("indicator", indicatorVars) /\ Alone("prompt", pipelineVars)
  /\ Alone("execution", executionVars) /\ Alone("transcript", transcriptVars)
  /\ Alone("interaction", interactionVars)
  /\ \/ part = "trajectory" /\ TrajectoryNext
     \/ part = "inspection" /\ InspectionNext
     \/ part = "directory" /\ DirectoryNext
     \/ part = "search" /\ SearchNext
     \/ part = "metrics" /\ MetricsNext
     \/ part = "text" /\ TextNext
     \/ part = "indicator" /\ IndicatorNext
     \/ part = "prompt" /\ PipelineNext
     \/ part = "execution" /\ ExecutionNext
     \/ part = "transcript" /\ TranscriptNext
     \/ part = "interaction" /\ InteractionNext

\* Bounded searches, refreshed metrics, folded windows, incremental projections,
\* the folded queue and its preview are exactly those of the whole: what
\* RequestSearch, TrajectoryMetrics, TextDocument, ExecutionProjection and
\* PromptPipeline promise.
ExactWhenAsked ==
  /\ part = "search" => ChunksSearchWhole
  /\ part = "metrics" => RefreshIsExact
  /\ part = "text" => WindowIsExact
  /\ part = "prompt" => QueueExact /\ PreviewFair /\ EchoesRetire
  /\ part = "execution" => SnapshotExact /\ WindowTruthful /\ RequestsAnswerable /\ TranscriptExact
  /\ part = "transcript" => GeometryTruthful /\ FrameCurrent /\ WindowTells /\ PlacesKept

\* What a reader looks at stays where it is: the record selected in the ledger,
\* rows of the directory, prompts of the conversation.
StaysInPlace == SelectionKept /\ DirectoryInPlace /\ PlaceKept /\ ReadingKept

ViewsSpec == ViewsInit /\ [][ViewsNext]_<<part, viewVars>>
=============================================================================
