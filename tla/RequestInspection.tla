--------------------------- MODULE RequestInspection ---------------------------
(***************************************************************************)
(* The Request of a Step, read, searched and shown while its availability  *)
(* changes: the jobs of RequestInspection (preparation, query, selection   *)
(* of a hit), each under a scope that a later operation disposes, and the  *)
(* modes of RequestBrowser that start them.                                *)
(*                                                                         *)
(* A scope is a number, 0 when there is none.  A job that resumes after    *)
(* its scope was disposed finds another number there.                      *)
(***************************************************************************)
EXTENDS Integers, FiniteSets

CONSTANTS
  Revision,     \* canonical revisions of a Request that can be read
  Missing,      \* descriptors of a Request with missing history
  Query,        \* what the user searches
  Hits,         \* Hits[format, query]: how many times it occurs
  MaxScopes     \* bound: scopes opened

VARIABLES
  inspection,   \* RequestInspection
  browser,      \* RequestBrowser
  tasks,        \* jobs that have not resumed, with their scope and what they are for
  scopes        \* scopes opened so far

inspectionVars == <<inspection, browser, tasks, scopes>>

Nothing == "nothing"
NoMatch == [of |-> <<>>, ordinal |-> 0]
IdleSearch(query) == [phase |-> "idle", query |-> query, total |-> 0, selected |-> NoMatch]

InspectionInit ==
  /\ inspection = [opened |-> Nothing, phase |-> "empty", request |-> 0, query |-> 0, selection |-> 0,
                   target |-> -1, index |-> <<>>, search |-> IdleSearch("")]
  /\ browser = [format |-> "structured", editor |-> Nothing, exact |-> FALSE, match |-> NoMatch,
                history |-> 0, note |-> ""]
  /\ tasks = {}
  /\ scopes = 0

CanFork == scopes < MaxScopes
Task(kind, scope, of, ordinal) == [kind |-> kind, scope |-> scope, of |-> of, ordinal |-> ordinal]

-----------------------------------------------------------------------------
(* RequestInspection's operations, and what the browser makes of a change *)

CancelSearch(i) ==
  [i EXCEPT !.query = 0, !.selection = 0, !.target = -1, !.index = <<>>,
            !.search = IdleSearch(i.search.query)]

\* RequestBrowser.inspectionChanged.
Changed(b, i, previous) ==
  LET waits == IF i.phase = "unavailable" THEN b ELSE [b EXCEPT !.history = 0]
      fresh == i.phase = "ready" /\ previous # i.opened
  IN  [waits EXCEPT !.match = IF i.phase # "ready" THEN NoMatch ELSE i.search.selected,
                    !.editor = IF i.phase # "ready" THEN Nothing ELSE @,
                    !.format = IF fresh THEN "structured" ELSE @]

\* What a query is about: the document, the format searched, the text and case.
Subject(text) == <<inspection.opened, browser.format, text, browser.exact>>

\* inspection.find, for a browser that has dropped its own match.
FindText(i, b, text) ==
  LET cancelled == CancelSearch(i)
  IN  IF text = "" \/ i.phase # "ready"
      THEN /\ inspection' = cancelled /\ browser' = b
           /\ UNCHANGED <<tasks, scopes>>
      ELSE /\ CanFork /\ scopes' = scopes + 1
           /\ inspection' = [cancelled EXCEPT !.query = scopes', !.search.phase = "searching", !.search.query = text]
           /\ browser' = b
           /\ tasks' = tasks \cup {Task("query", scopes', <<i.opened, b.format, text, b.exact>>, 0)}

SelectMatch(i, ordinal) ==
  /\ CanFork /\ scopes' = scopes + 1
  /\ inspection' = [i EXCEPT !.target = ordinal, !.selection = scopes']
  /\ tasks' = tasks \cup {Task("selection", scopes', i.index, ordinal)}

-----------------------------------------------------------------------------
(* The view opens what is available, or leaves the tab *)

Opens(a) ==
  IF a \in Revision /\ a = inspection.opened THEN UNCHANGED inspectionVars
  ELSE LET cancelled == CancelSearch(inspection)
           shown == [cancelled EXCEPT !.opened = a, !.request = 0]
       IN  IF a \in Missing
           THEN /\ inspection' = [shown EXCEPT !.phase = "unavailable"]
                /\ browser' = Changed(browser, inspection', Nothing)
                /\ UNCHANGED <<tasks, scopes>>
           ELSE /\ CanFork /\ scopes' = scopes + 1
                /\ inspection' = [shown EXCEPT !.phase = "preparing", !.request = scopes']
                /\ browser' = Changed(browser, inspection', Nothing)
                /\ tasks' = tasks \cup {Task("prepare", scopes', <<a>>, 0)}

Suspends ==
  LET kept == [inspection EXCEPT !.selection = 0, !.target = -1]
      idle == IF kept.search.phase = "searching" THEN CancelSearch(kept) ELSE kept
      left == [browser EXCEPT !.editor = Nothing, !.history = 0, !.note = ""]
  IN  /\ inspection' = IF idle.phase = "preparing"
                       THEN [idle EXCEPT !.request = 0, !.opened = Nothing, !.phase = "empty"] ELSE idle
      /\ browser' = IF idle.phase = "preparing" THEN Changed(left, inspection', Nothing) ELSE left
      /\ UNCHANGED <<tasks, scopes>>

-----------------------------------------------------------------------------
(* A job resumes *)

\* Mutant: a job that was replaced resumes as if it were the latest one.
LiveRegardless(task) ==
  IF task.kind = "prepare" THEN task.scope = inspection.request ELSE inspection.phase = "ready"

Live(task) ==
  task.scope = CASE task.kind = "prepare" -> inspection.request
                 [] task.kind = "query" -> inspection.query
                 [] task.kind = "selection" -> inspection.selection
                 [] task.kind = "history" -> browser.history

PrepareResumes(task) ==
  /\ task.kind = "prepare" /\ UNCHANGED scopes
  /\ tasks' = tasks \ {task}
  /\ IF ~Live(task) THEN UNCHANGED <<inspection, browser>>
     ELSE \E phase \in {"ready", "error"} :
            /\ inspection' = [inspection EXCEPT !.phase = phase]
            /\ browser' = Changed(browser, inspection', Nothing)

\* Of an index, which is of a text, a format and a query.
HitsOf(index) == Hits[index[2], index[3]]

\* The index is there: the first hit is selected at once.
QueryResumes(task) ==
  /\ task.kind = "query"
  /\ IF ~Live(task)
     THEN tasks' = tasks \ {task} /\ UNCHANGED <<inspection, browser, scopes>>
     ELSE LET total == HitsOf(task.of)
              found == [inspection EXCEPT !.index = task.of, !.search.phase = "ready", !.search.total = total]
          IN  IF total = 0
              THEN /\ inspection' = found /\ browser' = Changed(browser, found, found.opened)
                   /\ tasks' = tasks \ {task} /\ UNCHANGED scopes
              ELSE /\ CanFork /\ scopes' = scopes + 1
                   /\ inspection' = [found EXCEPT !.target = 0, !.selection = scopes']
                   /\ browser' = Changed(browser, found, found.opened)
                   /\ tasks' = (tasks \ {task})
                                 \cup {Task("selection", scopes', task.of, 0)}

SelectionResumes(task) ==
  /\ task.kind = "selection" /\ UNCHANGED scopes
  /\ tasks' = tasks \ {task}
  /\ IF ~Live(task) THEN UNCHANGED <<inspection, browser>>
     ELSE /\ inspection' = [inspection EXCEPT !.selection = 0, !.search.selected = [of |-> task.of, ordinal |-> task.ordinal]]
          /\ browser' = Changed(browser, inspection', inspection.opened)

\* Waiting for a page only reports how it went.
HistoryResumes(task) ==
  /\ task.kind = "history" /\ UNCHANGED <<inspection, scopes>>
  /\ tasks' = tasks \ {task}
  /\ \E note \in {"loaded", "failed"} :
       browser' = IF Live(task) THEN [browser EXCEPT !.history = 0, !.note = note] ELSE browser

-----------------------------------------------------------------------------
(* Keys *)

Unheld == UNCHANGED <<tasks, scopes>>
Clear(b) == inspection' = CancelSearch(inspection) /\ browser' = [b EXCEPT !.match = NoMatch] /\ Unheld

Escape ==
  \/ browser.editor # Nothing /\ Clear([browser EXCEPT !.editor = Nothing])
  \/ /\ browser.editor = Nothing /\ browser.history # 0
     /\ browser' = [browser EXCEPT !.history = 0, !.note = "cancelled"]
     /\ UNCHANGED inspection /\ Unheld
  \/ /\ browser.editor = Nothing /\ browser.history = 0 /\ inspection.search.phase # "idle"
     /\ Clear(browser)
  \/ /\ browser.editor = Nothing /\ browser.history = 0 /\ inspection.search.phase = "idle"
     /\ browser.format = "json"
     /\ browser' = [browser EXCEPT !.format = "structured"]
     /\ UNCHANGED inspection /\ Unheld

Ready == browser.editor = Nothing /\ inspection.phase = "ready"

Edit(kind) ==
  /\ Ready
  /\ browser' = [browser EXCEPT !.editor = kind]
  /\ UNCHANGED inspection /\ Unheld

SubmitSearch(text) ==
  /\ browser.editor = "search"
  /\ FindText(inspection, [browser EXCEPT !.editor = Nothing, !.match = NoMatch], text)

\* A target that is found leaves JSON and the search.
SubmitJump ==
  /\ browser.editor = "jump"
  /\ \/ Clear([browser EXCEPT !.editor = Nothing, !.format = "structured"])
     \/ UNCHANGED inspectionVars

ToggleCase ==
  /\ Ready
  /\ FindText(inspection, [browser EXCEPT !.exact = ~@, !.match = NoMatch], inspection.search.query)

ToggleFormat ==
  /\ Ready
  /\ FindText(inspection, [browser EXCEPT !.format = IF @ = "json" THEN "structured" ELSE "json", !.match = NoMatch],
          inspection.search.query)

\* n and N go on from the hit aimed at, not from the one already shown.
MoveMatch(direction) ==
  /\ Ready /\ inspection.search.phase = "ready" /\ inspection.search.total > 0
  /\ LET from == IF inspection.target # -1 THEN inspection.target
                 ELSE IF inspection.search.selected # NoMatch THEN inspection.search.selected.ordinal ELSE -1
     IN  SelectMatch(inspection, (from + direction + inspection.search.total) % inspection.search.total)
  /\ UNCHANGED browser

StepSection ==
  /\ Ready /\ browser.format = "json"
  /\ Clear([browser EXCEPT !.format = "structured"])

LoadEarlier ==
  /\ browser.editor = Nothing /\ inspection.phase = "unavailable" /\ browser.history = 0
  /\ CanFork /\ scopes' = scopes + 1
  /\ browser' = [browser EXCEPT !.history = scopes', !.note = "waiting"]
  /\ tasks' = tasks \cup {Task("history", scopes', <<>>, 0)}
  /\ UNCHANGED inspection

InspectionNext ==
  \/ \E a \in Revision \cup Missing : Opens(a)
  \/ Suspends \/ Escape \/ SubmitJump \/ ToggleCase \/ ToggleFormat \/ StepSection \/ LoadEarlier
  \/ \E kind \in {"search", "jump"} : Edit(kind)
  \/ \E text \in Query \cup {""} : SubmitSearch(text)
  \/ \E direction \in {-1, 1} : MoveMatch(direction)
  \/ \E task \in tasks :
       PrepareResumes(task) \/ QueryResumes(task) \/ SelectionResumes(task) \/ HistoryResumes(task)

InspectionSpec == InspectionInit /\ [][InspectionNext]_inspectionVars

-----------------------------------------------------------------------------
(* Properties *)

\* A hit that is shown is one of the document, format, text and case that are
\* searched now, whatever was searched before and resumed late.
MatchIsOfShown ==
  /\ browser.match = inspection.search.selected
  /\ browser.match # NoMatch => browser.match.of = Subject(inspection.search.query)
  /\ browser.editor # Nothing => inspection.phase = "ready"

\* Once no selection is on its way the hit shown is the last one asked for,
\* however fast n and N were pressed.
LastIntentShown ==
  (inspection.target # -1 /\ inspection.selection = 0) => inspection.search.selected.ordinal = inspection.target

\* What the panel shows is what was asked for last, of the Request shown.
InspectionTruthful == MatchIsOfShown /\ LastIntentShown
=============================================================================
