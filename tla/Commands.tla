------------------------------ MODULE Commands ------------------------------
(***************************************************************************)
(* Slash commands (application/commands).  The router decides whether a    *)
(* submitted text is a command; the directory runs the client's own        *)
(* commands and hands the others to the Host, for the Session on screen.   *)
(* A line waits for a Session to be opened, for a page of history, for the *)
(* Skills or for the Host, and meanwhile the Session, the commands of its  *)
(* agent and the Skills change, and other lines are submitted.             *)
(***************************************************************************)
EXTENDS Integers, Sequences, FiniteSets

CONSTANTS
  Listing,      \* command sets an agent of the Host may list
  SkillSet,     \* sets of Skills the catalogue may hold
  LineBound,    \* bound: lines submitted
  RuntimeBound, \* bound: Sessions put on screen, and Sessions opened
  LogBound      \* bound: events of a conversation

VARIABLES
  console,       \* the Session on screen, the one being opened, the commands and Skills known
  agents,     \* what the agent of each Session lists
  talks,      \* the events of each Session: completed replies, and others
  lines,      \* lines on their way
  activities, \* labels in the status line, the newest last
  pages,      \* runtimes whose earlier history has been asked for
  ended       \* how the last line ended

commandVars == <<console, agents, talks, lines, activities, pages, ended>>

\* The client's own commands; only /usage shows an activity.
Local == {"usage", "skills", "copy"}
Names == Local \cup UNION Listing \cup UNION SkillSet

Unbound == 0
Talk == 1 .. 2
NotEnded == [as |-> "none", command |-> FALSE, right |-> TRUE]

-----------------------------------------------------------------------------
(* Catalogue                                                                *)

\* has: every name that runs as a command, the client's before the Host's.
Has(d, name) == name \in Local \cup d.listed

ActivityLabel(d, name) == name = "usage" \/ (name \notin Local /\ name \in d.listed)

\* mergeSlashCatalog and resolveLeadingSlash: a command hides the Skill of its name.
Resolution(d, name) ==
  IF Has(d, name) THEN "command" ELSE IF name \in d.skills.entries THEN "skill" ELSE "unknown"

SkillsKnown(d) == d.skills.status \in {"ready", "stale"}

\* The Skills of a Session that comes on screen, which are read at once.
SkillsOf(session) ==
  IF session = Unbound THEN [entries |-> {}, status |-> "idle", reading |-> FALSE]
  ELSE [entries |-> {}, status |-> "loading", reading |-> TRUE]

\* refresh: joins the reading in flight, or begins one.
Refresh(d) ==
  IF d.session = Unbound \/ d.skills.reading THEN d
  ELSE [d EXCEPT !.skills.status = "loading", !.skills.reading = TRUE]

-----------------------------------------------------------------------------
(* The Session on screen                                                    *)

\* refreshHost: what the agent of the Session lists, nothing without one.
RefreshHost(d) == [d EXCEPT !.listed = IF d.session = Unbound THEN {} ELSE agents[d.session]]

\* setSession aborts what runs for the Session before.
AbortExecutions(ls) == {[l EXCEPT !.aborted = @ \/ l.phase = "executing"] : l \in ls}

\* What was captured in the conversation before is no longer active, which has
\* a catalogue of Skills of its own.
Retired(ls) == {[l EXCEPT !.active = FALSE] : l \in ls}

SetSession(d, session, runtime, ls) ==
  /\ console' = RefreshHost([d EXCEPT !.session = session, !.runtime = runtime, !.skills = SkillsOf(session),
                                   !.loaded = IF session # Unbound /\ talks[session] # <<>> THEN 1 ELSE 0])
  /\ lines' = Retired(IF session = console.session THEN ls ELSE AbortExecutions(ls))

Quiet == ended' = NotEnded

\* ensureSession joins the Session that is being opened, or begins one.
MayOpen == console.opening # "none" \/ (console.runtimes < RuntimeBound /\ console.born < Cardinality(Talk))
Opened(d) == IF d.opening # "none" THEN d ELSE [d EXCEPT !.opening = "begun"]

\* The Session to open is on screen; following it and its models take longer.
OpenCommits ==
  /\ console.opening = "begun"
  /\ SetSession([console EXCEPT !.born = @ + 1, !.runtimes = @ + 1, !.opening = "committed"],
                console.born + 1, console.runtimes + 1, lines)
  /\ Quiet /\ UNCHANGED <<agents, talks, activities, pages>>

\* Lines that wait for a Session whose opening fails or is superseded.
LinesSuperseded(ls) == {IF l.phase = "opening" THEN [l EXCEPT !.phase = "superseded"] ELSE l : l \in ls}

OpenFails ==
  /\ console.opening # "none"
  /\ console' = [console EXCEPT !.opening = "none"] /\ lines' = LinesSuperseded(lines)
  /\ Quiet /\ UNCHANGED <<agents, talks, activities, pages>>

\* newSession and a resume supersede the Session that is being opened.
ClearSession ==
  /\ console.session # Unbound \/ console.opening # "none"
  /\ SetSession([console EXCEPT !.opening = "none"], Unbound, 0, LinesSuperseded(lines))
  /\ Quiet /\ UNCHANGED <<agents, talks, activities, pages>>

Resume ==
  /\ console.runtimes < RuntimeBound
  /\ \E session \in 1 .. console.born :
       SetSession([console EXCEPT !.opening = "none", !.runtimes = @ + 1],
                  session, console.runtimes + 1, LinesSuperseded(lines))
  /\ Quiet /\ UNCHANGED <<agents, talks, activities, pages>>

\* The Host lists other commands for the Session on screen, and says so.
CommandsChange ==
  /\ console.session # Unbound /\ ~console.changed
  /\ \E listing \in Listing :
       /\ agents' = [agents EXCEPT ![console.session] = listing]
       /\ console' = [console EXCEPT !.listed = listing, !.changed = TRUE]
  /\ Quiet /\ UNCHANGED <<talks, lines, activities, pages>>

\* The conversation on screen goes on, here while a page of it is on its way.
Arrives ==
  /\ console.runtime \in pages /\ Len(talks[console.session]) < LogBound
  /\ \E event \in {"reply", "other"} :
       talks' = [talks EXCEPT ![console.session] = Append(@, event)]
  /\ console' = [console EXCEPT !.loaded = @ + 1]
  /\ Quiet /\ UNCHANGED <<agents, lines, activities, pages>>

-----------------------------------------------------------------------------
(* Lines                                                                    *)

\* The router drops the activity of a line that ended, however it did.
Dropped(id) == SelectSeq(activities, LAMBDA a : a # id)

Ends(l, as, right) == ended' = [as |-> as, command |-> l.command, right |-> right]

\* A line that goes on waits in a phase.
Waits(l, phase) == lines' = (lines \ {l}) \cup {[l EXCEPT !.phase = phase]}
GoesOn(l, phase) == Waits(l, phase) /\ Quiet /\ UNCHANGED activities

Finish(l, as) ==
  /\ lines' = lines \ {l}
  /\ activities' = Dropped(l.id)
  /\ Ends(l, as, TRUE)

\* latestAssistantText: of a log whose last n events are loaded.
LatestReply(log, n) ==
  LET found == {i \in Len(log) - n + 1 .. Len(log) : log[i] = "reply"}
  IN  IF found = {} THEN 0 ELSE CHOOSE i \in found : \A j \in found : j <= i

LoadedReply(d) == IF d.session = Unbound THEN 0 ELSE LatestReply(talks[d.session], d.loaded)
HistoryHasMore(d) == d.session # Unbound /\ d.loaded < Len(talks[d.session])

\* What /copy wrote: the latest reply of the conversation it was asked in.
CopiedRight(session, d) ==
  session = d.session /\ LoadedReply(d) = LatestReply(talks[session], Len(talks[session]))

\* The handlers of /skills, which opens the list at once and may read it
\* again, and of /copy, which copies what is loaded or pages for the
\* conversation it captures.
Handle(l, d) ==
  \/ /\ l.name = "skills" /\ Finish(l, "done")
     /\ console' \in {d, Refresh(d)} /\ UNCHANGED pages
  \/ /\ l.name = "copy" /\ console' = d
     /\ IF LoadedReply(d) # 0
        THEN /\ lines' = lines \ {l} /\ activities' = Dropped(l.id) /\ UNCHANGED pages
             /\ Ends(l, "copied", CopiedRight(d.session, d))
        ELSE IF HistoryHasMore(d)
        THEN /\ lines' = (lines \ {l}) \cup
                           {[l EXCEPT !.phase = "paging", !.session = d.session, !.runtime = d.runtime]}
             /\ pages' = pages \cup {d.runtime} /\ Quiet /\ UNCHANGED activities
        ELSE Finish(l, "done") /\ UNCHANGED pages

\* dispatchHost, once a Session is known: the command must still be listed by
\* the one on screen, and runs for the one that is known; late: another is on
\* screen by then.
Execute(l, d) ==
  /\ console' = d /\ UNCHANGED pages
  /\ IF l.name \in d.listed /\ l.session # Unbound
     THEN /\ lines' = (lines \ {l}) \cup {[l EXCEPT !.phase = "executing", !.late = l.session # d.session]}
          /\ Quiet /\ UNCHANGED activities
     ELSE Finish(l, "failed")

\* A text that no command took: a Skill goes on as a prompt; a name nobody
\* knows waits for the Skills once, and goes on unless they are known.
Resolve(l, d, again) ==
  /\ UNCHANGED pages
  /\ IF Resolution(d, l.name) # "unknown" THEN Finish(l, "prompt") /\ console' = d
     ELSE IF ~again /\ d.session # Unbound
     THEN GoesOn([l EXCEPT !.runtime = d.runtime], "refreshing") /\ console' = Refresh(d)
     ELSE Finish(l, IF SkillsKnown(d) THEN "failed" ELSE "prompt") /\ console' = d

\* A line as it is submitted.
Line(name, bare) ==
  [id |-> console.asked + 1, name |-> name, bare |-> bare, phase |-> "dispatched",
   session |-> Unbound, runtime |-> 0, active |-> TRUE, aborted |-> FALSE, late |-> FALSE,
   command |-> Has(console, name), shown |-> ActivityLabel(console, name)]

\* TerminalCommandDirectory.dispatch behind CommandRouter.dispatch.  The client's
\* commands come first: /usage captures the conversation and fails without a
\* model, /skills needs a Session.  A bare /permission opens its dialog.
Dispatch(name, bare) ==
  LET line == Line(name, bare)
      d == [console EXCEPT !.asked = @ + 1]
      Submitted(l) ==
        /\ lines' = lines \cup {l} /\ activities' = IF l.shown THEN Append(activities, l.id) ELSE activities
        /\ Quiet /\ UNCHANGED pages
      EndsAtOnce(as) == Ends(line, as, TRUE) /\ UNCHANGED <<lines, activities, pages>>
  IN  /\ console.asked < LineBound
      /\ \/ /\ name = "skills" /\ console.session = Unbound /\ MayOpen
            /\ console' = Opened(d) /\ Submitted([line EXCEPT !.phase = "opening"])
         \/ name \in {"copy", "skills"} /\ (name = "skills" => console.session # Unbound) /\ Handle(line, d)
         \/ /\ name = "usage" /\ console' = d
            /\ Submitted([line EXCEPT !.phase = "reading", !.session = console.session]) \/ EndsAtOnce("failed")
         \/ /\ name \notin Local /\ name \in console.listed /\ console' = d
            /\ IF name = "permission" /\ bare THEN EndsAtOnce("done")
               ELSE Submitted([line EXCEPT !.phase = "executing", !.session = console.session])
         \/ name \notin Local /\ name \notin console.listed /\ Resolve(line, d, FALSE)
      /\ UNCHANGED <<agents, talks>>

\* A Host command chosen in a dialog or given at startup: the Session is opened first.
DispatchHost(name) ==
  LET line == [Line(name, TRUE) EXCEPT !.session = console.session, !.command = TRUE, !.shown = FALSE]
      d == [console EXCEPT !.asked = @ + 1]
  IN  /\ console.asked < LineBound
      /\ IF console.session # Unbound THEN Execute(line, d)
         ELSE /\ MayOpen /\ console' = Opened(d) /\ Quiet /\ UNCHANGED <<activities, pages>>
              /\ lines' = lines \cup {[line EXCEPT !.phase = "opening"]}
      /\ UNCHANGED <<agents, talks>>

\* The Session to open is followed: the lines that wait for it may go on.
OpenSettles ==
  /\ console.opening = "committed"
  /\ console' = [console EXCEPT !.opening = "none"]
  /\ lines' = {IF l.phase = "opening" THEN [l EXCEPT !.phase = "opened", !.session = console.session] ELSE l :
                 l \in lines}
  /\ Quiet /\ UNCHANGED <<agents, talks, activities, pages>>

\* A line that waited for a Session goes on, when another may have replaced
\* it; it fails when the opening failed or was superseded.
OpenReturns(l) ==
  /\ \/ l.phase = "superseded" /\ Finish(l, "failed") /\ UNCHANGED <<console, pages>>
     \/ /\ l.phase = "opened"
        /\ IF l.name \in Local THEN Handle(l, console) ELSE Execute(l, console)
  /\ UNCHANGED <<agents, talks>>

\* The Host answers, for an aborted execution too; a /permission with an
\* argument that succeeded is saved as the default.
ExecutionEnds(l) ==
  /\ l.phase = "executing"
  /\ \/ l.name = "permission" /\ ~l.bare /\ GoesOn(l, "saving")
     \/ (l.name # "permission" \/ l.bare) /\ Finish(l, "done")
     \/ Finish(l, "failed")
  /\ UNCHANGED <<console, agents, talks, pages>>

\* The default is saved, or the line fails; what became of a quota is told in
\* the conversation that asked for it, while it is active.
WorkEnds(l) ==
  /\ \/ l.phase = "saving" /\ (Finish(l, "done") \/ Finish(l, "failed"))
     \/ /\ l.phase = "reading" /\ lines' = lines \ {l} /\ activities' = Dropped(l.id)
        /\ IF l.active THEN Ends(l, "told", l.session = console.session) ELSE Ends(l, "done", TRUE)
  /\ UNCHANGED <<console, agents, talks, pages>>

\* The Skills of the conversation on screen were read, in which they may have
\* changed, or were not.
SkillsAnswer ==
  /\ console.skills.reading
  /\ \E skills \in [entries : SkillSet, status : {"ready"}] \cup
                    [entries : {console.skills.entries},
                     status : {"unavailable", IF console.skills.entries # {} THEN "stale" ELSE "error"}] :
       console' = [console EXCEPT !.skills = [entries |-> skills.entries, status |-> skills.status, reading |-> FALSE]]
  /\ lines' = {IF l.phase = "refreshing" /\ l.runtime = console.runtime THEN [l EXCEPT !.phase = "refreshed"] ELSE l :
                 l \in lines}
  /\ Quiet /\ UNCHANGED <<agents, talks, activities, pages>>

\* A line that waited for the Skills is resolved again; the reading it waited
\* for was aborted with its conversation.
SkillsReturn(l) ==
  /\ l.phase = "refreshed" \/ (l.phase = "refreshing" /\ l.runtime # console.runtime)
  /\ Resolve(l, console, TRUE)
  /\ UNCHANGED <<agents, talks>>

-----------------------------------------------------------------------------
(* Earlier history                                                          *)

\* A reader of the conversation asks for a page, which /copy then joins.
ScrollsUp ==
  /\ HistoryHasMore(console) /\ console.runtime \notin pages
  /\ pages' = pages \cup {console.runtime}
  /\ Quiet /\ UNCHANGED <<console, agents, talks, lines, activities>>

\* The page is added when the runtime that asked is still on screen, and every
\* /copy that waited for it reads again, while its Session is active.
PageAnswers(runtime) ==
  /\ UNCHANGED <<agents, talks>>
  /\ \E waiting \in {{l \in lines : l.phase = "paging" /\ l.runtime = runtime}},
        owned \in {runtime = console.runtime},
        answer \in {"page", "empty", "failed"} :
       LET d == IF owned /\ answer = "page" THEN [console EXCEPT !.loaded = @ + 1] ELSE console
           over == [ls |-> lines \ waiting, as |-> SelectSeq(activities, LAMBDA a : \A l \in waiting : a # l.id)]
       IN  /\ answer = "page" /\ owned => HistoryHasMore(console)
           /\ console' = d
           /\ IF waiting = {} THEN pages' = pages \ {runtime} /\ Quiet /\ UNCHANGED <<lines, activities>>
              ELSE \E l \in waiting :
                IF owned /\ answer = "page" /\ LoadedReply(d) = 0 /\ HistoryHasMore(d)
                THEN Quiet /\ UNCHANGED <<lines, activities, pages>>
                ELSE /\ lines' = over.ls /\ activities' = over.as /\ pages' = pages \ {runtime}
                     /\ IF owned /\ answer = "page" /\ LoadedReply(d) # 0 THEN Ends(l, "copied", CopiedRight(l.session, d))
                        ELSE Ends(l, IF answer = "failed" THEN "failed" ELSE "done", TRUE)

-----------------------------------------------------------------------------

CommandsInit ==
  /\ \E s \in {Unbound, 1} :
       console = [session |-> s, runtime |-> s, runtimes |-> s, born |-> 1, opening |-> "none",
               listed |-> IF s = Unbound THEN {} ELSE {"permission", "usage"},
               changed |-> FALSE, loaded |-> s, asked |-> 0, skills |-> SkillsOf(s)]
  /\ agents = [s \in Talk |-> {"permission", "usage"}]
  /\ talks = [s \in Talk |-> IF s = 1 THEN <<"reply", "other">> ELSE <<>>]
  /\ lines = {} /\ activities = <<>> /\ pages = {} /\ ended = NotEnded

CommandsNext ==
  \/ \E name \in Names, bare \in BOOLEAN : (name # "permission" => bare) /\ Dispatch(name, bare)
  \/ DispatchHost("permission") \/ OpenCommits \/ OpenFails \/ ClearSession \/ Resume
  \/ CommandsChange \/ Arrives \/ ScrollsUp
  \/ OpenSettles \/ SkillsAnswer
  \/ \E l \in lines : OpenReturns(l) \/ ExecutionEnds(l) \/ WorkEnds(l) \/ SkillsReturn(l)
  \/ \E runtime \in pages : PageAnswers(runtime)

\* What the router promises whatever happens while a line waits: what the Host
\* runs and nobody aborted runs for the Session on screen, unless that one
\* replaced the Session the line had opened before the line went on; a text
\* that named a command when it was submitted never reaches the model; the
\* status line shows an activity exactly for the labelled lines that are on
\* their way; /copy writes the latest reply of the conversation it was asked
\* in, and a quota is told in the Session that asked for it.
CommandsCurrent ==
  /\ \A l \in lines : l.phase = "executing" /\ ~l.aborted /\ ~l.late => l.session = console.session
  /\ ended.as = "prompt" => ~ended.command
  /\ \A l \in lines : (\E i \in 1 .. Len(activities) : activities[i] = l.id) <=> l.shown
  /\ \A i \in 1 .. Len(activities) : \E l \in lines : l.id = activities[i]
  /\ ended.right
=============================================================================
