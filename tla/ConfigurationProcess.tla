-------------------------- MODULE ConfigurationProcess --------------------------
(***************************************************************************)
(* Configuration (modules/configuration, infrastructure/harness/models.ts):*)
(* the menu, the model selector and the pages of Vision and Web are        *)
(* surfaces of one stack, opened and applied after answers of the Host     *)
(* that arrive in any order, while the Session, its selection and what may *)
(* be chosen change.  Session 1 is the draft.                              *)
(***************************************************************************)
EXTENDS Integers, Sequences, FiniteSets, SequencesExt

CONSTANTS
  Area,        \* sets of sections: the optional ones of a profile, and "models"
               \* when the user of that profile also asks for models (bound)
  EffortsOf,   \* the reasoning efforts of every model
  Danger,      \* the preset danger-full-access
  WaitBound,   \* bound: questions about a page on their way at once; one of any other kind
  ChangeBound  \* bound: changes made elsewhere, and failures

ASSUME ConfigurationAssumption ==
  /\ Danger # "none"
  /\ IsFiniteSet(DOMAIN EffortsOf) /\ EffortsOf \in [DOMAIN EffortsOf -> Seq(STRING)]
  /\ \E m \in DOMAIN EffortsOf : EffortsOf[m] # <<>>

VARIABLES
  settings,    \* what the Host and the Session hold
  stack,       \* the surfaces, the one in front last
  waiting      \* questions and commands on their way to the Host

configurationVars == <<settings, stack, waiting>>

Model == DOMAIN EffortsOf
Default == "provider-default"
NoPreset == "none"
ValuePages == {"vision", "web"}
Own == {"config", "models", "vision", "web"}
DraftEpoch == 1

Selected_(model, effort) == [model |-> model, effort |-> effort]
AnyModel == CHOOSE m \in Model : EffortsOf[m] # <<>>

Current == settings.chosen
Cataloged == settings.epoch \in settings.cataloged
OnTop == Last(stack)
Showing(kind) == stack # <<>> /\ OnTop.kind = kind
\* Two questions about a page, or one other, are on their way at once.
Room(bound) == Cardinality(waiting) < bound

-----------------------------------------------------------------------------
(* The menu                                                                 *)

Rows_ == <<"model", "reasoning", "permissions", "plan", "vision", "web", "details">>

EffortsIn(held) ==
  IF held.epoch \in held.cataloged THEN EffortsOf[held.chosen.model] ELSE <<>>

Offers(row) ==
  CASE row = "model" -> Cataloged
    [] row = "reasoning" -> EffortsIn(settings) # <<>>
    [] row = "details" -> TRUE
    [] OTHER -> row \in settings.area

RowsOffered(stage, held) ==
  CASE stage = "root" -> Rows_
    [] stage = "reasoning" -> <<Default>> \o EffortsIn(held)
    [] stage = "permissions" -> IF "permissions" \in held.area THEN held.offered ELSE <<>>
    [] stage = "permission-confirm" -> <<"confirm">>
    [] OTHER -> <<"on", "off">>

\* Every publication bounds the cursor of the menu by the rows there are now.
Republished(s) ==
  IF s # <<>> /\ s[1].kind = "config"
  THEN \E held \in {settings'} : \E count \in {Len(RowsOffered(s[1].stage, held))} :
         stack' = [s EXCEPT ![1].index = IF @ <= count THEN @ ELSE IF count = 0 THEN 1 ELSE count]
  ELSE stack' = s

ConfigMenu(stage) == [kind |-> "config", stage |-> stage, entry |-> stage, index |-> 1, pending |-> NoPreset]

\* What is asked, when, and from where: the Session looked at and, for a
\* preset, the stage in which it was confirmed.
Ask(op, value) == [op |-> op, value |-> value, asked |-> settings.epoch, sent |-> settings.epoch, by |-> op]

-----------------------------------------------------------------------------
(* Opening                                                                  *)

CatalogWanted(stage) ==
  IF stage \in {"root", "reasoning"} /\ ~Cataloged THEN {Ask("catalog", Default)} ELSE {}

\* A status is that of the moment it is asked for, of no Session; the last one asked for is marked.
Status(kind, by) ==
  [op |-> "status", value |-> settings.stored[kind], asked |-> DraftEpoch, sent |-> DraftEpoch, by |-> by,
   about |-> kind, last |-> TRUE]
Withdrawn(kind) ==
  {IF w.op = "status" /\ w.about = kind THEN [w EXCEPT !.last = FALSE] ELSE w : w \in waiting}
Awaiting(kind) == [settings EXCEPT !.held[kind].last = FALSE]

OpenMenu(stage) ==
  /\ stack = <<>>
  /\ stage \in {"permissions", "plan"} => stage \in settings.area
  /\ stack' = <<ConfigMenu(stage)>>
  /\ IF stage = "root" /\ "web" \in settings.area /\ settings.held["web"].value = "none"
     THEN /\ waiting' = Withdrawn("web") \cup CatalogWanted(stage) \cup {Status("web", "refresh")}
          /\ settings' = Awaiting("web")
     ELSE waiting' = waiting \cup CatalogWanted(stage) /\ UNCHANGED settings
  /\ Cardinality(waiting') <= WaitBound

\* openModelSelector, openVision, openWeb: the surface opens when the answer is
\* there, unless another one is in front by then.
AskToOpen(kind, rest) ==
  /\ kind \in settings.area /\ stack' = rest
  /\ IF kind = "models" THEN waiting' = waiting \cup {Ask("models", Default)} /\ UNCHANGED settings
     ELSE /\ waiting' = Withdrawn(kind) \cup {Status(kind, "open")} /\ settings' = Awaiting(kind)

OpenRoute(kind) == stack = <<>> /\ Room(1) /\ AskToOpen(kind, <<>>)

\* Where a value is among others, the first place if it is none of them.
PlaceOf(value, values) ==
  IF \E i \in DOMAIN values : values[i] = value THEN SelectInSeq(values, LAMBDA x : x = value) ELSE 1

RowOf(m) == PlaceOf(m, SetToSeq(Model))
Selector(now) == [kind |-> "models", asked |-> settings.epoch, current |-> now, stage |-> "model",
                  index |-> RowOf(now.model), effort |-> 1]

\* Mutant: the answer opens its surface whatever is in front by now.
OpensBlindly(s) == TRUE

\* Nothing is in front.
OpensFor(s) == s = <<>>

-----------------------------------------------------------------------------
(* Keys                                                                     *)

Moved_(index, key, count) ==
  CASE key = "previous" -> IF index > 1 THEN index - 1 ELSE 1
    [] key = "next" -> IF index < count THEN index + 1 ELSE index
    [] key = "first" -> 1
    [] key = "last" -> IF count = 0 THEN 1 ELSE count
    [] OTHER -> index

Put(view) == stack' = [stack EXCEPT ![Len(stack)] = view]

MenuMoves(key) ==
  /\ Showing("config") /\ key \in {"previous", "next", "first", "last"}
  /\ Put([OnTop EXCEPT !.index = Moved_(@, key, Len(RowsOffered(OnTop.stage, settings)))])
  /\ UNCHANGED <<settings, waiting>>

MenuBack ==
  /\ Showing("config")
  /\ CASE OnTop.stage = OnTop.entry -> stack' = Front(stack)
       [] OnTop.stage = "permission-confirm" -> Put([OnTop EXCEPT !.stage = "permissions", !.pending = NoPreset])
       [] OTHER -> Put([OnTop EXCEPT !.stage = "root", !.index = 1])
  /\ UNCHANGED <<settings, waiting>>

\* The preset that needs a confirmation of its own.
Dangerous(preset) == preset = Danger

\* The preset goes to the Host as a command of the current Session; a menu
\* that was opened for permissions closes.
AskPermission(preset) ==
  /\ waiting' = waiting \cup {[Ask("permission", preset) EXCEPT !.by = OnTop.stage]}
  /\ LET kept == IF OnTop.stage = "permission-confirm"
                 THEN [OnTop EXCEPT !.pending = NoPreset, !.stage = OnTop.entry, !.index = 1] ELSE OnTop
     IN  IF OnTop.entry = "permissions" THEN stack' = Front(stack) ELSE Put(kept)
  /\ UNCHANGED settings

EnterRow(row) ==
  /\ OnTop.stage = "root" /\ Offers(row)
  /\ CASE row = "model" -> AskToOpen("models", Front(stack))
       [] row \in ValuePages -> AskToOpen(row, Front(stack))
       [] row = "details" -> settings' = [settings EXCEPT !.details = ~@] /\ UNCHANGED <<stack, waiting>>
       [] OTHER -> Put([OnTop EXCEPT !.stage = row, !.index = 1]) /\ UNCHANGED <<settings, waiting>>

\* selectModel: the Session asked about is the current one, and no image is
\* being analysed.  The draft holds its selection itself.
SelectModel(selection, ask) == \E busy \in BOOLEAN :
  IF ask.asked = settings.epoch /\ ~busy
  THEN IF settings.epoch = DraftEpoch
       THEN settings' = [settings EXCEPT !.chosen = selection] /\ waiting' = waiting \ {ask}
       ELSE /\ waiting' = (waiting \ {ask}) \cup {[ask EXCEPT !.op = "select", !.value = selection, !.sent = settings.epoch]}
            /\ UNCHANGED settings
  ELSE waiting' = waiting \ {ask} /\ UNCHANGED settings

\* Without the catalogue the only row is the current one.
EnterEffort(effort) ==
  /\ OnTop.stage = "reasoning" /\ Cataloged /\ effort # Current.effort
  /\ SelectModel(Selected_(Current.model, effort), Ask("effort", effort))
  /\ Republished(stack)

EnterPreset(preset) ==
  /\ OnTop.stage = "permissions"
  /\ IF Dangerous(preset)
     THEN Put([OnTop EXCEPT !.pending = preset, !.stage = "permission-confirm"]) /\ UNCHANGED <<settings, waiting>>
     ELSE AskPermission(preset)

EnterPlan(value) ==
  /\ OnTop.stage = "plan" /\ ~settings.plan.pending /\ (value = "on") # settings.plan.active
  /\ waiting' = waiting \cup {Ask("plan", value)}
  /\ UNCHANGED <<settings, stack>>

MenuConfirms ==
  /\ Showing("config") /\ Room(1)
  /\ IF OnTop.stage = "permission-confirm" THEN AskPermission(OnTop.pending)
     ELSE /\ OnTop.index \in DOMAIN RowsOffered(OnTop.stage, settings)
          /\ \E value \in {RowsOffered(OnTop.stage, settings)[OnTop.index]} :
               EnterRow(value) \/ EnterEffort(value) \/ EnterPreset(value) \/ EnterPlan(value)

\* The selector: a model, and one of its efforts where it has several.
EffortChoices(m) == IF EffortsOf[m] = <<>> THEN <<>> ELSE <<Default>> \o EffortsOf[m]
ModelAt(index) == SetToSeq(Model)[index]

SelectorMoves(key) ==
  /\ Showing("models") /\ key \in {"previous", "next"}
  /\ IF OnTop.stage = "model" THEN Put([OnTop EXCEPT !.index = Moved_(@, key, Cardinality(Model))])
     ELSE Put([OnTop EXCEPT !.effort = Moved_(@, key, Len(EffortChoices(ModelAt(OnTop.index))))])
  /\ UNCHANGED <<settings, waiting>>

SelectorBack ==
  /\ Showing("models")
  /\ IF OnTop.stage = "effort" THEN Put([OnTop EXCEPT !.stage = "model"]) ELSE stack' = Front(stack)
  /\ UNCHANGED <<settings, waiting>>

SelectorConfirms ==
  /\ Showing("models") /\ Room(1)
  /\ \E m \in {ModelAt(OnTop.index)} :
       IF OnTop.stage = "model" /\ Len(EffortChoices(m)) > 1
       THEN /\ LET now == IF m = OnTop.current.model THEN OnTop.current.effort ELSE Default
               IN  Put([OnTop EXCEPT !.stage = "effort", !.effort = PlaceOf(now, EffortChoices(m))])
            /\ UNCHANGED <<settings, waiting>>
       ELSE /\ SelectModel(Selected_(m, IF EffortChoices(m) = <<>> THEN Default ELSE EffortChoices(m)[OnTop.effort]),
                           [Ask("pick", Default) EXCEPT !.asked = OnTop.asked])
            /\ Republished(Front(stack))

\* The pages of Vision and Web: a choice is written and the status read again.
PageMoves(key) ==
  /\ stack # <<>> /\ OnTop.kind \in ValuePages /\ key \in {"previous", "next"}
  /\ Put([OnTop EXCEPT !.index = Moved_(@, key, 2)])
  /\ UNCHANGED <<settings, waiting>>

PageBack ==
  /\ stack # <<>> /\ OnTop.kind \in ValuePages
  /\ stack' = Front(stack) /\ UNCHANGED <<settings, waiting>>

PageValues == <<"auto", "other">>

Store(kind, value) ==
  [op |-> "store", value |-> value, asked |-> DraftEpoch, sent |-> DraftEpoch, by |-> "store", about |-> kind]

PageConfirms ==
  /\ stack # <<>> /\ OnTop.kind \in ValuePages /\ Room(WaitBound)
  /\ PageValues[OnTop.index] # settings.held[OnTop.kind].value
  /\ waiting' = waiting \cup {Store(OnTop.kind, PageValues[OnTop.index])}
  /\ UNCHANGED <<settings, stack>>

PageRefreshes ==
  /\ Showing("web") /\ Room(WaitBound)
  /\ waiting' = Withdrawn("web") \cup {Status("web", "refresh")}
  /\ settings' = Awaiting("web") /\ UNCHANGED stack

\* /model with a name, and the key that goes to the next effort.
Named ==
  \E m \in Model : /\ "models" \in settings.area /\ Room(1)
                  /\ waiting' = waiting \cup {Ask("named", m)} /\ UNCHANGED <<settings, stack>>

NextEffort(current) ==
  LET values == <<Default>> \o EffortsOf[current.model]
  IN  values[(SelectInSeq(values, LAMBDA e : e = current.effort) % Len(values)) + 1]

Cycle ==
  /\ "models" \in settings.area /\ Room(1)
  /\ IF ~Cataloged THEN waiting' = waiting \cup {Ask("cycle", Default)} /\ UNCHANGED settings
     ELSE /\ EffortsOf[Current.model] # <<>>
          /\ SelectModel(Selected_(Current.model, NextEffort(Current)), Ask("cycle", Default))
  /\ Republished(stack)

-----------------------------------------------------------------------------
(* Answers                                                                  *)

\* HarnessModelPort.refresh: the catalogue is kept by the Session it was asked for.
Committed(w) ==
  [settings EXCEPT !.cataloged = IF w.sent = settings.epoch THEN @ \cup {settings.epoch} ELSE @]

CatalogAnswered(w) ==
  /\ w.op = "catalog"
  /\ settings' = Committed(w) /\ Republished(stack) /\ waiting' = waiting \ {w}

SelectorAnswered(w) ==
  /\ w.op = "models"
  /\ settings' = Committed(w) /\ waiting' = waiting \ {w}
  /\ IF OpensFor(stack) /\ w.asked = settings.epoch THEN stack' = Append(stack, Selector(Current)) ELSE Republished(stack)

\* What is selected once the catalogue is there, if anything: the next effort is
\* counted from the selection of the Session that is current by then.
SelectionOf(w) ==
  CASE w.op = "named" -> Selected_(w.value, Default)
    [] w.op = "effort" -> Selected_(Current.model, w.value)
    [] OTHER -> Selected_(Current.model, NextEffort(Current))

\* selectReasoningEffort of a cycled effort captures the Session of now, and may
\* have to ask for its catalogue too.
ModelAnswered(w) ==
  /\ w.op \in {"named", "effort", "cycle"}
  /\ \E held \in {Committed(w)} :
       IF w.op = "cycle" /\ settings.epoch \notin held.cataloged
       THEN /\ waiting' = (waiting \ {w}) \cup
                 (IF EffortsOf[Current.model] = <<>> THEN {} ELSE {[Ask("effort", NextEffort(Current)) EXCEPT !.by = "cycle"]})
            /\ settings' = held
       ELSE \E busy \in BOOLEAN, ask \in {IF w.op = "cycle" THEN [w EXCEPT !.asked = settings.epoch] ELSE w} :
              IF ask.asked = settings.epoch /\ ~busy /\ (w.op = "cycle" => EffortsOf[Current.model] # <<>>)
              THEN IF settings.epoch = DraftEpoch
                   THEN settings' = [held EXCEPT !.chosen = SelectionOf(w)] /\ waiting' = waiting \ {w}
                   ELSE /\ waiting' = (waiting \ {w}) \cup
                             {[ask EXCEPT !.op = "select", !.value = SelectionOf(w), !.sent = settings.epoch]}
                        /\ settings' = held
              ELSE waiting' = waiting \ {w} /\ settings' = held
  /\ Republished(stack)

\* The Host applies a selection to the Session it was sent for; what is shown
\* changes with the projection.
SelectAnswered(w) ==
  /\ w.op = "select"
  /\ settings' = IF w.sent = settings.epoch THEN [settings EXCEPT !.chosen = w.value] ELSE settings
  /\ Republished(stack) /\ waiting' = waiting \ {w}

\* The Session's preset, and the default for new Sessions after it, are the Host's.
PermissionAnswered(w) ==
  /\ w.op = "permission" /\ waiting' = waiting \ {w} /\ UNCHANGED <<settings, stack>>

PlanAnswered(w) ==
  /\ w.op = "plan"
  /\ \E pending \in BOOLEAN :
       settings' = IF w.sent # settings.epoch THEN settings
                   ELSE IF pending THEN [settings EXCEPT !.plan.pending = TRUE]
                   ELSE [settings EXCEPT !.plan.active = w.value = "on"]
  /\ waiting' = waiting \ {w} /\ UNCHANGED stack

\* refreshWebStatus, refreshVisionStatus: answers are taken as they come.
StatusAnswered(w) ==
  /\ w.op = "status"
  /\ settings' = [settings EXCEPT !.held[w.about] = [value |-> w.value, last |-> w.last]]
  /\ waiting' = waiting \ {w}
  /\ stack' = IF w.by = "open" /\ OpensFor(stack)
              THEN Append(stack, [kind |-> w.about, index |-> IF w.about = "web" /\ w.value = "other" THEN 2 ELSE 1])
              ELSE stack

\* The status is read again once the choice is stored.
StoreAnswered(w) ==
  /\ w.op = "store"
  /\ settings' = [Awaiting(w.about) EXCEPT !.stored[w.about] = w.value]
  /\ waiting' = (Withdrawn(w.about) \ {w}) \cup {[Status(w.about, "refresh") EXCEPT !.value = w.value]}
  /\ UNCHANGED stack

Changes == settings.changes < ChangeBound
Counted(s) == [s EXCEPT !.changes = @ + 1]

\* A question or a command fails: a notice, nothing else.
Fails(w) ==
  /\ Changes /\ settings' = Counted(settings)
  /\ waiting' = waiting \ {w} /\ UNCHANGED stack

-----------------------------------------------------------------------------
(* Elsewhere                                                                *)

\* Another Session is made current.
BindSession ==
  /\ Changes /\ settings.epoch < 3
  /\ \E known \in BOOLEAN : ("models" \notin settings.area => known) /\
       settings' = [Counted(settings) EXCEPT !.epoch = @ + 1, !.chosen = Selected_(AnyModel, Default),
                                             !.plan = [active |-> FALSE, pending |-> FALSE],
                      !.cataloged = IF known THEN @ \cup {settings.epoch + 1} ELSE @]
  /\ Republished(stack) /\ UNCHANGED waiting

\* Another client selects a model of the current Session, presets come and go,
\* a pending plan settles.
Elsewhere ==
  /\ Changes
  /\ \/ \E m \in Model : settings' = [Counted(settings) EXCEPT !.chosen = Selected_(m, Default)]
     \/ /\ "permissions" \in settings.area
        /\ settings' = [Counted(settings) EXCEPT !.offered = IF Len(@) = 1 THEN <<"ask", Danger>> ELSE <<Danger>>]
     \/ settings.plan.pending /\ settings' = [Counted(settings) EXCEPT !.plan = [active |-> ~@.active, pending |-> FALSE]]
  /\ Republished(stack) /\ UNCHANGED waiting

\* An approval opens over whatever is in front, and is answered.
Approval ==
  \/ /\ Changes /\ ~Showing("approval")
     /\ stack' = Append(stack, [kind |-> "approval"]) /\ settings' = Counted(settings) /\ UNCHANGED waiting
  \/ Showing("approval") /\ stack' = Front(stack) /\ UNCHANGED <<settings, waiting>>

-----------------------------------------------------------------------------

ConfigurationInit ==
  /\ \E area \in Area, epoch \in 1..2, known \in BOOLEAN :
       /\ "models" \notin area => epoch = 2 /\ known
       /\ settings = [area |-> area, epoch |-> epoch, cataloged |-> IF known THEN {epoch} ELSE {},
                   chosen |-> Selected_(AnyModel, Default),
                   offered |-> <<"ask", Danger>>,
                   plan |-> [active |-> FALSE, pending |-> FALSE], details |-> FALSE,
                   stored |-> [k \in ValuePages |-> "auto"],
                   held |-> [k \in ValuePages |-> [value |-> IF k = "vision" THEN "auto" ELSE "none", last |-> FALSE]],
                   changes |-> 0]
  /\ stack = <<>> /\ waiting = {}

ConfigurationNext ==
  \/ \E stage \in {"root", "reasoning", "permissions", "plan"} : OpenMenu(stage)
  \/ \E kind \in {"models"} \cup ValuePages : OpenRoute(kind)
  \/ \E key \in {"previous", "next", "first", "last"} : MenuMoves(key) \/ SelectorMoves(key) \/ PageMoves(key)
  \/ MenuBack \/ SelectorBack \/ PageBack
  \/ MenuConfirms \/ SelectorConfirms \/ PageConfirms \/ PageRefreshes
  \/ Named \/ Cycle
  \/ \E w \in waiting :
       \/ CatalogAnswered(w) \/ SelectorAnswered(w) \/ ModelAnswered(w) \/ SelectAnswered(w)
       \/ PermissionAnswered(w) \/ PlanAnswered(w) \/ StatusAnswered(w) \/ StoreAnswered(w) \/ Fails(w)
  \/ BindSession \/ Elsewhere \/ Approval

\* A model goes to the Session in which it was chosen, with an effort the model
\* has, though the catalogue, the Session or the selection changed meanwhile
\* (an effort reached by cycling is counted anew, process.ts:226).
ModelForItsSession ==
  \A w \in waiting : w.op = "select" =>
     /\ w.asked = w.sent
     /\ w.by # "cycle" => w.value.effort \in {Default} \cup {EffortsOf[w.value.model][i] : i \in DOMAIN EffortsOf[w.value.model]}

\* Unrestricted access is asked of the Host only from its confirmation, which
\* is shown exactly while it is pending.
DangerConfirmed ==
  /\ \A w \in waiting : w.op = "permission" /\ w.value = Danger => w.by = "permission-confirm"
  /\ \A i \in DOMAIN stack : stack[i].kind = "config" => (stack[i].stage = "permission-confirm" <=> stack[i].pending = Danger)

\* Late answers never open a surface over another one, and no cursor is left
\* beyond its rows.
OpensAlone ==
  \A i \in DOMAIN stack : stack[i].kind \in Own =>
     /\ i = 1
     /\ stack[i].kind = "config" /\ stack[i].stage # "permission-confirm" =>
          stack[i].index = 1 \/ stack[i].index <= Len(RowsOffered(stack[i].stage, settings))

\* When the status asked for last is the one answered, it shows what is stored.
StatusCurrent ==
  \A k \in ValuePages : settings.held[k].last => settings.held[k].value = settings.stored[k]

ConfigurationCurrent == ModelForItsSession /\ DangerConfirmed /\ OpensAlone /\ StatusCurrent
=============================================================================
