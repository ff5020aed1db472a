------------------------------- MODULE Keymap -------------------------------
(***************************************************************************)
(* The one binding table of the terminal and how a key is resolved with it *)
(* (presentation/shell/input/keymap.ts, resolve-terminal-input.ts).  A key *)
(* is looked up among the bindings available in the context; the highest   *)
(* priority wins, and two winners are an exception.                        *)
(***************************************************************************)
EXTENDS Naturals, Sequences, FiniteSets

Base == 100
OnSurface == 200
Modal == 300

Flag == {"working", "imageBusy", "hasAttachments", "composerEmpty",
         "autocomplete", "interaction", "surface", "rail"}

SurfaceContext ==
  {"approval", "choice", "memory", "menu", "model-menu", "multi-select", "request",
   "rewind-confirm", "rewind-point", "skills", "text-input", "trajectory", "web-menu"}

NoContext == "none"

\* A context is the set of flags that hold, and what the focused surface takes.
KeyContext == [flags : SUBSET Flag, takes : SurfaceContext \cup {NoContext}]

InBase(c) == c.flags \cap {"interaction", "surface", "rail"} = {}

Available(when, c) ==
  CASE when = "interacting" -> "interaction" \in c.flags
    [] when = "rail" -> "rail" \in c.flags
    [] when = "leaving" -> InBase(c) \/ "interaction" \in c.flags
    [] when = "base" -> InBase(c)
    [] when = "working" -> InBase(c) /\ "working" \in c.flags
    [] when = "attachments" -> InBase(c) /\ "hasAttachments" \in c.flags
    [] when = "empty" -> InBase(c) /\ "composerEmpty" \in c.flags
    [] when = "interruptible" -> InBase(c) /\ c.flags \cap {"working", "imageBusy"} # {}
    [] when = "resting" ->
         InBase(c) /\ c.flags \cap {"working", "imageBusy", "autocomplete"} = {}
    [] OTHER -> c.takes = when

Bind(action, keys, when, priority) ==
  {[action |-> action, key |-> k, when |-> when, priority |-> priority] : k \in keys}

BaseBindings ==
  UNION {
    Bind("interaction.cancel", {"escape"}, "interacting", Modal),
    Bind("attachments.leave", {"escape", "ctrl-c"}, "rail", Modal),
    Bind("app.cancel-or-exit", {"ctrl-c"}, "leaving", Modal),
    Bind("vision.paste", {"ctrl-v"}, "base", Base),
    Bind("attachments.focus", {"alt-a"}, "attachments", Base),
    Bind("attachments.remove-last", {"alt-backspace"}, "attachments", Base),
    Bind("details.toggle", {"ctrl-o"}, "base", Base),
    Bind("reasoning.cycle", {"shift-tab"}, "base", Base),
    Bind("turn.queue", {"tab"}, "working", Base),
    Bind("history.page-up", {"page-up"}, "empty", Base),
    Bind("history.page-down", {"page-down"}, "empty", Base),
    Bind("history.latest", {"ctrl-g"}, "base", Base),
    Bind("draft.previous", {"up"}, "base", Base),
    Bind("draft.next", {"down"}, "base", Base),
    Bind("run.interrupt", {"escape"}, "interruptible", Base),
    Bind("composer.escape", {"escape"}, "resting", Base),
    Bind("attachments.previous", {"left", "h"}, "rail", OnSurface),
    Bind("attachments.next", {"right", "l"}, "rail", OnSurface),
    Bind("attachments.remove-selected", {"delete", "backspace"}, "rail", OnSurface)}

\* One row per semantic action of a surface: its name and the keys for it.
Rows(context, rows) == UNION {Bind(r[1], r[2], context, OnSurface) : r \in rows}

Leave == {<<"surface.back", {"escape", "ctrl-c"}>>}
Arrows == {<<"surface.previous", {"up"}>>, <<"surface.next", {"down"}>>}
Letters == {<<"surface.previous", {"up", "k"}>>, <<"surface.next", {"down", "j"}>>}
Pages == {<<"surface.page-previous", {"page-up"}>>, <<"surface.page-next", {"page-down"}>>}
Ends == {<<"surface.first", {"g"}>>, <<"surface.last", {"G"}>>}
EnterKey == {<<"surface.confirm", {"enter"}>>}
EnterOrSpace == {<<"surface.confirm", {"enter", "space"}>>}
Select(n) ==
  {<<<<"surface.select-1", {"1"}>>, <<"surface.select-2", {"2"}>>, <<"surface.select-3", {"3"}>>,
     <<"surface.select-4", {"4"}>>, <<"surface.select-5", {"5"}>>, <<"surface.select-6", {"6"}>>,
     <<"surface.select-7", {"7"}>>, <<"surface.select-8", {"8"}>>, <<"surface.select-9", {"9"}>>>>[i] :
   i \in 1 .. n}

Reader ==
  Letters \cup Pages \cup EnterKey \cup
  {<<"surface.session-info", {"s"}>>, <<"surface.search", {"/"}>>, <<"surface.search-next", {"n"}>>,
   <<"surface.search-previous", {"N"}>>, <<"surface.search-case", {"c"}>>, <<"surface.request-format", {"v"}>>,
   <<"surface.section-previous", {"["}>>, <<"surface.section-next", {"]"}>>,
   <<"surface.interrupt-or-cancel", {"ctrl-c"}>>, <<"surface.back", {"escape"}>>,
   <<"surface.tab-next", {"tab", "right"}>>, <<"surface.tab-previous", {"shift-tab", "left"}>>,
   <<"surface.detail-previous", {"K"}>>, <<"surface.detail-next", {"J"}>>, <<"surface.collapse", {"h"}>>,
   <<"surface.expand", {"l"}>>, <<"surface.last", {"G"}>>, <<"surface.half-page-previous", {"ctrl-u"}>>,
   <<"surface.half-page-next", {"ctrl-d"}>>}

SurfaceBindings ==
  UNION {
    Rows("choice", Leave \cup Letters \cup EnterKey),
    Rows("text-input", {<<"surface.back", {"escape"}>>}),
    Rows("approval", Letters \cup {<<"surface.next", {"tab"}>>} \cup Select(2) \cup EnterKey),
    Rows("multi-select", Arrows \cup Pages \cup EnterKey \cup {<<"surface.toggle", {"space"}>>}),
    Rows("menu", Leave \cup Letters \cup Ends \cup EnterOrSpace),
    Rows("memory", Leave \cup Arrows \cup Pages \cup EnterOrSpace),
    Rows("model-menu", Leave \cup Arrows \cup Pages \cup Select(9) \cup EnterKey),
    Rows("web-menu", Leave \cup Letters \cup Ends \cup EnterOrSpace
                     \cup {<<"surface.refresh", {"r", "R"}>>}),
    Rows("rewind-point", Leave \cup Arrows \cup Pages \cup EnterKey),
    Rows("rewind-confirm", Leave \cup Arrows \cup Pages \cup Select(4) \cup EnterKey
                           \cup {<<"surface.next", {"tab"}>>}),
    Rows("skills", Leave \cup Letters \cup Ends \cup EnterKey \cup
           {<<"surface.back", {"h"}>>, <<"surface.search", {"/", "s"}>>, <<"surface.create", {"n"}>>,
            <<"surface.edit", {"e"}>>, <<"surface.refresh", {"r"}>>, <<"surface.expand", {"l", "right"}>>}),
    Rows("trajectory", Reader \cup {<<"surface.first", {"g"}>>}),
    Rows("request", Reader \cup {<<"surface.request-jump", {"g"}>>})}

Bindings == BaseBindings \cup SurfaceBindings

BoundKey == {b.key : b \in Bindings}

\* What may repeat while a key is held.
Repeatable ==
  {"surface.previous", "surface.next", "surface.page-previous", "surface.page-next",
   "surface.half-page-previous", "surface.half-page-next", "surface.detail-previous",
   "surface.detail-next", "surface.section-previous", "surface.section-next",
   "surface.tab-previous", "surface.tab-next", "surface.search-previous", "surface.search-next",
   "draft.previous", "draft.next", "history.page-up", "history.page-down",
   "attachments.previous", "attachments.next"}

BoundTo == [key \in BoundKey |-> {b \in Bindings : b.key = key}]

Candidates(key, c) == IF key \in BoundKey THEN {b \in BoundTo[key] : Available(b.when, c)} ELSE {}

Winners(key, c) ==
  LET candidates == Candidates(key, c) IN {b \in candidates : \A d \in candidates : d.priority <= b.priority}

Conflict(key, c) == Cardinality(Winners(key, c)) > 1

Unmatched == "unmatched"
Suppressed == "suppressed"
Throws == "throws"

ResolveKeymapInput(key, phase, c) ==
  IF Candidates(key, c) = {} THEN Unmatched
  ELSE IF Conflict(key, c) THEN Throws
  ELSE LET action == (CHOOSE b \in Winners(key, c) : TRUE).action
       IN  IF phase = "release" \/ (phase = "repeat" /\ action \notin Repeatable)
           THEN Suppressed ELSE action

\* The route of a key: an action, "unmatched" to pass it to the focused
\* component, "suppressed", or the exception of a conflict.
ResolveTerminalInput(key, phase, c) ==
  IF key = "escape" /\ phase # "press" THEN Suppressed
  ELSE ResolveKeymapInput(key, phase, c)

=============================================================================
