----------------------------- MODULE TranscriptView -----------------------------
(***************************************************************************)
(* Reading a conversation: the items of a Transcript laid out in lines     *)
(* with what is folded (modules/transcript/view.ts), the window of these   *)
(* lines above the composer (presentation/shell/layout), the clock of the  *)
(* animated title (process.ts), the places of applied diffs looked up in   *)
(* the workspace (diff-location.ts), and the pointer and the keys that     *)
(* fold, scroll, jump and select (application/input-coordinator.ts).       *)
(* Content, surfaces, sizes and frames come when they want: a gesture      *)
(* always meets the geometry of the last frame.                            *)
(***************************************************************************)
EXTENDS Integers, SequencesExt, FiniteSetsExt

CONSTANTS
  Arrivals,     \* the stream: [key, kind, rows, status, turn]; an entry of a known key takes its place
  Older,        \* what is read when the page before arrives
  Heights,      \* rows the composer leaves to the conversation
  DockRows,     \* of these, what a readable surface takes
  ThoughtRows,  \* rows of an open thought
  LargeDiff,    \* rows above which a diff starts folded
  GestureBound  \* bound: keys, clicks and turns of the wheel

ASSUME RoomAssumption == \A rows \in Heights : DockRows \in 0..(rows - 1)

VARIABLES
  source,    \* [n, older, details]: the Session and the preference for details
  transcript, \* TranscriptComponent
  reading,   \* ComposerAnchoredLayout
  screen,    \* [rows, surface], what the last frame drew, whether another is requested, the clock
  gesture,   \* the button, the row of the press, whether it moved, the header under it; gestures so far
  locating   \* DiffLineLocator: attempted, the lookups under way, their results

transcriptVars == <<source, transcript, reading, screen, gesture, locating>>

Following == -1
Foldable == {"activity", "thinking", "tool", "diff"}
NoEntry == "none"
Gap == -1
Header == -2
Keys == {e.key : e \in ToSet(Arrivals) \cup ToSet(Older)}
Least(a, b) == IF a < b THEN a ELSE b
Most(a, b) == IF a > b THEN a ELSE b

-----------------------------------------------------------------------------
(* Items, and what is folded                                                *)

\* What has arrived, in the order it came first.
Landed(s) ==
  FoldLeft(LAMBDA list, e : IF \E i \in DOMAIN list : list[i].key = e.key
                            THEN [i \in DOMAIN list |-> IF list[i].key = e.key THEN e ELSE list[i]]
                            ELSE Append(list, e),
           IF s.older THEN Older ELSE <<>>, SubSeq(Arrivals, 1, s.n))

\* Messages nobody typed are details; of the end of a turn only an error is shown.
InSight(s, e) == (e.kind = "context" => s.details) /\ (e.kind = "end" => e.status = "failed")

\* Notices and prompts under way come last, whenever they came.
TranscriptEntries(s) ==
  LET shown == SelectSeq(Landed(s), LAMBDA e : InSight(s, e)) IN
  SelectSeq(shown, LAMBDA e : e.kind # "supplement") \o SelectSeq(shown, LAMBDA e : e.kind = "supplement")

ItemOf(e, parts) == [key |-> e.key, kind |-> e.kind, rows |-> e.rows, status |-> e.status, parts |-> parts]

\* Adjacent thoughts and tools are one activity.
Items(s) ==
  FoldLeft(LAMBDA items, e :
             IF e.kind \notin {"thinking", "tool"} THEN Append(items, ItemOf(e, <<>>))
             ELSE IF items # <<>> /\ Last(items).kind = "activity"
             THEN [items EXCEPT ![Len(items)].parts = Append(@, e)]
             ELSE Append(items, ItemOf([e EXCEPT !.key = "activity:" \o e.key, !.kind = "activity"], <<e>>)),
           <<>>, TranscriptEntries(s))

\* The activity that no content follows is animated until the turn that owns
\* one of its parts has ended; supplements do not close it.
TurnEnded(s, turn) == \E e \in ToSet(Landed(s)) : e.kind = "end" /\ e.turn = turn

ActiveActivity(s, items) ==
  LET tail == SelectLastInSeq(items, LAMBDA item : item.kind # "supplement") IN
  IF tail # 0 /\ \E p \in ToSet(items[tail].parts) : ~TurnEnded(s, p.turn) THEN items[tail].key ELSE NoEntry

\* ExecutionDisclosureState: a choice overrides the preference; a group is
\* chosen by its children, and stays closed when one of them was closed.
Expanded(v, key, details) == IF v.folds[key] = "unset" THEN details ELSE v.folds[key] = "open"

GroupExpanded(v, parts, details) ==
  IF \E k \in parts : v.groups[k] = "closed" THEN FALSE
  ELSE details \/ \E k \in parts : v.groups[k] = "open"

Collapsed(v, item) ==
  IF v.diffs[item.key] = "unset" THEN item.status = "failed" \/ item.rows > LargeDiff
  ELSE v.diffs[item.key] = "closed"

-----------------------------------------------------------------------------
(* TranscriptComponent.render: lines are [key, row], the title is row 0     *)

TitleAnd(key, n) == [i \in 1..(n + 1) |-> <<key, i - 1>>]

MostOffset(e) == Most(0, e.rows - ThoughtRows)

\* A running thought is read at its end unless the reader went up.
ThoughtOffset(v, e) ==
  IF e.status = "running" /\ e.key \notin v.paused THEN MostOffset(e)
  ELSE Least(MostOffset(e), v.offset[e.key])

ChildLines(v, e, details) ==
  IF ~Expanded(v, e.key, details) THEN TitleAnd(e.key, 0)
  ELSE IF e.kind = "tool" THEN TitleAnd(e.key, Most(1, e.rows))
  ELSE TitleAnd(e.key, 0) \o [i \in 1..Least(ThoughtRows, e.rows) |-> <<e.key, ThoughtOffset(v, e) + i>>]

Block(key, kind, lines, parts, closed) ==
  [key |-> key, kind |-> kind, lines |-> lines, parts |-> parts, closed |-> closed]

\* The summary of a diff follows its title, then its lines.
DiffBlock(v, item) ==
  Block(item.key, "diff", TitleAnd(item.key, IF Collapsed(v, item) THEN 1 ELSE 1 + item.rows),
        {}, Collapsed(v, item))

ItemBlocks(v, item, details) ==
  CASE item.kind = "activity" ->
         LET keys == {p.key : p \in ToSet(item.parts)} IN
         <<Block(item.key, "activity", TitleAnd(item.key, 0), keys, FALSE)>> \o
         (IF ~GroupExpanded(v, keys, details) THEN <<>>
          ELSE [i \in DOMAIN item.parts |->
                  LET e == item.parts[i] IN Block(e.key, e.kind, ChildLines(v, e, details), {}, FALSE)])
    [] item.kind = "diff" -> <<DiffBlock(v, item)>>
    [] OTHER -> <<Block(item.key, item.kind, [i \in 1..item.rows |-> <<item.key, i>>], {}, FALSE)>>

Blocks(v, items, details) ==
  FlattenSeq([i \in DOMAIN items |->
    (IF i = 1 THEN <<>> ELSE <<Block(items[i].key, "gap", << <<items[i].key, Gap>> >>, {}, FALSE)>>)
      \o ItemBlocks(v, items[i], details)])

LinesOf(blocks) == FlattenSeq([i \in DOMAIN blocks |-> blocks[i].lines])

\* pushBlock: where a block is, counted from 0.
Placed(blocks) ==
  FoldLeft(LAMBDA hits, b :
             Append(hits, [key |-> b.key, kind |-> b.kind, parts |-> b.parts, closed |-> b.closed,
                           first |-> IF hits = <<>> THEN 0 ELSE Last(hits).last + 1,
                           last |-> (IF hits = <<>> THEN 0 ELSE Last(hits).last + 1) + Len(b.lines) - 1]),
           <<>>, blocks)

ShownThoughts(v, items, details) ==
  {e \in UNION {ToSet(i.parts) : i \in {i \in ToSet(items) : i.parts # <<>> /\
                  GroupExpanded(v, {p.key : p \in ToSet(i.parts)}, details)}} :
     e.kind = "thinking" /\ Expanded(v, e.key, details)}

\* A transcript that nothing invalidated is drawn as it is.
Rendered(v, s) ==
  IF v.fresh /\ v.of = s THEN v
  ELSE LET items == Items(s)
           blocks == Blocks(v, items, s.details)
           hits == Placed(blocks)
           thoughts == ShownThoughts(v, items, s.details)
           Thought(k) == CHOOSE e \in thoughts : e.key = k
           read == {e.key : e \in thoughts}
       IN  [v EXCEPT
              !.fresh = TRUE, !.of = s, !.lines = LinesOf(blocks),
              !.hits = SelectSeq(hits, LAMBDA h : h.kind \in Foldable),
              !.prompts = SelectSeq(hits, LAMBDA h : h.kind = "prompt"),
              !.offset = [k \in Keys |-> IF k \in read THEN ThoughtOffset(v, Thought(k)) ELSE v.offset[k]],
              !.most = [k \in Keys |-> IF k \in read THEN MostOffset(Thought(k)) ELSE v.most[k]],
              !.hovered = IF \E h \in ToSet(hits) : h.key = @ /\ h.kind \in Foldable THEN @ ELSE NoEntry,
              !.animated = ActiveActivity(s, items)]

HitOn(v, line) == SelectSeq(v.hits, LAMBDA h : h.first = line)
HitOf(v, key) == CHOOSE h \in ToSet(v.hits) : h.key = key

\* animationLine: hover owns the title until the pointer leaves it.
Animates(v) == v.fresh /\ v.animated # NoEntry /\ v.animated # v.hovered

\* promptHeader: the prompt of the first line shown, unless it is shown itself.
PromptHeader(v, top) ==
  LET above == SelectSeq(v.prompts, LAMBDA p : p.first - 1 <= top)
  IN  IF above = <<>> THEN NoEntry ELSE IF top <= Last(above).last THEN NoEntry ELSE Last(above).key

HasPrompt(v, key) == \E p \in ToSet(v.prompts) : p.key = key
PromptRow(v, key) == (CHOOSE p \in ToSet(v.prompts) : p.key = key).first

-----------------------------------------------------------------------------
(* ComposerAnchoredLayout.render                                            *)

Start == 2  \* a header line and a blank one come before the items
Conversation(v) == << <<"title", 0>>, <<"title", Gap>> >> \o v.lines

NotHeld == [key |-> NoEntry, top |-> 0, rows |-> 0]
RowsLeft == screen.rows - (IF screen.surface = "dock" THEN DockRows ELSE 0)

\* The place of the window: a jump, what the reader chose, or the end.  A
\* header takes a row of it, and yields for as long as the place is the same
\* when that row would bring the next prompt to the top.
PlaceWindow(v, r) ==
  LET wanted == IF r.pending # NoEntry /\ HasPrompt(v, r.pending) THEN Start + PromptRow(v, r.pending) ELSE r.top
      size == Len(Conversation(v))
      full == Most(0, size - RowsLeft)
      top == IF wanted = Following THEN full ELSE Most(0, Least(full + 1, wanted))
      first == IF RowsLeft >= 4 /\ screen.surface = "none" THEN PromptHeader(v, top - Start) ELSE NoEntry
      holds == wanted # Following /\ first # NoEntry /\ r.held = [key |-> first, top |-> top, rows |-> RowsLeft]
      candidate == IF wanted = Following THEN full + 1 ELSE top
      header == IF holds \/ first = NoEntry THEN NoEntry ELSE PromptHeader(v, candidate - Start)
      body == IF header = NoEntry THEN RowsLeft ELSE RowsLeft - 1
      at == IF header = NoEntry THEN Least(top, full) ELSE candidate
      end == Least(at + body, size)
  IN  [r EXCEPT !.pending = NoEntry, !.kept = wanted \in {Following, at}, !.header = header, !.at = at,
                !.page = Most(1, body), !.max = Most(0, size - body),
                !.top = IF wanted = Following THEN Following ELSE at,
                !.held = IF holds THEN r.held
                         ELSE IF first # NoEntry /\ header = NoEntry THEN [key |-> first, top |-> top, rows |-> RowsLeft]
                         ELSE NotHeld,
                !.rowTop = Most(0, at - Start), !.rows = Most(0, end - Most(at, Start)),
                !.screenRow = Most(at, Start) - at + (IF header = NoEntry THEN 0 ELSE 1)]

DrawnLines(v, r) ==
  (IF r.header = NoEntry THEN <<>> ELSE << <<r.header, Header>> >>) \o
  SubSeq(Conversation(v), r.at + 1, Least(r.at + r.page, Len(Conversation(v))))

\* setVisibleRange: the clock of an animation runs while its title is shown.
ClockRuns(v, r) ==
  Animates(v) /\ HitOf(v, v.animated).first \in r.rowTop .. r.rowTop + r.rows - 1

\* A workspace takes the whole screen and leaves the conversation as it was.
Frame ==
  /\ screen.stale
  /\ IF screen.surface = "workspace"
     THEN /\ reading' = [reading EXCEPT !.header = NoEntry, !.rows = 0]
          /\ screen' = [screen EXCEPT !.stale = FALSE, !.drawn = <<>>, !.clock = FALSE]
          /\ UNCHANGED transcript
     ELSE \E v \in {Rendered(transcript, source)} : \E r \in {PlaceWindow(v, reading)} :
            /\ transcript' = v /\ reading' = r
            /\ screen' = [screen EXCEPT !.stale = FALSE, !.drawn = DrawnLines(v, r), !.clock = ClockRuns(v, r)]
  /\ UNCHANGED <<source, gesture, locating>>

\* transcriptRowAt, promptHeaderKeyAt: what the last frame has in a row.
RowAt(y) ==
  LET relative == y - reading.screenRow IN IF relative \in 0..(reading.rows - 1) THEN reading.rowTop + relative ELSE -1
HeaderAt(y) == IF y = 0 THEN reading.header ELSE NoEntry

-----------------------------------------------------------------------------
(* Scrolling, and turning a thought                                         *)

ScrolledTo(r, delta) ==
  LET next == Most(0, Least(r.max, (IF r.top = Following THEN r.max ELSE r.top) + delta))
  IN  [r EXCEPT !.pending = NoEntry, !.held = NotHeld, !.kept = FALSE, !.top = IF next = r.max THEN Following ELSE next]

Followed(r) == [r EXCEPT !.pending = NoEntry, !.held = NotHeld, !.kept = FALSE, !.top = Following]

Preserved(r) == [r EXCEPT !.top = IF @ = Following THEN r.at ELSE @]

JumpedTo(r, key) ==
  IF HasPrompt(transcript, key) THEN [Preserved(r) EXCEPT !.pending = key, !.held = NotHeld, !.kept = FALSE] ELSE r

\* handlePointer, "move": hover follows titles.
Hovers(v, line) ==
  LET hits == HitOn(v, line)
      key == IF hits = <<>> THEN NoEntry ELSE hits[1].key
  IN  IF key = v.hovered THEN v ELSE [v EXCEPT !.hovered = key, !.fresh = FALSE]

\* The reader's place in a thought; at its end it is followed again.
ScrollThinking(v, key, delta) ==
  LET next == Most(0, Least(v.most[key], v.offset[key] + delta)) IN
  IF next = v.offset[key] THEN v
  ELSE [v EXCEPT !.offset[key] = next, !.fresh = FALSE,
                 !.paused = IF next = v.most[key] /\ delta > 0 THEN @ \ {key}
                            ELSE IF delta < 0 THEN @ \cup {key} ELSE @]

WheelsThought(v, line, delta) ==
  LET hits == SelectSeq(v.hits, LAMBDA h : line \in h.first .. h.last) IN
  IF hits = <<>> THEN v
  ELSE IF hits[1].kind # "thinking" \/ ~Expanded(v, hits[1].key, source.details) THEN v
  ELSE ScrollThinking(v, hits[1].key, delta)

\* "click": a title folds what it was drawn for, by the preference of now.
FoldsAt(v, hit) ==
  LET turned == [v EXCEPT !.hovered = hit.key, !.fresh = FALSE] IN
  CASE hit.kind = "activity" ->
         [turned EXCEPT !.groups = [k \in Keys |->
            IF k \notin hit.parts THEN v.groups[k]
            ELSE IF GroupExpanded(v, hit.parts, source.details) THEN "closed" ELSE "open"]]
    [] hit.kind = "diff" -> [turned EXCEPT !.diffs[hit.key] = IF hit.closed THEN "open" ELSE "closed"]
    [] OTHER ->
         LET closes == Expanded(v, hit.key, source.details)
             chosen == [turned EXCEPT !.folds[hit.key] = IF closes THEN "closed" ELSE "open"] IN
         IF hit.kind = "tool" THEN chosen
         ELSE [chosen EXCEPT !.paused = @ \ {hit.key}, !.offset[hit.key] = 0, !.most[hit.key] = 0]

IsTrailing(v, hit) == hit.last = Len(v.lines) - 1

-----------------------------------------------------------------------------
(* Gestures                                                                 *)

ScreenRows == 0..(screen.rows - 1)
Gestures(g) == gesture.used < GestureBound /\ gesture' = [g EXCEPT !.used = gesture.used + 1]
Pointed(y) == IF screen.surface = "none" THEN RowAt(y) ELSE -1
Requested(changed) == screen' = [screen EXCEPT !.stale = @ \/ changed]

\* clearTextSelection: a key or the wheel gives the press up; the button may
\* still be down, and the header under it is remembered until the release.
Unpressed == [gesture EXCEPT !.down = -1, !.moved = FALSE]

MovePointer ==
  \E y \in ScreenRows :
    /\ ~gesture.button /\ Gestures(gesture)
    /\ transcript' = Hovers(transcript, Pointed(y)) /\ transcript' # transcript /\ Requested(TRUE)
    /\ UNCHANGED <<source, reading, locating>>

\* An open thought scrolls first.
TurnWheel ==
  \E y \in ScreenRows, delta \in {-1, 1} :
    /\ screen.surface = "none"
    /\ Gestures(Unpressed)
    /\ \E over \in {Hovers(transcript, RowAt(y))} : \E turned \in {WheelsThought(over, RowAt(y), delta)} :
         transcript' = turned /\ reading' = IF turned # over THEN reading ELSE ScrolledTo(reading, delta)
    /\ Requested(gesture.down # -1 \/ transcript' # transcript \/ reading'.top # reading.top)
    /\ UNCHANGED <<source, locating>>

Press ==
  \E y \in ScreenRows :
    /\ ~gesture.button
    /\ Gestures([gesture EXCEPT !.button = TRUE, !.down = y, !.moved = FALSE,
                   !.header = IF screen.surface = "none" THEN HeaderAt(y) ELSE NoEntry])
    /\ transcript' = Hovers(transcript, Pointed(y)) /\ Requested(TRUE) /\ UNCHANGED <<source, reading, locating>>

\* The pointer goes to another cell with the button down.  A drag selects: the
\* window stays where it is, even when the press was given up.
Drag ==
  \E y \in ScreenRows :
    /\ gesture.button
    /\ Gestures([gesture EXCEPT !.moved = gesture.down # -1])
    /\ transcript' = Hovers(transcript, Pointed(y))
    /\ reading' = IF screen.surface = "none" THEN Preserved(reading) ELSE reading
    /\ Requested(gesture.down # -1 \/ transcript' # transcript) /\ UNCHANGED <<source, locating>>

\* A release in the cell of the press, without a drag, is a click: on the header
\* that was pressed, or on a title.  Anywhere else it ends a selection.
Release ==
  \E y \in ScreenRows : \E selects \in {TRUE, gesture.moved \/ y # gesture.down} :
    /\ gesture.button
    /\ Gestures([Unpressed EXCEPT !.button = FALSE, !.header = NoEntry])
    /\ LET hits == HitOn(transcript, RowAt(y)) IN
       IF selects \/ screen.surface # "none" THEN transcript' = Hovers(transcript, Pointed(y)) /\ UNCHANGED reading
       ELSE IF gesture.header # NoEntry /\ HeaderAt(y) # NoEntry
       THEN transcript' = Hovers(transcript, RowAt(y)) /\ reading' = JumpedTo(reading, gesture.header)
       ELSE IF hits = <<>> THEN transcript' = Hovers(transcript, RowAt(y)) /\ UNCHANGED reading
       ELSE /\ transcript' = FoldsAt(transcript, hits[1])
            /\ reading' = IF IsTrailing(transcript, hits[1]) THEN reading ELSE Preserved(reading)
    /\ Requested((gesture.down \notin {-1, y}) \/ transcript' # transcript \/ reading' # reading)
    /\ UNCHANGED <<source, locating>>

Page ==
  \E direction \in {-1, 1} :
    /\ screen.surface = "none" /\ Gestures(Unpressed)
    /\ reading' = ScrolledTo(reading, direction * Most(1, reading.page - 1))
    /\ Requested(gesture.down # -1 \/ reading'.top # reading.top) /\ UNCHANGED <<source, transcript, locating>>

Follow ==
  /\ screen.surface = "none" /\ reading.top # Following /\ Gestures(Unpressed)
  /\ reading' = Followed(reading) /\ Requested(TRUE) /\ UNCHANGED <<source, transcript, locating>>

-----------------------------------------------------------------------------
(* What comes by itself                                                     *)

\* resolve(): every diff is looked up once, those of one snapshot together.
\* What was found is added to what is known by then.
LooksUp(s, l) ==
  LET new == {e.key : e \in {e \in ToSet(TranscriptEntries(s)) : e.kind = "diff"}} \ l.attempted IN
  [l EXCEPT !.attempted = @ \cup new, !.flights = IF new = {} THEN @ ELSE @ \cup {new}]

Arrive ==
  /\ \/ source.n < Len(Arrivals) /\ source' = [source EXCEPT !.n = @ + 1]
     \/ ~source.older /\ source' = [source EXCEPT !.older = TRUE]
  /\ locating' = LooksUp(source', locating)
  /\ Requested(TRUE) /\ UNCHANGED <<transcript, reading, gesture>>

LookupReturns ==
  \E flight \in locating.flights : \E found \in SUBSET flight :
    /\ locating' = [locating EXCEPT !.flights = @ \ {flight}, !.starts = @ \cup found, !.found = @ \cup found]
    /\ transcript' = IF found = {} THEN transcript ELSE [transcript EXCEPT !.fresh = FALSE]
    /\ Requested(found # {}) /\ UNCHANGED <<source, reading, gesture>>

\* The preference for details changes: choices made before it are gone.
ToggleDetails ==
  /\ Gestures(Unpressed)
  /\ source' = [source EXCEPT !.details = ~@]
  /\ transcript' = [transcript EXCEPT !.folds = [k \in Keys |-> "unset"], !.groups = [k \in Keys |-> "unset"],
                          !.paused = {}, !.fresh = FALSE]
  /\ Requested(TRUE) /\ UNCHANGED <<reading, locating>>

\* setActiveSurface; the terminal is resized.
ShowSurface ==
  /\ \E surface \in {"none", "dock", "workspace"} \ {screen.surface} :
       /\ Gestures(Unpressed)
       /\ screen' = [screen EXCEPT !.surface = surface, !.stale = TRUE]
  /\ reading' = [reading EXCEPT !.held = NotHeld, !.kept = FALSE]
  /\ UNCHANGED <<source, transcript, locating>>

Resize ==
  /\ \E rows \in Heights \ {screen.rows} : screen' = [screen EXCEPT !.rows = rows, !.stale = TRUE]
  /\ Gestures(gesture)
  /\ reading' = [reading EXCEPT !.kept = FALSE] /\ UNCHANGED <<source, transcript, locating>>

\* The timer of the animation asks for the next frame.
ClockTicks ==
  /\ screen.clock /\ screen' = [screen EXCEPT !.clock = FALSE, !.stale = TRUE]
  /\ UNCHANGED <<source, transcript, reading, gesture, locating>>

-----------------------------------------------------------------------------

TranscriptInit ==
  /\ \E details \in BOOLEAN : source = [n |-> 1, older |-> FALSE, details |-> details]
  /\ transcript = [folds |-> [k \in Keys |-> "unset"], groups |-> [k \in Keys |-> "unset"], diffs |-> [k \in Keys |-> "unset"],
             paused |-> {}, offset |-> [k \in Keys |-> 0], most |-> [k \in Keys |-> 0], hovered |-> NoEntry,
             hits |-> <<>>, prompts |-> <<>>, lines |-> <<>>, animated |-> NoEntry, fresh |-> FALSE, of |-> source]
  /\ reading = [top |-> Following, pending |-> NoEntry, held |-> NotHeld, header |-> NoEntry, at |-> 0, page |-> 1,
                max |-> 0, rowTop |-> 0, rows |-> 0, screenRow |-> 0, kept |-> FALSE]
  /\ \E rows \in Heights :
       screen = [rows |-> rows, surface |-> "none", drawn |-> <<>>, stale |-> TRUE, clock |-> FALSE]
  /\ gesture = [button |-> FALSE, down |-> -1, moved |-> FALSE, header |-> NoEntry, used |-> 0]
  /\ locating = [attempted |-> {}, flights |-> {}, starts |-> {}, found |-> {}]

TranscriptNext ==
  \/ Frame \/ MovePointer \/ TurnWheel \/ Press \/ Drag \/ Release \/ Page \/ Follow
  \/ Arrive \/ LookupReturns \/ ToggleDetails \/ ShowSurface \/ Resize \/ ClockTicks

TranscriptSpec == TranscriptInit /\ [][TranscriptNext]_transcriptVars

-----------------------------------------------------------------------------
(* Properties                                                               *)

\* What a gesture meets is what the screen shows: a row points at the line
\* drawn in it, and every title at what it folds (composer-layout.ts:230,
\* view.ts:157).
GeometryTruthful ==
  /\ \A y \in ScreenRows : RowAt(y) >= 0 => screen.drawn[y + 1] = transcript.lines[RowAt(y) + 1]
  /\ \A hit \in ToSet(transcript.hits) : transcript.lines[hit.first + 1] = <<hit.key, 0>>

\* Between frames nothing that changed is forgotten: the last frame shows the
\* Session and the choices of now.  A thought that runs is shown to its end,
\* unless its reader went up; and the title of a running activity moves for as
\* long as it is in sight.
FrameCurrent ==
  ~screen.stale /\ screen.surface # "workspace" =>
    /\ \A items \in {Items(source)} :
         /\ transcript.lines = LinesOf(Blocks(transcript, items, source.details))
         /\ \A e \in ShownThoughts(transcript, items, source.details) :
              e.status = "running" /\ e.key \notin transcript.paused => <<e.key, e.rows>> \in ToSet(transcript.lines)
    /\ Animates(transcript) /\ <<transcript.animated, 0>> \in ToSet(screen.drawn) => screen.clock

\* Who follows sees the last line.  A header names the prompt that what is read
\* answers: it is gone from the screen, and no other prompt stands between.
WindowTells ==
  ~screen.stale /\ screen.surface = "none" =>
    /\ reading.top = Following => Last(screen.drawn) = Last(Conversation(transcript))
    /\ reading.header # NoEntry =>
         LET first == SelectInSeq(transcript.lines, LAMBDA line : line = screen.drawn[2]) - 1
             row == PromptRow(transcript, reading.header)
         IN  /\ row < first
             /\ \A p \in ToSet(transcript.prompts) : p.first <= first => p.first <= row
             /\ \A i \in 2..Len(screen.drawn) : screen.drawn[i][1] # reading.header

\* All diffs that were found keep their place, in whatever order lookups end.
PlacesKept == locating.starts = locating.found

\* While nobody asks for another place, the lines that a reader has before him
\* stay in their rows, whatever is appended, folded or opened below them.
\* Fixing the window, as a drag does, changes nothing (docs/tui-architecture.md:743).
\* (A place that was past the end is not his: see the README.)
ReadingHeld ==
  LET before == Conversation(transcript)
      after == Conversation(transcript')
      same == \A i \in 1..(reading.at + 1) : i \in DOMAIN before /\ i \in DOMAIN after => before[i] = after[i]
      roomy == Len(after) >= reading.at + Len(screen.drawn)
  IN  (~screen'.stale /\ screen.stale /\ screen.surface = "none" /\ reading.kept /\ reading.top # Following /\ same /\ roomy)
        => screen'.drawn[1] = screen.drawn[1] /\ reading'.header = reading.header

\* A page of older history may add to an activity: it stays open or closed as
\* it was chosen (view.ts, docs/tui-architecture.md:690).
ChoicesKept ==
  source'.older # source.older =>
    \A old \in ToSet(Items(source)), new \in ToSet(Items(source')) :
      LET was == {p.key : p \in ToSet(old.parts)}
          is == {p.key : p \in ToSet(new.parts)}
      IN  was \cap is # {} /\ (\E k \in was : transcript.groups[k] # "unset")
            => GroupExpanded(transcript', is, source'.details) = GroupExpanded(transcript, was, source.details)

ReadingKept == [][ReadingHeld /\ ChoicesKept]_transcriptVars
=============================================================================
