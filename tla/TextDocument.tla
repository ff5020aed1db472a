----------------------------- MODULE TextDocument -----------------------------
(***************************************************************************)
(* A long text read by windows of visual rows                              *)
(* (presentation/primitives/text-document.ts): sparse checkpoints, one     *)
(* buffer of folded rows, and a number of rows that is unknown until the   *)
(* last row was visited.  A character is "a" (one column), "w" (two), a    *)
(* line feed, a carriage return or a tab; offsets count the units before.  *)
(***************************************************************************)
EXTENDS Integers, Sequences, SequencesExt, FiniteSetsExt

CONSTANTS
  RawText,        \* the texts opened
  Widths,         \* columns of the panel
  CheckpointRows, \* CHECKPOINT_ROWS
  BufferRows,     \* BUFFER_ROWS
  LastTop         \* bound: rows asked for

VARIABLES
  document,   \* the text and what TextDocument keeps
  answer      \* the last answer and what was asked

textVars == <<document, answer>>

TabColumns == <<"a", "a">>      \* a tab becomes blanks

\* sanitizeTerminalText and the tab: a CRLF is one line feed.
Source(raw) ==
  FlattenSeq([i \in DOMAIN raw |->
    CASE raw[i] = "tab" -> TabColumns
      [] raw[i] = "cr" -> <<"lf">>
      [] raw[i] = "lf" /\ i > 1 /\ raw[i - 1] = "cr" -> <<>>
      [] OTHER -> <<raw[i]>>])

\* Where an offset of the raw text lies in the source.
SourceOffset(raw, offset) ==
  LET o == Min({Len(raw), offset})
      start == IF o \in 1..(Len(raw) - 1) /\ raw[o] = "cr" /\ raw[o + 1] = "lf" THEN o - 1 ELSE o
  IN  Len(Source(SubSeq(raw, 1, start)))

Columns(source, width, from, to) ==
  FoldSeq(LAMBDA c, n : n + Min({width, IF c = "w" THEN 2 ELSE 1}), 0, SubSeq(source, from + 1, to))

\* The rows from an offset on: a row ends at a line feed, at the width, or at
\* the end of the text.
RowTo(source, from, end) ==
  [offset |-> from, end |-> end, final |-> end = Len(source),
   next |-> IF end < Len(source) /\ source[end + 1] = "lf" THEN end + 1 ELSE end]

Row(source, width, from) ==
  RowTo(source, from,
        Min({to \in from..Len(source) :
               \/ to = Len(source)
               \/ source[to + 1] = "lf"
               \/ to > from /\ Columns(source, width, from, to + 1) > width}))

RowsFrom(source, width, offset) ==
  LET rows[o \in 0..Len(source)] ==
        LET r == Row(source, width, o) IN IF r.final THEN <<r>> ELSE <<r>> \o rows[r.next]
  IN  rows[offset]

Unknown == -1
NewDocument(raw) ==
  [raw |-> raw, source |-> Source(raw), width |-> 0, checkpoints |-> <<[row |-> 0, offset |-> 0]>>,
   total |-> Unknown, top |-> 0, rows |-> <<>>]

SetWidth(d, width) ==
  IF width = d.width THEN d ELSE [NewDocument(d.raw) EXCEPT !.width = width]
CheckpointAt(d, field, position) ==
  Last(SelectSeq(d.checkpoints, LAMBDA c : c[field] <= position))

\* Rows visited from a checkpoint on: the last gives the total, every few a
\* checkpoint.
Remember(d, first, visited) ==
  FoldLeft(LAMBDA m, i :
    LET row == first + i - 1
    IN  IF visited[i].final THEN [m EXCEPT !.total = row + 1]
        ELSE IF (row + 1) % CheckpointRows = 0 /\ row + 1 > Last(m.checkpoints).row
        THEN [m EXCEPT !.checkpoints = Append(@, [row |-> row + 1, offset |-> visited[i].next])]
        ELSE m,
    d, [i \in DOMAIN visited |-> i])

\* Fill the buffer from `top` on, unless it holds what is asked.
Prepare(d, top, count) ==
  LET needed == IF d.total = Unknown THEN top + count ELSE Min({d.total, top + count})
      checkpoint == CheckpointAt(d, "row", top)
      ahead == RowsFrom(d.source, d.width, checkpoint.offset)
      stop == Min({i \in DOMAIN ahead : ahead[i].final \/ checkpoint.row + i - top >= count + BufferRows})
      visited == SubSeq(ahead, 1, stop)
      skipped == Max({0, top - checkpoint.row})
  IN  IF top >= d.top /\ needed <= d.top + Len(d.rows) THEN d
      ELSE [Remember(d, checkpoint.row, visited) EXCEPT !.top = top,
              !.rows = SubSeq(visited, skipped + 1, Len(visited))]

Clamped(d, top, count) == IF d.total = Unknown THEN top ELSE Min({top, Max({0, d.total - count})})

TextInit ==
  /\ document = NewDocument(<<>>)
  /\ answer = [kind |-> "none"]

OpenText(raw) ==
  /\ answer.kind = "none"
  /\ document' = NewDocument(raw)
  /\ answer' = [kind |-> "open"]

\* read(): finding the end of the text clamps the page, which is read again.
Read(width, top, count) ==
  /\ answer.kind # "none"
  /\ \E sized \in {SetWidth(document, width)} :
     \E first \in {Prepare(sized, Clamped(sized, top, count), count)} :
     \E at \in {Clamped(first, Clamped(sized, top, count), count)} :
       /\ document' = Prepare(first, at, count)
       /\ answer' = [kind |-> "read", top |-> top, count |-> count, at |-> at,
                     lines |-> SubSeq(document'.rows, at - document'.top + 1,
                                      Min({Len(document'.rows), at - document'.top + count}))]

Locate(width, offset) ==
  /\ answer.kind # "none"
  /\ \E sized \in {SetWidth(document, width)} :
     \E o \in {SourceOffset(sized.raw, offset)} :
     \E checkpoint \in {CheckpointAt(sized, "offset", o)} :
     \E ahead \in {RowsFrom(sized.source, width, checkpoint.offset)} :
     \E n \in {Min({i \in DOMAIN ahead : ahead[i].final \/ o < ahead[i].next})} :
       /\ document' = Remember(sized, checkpoint.row, SubSeq(ahead, 1, n))
       /\ answer' = [kind |-> "locate", offset |-> offset, at |-> checkpoint.row + n - 1]

TextNext ==
  \/ \E raw \in RawText : OpenText(raw)
  \/ \E width \in Widths :
       \/ \E top \in 0..LastTop, count \in 1..2 : Read(width, top, count)
       \/ \E offset \in 0..Len(document.raw) : Locate(width, offset)

TextSpec == TextInit /\ [][TextNext]_textVars

-----------------------------------------------------------------------------
(* Properties *)

\* Whatever was read before, a window is the rows of the whole text folded at
\* once, moved up only at its end, and a located offset is in its row.
WindowIsExact ==
  LET all == RowsFrom(document.source, document.width, 0)
      o == SourceOffset(document.raw, answer.offset)
  IN  /\ answer.kind = "read" =>
           /\ answer.at = Min({answer.top, Max({0, Len(all) - answer.count})})
           /\ answer.lines = SubSeq(all, answer.at + 1, Min({Len(all), answer.at + answer.count}))
      /\ answer.kind = "locate" =>
           /\ all[answer.at + 1].offset <= o
           /\ answer.at + 1 < Len(all) => o < all[answer.at + 2].offset
      /\ document.total \in {Unknown, Len(all)}
=============================================================================
