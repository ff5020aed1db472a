----------------------------- MODULE RequestSearch -----------------------------
(***************************************************************************)
(* The search of a Request (trajectory/request-search.ts) goes through a   *)
(* field chunk by chunk and yields between them; a hit is found again by   *)
(* its ordinal.  Text is a sequence of UTF-16 units of which "hi" and "lo" *)
(* are the halves of a surrogate pair, and an offset counts the units      *)
(* before it.                                                              *)
(***************************************************************************)
EXTENDS Integers, Sequences, SequencesExt, FiniteSetsExt

CONSTANTS
  Unit,        \* the units texts and queries are made of
  TextLength,  \* bound: length of a field
  QueryLength, \* bound: length of a query
  ChunkSize    \* CHUNK_SIZE

VARIABLE search   \* the search asked for, or "none": its fields and query

Texts(n) == UNION {[1..k -> Unit] : k \in 0..n}
Splits(text, at) == at \in 1..(Len(text) - 1) /\ text[at] = "hi" /\ text[at + 1] = "lo"

\* Mutant: a chunk ends between the halves of a pair.
CharacterBoundaryUnpaired(text, offset) == Min({offset, Len(text)})

\* Neither a chunk nor its lookahead may cut a pair.
CharacterBoundary(text, offset) ==
  CASE offset >= Len(text) -> Len(text)
    [] offset < Len(text) /\ Splits(text, offset) -> offset + 1
    [] OTHER -> offset

\* What the regular expression finds, with the unicode flag.
Matches(text, query, at) ==
  /\ at + Len(query) <= Len(text)
  /\ SubSeq(text, at + 1, at + Len(query)) = query
  /\ ~Splits(text, at) /\ ~Splits(text, at + Len(query))

FoundFrom(text, query, from) == {at \in from..Len(text) : Matches(text, query, at)}

\* The hits of one chunk: those that start in it, searched in a window that
\* goes beyond it, from the end of the last hit.
Chunk(text, query, start, next) ==
  LET end == CharacterBoundary(text, start + ChunkSize)
      window == SubSeq(text, start + 1, CharacterBoundary(text, end + 2 * Len(query)))
      hits[from \in 0..Len(text)] ==
        LET found == {at \in FoundFrom(window, query, from) : start + at < end}
        IN  IF found = {} THEN <<>> ELSE <<start + Min(found)>> \o hits[Min(found) + Len(query)]
  IN  [end |-> end, hits |-> hits[next - start]]

\* scanField: the offsets of the hits, in order.
ScanField(text, query) ==
  LET scan[start \in 0..Len(text)] == [next \in 0..Len(text) |->
        LET chunk == Chunk(text, query, start, next)
            after == IF chunk.hits = <<>> THEN next ELSE Last(chunk.hits) + Len(query)
        IN  IF chunk.end = Len(text) THEN chunk.hits
            ELSE chunk.hits \o scan[chunk.end][Max({after, chunk.end})]]
  IN  scan[0][0]

\* Only fields with hits are kept, and how many they have.
SearchRequest(fields, query) ==
  LET counted == [f \in DOMAIN fields |->
                   [field |-> f, count |-> IF query = <<>> THEN 0 ELSE Len(ScanField(fields[f], query))]]
  IN  SelectSeq(counted, LAMBDA c : c.count > 0)

TotalMatches(index) == FoldSeq(LAMBDA c, n : c.count + n, 0, index)

\* match(ordinal): skip the counted fields before it, scan the one it is in.
MatchAt(fields, query, ordinal) ==
  LET index == SearchRequest(fields, query)
      before(n) == TotalMatches(SubSeq(index, 1, n - 1))
      n == CHOOSE n \in DOMAIN index : before(n) <= ordinal /\ ordinal < before(n) + index[n].count
  IN  <<index[n].field, ScanField(fields[index[n].field], query)[ordinal - before(n) + 1]>>

SearchInit == search = [query |-> <<>>, fields |-> <<>>]

SearchFor ==
  /\ search.fields = <<>>
  /\ \E first, second \in Texts(TextLength), query \in Texts(QueryLength) :
       /\ first = <<>> \/ Len(second) <= 1
       /\ search' = [query |-> query, fields |-> <<first, second>>]

SearchNext == SearchFor
SearchSpec == SearchInit /\ [][SearchNext]_search

-----------------------------------------------------------------------------
(* Properties *)

\* The definition: hits taken from the left, none overlapping the one before.
Reference(text, query) ==
  LET hits[from \in 0..Len(text)] ==
        LET found == FoundFrom(text, query, from)
        IN  IF found = {} THEN <<>> ELSE <<Min(found)>> \o hits[Min(found) + Len(query)]
  IN  IF query = <<>> THEN <<>> ELSE hits[0]

\* Chunks and their lookahead find exactly the hits of the whole text, once and
\* in order, and every ordinal below the total is the hit of that number.
ChunksSearchWhole ==
  LET references == [f \in DOMAIN search.fields |-> Reference(search.fields[f], search.query)]
      all == FlattenSeq([f \in DOMAIN references |->
                          [n \in DOMAIN references[f] |-> <<f, references[f][n]>>]])
  IN  /\ TotalMatches(SearchRequest(search.fields, search.query)) = Len(all)
      /\ \A n \in DOMAIN all : MatchAt(search.fields, search.query, n - 1) = all[n]
=============================================================================
