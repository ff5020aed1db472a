--------------------------- MODULE RequestDirectory ---------------------------
(***************************************************************************)
(* The directory of a Request in RequestBrowser: sections, tools, their    *)
(* groups and metadata fold; the bodies between them scroll row by row.    *)
(* A cursor names a node of the list that is now unfolded and a row of it, *)
(* so whatever folds or unfolds must leave the cursors of the reader       *)
(* meaning what they meant.                                                *)
(***************************************************************************)
EXTENDS Integers, Sequences, SequencesExt, FiniteSetsExt

CONSTANTS
  Tree,     \* the whole document in order: [key, under, folds, rows]; under is a key or "root"
  Height    \* rows of the panel for the directory

VARIABLES
  expanded, \* keys that are unfolded
  nodes,    \* the list they make
  place,    \* the cursor of the first row shown: [node, line]
  focus,    \* index of the focused node, 0 when there is none
  hits,     \* rows of the last frame that a click can hit: the node indexes drawn
  hit       \* the search hit that was just brought on the page: [key, line], or NoHit

directoryVars == <<expanded, nodes, place, focus, hits, hit>>

NoHit == [key |-> "none", line |-> 0]
Entry(key) == CHOOSE e \in Range(Tree) : e.key = key
Above(e) == {a \in Range(Tree) : \/ a.key = e.under
                                 \/ e.under # "root" /\ a.key = Entry(e.under).under
                                 \/ /\ e.under # "root" /\ Entry(e.under).under # "root"
                                    /\ a.key = Entry(Entry(e.under).under).under}

\* rebuildNodes: what has all its ancestors unfolded, in document order.
Ancestors == [key \in {e.key : e \in Range(Tree)} |-> {a.key : a \in Above(Entry(key))}]
Unfolded(open) == SelectSeq(Tree, LAMBDA e : Ancestors[e.key] \subseteq open)

IndexOf(list, key) == CHOOSE n \in DOMAIN list : list[n].key = key
At(node, line) == [node |-> node, line |-> line]

\* Visual rows as one line of cursors; step moves along it.
Flat(list) == FlattenSeq([n \in DOMAIN list |-> [l \in 1..list[n].rows |-> At(n, l)]])
Window(list, top) ==
  LET flat == Flat(list)
      p == SelectInSeq(flat, LAMBDA c : c = top)
  IN  Range(SubSeq(flat, p, Min({Len(flat), p + Height - 1})))
Selectable(list, n) == n \in DOMAIN list /\ list[n].folds
VisibleFocus(list, top, n) == Selectable(list, n) /\ \E c \in Window(list, top) : c.node = n

\* Up to `rows` up from a cursor: fewer where that would cross a body whose
\* end was never read.
Preceding(list, cursor, rows) ==
  LET flat == Flat(list)
      p == SelectInSeq(flat, LAMBDA c : c = cursor)
      least == Max({1, p - rows})
      stops == {q \in (least + 1)..p : flat[q].line = 1 /\ ~list[flat[q].node - 1].folds}
  IN  {flat[q] : q \in {least} \cup stops}

DirectoryInit ==
  /\ \E first \in {e.key : e \in {e \in Range(Tree) : e.under = "root"}} :
       /\ expanded = {first}
       /\ nodes = Unfolded({first})
       /\ focus = IndexOf(nodes, first)
       /\ place = At(focus, 1)
  /\ hits = {}
  /\ hit = NoHit

\* goSection, from a jump or from [ and ].
GoSection(open, key) ==
  /\ expanded' = open
  /\ nodes' = Unfolded(open)
  /\ focus' = IndexOf(nodes', key)
  /\ place' = At(focus', 1)

Jump ==
  /\ \E e \in Range(Tree) : e.under = "root" /\ GoSection(expanded \cup {e.key}, e.key)
  /\ hit' = NoHit /\ UNCHANGED hits

\* A focus that a late click left behind the list belongs to no section: the
\* first one is then next.
MoveSection(direction) ==
  /\ LET sections == {n \in DOMAIN nodes : nodes[n].under = "root"}
         from == IF focus # 0 THEN focus ELSE place.node
         here == Max({m \in sections : m <= from})
         ahead == {n \in sections : IF direction > 0 THEN n > here ELSE n < here}
         to == CASE from \notin DOMAIN nodes -> 1
                 [] from \in DOMAIN nodes /\ ahead = {} -> here
                 [] OTHER -> IF direction > 0 THEN Min(ahead) ELSE Max(ahead)
     IN  GoSection(expanded, nodes[to].key)
  /\ hit' = NoHit /\ UNCHANGED hits

\* j and k go to the next heading or disclosure; the page moves only for one
\* that is off it.
Move(direction) ==
  /\ LET window == Window(nodes, place)
         from == IF focus # 0 THEN focus + direction
                 ELSE IF direction > 0 THEN place.node ELSE Max({c.node : c \in window})
         found == {n \in DOMAIN nodes : /\ from \in DOMAIN nodes /\ Selectable(nodes, n)
                                         /\ IF direction > 0 THEN n >= from ELSE n <= from}
         next == IF direction > 0 THEN Min(found) ELSE Max(found)
     IN  IF found = {} THEN UNCHANGED <<focus, place>>
         ELSE /\ focus' = next
              /\ IF \E c \in window : c.node = next THEN UNCHANGED place
                 ELSE place' \in Preceding(nodes, At(next, 1), IF next > place.node THEN Height - 1 ELSE 0)
  /\ hit' = NoHit /\ UNCHANGED <<expanded, nodes, hits>>

Scroll(delta) ==
  /\ LET flat == Flat(nodes)
         to == SelectInSeq(flat, LAMBDA c : c = place) + delta
     IN  /\ place' = flat[Max({1, Min({Len(flat), to})})]
         /\ focus' = IF VisibleFocus(nodes, place', focus) THEN focus ELSE 0
  /\ hit' = NoHit /\ UNCHANGED <<expanded, nodes, hits>>

\* Mutant: what is folded or unfolded is brought to the top of the page.
ToggledToTop(n) ==
  /\ focus' = n
  /\ expanded' = IF nodes[n].key \in expanded THEN expanded \ {nodes[n].key}
                 ELSE expanded \cup {nodes[n].key}
  /\ nodes' = Unfolded(expanded')
  /\ place' = At(n, 1)
  /\ hit' = NoHit /\ UNCHANGED hits

\* Enter, h and l at node n, if it is on the page.
Toggled(n) ==
  /\ focus' = n
  /\ expanded' = IF ~VisibleFocus(nodes, place, n) THEN expanded
                 ELSE IF nodes[n].key \in expanded THEN expanded \ {nodes[n].key}
                 ELSE expanded \cup {nodes[n].key}
  /\ nodes' = Unfolded(expanded')
  /\ hit' = NoHit /\ UNCHANGED <<place, hits>>

Disclose == focus # 0 /\ Toggled(focus)
Click == \E n \in hits : Toggled(n)

\* A hit of the search: its ancestors unfold, and its row is brought on the page.
RevealMatch(e, line) ==
  /\ hit' = [key |-> e.key, line |-> line]
  /\ expanded' = expanded \cup Ancestors[e.key]
  /\ focus' = 0
  /\ nodes' = Unfolded(expanded')
  /\ place' \in Preceding(nodes', At(IndexOf(nodes', e.key), line), Min({2, Height - 1}))
  /\ UNCHANGED hits

\* The frame drawn: what a click can hit, and a focus only on the page.
Render ==
  /\ hits' = {c.node : c \in {c \in Window(nodes, place) : Selectable(nodes, c.node)}}
  /\ focus' = IF VisibleFocus(nodes, place, focus) THEN focus ELSE 0
  /\ hit' = NoHit /\ UNCHANGED <<expanded, nodes, place>>

DirectoryNext ==
  \/ Jump \/ Disclose \/ Click \/ Render
  \/ \E direction \in {-1, 1} : MoveSection(direction) \/ Move(direction)
  \/ \E delta \in {-Height, -1, 1, Height} : Scroll(delta)
  \/ \E e \in Range(Tree) : \E line \in 1..e.rows : RevealMatch(e, line)

DirectorySpec == DirectoryInit /\ [][DirectoryNext]_directoryVars

-----------------------------------------------------------------------------
(* Properties *)

\* Folding happens under the reader's eyes: the first row shown stays the row
\* it was, and the focus stays on what was folded or unfolded.
FoldsInPlace ==
  [][ (Disclose \/ Click) =>
        /\ place' \in Range(Flat(nodes'))
        /\ nodes'[place'.node].key = nodes[place.node].key
        /\ Selectable(nodes, focus') /\ VisibleFocus(nodes, place, focus') =>
             nodes'[focus'].key = nodes[focus'].key ]_directoryVars

\* A hit that is shown is on the page, wherever it was folded away.
HitOnPage ==
  hit # NoHit => \E c \in Window(nodes, place) : nodes[c.node].key = hit.key /\ c.line = hit.line

\* A fold moves nothing that is read, a hit is brought where it can be read.
DirectoryInPlace == FoldsInPlace /\ []HitOnPage
=============================================================================
