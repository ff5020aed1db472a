------------------------------ MODULE Trajectory ------------------------------
(***************************************************************************)
(* The execution ledger: records built from the loaded window of the       *)
(* Session's events (trajectory/records.ts), and the view that selects,    *)
(* folds, follows and inspects them while events arrive at one end and     *)
(* earlier pages at the other (trajectory/view.ts, process.ts).            *)
(*                                                                         *)
(* An event starts or ends a node, or is plain.  Window, ledger rows and   *)
(* tabs count from 1; the turn and step 0 stand for "undefined".           *)
(***************************************************************************)
EXTENDS Integers, Sequences, FiniteSetsExt

CONSTANTS
  EventLog,     \* the Session's events: [role, key, kind, turn, step]
  Happened,     \* how many of them there are at first
  TabNames      \* the tabs of the detail panel, one of them "payload"

\* The Host opens and closes a node once, and whatever else it logs is a node of
\* its own.
ASSUME TrajectoryAssumption ==
  /\ Len(EventLog) \in Nat
  /\ Happened \in 1 .. Len(EventLog)
  /\ \A i, j \in 1 .. Len(EventLog) :
       i < j /\ EventLog[i].key = EventLog[j].key =>
         /\ EventLog[i].role = "start" /\ EventLog[j].role = "end"
         /\ EventLog[i].kind = EventLog[j].kind

VARIABLES
  loaded,   \* the window of EventLog that the Session has read: [from, to]
  paging,   \* an earlier page is on its way
  view,     \* TrajectoryView, or NoView
  drawn     \* hit rows of the last frame: what was drawn, and the index it stood for

trajectoryVars == <<loaded, paging, view, drawn>>

-----------------------------------------------------------------------------
(* records.ts *)

Starts(w, key, kind) ==
  \E i \in w.from..w.to : EventLog[i].role = "start" /\ EventLog[i].key = key /\ EventLog[i].kind = kind

\* Where a plain event stands: the last boundary in the window before it.
Position(w, i) ==
  LET e == EventLog[i]
      bounds == {j \in w.from..(i - 1) : EventLog[j].kind \in {"turn", "step"} /\ EventLog[j].role # "plain"}
      b == EventLog[Max(bounds)]
      active == CASE bounds = {} -> <<0, 0>>
                  [] bounds # {} /\ b.role = "start" -> <<b.turn, b.step>>
                  [] bounds # {} /\ b.role = "end" /\ b.kind = "step" /\ Starts(w, b.key, "step") -> <<b.turn, 0>>
                  [] OTHER -> <<0, 0>>
  IN  IF e.role # "plain" THEN <<e.turn, e.step>>
      ELSE <<IF e.turn # 0 THEN e.turn ELSE active[1], IF e.step # 0 THEN e.step ELSE active[2]>>

\* The end of a node is a record of its own only while its start is not loaded.
Yields(w, i) ==
  LET e == EventLog[i] IN e.role = "end" => ~Starts(w, e.key, e.kind)

RecordOf(w, i) ==
  [key |-> EventLog[i].key, kind |-> EventLog[i].kind,
   turn |-> Position(w, i)[1], step |-> Position(w, i)[2]]

\* buildTrajectoryRecords(): the events of the window, one after the other.
Records(w) ==
  LET built[i \in w.from - 1 .. w.to] ==
        IF i < w.from THEN <<>>
        ELSE IF Yields(w, i) THEN Append(built[i - 1], RecordOf(w, i)) ELSE built[i - 1] IN
  built[w.to]

\* A Request is rebuilt from seq 0: before that the first missing event counts.
Availability(w) == IF w.from = 1 THEN "available" ELSE "missing-history"

-----------------------------------------------------------------------------
(* view.ts *)

NoView == [open |-> FALSE]
NoBrowser == [owner |-> "none", opened |-> <<>>, active |-> FALSE, preparing |-> FALSE]
NoFrame == {}
Ledger == view.records
LastOf(records) == Max({1, Len(records)})
Selected(v) ==
  IF v.index \in DOMAIN v.records THEN v.records[v.index] ELSE [key |-> "none", kind |-> "none", turn |-> 0, step |-> 0]

\* Mutant: a Request that was opened stays although more events are loaded.
SyncRequestOnce(v, w) ==
  LET r == Selected(v)
      active == (v.mode = "detail" \/ v.split) /\ TabNames[v.tab] = "payload" /\ r.kind = "step"
      own == IF v.browser.owner = r.key THEN v.browser ELSE [NoBrowser EXCEPT !.owner = r.key]
  IN  [v EXCEPT !.browser =
         CASE r.kind # "step" -> NoBrowser
           [] r.kind = "step" /\ ~active -> [own EXCEPT !.active = FALSE]
           [] r.kind = "step" /\ active /\ own.opened # <<>> -> [own EXCEPT !.active = TRUE]
           [] OTHER -> [own EXCEPT !.opened = <<w, Availability(w)>>, !.active = TRUE]]

\* The browser belongs to the selected Step; a panel that is not shown ends
\* what it was preparing.
SyncRequest(v, w) ==
  LET r == Selected(v)
      active == (v.mode = "detail" \/ v.split) /\ TabNames[v.tab] = "payload" /\ r.kind = "step"
      own == IF v.browser.owner = r.key THEN v.browser ELSE [NoBrowser EXCEPT !.owner = r.key]
      left == IF own.active /\ own.preparing THEN [own EXCEPT !.opened = <<>>, !.preparing = FALSE] ELSE own
      now == <<w, Availability(w)>>
  IN  [v EXCEPT !.browser =
         CASE r.kind # "step" -> NoBrowser
           [] r.kind = "step" /\ ~active -> [left EXCEPT !.active = FALSE]
           [] r.kind = "step" /\ active /\ own.opened = now -> [own EXCEPT !.active = TRUE]
           [] OTHER -> [own EXCEPT !.opened = now, !.active = TRUE, !.preparing = (w.from = 1)]]

Fresh(w) ==
  [open |-> TRUE, records |-> Records(w), mode |-> "list", index |-> LastOf(Records(w)), follow |-> TRUE, tab |-> 1,
   folded |-> {}, info |-> FALSE, split |-> FALSE, loading |-> FALSE, browser |-> NoBrowser]

\* Mutant: the selection stays at its index.
SetStateByIndex(v, w) ==
  LET records == Records(w)
  IN  SyncRequest([v EXCEPT !.records = records,
                            !.index = IF v.follow THEN LastOf(records)
                                      ELSE Min({v.index, LastOf(records)})], w)

\* A snapshot of the Session rebuilds the records and finds the selection again.
SetState(v, w) ==
  LET records == Records(w)
      same == {n \in DOMAIN records : records[n].key = Selected(v).key}
  IN  SyncRequest([v EXCEPT !.records = records,
                            !.index = IF v.follow \/ same = {} THEN LastOf(records) ELSE Min(same)], w)

TrajectoryInit ==
  /\ loaded \in [from : 1..Happened, to : {Happened}]
  /\ paging = FALSE
  /\ view = NoView
  /\ drawn = NoFrame

Arrives ==
  /\ loaded.to < Len(EventLog)
  /\ loaded' = [loaded EXCEPT !.to = @ + 1]
  /\ view' = IF view.open THEN SetState(view, loaded') ELSE view
  /\ UNCHANGED <<paging, drawn>>

\* The page that was asked for arrives, or fails.
PageSettles ==
  /\ paging /\ paging' = FALSE
  /\ \E from \in 1..loaded.from :
       /\ loaded' = [loaded EXCEPT !.from = from]
       /\ view' = IF view.open
                  THEN [(IF from = loaded.from THEN view ELSE SetState(view, loaded')) EXCEPT !.loading = FALSE]
                  ELSE view
  /\ UNCHANGED drawn

Open ==
  /\ ~view.open
  /\ view' = Fresh(loaded)
  /\ drawn' = NoFrame
  /\ UNCHANGED <<loaded, paging>>

Key(v) == view' = SyncRequest(v, loaded) /\ UNCHANGED <<loaded, drawn>>
Listing == view.open /\ ~view.info /\ view.mode = "list"
Reading == view.open /\ ~view.info /\ view.mode = "detail"

Info == view.open /\ Key([view EXCEPT !.info = ~@]) /\ UNCHANGED paging

Back ==
  \/ view.open /\ view.info /\ Key([view EXCEPT !.info = FALSE]) /\ UNCHANGED paging
  \/ Reading /\ Key([view EXCEPT !.mode = "list"]) /\ UNCHANGED paging
  \/ Listing /\ view' = NoView /\ UNCHANGED <<loaded, paging, drawn>>

Shown(v) ==
  {n \in DOMAIN v.records :
     LET r == v.records[n]
     IN  \/ r.kind = "turn"
         \/ /\ <<r.turn, 0>> \notin v.folded
            /\ r.kind = "step" \/ r.step = 0 \/ <<r.turn, r.step>> \notin v.folded}

\* j and k, which pages repeat: a selection that is not shown counts as the
\* first row.
Moved(offset) ==
  LET rows == Shown(view)
      at == IF view.index \in rows THEN view.index ELSE Min(rows)
      ahead == {n \in rows : IF offset > 0 THEN n > at ELSE n < at}
      index == CASE rows = {} -> view.index
                 [] rows # {} /\ ahead = {} -> at
                 [] OTHER -> IF offset > 0 THEN Min(ahead) ELSE Max(ahead)
  IN  [view EXCEPT !.index = index, !.follow = (index = Len(Ledger))]

\* Moving up from the first record asks for the page before it.
Next_ == Listing /\ Key(Moved(1)) /\ UNCHANGED paging
Previous ==
  /\ Listing
  /\ IF view.index # 1 THEN Key(Moved(-1)) /\ UNCHANGED paging
     ELSE IF loaded.from = 1 \/ view.loading THEN Key(view) /\ UNCHANGED paging
     ELSE Key([view EXCEPT !.loading = TRUE, !.follow = FALSE]) /\ paging' = TRUE

First ==
  /\ Listing
  /\ LET rows == Shown(view)
     IN Key([view EXCEPT !.index = IF rows = {} THEN 1 ELSE Min(rows), !.follow = FALSE])
  /\ UNCHANGED paging

Tail_ ==
  /\ Listing
  /\ LET rows == Shown(view)
     IN Key([view EXCEPT !.index = IF rows = {} THEN LastOf(Ledger) ELSE Max(rows), !.follow = TRUE])
  /\ UNCHANGED paging

Folds(r) == r.kind \in {"turn", "step"}
Place(r) == IF r.kind = "turn" THEN <<r.turn, 0>> ELSE <<r.turn, r.step>>

\* Folding a leaf selects its parent, if that is loaded.
Collapse ==
  /\ Listing
  /\ LET r == Selected(view)
         parents == {n \in DOMAIN Ledger : Folds(Ledger[n]) /\ Place(Ledger[n]) = <<r.turn, r.step>>
                                           /\ r.turn # 0}
     IN  Key([view EXCEPT !.follow = FALSE,
                          !.folded = IF Folds(r) THEN @ \cup {Place(r)} ELSE @,
                          !.index = IF Folds(r) \/ parents = {} THEN @ ELSE Min(parents)])
  /\ UNCHANGED paging

Expand ==
  /\ Listing
  /\ LET r == Selected(view)
     IN  Key([view EXCEPT !.folded = IF Folds(r) THEN @ \ {Place(r)} ELSE @])
  /\ UNCHANGED paging

ActivateTab(v, tab) == [v EXCEPT !.tab = tab, !.mode = "detail", !.follow = FALSE]

Confirm == Listing /\ view.index \in DOMAIN Ledger /\ Key(ActivateTab(view, 1)) /\ UNCHANGED paging
SelectTab == Reading /\ Key(ActivateTab(view, (view.tab % Len(TabNames)) + 1)) /\ UNCHANGED paging

\* The rows and tabs of the last frame are what a click can hit.
ClickTab ==
  /\ view.open /\ ~view.info
  /\ \E tab \in DOMAIN TabNames : Key(ActivateTab(view, tab))
  /\ UNCHANGED paging

ClickRow(row) ==
  /\ view.open /\ ~view.info
  /\ Key([view EXCEPT !.index = row.index, !.mode = "list", !.follow = (row.index = Len(Ledger))])
  /\ UNCHANGED paging

RenderFrame(wide) ==
  /\ view.open
  /\ LET split == wide /\ view.index \in DOMAIN Ledger
         v == SyncRequest([view EXCEPT !.split = split], loaded)
         listed == ~view.info /\ (v.split \/ v.mode = "list" \/ view.index \notin DOMAIN Ledger)
         rows == Shown(v)
     IN  /\ view' = IF view.info THEN view
                    ELSE IF view.index \in DOMAIN Ledger THEN v ELSE [v EXCEPT !.mode = "list"]
         /\ drawn' = IF view.info THEN drawn
                     ELSE IF listed
                     THEN {[key |-> Ledger[n].key, index |-> n] : n \in rows}
                     ELSE NoFrame
  /\ UNCHANGED <<loaded, paging>>

\* The canonical Request has been read.
Prepared ==
  /\ view.open /\ view.browser.preparing
  /\ view' = [view EXCEPT !.browser.preparing = FALSE]
  /\ UNCHANGED <<loaded, paging, drawn>>

TrajectoryNext ==
  \/ Arrives \/ PageSettles \/ Open \/ Info \/ Back \/ Next_ \/ Previous \/ First \/ Tail_
  \/ Collapse \/ Expand \/ Confirm \/ SelectTab \/ ClickTab \/ Prepared
  \/ \E row \in drawn : ClickRow(row)
  \/ \E wide \in BOOLEAN : RenderFrame(wide)

TrajectorySpec == TrajectoryInit /\ [][TrajectoryNext]_trajectoryVars

-----------------------------------------------------------------------------
(* Properties *)

\* Events and pages that arrive never move the reader: the record selected
\* stays selected (its end record becoming its start record included), unless
\* the ledger follows its tail, which then selects the newest.
SelectionKept ==
  [][ (view.open /\ view'.open /\ loaded' # loaded /\ view.index \in DOMAIN Ledger) =>
        IF view.follow THEN view'.index = Len(view'.records)
        ELSE Selected(view').key = Selected(view).key ]_trajectoryVars

\* One record stands for one node, however the window cuts the node's events.
LedgerUnique ==
  view.open => \A m, n \in DOMAIN Ledger : Ledger[m].key = Ledger[n].key => m = n

\* The Request shown is that of the selected Step, of the events now loaded;
\* nothing is prepared behind a panel that is not shown.
RequestOfSelected ==
  view.open =>
    /\ view.browser # NoBrowser => view.browser.owner = Selected(view).key
    /\ view.browser.active => view.browser.opened = <<loaded, Availability(loaded)>>
    /\ view.browser.preparing => view.browser.active /\ loaded.from = 1

\* The ledger and the Request beside it tell the truth about what is loaded.
RecordsTruthful == LedgerUnique /\ RequestOfSelected
=============================================================================
