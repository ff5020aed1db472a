----------------------------- MODULE ViewProofs -----------------------------
(***************************************************************************)
(* The views that race with what they show, for every value of the         *)
(* constants: the icon of a tab, which the site changes while a badge is   *)
(* drawn over it; the Request of a Step, whose searches resume late; the   *)
(* requests of the Host, which come, are withdrawn and are answered over   *)
(* one another; and the ledger, which is rebuilt under its reader.         *)
(***************************************************************************)
EXTENDS TabIndicator, RequestInspection, Interaction, Trajectory, SequenceTheorems, WellFoundedInduction, TLAPS

-----------------------------------------------------------------------------
(***************************************************************************)
(* The icon.  IconRestored speaks of what is left when control ends; what  *)
(* makes it true while control lasts is that each element shows what the   *)
(* site wants or a badge whose record remembers it, and that the element   *)
(* made for the badge has no other icon until the site gives it one.       *)
(***************************************************************************)
Wanted == {Bare} \cup Href
Record == [href : Wanted, created : BOOLEAN, badge : {"none"} \cup {Badge(icon) : icon \in Icon}]
Element == [in : BOOLEAN, href : Wanted \cup {Badge(icon) : icon \in Icon}, wanted : Wanted]

IndicatorTypes ==
  /\ dom \in [Elements -> Element]
  /\ records \in [Elements -> Record]
  /\ indicator \in [live : BOOLEAN, icon : {"none"} \cup Icon,
                    decoded : {"no", "pending", "image", "nothing"}, waiting : BOOLEAN]

\* The element shows its badge, and its record remembers what the site wants.
Remembered(e) ==
  /\ records[e] # NoRecord
  /\ dom[e].href = records[e].badge /\ records[e].href = dom[e].wanted

IconKept ==
  /\ \A e \in Elements : dom[e].href = dom[e].wanted \/ Remembered(e)
  /\ \A e \in Elements : records[e] # NoRecord => records[e].badge # "none"
  /\ dom[Made].in => \/ dom[Made].wanted \in Href
                     \/ Remembered(Made) /\ records[Made].created

\* Without a control nothing is remembered, decoded or drawn.
IdleWithoutControl ==
  /\ ~indicator.live => indicator = Gone /\ \A e \in Elements : records[e] = NoRecord
  /\ indicator.waiting => indicator.icon \in Icon

IndicatorInv == IndicatorTypes /\ IconKept /\ IdleWithoutControl

\* Lemma: the site's icons, the badges and "none" are told apart.
LEMMA Badges ==
  /\ \A icon \in Icon : Badge(icon) \notin Wanted /\ Badge(icon) # "none"
  /\ NoRecord \in Record /\ NoRecord.badge = "none" /\ Bare \in Wanted
  BY IconAssumption DEF Wanted, Record, NoRecord

\* An element with its badge, and the record of a badge, old or new.
Badged(element, href) == [element EXCEPT !.in = TRUE, !.href = href]
Renewed(record, href) == [record EXCEPT !.badge = href]
NewRecord(original, href, created) == [href |-> original, badge |-> href, created |-> created]

\* Lemma: what these have of what they were made of.
LEMMA BadgeDrawn ==
  ASSUME NEW icon \in Icon
  PROVE  /\ \A element \in Element :
              LET new == Badged(element, Badge(icon)) IN
              new \in Element /\ new.href = Badge(icon) /\ new.wanted = element.wanted
         /\ \A record \in Record :
              LET new == Renewed(record, Badge(icon)) IN
              /\ new \in Record /\ new.badge = Badge(icon)
              /\ new.href = record.href /\ new.created = record.created
         /\ \A original \in Wanted, created \in BOOLEAN :
              LET new == NewRecord(original, Badge(icon), created) IN
              /\ new \in Record /\ new.badge = Badge(icon)
              /\ new.href = original /\ new.created = created
<1> DEFINE Drawn == {Badge(i) : i \in Icon}
<1>1. Badge(icon) \in Drawn
  OBVIOUS
<1>2. Element = [in : BOOLEAN, href : Wanted \cup Drawn, wanted : Wanted]
  BY DEF Element
<1>3. Record = [href : Wanted, created : BOOLEAN, badge : {"none"} \cup Drawn]
  BY DEF Record
<1> DEFINE href == Badge(icon)
<1> HIDE DEF Drawn, href
<1>4. \A element \in Element :
        LET new == Badged(element, href) IN
        new \in Element /\ new.href = href /\ new.wanted = element.wanted
  BY <1>1, <1>2 DEF Badged, href
<1>5. \A record \in Record :
        LET new == Renewed(record, href) IN
        new \in Record /\ new.badge = href /\ new.href = record.href /\ new.created = record.created
  BY <1>1, <1>3 DEF Renewed, href
<1>6. \A original \in Wanted, created \in BOOLEAN :
        LET new == NewRecord(original, href, created) IN
        new \in Record /\ new.badge = href /\ new.href = original /\ new.created = created
  BY <1>1, <1>3 DEF NewRecord, href
<1> QED  BY <1>4, <1>5, <1>6 DEF href

\* Lemma: an element that is given back shows what the site wants, and is left
\* in the document only if the site has given it an icon.
LEMMA GivenBack ==
  ASSUME IndicatorInv, NEW e \in Elements
  PROVE  /\ Restored(e) \in Element
         /\ Restored(e).wanted = dom[e].wanted /\ Restored(e).href = dom[e].wanted
         /\ e = Made /\ Restored(e).in => dom[e].wanted \in Href
<1> USE DEF IndicatorInv, IndicatorTypes, IconKept, Remembered
<1>1. dom[e] \in Element /\ records[e] \in Record
  OBVIOUS
<1>2. CASE Remembered(e)
  <2>1. Restored(e) = [dom[e] EXCEPT !.in = @ /\ ~records[e].created, !.href = records[e].href]
    BY <1>2 DEF Restored
  <2> QED  BY <1>1, <1>2, <2>1, Badges DEF Element, Record, Wanted
<1>3. CASE ~Remembered(e)
  <2>1. dom[e].href = dom[e].wanted
    BY <1>3
  <2>2. records[e] = NoRecord \/ dom[e].href # records[e].badge
    BY <1>1, <2>1, Badges DEF Element, Record
  <2>3. Restored(e) = dom[e]
    BY <2>2 DEF Restored
  <2> QED  BY <1>1, <1>3, <2>1, <2>3
<1> QED  BY <1>2, <1>3

\* Lemma: clearing gives every element back.
LEMMA Clears ==
  ASSUME IndicatorInv, ClearBadge
  PROVE  /\ dom' \in [Elements -> Element] /\ records' \in [Elements -> Record]
         /\ IconKept' /\ \A e \in Elements : records'[e] = NoRecord
<1>1. /\ \A e \in Elements : dom'[e] = Restored(e) /\ records'[e] = NoRecord
      /\ dom' \in [Elements -> Element] /\ records' \in [Elements -> Record]
  BY GivenBack, Badges DEF ClearBadge
<1>2. Made \in Elements
  BY DEF Elements
<1> QED  BY <1>1, <1>2, GivenBack DEF IconKept, Remembered

\* Lemma: a badge that is drawn remembers what the site wants.
LEMMA Applies ==
  ASSUME IndicatorInv, NEW icon \in Icon, ApplyBadge(Badge(icon))
  PROVE  /\ dom' \in [Elements -> Element] /\ records' \in [Elements -> Record]
         /\ IconKept'
<1> DEFINE href == Badge(icon)
           kept(e) == records[e] # NoRecord /\ dom[e].in /\ dom[e].href = records[e].badge
           cleared(e) == IF dom[e].in THEN dom[e] ELSE Restored(e)
           badged(e) == IF Icons = {} THEN e = Made ELSE e \in Icons
           painted(e) == IF badged(e) THEN [cleared(e) EXCEPT !.in = TRUE, !.href = href] ELSE cleared(e)
           remembered(e) == CASE ~badged(e) -> NoRecord
                              [] kept(e) -> [records[e] EXCEPT !.badge = href]
                              [] OTHER -> [href |-> cleared(e).href, badge |-> href, created |-> Icons = {}]
<1>1. dom' = [e \in Elements |-> painted(e)] /\ records' = [e \in Elements |-> remembered(e)]
  BY DEF ApplyBadge
<1>2. ASSUME NEW e \in Elements
      PROVE  /\ painted(e) \in Element /\ remembered(e) \in Record
             /\ painted(e).wanted = dom[e].wanted
             /\ badged(e) => /\ remembered(e) # NoRecord /\ remembered(e).badge = href
                             /\ painted(e).href = href /\ remembered(e).href = dom[e].wanted
             /\ ~badged(e) => painted(e).href = dom[e].wanted /\ remembered(e) = NoRecord
             /\ e = Made /\ painted(e).in =>
                  dom[e].wanted \in Href \/ (badged(e) /\ remembered(e).created)
  <2>0. /\ dom[e] \in Element /\ records[e] \in Record /\ href \notin Wanted /\ href # "none"
        /\ dom[e].href = dom[e].wanted \/ Remembered(e)
        /\ e \in Icons <=> dom[e].in
    BY Badges DEF IndicatorInv, IndicatorTypes, IconKept, Icons
  <2>1. /\ cleared(e) \in Element /\ cleared(e).wanted = dom[e].wanted
        /\ ~dom[e].in => cleared(e).href = dom[e].wanted
    BY <2>0, GivenBack
  <2>2. href \in {Badge(i) : i \in Icon} /\ Icons \subseteq Elements
    BY DEF Icons
  <2> HIDE DEF cleared
  <2>3. CASE ~badged(e)
    <3>1. ~dom[e].in
      BY <2>0, <2>3, <2>2
    <3>2. painted(e) = cleared(e) /\ remembered(e) = NoRecord
      BY <2>3, <3>1
    <3>3. e = Made /\ painted(e).in => dom[e].wanted \in Href
      BY <3>1, <3>2, GivenBack DEF cleared
    <3> QED  BY <2>1, <2>3, <3>1, <3>2, <3>3, Badges
  <2>4. CASE badged(e)
    <3>1. painted(e) = Badged(cleared(e), href)
      BY <2>4 DEF Badged
    <3>2. painted(e) \in Element /\ painted(e).href = href /\ painted(e).wanted = dom[e].wanted
      <4> HIDE DEF painted
      <4> QED  BY <2>1, <3>1, BadgeDrawn
    <3>3. CASE kept(e)
      <4>1. remembered(e) = Renewed(records[e], href)
        BY <2>4, <3>3 DEF Renewed
      <4>2. Remembered(e)
        <5>1. records[e].badge # dom[e].wanted
          BY <2>0, <3>3, Badges DEF IndicatorInv, IconKept, Element, Record
        <5> QED  BY <2>0, <3>3, <5>1
      <4>3. e = Made => dom[e].wanted \in Href \/ records[e].created
        BY <3>3 DEF IndicatorInv, IconKept
      <4> HIDE DEF painted, remembered
      <4>4. /\ remembered(e) \in Record /\ remembered(e).badge = href
            /\ remembered(e).href = dom[e].wanted /\ remembered(e).created = records[e].created
        BY <2>0, <4>1, <4>2, BadgeDrawn DEF Remembered
      <4> QED  BY <2>0, <2>4, <3>2, <4>3, <4>4, Badges
    <3>4. CASE ~kept(e)
      <4>1. remembered(e) = NewRecord(cleared(e).href, href, Icons = {})
        BY <2>4, <3>4 DEF NewRecord
      <4>2. cleared(e).href = dom[e].wanted /\ dom[e].wanted \in Wanted
        BY <2>0, <2>1, <3>4 DEF Remembered, cleared, Element
      <4>3. e = Made /\ Icons # {} => dom[e].wanted \in Href
        <5>1. Icons # {} => dom[e].in
          BY <2>0, <2>4
        <5> QED  BY <3>4, <5>1 DEF IndicatorInv, IconKept, Remembered
      <4> HIDE DEF painted, remembered
      <4>4. /\ remembered(e) \in Record /\ remembered(e).badge = href
            /\ remembered(e).href = dom[e].wanted /\ remembered(e).created = (Icons = {})
        <5> DEFINE created == Icons = {}
        <5>1. created \in BOOLEAN
          OBVIOUS
        <5> HIDE DEF created
        <5>2. LET new == NewRecord(dom[e].wanted, href, created) IN
              new \in Record /\ new.badge = href /\ new.href = dom[e].wanted /\ new.created = created
          BY <4>2, <5>1, BadgeDrawn
        <5> QED  BY <4>1, <4>2, <5>2 DEF created
      <4> QED  BY <2>0, <2>4, <3>2, <4>3, <4>4, Badges
    <3> QED  BY <3>3, <3>4
  <2> QED  BY <2>3, <2>4
<1> HIDE DEF painted, remembered, badged, href
<1>3. /\ \A e \in Elements : dom'[e] = painted(e) /\ records'[e] = remembered(e)
      /\ dom' \in [Elements -> Element] /\ records' \in [Elements -> Record]
  BY <1>1, <1>2
<1>4. \A e \in Elements : dom'[e].href = dom'[e].wanted \/ Remembered(e)'
  BY <1>2, <1>3 DEF Remembered
<1>5. \A e \in Elements : records'[e] # NoRecord => records'[e].badge # "none"
  <2>1. href # "none"
    BY Badges DEF href
  <2> QED  BY <1>2, <1>3, <2>1
<1>6. dom'[Made].in => dom'[Made].wanted \in Href \/ (Remembered(Made)' /\ records'[Made].created)
  <2>1. Made \in Elements
    BY DEF Elements
  <2> QED  BY <1>2, <1>3, <2>1 DEF Remembered
<1> QED  BY <1>3, <1>4, <1>5, <1>6 DEF IconKept

\* Lemma: nothing is remembered at the start.
LEMMA IndicatorStart == IndicatorInit => IndicatorInv
<1> SUFFICES ASSUME IndicatorInit PROVE IndicatorInv
  OBVIOUS
<1>1. /\ dom \in [Elements -> [in : BOOLEAN, href : Wanted, wanted : Wanted]]
      /\ Made \in Elements /\ ~dom[Made].in
      /\ \A e \in Elements : dom[e].href = dom[e].wanted /\ records[e] = NoRecord
  BY DEF IndicatorInit, Wanted, Elements
<1>2. dom \in [Elements -> Element]
  BY <1>1 DEF Element
<1>3. records \in [Elements -> Record]
  BY Badges DEF IndicatorInit
<1> QED  BY <1>1, <1>2, <1>3 DEF IndicatorInit, IndicatorInv, IndicatorTypes, IconKept, IdleWithoutControl, Gone

\* Lemma: the site, the image and the extension keep the icon.
LEMMA IndicatorStep == IndicatorInv /\ [IndicatorNext]_indicatorVars => IndicatorInv'
<1> SUFFICES ASSUME IndicatorInv, [IndicatorNext]_indicatorVars PROVE IndicatorInv'
  OBVIOUS
<1> USE DEF IndicatorInv
<1>0. Made \in Elements /\ Made \notin Link
  BY IconAssumption DEF Elements
<1>1. CASE UNCHANGED indicatorVars
  BY <1>1 DEF indicatorVars, IndicatorTypes, IconKept, IdleWithoutControl, Remembered
<1>2. ASSUME NEW icon \in Icon \cup {"none"}, Update(icon) PROVE IndicatorInv'
  <2>1. CASE icon = "none"
    BY <1>2, <2>1, Clears DEF Update, IndicatorTypes, IdleWithoutControl
  <2>2. CASE icon # "none"
    <3>1. UNCHANGED <<dom, records>> /\ icon \in Icon
      BY <1>2, <2>2 DEF Update
    <3>2. PICK decoded \in {"no", "pending", "image", "nothing"} :
            indicator' = [live |-> TRUE, icon |-> icon, waiting |-> TRUE, decoded |-> decoded]
      <4> DEFINE decoded == IF icon = indicator.icon THEN indicator.decoded ELSE "pending"
      <4>1. decoded \in {"no", "pending", "image", "nothing"}
        BY DEF IndicatorTypes
      <4>2. indicator' = [live |-> TRUE, icon |-> icon, waiting |-> TRUE, decoded |-> decoded]
        BY <1>2, <2>2 DEF Update
      <4> HIDE DEF decoded
      <4> QED  BY <4>1, <4>2
    <3> QED  BY <3>1, <3>2 DEF IndicatorTypes, IconKept, IdleWithoutControl, Remembered
  <2> QED  BY <2>1, <2>2
<1>3. CASE Decoded
  BY <1>3 DEF Decoded, IndicatorTypes, IconKept, IdleWithoutControl, Remembered, Gone
<1>4. CASE Draw
  <2>1. indicator' = [indicator EXCEPT !.waiting = FALSE] /\ indicator.waiting
    BY <1>4 DEF Draw
  <2>2. indicator.icon \in Icon /\ indicator.live
    BY <2>1 DEF IdleWithoutControl, Gone
  <2>3. indicator'.live /\ ~indicator'.waiting
        /\ indicator' \in [live : BOOLEAN, icon : {"none"} \cup Icon,
                           decoded : {"no", "pending", "image", "nothing"}, waiting : BOOLEAN]
    BY <2>1, <2>2 DEF IndicatorTypes
  <2>4. /\ dom' \in [Elements -> Element] /\ records' \in [Elements -> Record] /\ IconKept'
    <3>1. CASE UNCHANGED <<dom, records>>
      BY <3>1 DEF IndicatorTypes, IconKept, Remembered
    <3>2. CASE ClearBadge
      BY <3>2, Clears
    <3>3. CASE ApplyBadge(Badge(indicator.icon))
      BY <2>2, <3>3, Applies
    <3> QED  BY <1>4, <3>1, <3>2, <3>3 DEF Draw
  <2> QED  BY <2>2, <2>3, <2>4 DEF IndicatorTypes, IdleWithoutControl
<1>5. CASE Dispose
  BY <1>5, Clears DEF Dispose, IndicatorTypes, IdleWithoutControl, Gone
<1>6. CASE AddressChanges
  BY <1>6 DEF AddressChanges, IndicatorTypes, IconKept, IdleWithoutControl, Remembered
<1>7. ASSUME NEW e \in Elements, NEW href \in Href, SiteSets(e, href) PROVE IndicatorInv'
  <2>1. dom[e] \in Element /\ href \in Wanted
    BY DEF IndicatorTypes, Wanted
  <2> DEFINE new == [dom[e] EXCEPT !.href = href, !.wanted = href]
  <2>2. new \in Element /\ new.href = href /\ new.wanted = href
    BY <2>1 DEF Element
  <2>3. dom' = [dom EXCEPT ![e] = new] /\ UNCHANGED <<records, indicator>>
    BY <1>7 DEF SiteSets
  <2> HIDE DEF new
  <2>4. /\ dom' \in [Elements -> Element] /\ dom'[e] = new
        /\ \A x \in Elements \ {e} : dom'[x] = dom[x]
    BY <2>2, <2>3 DEF IndicatorTypes
  <2> QED  BY <1>0, <2>2, <2>3, <2>4 DEF IndicatorTypes, IconKept, IdleWithoutControl, Remembered
<1>8. ASSUME NEW e \in Elements, SiteMoves(e) PROVE IndicatorInv'
  <2>1. dom[e] \in Element /\ e # Made
    BY <1>0, <1>8 DEF IndicatorTypes, SiteMoves
  <2> DEFINE new == [dom[e] EXCEPT !.in = ~@]
  <2>2. new \in Element /\ new.href = dom[e].href /\ new.wanted = dom[e].wanted
    BY <2>1 DEF Element
  <2>3. dom' = [dom EXCEPT ![e] = new] /\ UNCHANGED <<records, indicator>>
    BY <1>8 DEF SiteMoves
  <2> HIDE DEF new
  <2>4. /\ dom' \in [Elements -> Element] /\ dom'[e] = new
        /\ \A x \in Elements \ {e} : dom'[x] = dom[x]
    BY <2>2, <2>3 DEF IndicatorTypes
  <2> QED  BY <1>0, <2>1, <2>2, <2>3, <2>4 DEF IndicatorTypes, IconKept, IdleWithoutControl, Remembered
<1> QED  BY <1>1, <1>2, <1>3, <1>4, <1>5, <1>6, <1>7, <1>8 DEF IndicatorNext

\* Theorem: in every instance, whatever icons the site sets, adds and removes
\* while a badge is decoded, drawn and taken away, the icon the site wants comes
\* back with the end of control, and until then each element shows that icon or
\* the badge that its record takes away (tab-indicator.js: restore, applyBadge).
THEOREM IconComesBack == IndicatorSpec => []IconRestored
<1>1. IndicatorInv => IconRestored
  <2> SUFFICES ASSUME IndicatorInv PROVE IconRestored
    OBVIOUS
  <2>1. \A e \in Elements : dom[e].href \in {dom[e].wanted, records[e].badge}
    BY DEF IndicatorInv, IconKept, Remembered
  <2>2. Made \in Elements
    BY DEF Elements
  <2>3. ASSUME ~indicator.live, NEW e \in Elements
        PROVE  dom[e].href = dom[e].wanted /\ (dom[e].in /\ e = Made => dom[e].href \in Href)
    BY <2>2, <2>3 DEF IndicatorInv, IconKept, IdleWithoutControl, Remembered
  <2> QED  BY <2>1, <2>3 DEF IconRestored
<1> QED  BY <1>1, IndicatorStart, IndicatorStep, PTL DEF IndicatorSpec

-----------------------------------------------------------------------------
(***************************************************************************)
(* The Request.  InspectionTruthful compares the hit shown with the search *)
(* of now.  A job that resumes finds its scope or another one; so for each *)
(* job whose scope is still there the invariant says what it was started   *)
(* for, and that no other job will get that scope.                         *)
(***************************************************************************)
Kinds == {"prepare", "query", "selection", "history"}

InspectionFields ==
  /\ DOMAIN inspection = {"opened", "phase", "request", "query", "selection", "target", "index", "search"}
  /\ DOMAIN inspection.search = {"phase", "query", "total", "selected"}
  /\ DOMAIN browser = {"format", "editor", "exact", "match", "history", "note"}

InspectionTypes ==
  /\ InspectionFields
  /\ inspection.phase \in {"empty", "preparing", "ready", "error", "unavailable"}
  /\ inspection.search.phase \in {"idle", "searching", "ready"}
  /\ \A task \in tasks : task.kind \in Kinds
  /\ {inspection.request, inspection.query, inspection.selection, browser.history, scopes} \subseteq Nat

\* Scopes are given once: what is or was one is among those opened, and a job
\* has its scope to itself.
ScopesOpened ==
  /\ inspection.request <= scopes /\ inspection.query <= scopes /\ inspection.selection <= scopes
  /\ browser.history <= scopes
  /\ \A task \in tasks : task.scope \in 1 .. scopes
  /\ \A task, other \in tasks : task.scope = other.scope => task = other

\* Only a Request that is ready is searched; until an index is there nothing is
\* selected, and an index is about what is searched now.
SearchOfShown ==
  /\ inspection.phase # "ready" => inspection.search.phase = "idle"
  /\ inspection.search.phase = "idle" => inspection.query = 0
  /\ inspection.search.phase # "ready" =>
       inspection.selection = 0 /\ inspection.target = -1 /\ inspection.search.selected = NoMatch
  /\ inspection.search.phase = "ready" => inspection.index = Subject(inspection.search.query)

\* A job whose scope was not disposed does what is wanted now.
JobsWanted ==
  \A task \in tasks : Live(task) =>
    /\ task.kind = "prepare" => inspection.phase = "preparing"
    /\ task.kind = "query" =>
         inspection.search.phase = "searching" /\ task.of = Subject(inspection.search.query)
    /\ task.kind = "selection" =>
         /\ inspection.search.phase = "ready" /\ task.of = Subject(inspection.search.query)
         /\ task.ordinal = inspection.target

InspectionInv == InspectionTypes /\ ScopesOpened /\ SearchOfShown /\ JobsWanted /\ InspectionTruthful

\* Lemma: whose scope a job waits under.
LEMMA Lives ==
  ASSUME NEW task
  PROVE  /\ task.kind = "prepare" => (Live(task) <=> task.scope = inspection.request)
         /\ task.kind = "query" => (Live(task) <=> task.scope = inspection.query)
         /\ task.kind = "selection" => (Live(task) <=> task.scope = inspection.selection)
         /\ task.kind = "history" => (Live(task) <=> task.scope = browser.history)
  BY DEF Live

\* Lemma: the same in the next state.
LEMMA LivesNext ==
  ASSUME NEW task
  PROVE  /\ task.kind = "prepare" => (Live(task)' <=> task.scope = inspection'.request)
         /\ task.kind = "query" => (Live(task)' <=> task.scope = inspection'.query)
         /\ task.kind = "selection" => (Live(task)' <=> task.scope = inspection'.selection)
         /\ task.kind = "history" => (Live(task)' <=> task.scope = browser'.history)
  BY DEF Live

\* Lemma: nothing is inspected at the start.
LEMMA InspectionStart == InspectionInit => InspectionInv
<1> SUFFICES ASSUME InspectionInit PROVE InspectionInv
  OBVIOUS
<1>1. InspectionFields
  BY DEF InspectionInit, IdleSearch, InspectionFields
<1>2. /\ inspection.phase = "empty" /\ inspection.request = 0 /\ inspection.query = 0
      /\ inspection.selection = 0 /\ inspection.target = -1
      /\ inspection.search.phase = "idle" /\ inspection.search.selected = NoMatch
      /\ browser.editor = Nothing /\ browser.match = NoMatch /\ browser.history = 0
      /\ tasks = {} /\ scopes = 0
  BY DEF InspectionInit, IdleSearch
<1>3. InspectionTypes /\ ScopesOpened
  BY <1>1, <1>2 DEF InspectionTypes, ScopesOpened
<1>4. SearchOfShown /\ JobsWanted
  BY <1>2 DEF SearchOfShown, JobsWanted
<1>5. InspectionTruthful
  BY <1>2 DEF InspectionTruthful, MatchIsOfShown, LastIntentShown
<1> QED  BY <1>3, <1>4, <1>5 DEF InspectionInv

\* Lemma: a new job has a scope of its own.
LEMMA ScopeStarts ==
  ASSUME InspectionInv, NEW kind \in Kinds, NEW of, NEW ordinal,
         scopes' = scopes + 1, tasks' = tasks \cup {Task(kind, scopes', of, ordinal)}
  PROVE  /\ scopes' \in Nat /\ scopes' > scopes
         /\ \A task \in tasks' :
              /\ task.kind \in Kinds /\ task.scope \in 1 .. scopes'
              /\ \/ task \in tasks /\ task.scope <= scopes
                 \/ task.scope = scopes' /\ task.kind = kind /\ task.of = of /\ task.ordinal = ordinal
         /\ \A task, other \in tasks' : task.scope = other.scope => task = other
<1> DEFINE new == Task(kind, scopes', of, ordinal)
<1>1. new.kind = kind /\ new.scope = scopes' /\ new.of = of /\ new.ordinal = ordinal
  BY DEF Task
<1>2. tasks' = tasks \cup {new}
  OBVIOUS
<1> HIDE DEF new
<1>3. scopes \in Nat /\ \A task \in tasks : task.scope \in 1 .. scopes /\ task.kind \in Kinds
  BY DEF InspectionInv, InspectionTypes, ScopesOpened
<1>4. \A task, other \in tasks : task.scope = other.scope => task = other
  BY DEF InspectionInv, ScopesOpened
<1>5. scopes' \in Nat /\ scopes' > scopes
  BY <1>3
<1>6. ASSUME NEW task \in tasks'
      PROVE  /\ task.kind \in Kinds /\ task.scope \in 1 .. scopes'
             /\ \/ task \in tasks /\ task.scope <= scopes
                \/ task.scope = scopes' /\ task.kind = kind /\ task.of = of /\ task.ordinal = ordinal
  <2>1. CASE task \in tasks
    BY <1>3, <2>1
  <2>2. CASE task = new
    BY <1>1, <1>3, <2>2
  <2> QED  BY <1>2, <2>1, <2>2
<1>7. ASSUME NEW task \in tasks', NEW other \in tasks', task.scope = other.scope PROVE task = other
  <2>1. \A t \in tasks : t.scope # scopes'
    BY <1>3
  <2> QED  BY <1>1, <1>2, <1>4, <1>7, <2>1
<1> QED  BY <1>5, <1>6, <1>7

\* Lemma: what is left of an inspection whose search is cancelled.
LEMMA Cancelled ==
  ASSUME NEW i, DOMAIN i = {"opened", "phase", "request", "query", "selection", "target", "index", "search"}
  PROVE  LET left == CancelSearch(i) IN
         /\ DOMAIN left = DOMAIN i /\ DOMAIN left.search = {"phase", "query", "total", "selected"}
         /\ left.opened = i.opened /\ left.phase = i.phase /\ left.request = i.request
         /\ left.query = 0 /\ left.selection = 0 /\ left.target = -1
         /\ left.search.phase = "idle" /\ left.search.selected = NoMatch
  BY DEF CancelSearch, IdleSearch

\* Lemma: what the browser makes of a change.
LEMMA Changes ==
  ASSUME NEW b, NEW i, NEW previous, DOMAIN b = {"format", "editor", "exact", "match", "history", "note"}
  PROVE  LET new == Changed(b, i, previous) IN
         /\ DOMAIN new = DOMAIN b /\ new.exact = b.exact
         /\ new.match = IF i.phase # "ready" THEN NoMatch ELSE i.search.selected
         /\ new.editor = IF i.phase # "ready" THEN Nothing ELSE b.editor
         /\ new.history \in {0, b.history}
         /\ i.phase # "ready" \/ previous = i.opened => new.format = b.format
  BY DEF Changed

\* Lemma: a search that is left is forgotten.
LEMMA ClearInspection ==
  ASSUME InspectionInv, NEW b, Clear(b), DOMAIN b = DOMAIN browser,
         b.history = browser.history, b.editor \in {Nothing, browser.editor}
  PROVE  InspectionInv'
<1> USE DEF InspectionInv
<1>1. /\ InspectionFields' /\ UNCHANGED <<tasks, scopes>>
      /\ inspection'.phase = inspection.phase /\ inspection'.request = inspection.request
      /\ inspection'.query = 0 /\ inspection'.selection = 0 /\ inspection'.target = -1
      /\ inspection'.search.phase = "idle" /\ inspection'.search.selected = NoMatch
      /\ browser'.editor \in {Nothing, browser.editor} /\ browser'.match = NoMatch
      /\ browser'.history = browser.history
  <2>1. inspection' = CancelSearch(inspection) /\ browser' = [b EXCEPT !.match = NoMatch]
        /\ UNCHANGED <<tasks, scopes>>
    BY DEF Clear, Unheld
  <2>2. InspectionFields
    BY DEF InspectionTypes
  <2> QED  BY <2>1, <2>2, Cancelled DEF InspectionFields
<1>2. InspectionTypes'
  BY <1>1 DEF InspectionTypes
<1>3. ScopesOpened'
  BY <1>1 DEF InspectionTypes, ScopesOpened
<1>4. SearchOfShown'
  BY <1>1 DEF SearchOfShown
<1>5. JobsWanted'
  BY <1>1, Lives, LivesNext DEF InspectionTypes, JobsWanted, ScopesOpened
<1>6. InspectionTruthful'
  BY <1>1 DEF InspectionTruthful, MatchIsOfShown, LastIntentShown
<1> QED  BY <1>2, <1>3, <1>4, <1>5, <1>6

\* Lemma: a search is started for what is shown.
LEMMA FindInspection ==
  ASSUME InspectionInv, NEW b, NEW text, FindText(inspection, b, text), DOMAIN b = DOMAIN browser,
         b.history = browser.history, b.editor = Nothing, b.match = NoMatch
  PROVE  InspectionInv'
<1> USE DEF InspectionInv
<1>0. InspectionFields
  BY DEF InspectionTypes
<1>1. CASE text = "" \/ inspection.phase # "ready"
  <2>1. /\ InspectionFields' /\ UNCHANGED <<tasks, scopes>>
        /\ inspection'.phase = inspection.phase /\ inspection'.request = inspection.request
        /\ inspection'.query = 0 /\ inspection'.selection = 0 /\ inspection'.target = -1
        /\ inspection'.search.phase = "idle" /\ inspection'.search.selected = NoMatch
        /\ browser' = b
    <3>1. inspection' = CancelSearch(inspection) /\ browser' = b /\ UNCHANGED <<tasks, scopes>>
      BY <1>1 DEF FindText
    <3> QED  BY <1>0, <3>1, Cancelled DEF InspectionFields
  <2>2. InspectionTypes'
    BY <2>1 DEF InspectionTypes
  <2>3. ScopesOpened'
    BY <2>1 DEF InspectionTypes, ScopesOpened
  <2>4. SearchOfShown'
    BY <2>1 DEF SearchOfShown
  <2>5. JobsWanted'
    BY <2>1, Lives, LivesNext DEF InspectionTypes, JobsWanted, ScopesOpened
  <2>6. InspectionTruthful'
    BY <2>1 DEF InspectionTruthful, MatchIsOfShown, LastIntentShown
  <2> QED  BY <2>2, <2>3, <2>4, <2>5, <2>6
<1>2. CASE ~(text = "" \/ inspection.phase # "ready")
  <2> DEFINE of == <<inspection.opened, b.format, text, b.exact>>
  <2>1. /\ InspectionFields'
        /\ inspection'.opened = inspection.opened /\ inspection'.phase = "ready"
        /\ inspection'.request = inspection.request /\ inspection'.query = scopes'
        /\ inspection'.selection = 0 /\ inspection'.target = -1
        /\ inspection'.search.phase = "searching" /\ inspection'.search.query = text
        /\ inspection'.search.selected = NoMatch
        /\ browser' = b /\ scopes' = scopes + 1
    <3>1. inspection' = [CancelSearch(inspection) EXCEPT !.query = scopes', !.search.phase = "searching",
                                                        !.search.query = text]
          /\ browser' = b /\ scopes' = scopes + 1 /\ inspection.phase = "ready"
      BY <1>2 DEF FindText
    <3> DEFINE left == CancelSearch(inspection)
    <3>2. /\ DOMAIN left = {"opened", "phase", "request", "query", "selection", "target", "index", "search"}
          /\ DOMAIN left.search = {"phase", "query", "total", "selected"}
          /\ left.opened = inspection.opened /\ left.phase = inspection.phase
          /\ left.request = inspection.request /\ left.selection = 0 /\ left.target = -1
          /\ left.search.selected = NoMatch
      BY <1>0, Cancelled DEF InspectionFields
    <3>3. inspection' = [left EXCEPT !.query = scopes', !.search.phase = "searching", !.search.query = text]
      BY <3>1
    <3> HIDE DEF left
    <3>4. /\ DOMAIN inspection' = DOMAIN left /\ inspection'.query = scopes'
          /\ inspection'.search = [left.search EXCEPT !.phase = "searching", !.query = text]
          /\ inspection'.opened = left.opened /\ inspection'.phase = left.phase
          /\ inspection'.request = left.request /\ inspection'.selection = left.selection
          /\ inspection'.target = left.target
      BY <3>2, <3>3
    <3>5. /\ DOMAIN inspection'.search = DOMAIN left.search /\ inspection'.search.phase = "searching"
          /\ inspection'.search.query = text /\ inspection'.search.selected = NoMatch
      BY <3>2, <3>4
    <3>6. DOMAIN browser' = DOMAIN browser
      BY <3>1
    <3> QED  BY <1>0, <3>1, <3>2, <3>4, <3>5, <3>6 DEF InspectionFields
  <2>2. tasks' = tasks \cup {Task("query", scopes', of, 0)}
    BY <1>2 DEF FindText
  <2>3. of = Subject(inspection.search.query)'
    BY <2>1 DEF Subject
  <2> HIDE DEF of
  <2>4. /\ scopes' \in Nat /\ scopes' > scopes
        /\ \A task \in tasks' :
              /\ task.kind \in Kinds /\ task.scope \in 1 .. scopes'
              /\ \/ task \in tasks /\ task.scope <= scopes
                 \/ task.scope = scopes' /\ task.kind = "query" /\ task.of = of /\ task.ordinal = 0
        /\ \A task, other \in tasks' : task.scope = other.scope => task = other
    BY <2>1, <2>2, ScopeStarts DEF Kinds
  <2>5. InspectionTypes'
    BY <2>1, <2>4 DEF InspectionTypes
  <2>6. ScopesOpened'
    BY <2>1, <2>4 DEF InspectionTypes, ScopesOpened
  <2>7. SearchOfShown'
    BY <2>1 DEF SearchOfShown
  <2>8. JobsWanted'
    <3>1. \A task \in tasks' : Live(task)' => task.kind \in {"prepare", "query", "history"}
      BY <2>1, <2>4, LivesNext DEF Kinds
    <3>2. ASSUME NEW task \in tasks', Live(task)', task.kind = "prepare" PROVE FALSE
      BY <1>2, <2>1, <2>4, <3>2, Lives, LivesNext DEF JobsWanted
    <3>3. ASSUME NEW task \in tasks', Live(task)', task.kind = "query"
          PROVE  task.of = of
      <4>1. task.scope = scopes'
        BY <2>1, <3>3, LivesNext
      <4>2. ~(task.scope <= scopes)
        BY <2>4, <4>1 DEF InspectionTypes
      <4> QED  BY <2>4, <4>2
    <3> QED  BY <2>1, <2>3, <3>1, <3>2, <3>3 DEF JobsWanted
  <2>9. InspectionTruthful'
    BY <2>1 DEF InspectionTruthful, MatchIsOfShown, LastIntentShown
  <2> QED  BY <2>5, <2>6, <2>7, <2>8, <2>9
<1> QED  BY <1>1, <1>2

\* Lemma: a job that ends, and a key that changes only the mode, keep what is
\* shown; the format changes on its own only when nothing is searched.
LEMMA OnlyMode ==
  ASSUME InspectionInv, UNCHANGED <<inspection, scopes>>, tasks' \subseteq tasks,
         DOMAIN browser' = DOMAIN browser, browser'.match = browser.match, browser'.exact = browser.exact,
         browser'.history \in {0, browser.history},
         browser'.editor \in {Nothing, browser.editor} \/ inspection.phase = "ready",
         browser'.format = browser.format \/ inspection.search.phase = "idle"
  PROVE  InspectionInv'
<1> USE DEF InspectionInv
<1>1. InspectionTypes'
  BY DEF InspectionTypes, InspectionFields
<1>2. ScopesOpened'
  BY DEF InspectionTypes, ScopesOpened
<1>3. inspection.search.phase # "idle" => Subject(inspection.search.query)' = Subject(inspection.search.query)
  BY DEF Subject
<1>4. SearchOfShown'
  BY <1>3 DEF SearchOfShown
<1>5. JobsWanted'
  <2>1. \A task \in tasks' : task \in tasks /\ (task.kind # "history" /\ Live(task)' => Live(task))
    BY Lives, LivesNext DEF InspectionTypes, Kinds
  <2> QED  BY <1>3, <2>1 DEF JobsWanted
<1>6. InspectionTruthful'
  BY <1>3 DEF InspectionTruthful, MatchIsOfShown, LastIntentShown, SearchOfShown
<1> QED  BY <1>1, <1>2, <1>4, <1>5, <1>6

\* Lemma: the view shows another Request, or the same.
LEMMA OpensInspection ==
  ASSUME InspectionInv, NEW a, Opens(a)
  PROVE  InspectionInv'
<1> USE DEF InspectionInv
<1>0. InspectionFields
  BY DEF InspectionTypes
<1> DEFINE left == CancelSearch(inspection)
<1>1. /\ DOMAIN left = {"opened", "phase", "request", "query", "selection", "target", "index", "search"}
      /\ DOMAIN left.search = {"phase", "query", "total", "selected"}
      /\ left.query = 0 /\ left.selection = 0 /\ left.target = -1
      /\ left.search.phase = "idle" /\ left.search.selected = NoMatch
  BY <1>0, Cancelled DEF InspectionFields
<1>2. CASE UNCHANGED inspectionVars
  BY <1>2, OnlyMode DEF inspectionVars
<1>3. CASE /\ inspection' = [left EXCEPT !.opened = a, !.request = 0, !.phase = "unavailable"]
           /\ browser' = Changed(browser, inspection', Nothing) /\ UNCHANGED <<tasks, scopes>>
  <2>1. /\ DOMAIN inspection' = DOMAIN left /\ inspection'.search = left.search
        /\ inspection'.phase = "unavailable" /\ inspection'.request = 0
        /\ inspection'.query = 0 /\ inspection'.selection = 0 /\ inspection'.target = -1
    <3> HIDE DEF left
    <3> QED  BY <1>1, <1>3
  <2>2. /\ DOMAIN browser' = DOMAIN browser /\ browser'.match = NoMatch /\ browser'.editor = Nothing
        /\ browser'.history \in {0, browser.history} /\ UNCHANGED <<tasks, scopes>>
    <3> DEFINE shown == inspection'
    <3>1. browser' = Changed(browser, shown, Nothing) /\ shown.phase # "ready"
      BY <1>3, <2>1
    <3>2. DOMAIN browser = {"format", "editor", "exact", "match", "history", "note"}
      BY <1>0 DEF InspectionFields
    <3> HIDE DEF shown
    <3> QED  BY <1>3, <3>1, <3>2, Changes
  <2> HIDE DEF left
  <2>3. InspectionTypes'
    BY <1>0, <1>1, <2>1, <2>2 DEF InspectionTypes, InspectionFields
  <2>4. ScopesOpened'
    BY <2>1, <2>2 DEF InspectionTypes, ScopesOpened
  <2>5. SearchOfShown'
    BY <1>1, <2>1 DEF SearchOfShown
  <2>6. JobsWanted'
    BY <2>1, <2>2, LivesNext DEF InspectionTypes, ScopesOpened, JobsWanted
  <2>7. InspectionTruthful'
    BY <1>1, <2>1, <2>2 DEF InspectionTruthful, MatchIsOfShown, LastIntentShown
  <2> QED  BY <2>3, <2>4, <2>5, <2>6, <2>7
<1>4. CASE /\ scopes' = scopes + 1
           /\ inspection' = [left EXCEPT !.opened = a, !.request = scopes', !.phase = "preparing"]
           /\ browser' = Changed(browser, inspection', Nothing)
           /\ tasks' = tasks \cup {Task("prepare", scopes', <<a>>, 0)}
  <2>1. /\ DOMAIN inspection' = DOMAIN left /\ inspection'.search = left.search
        /\ inspection'.phase = "preparing" /\ inspection'.request = scopes'
        /\ inspection'.query = 0 /\ inspection'.selection = 0 /\ inspection'.target = -1
    <3> HIDE DEF left
    <3> QED  BY <1>1, <1>4
  <2>2. /\ DOMAIN browser' = DOMAIN browser /\ browser'.match = NoMatch /\ browser'.editor = Nothing
        /\ browser'.history \in {0, browser.history}
    <3> DEFINE shown == inspection'
    <3>1. browser' = Changed(browser, shown, Nothing) /\ shown.phase # "ready"
      BY <1>4, <2>1
    <3>2. DOMAIN browser = {"format", "editor", "exact", "match", "history", "note"}
      BY <1>0 DEF InspectionFields
    <3> HIDE DEF shown
    <3> QED  BY <1>4, <3>1, <3>2, Changes
  <2> HIDE DEF left
  <2>3. /\ scopes' \in Nat /\ scopes' > scopes
        /\ \A task \in tasks' :
              /\ task.kind \in Kinds /\ task.scope \in 1 .. scopes'
              /\ \/ task \in tasks /\ task.scope <= scopes
                 \/ task.scope = scopes' /\ task.kind = "prepare" /\ task.of = <<a>> /\ task.ordinal = 0
        /\ \A task, other \in tasks' : task.scope = other.scope => task = other
    BY <1>4, ScopeStarts DEF Kinds
  <2>4. InspectionTypes'
    BY <1>0, <1>1, <2>1, <2>2, <2>3 DEF InspectionTypes, InspectionFields
  <2>5. ScopesOpened'
    BY <1>4, <2>1, <2>2, <2>3 DEF InspectionTypes, ScopesOpened
  <2>6. SearchOfShown'
    BY <1>1, <2>1 DEF SearchOfShown
  <2>7. JobsWanted'
    BY <2>1, <2>3, LivesNext DEF JobsWanted
  <2>8. InspectionTruthful'
    BY <1>1, <2>1, <2>2 DEF InspectionTruthful, MatchIsOfShown, LastIntentShown
  <2> QED  BY <2>4, <2>5, <2>6, <2>7, <2>8
<1>5. QED
  <2>1. CASE a \in Missing /\ ~(a \in Revision /\ a = inspection.opened)
    <3>1. inspection' = [[left EXCEPT !.opened = a, !.request = 0] EXCEPT !.phase = "unavailable"]
          /\ browser' = Changed(browser, inspection', Nothing) /\ UNCHANGED <<tasks, scopes>>
      BY <2>1 DEF Opens
    <3> HIDE DEF left
    <3> QED  BY <1>1, <1>3, <3>1
  <2>2. CASE a \notin Missing /\ ~(a \in Revision /\ a = inspection.opened)
    <3>1. /\ inspection' = [[left EXCEPT !.opened = a, !.request = 0] EXCEPT !.phase = "preparing", !.request = scopes']
          /\ scopes' = scopes + 1
          /\ browser' = Changed(browser, inspection', Nothing)
          /\ tasks' = tasks \cup {Task("prepare", scopes', <<a>>, 0)}
      BY <2>2 DEF Opens
    <3> HIDE DEF left
    <3>2. inspection' = [left EXCEPT !.opened = a, !.request = scopes', !.phase = "preparing"]
      BY <1>1, <3>1
    <3> QED  BY <1>4, <3>1, <3>2
  <2> QED  BY <1>2, <2>1, <2>2 DEF Opens

\* Lemma: the view leaves the tab.
LEMMA SuspendsInspection ==
  ASSUME InspectionInv, Suspends
  PROVE  InspectionInv'
<1> USE DEF InspectionInv
<1> DEFINE kept == [inspection EXCEPT !.selection = 0, !.target = -1]
           idle == IF kept.search.phase = "searching" THEN CancelSearch(kept) ELSE kept
           left == [browser EXCEPT !.editor = Nothing, !.history = 0, !.note = ""]
<1>0. InspectionFields
  BY DEF InspectionTypes
<1>1. /\ DOMAIN kept = DOMAIN inspection /\ kept.search = inspection.search
      /\ kept.selection = 0 /\ kept.target = -1 /\ kept.opened = inspection.opened
      /\ kept.phase = inspection.phase /\ kept.request = inspection.request /\ kept.query = inspection.query
      /\ kept.index = inspection.index
  BY <1>0 DEF InspectionFields
<1>2. /\ DOMAIN left = DOMAIN browser /\ left.editor = Nothing /\ left.history = 0
      /\ left.match = browser.match /\ left.format = browser.format /\ left.exact = browser.exact
  BY <1>0 DEF InspectionFields
<1>3. /\ DOMAIN idle = DOMAIN inspection
      /\ DOMAIN idle.search = {"phase", "query", "total", "selected"}
      /\ idle.selection = 0 /\ idle.target = -1 /\ idle.phase = inspection.phase
      /\ idle.request = inspection.request /\ idle.opened = inspection.opened
      /\ idle.search.selected = inspection.search.selected
      /\ \/ /\ inspection.search.phase # "searching" /\ idle.search = inspection.search
            /\ idle.query = inspection.query /\ idle.index = inspection.index
         \/ /\ inspection.search.phase = "searching" /\ inspection.search.selected = NoMatch
            /\ idle.search.phase = "idle" /\ idle.query = 0
  <2> HIDE DEF kept
  <2>1. CASE kept.search.phase = "searching"
    <3>1. idle = CancelSearch(kept) /\ inspection.search.selected = NoMatch
      BY <1>1, <2>1 DEF SearchOfShown
    <3> QED  BY <1>0, <1>1, <3>1, Cancelled DEF InspectionFields
  <2>2. CASE kept.search.phase # "searching"
    <3>1. idle = kept
      BY <2>2
    <3> QED  BY <1>0, <1>1, <2>2, <3>1 DEF InspectionFields
  <2> QED  BY <2>1, <2>2
<1> DEFINE preparing == idle.phase = "preparing"
<1>4. /\ inspection' = IF preparing
                       THEN [idle EXCEPT !.request = 0, !.opened = Nothing, !.phase = "empty"] ELSE idle
      /\ browser' = IF preparing THEN Changed(left, inspection', Nothing) ELSE left
      /\ UNCHANGED <<tasks, scopes>>
  BY DEF Suspends
<1> HIDE DEF kept, idle, left
<1>5. /\ DOMAIN inspection' = DOMAIN inspection /\ inspection'.search = idle.search
      /\ inspection'.selection = 0 /\ inspection'.target = -1
      /\ inspection'.query = idle.query /\ inspection'.index = idle.index
      /\ \/ /\ inspection.phase = "preparing" /\ inspection'.phase = "empty" /\ inspection'.request = 0
         \/ /\ inspection.phase # "preparing" /\ inspection' = idle
  BY <1>0, <1>3, <1>4 DEF InspectionFields
<1>6. /\ DOMAIN browser' = DOMAIN browser /\ browser'.editor = Nothing /\ browser'.history = 0
      /\ \/ inspection.phase = "preparing" /\ browser'.match = NoMatch
         \/ /\ inspection.phase # "preparing" /\ browser'.match = browser.match
            /\ browser'.format = browser.format /\ browser'.exact = browser.exact
  <2>1. CASE inspection.phase # "preparing"
    BY <1>2, <1>3, <1>4, <2>1
  <2>2. CASE inspection.phase = "preparing"
    <3> DEFINE shown == inspection'
    <3>1. browser' = Changed(left, shown, Nothing) /\ shown.phase = "empty"
      BY <1>3, <1>4, <1>5, <2>2
    <3>2. DOMAIN left = {"format", "editor", "exact", "match", "history", "note"}
      BY <1>0, <1>2 DEF InspectionFields
    <3> HIDE DEF shown
    <3> QED  BY <1>2, <2>2, <3>1, <3>2, Changes
  <2> QED  BY <2>1, <2>2
<1> HIDE DEF preparing
<1>7. InspectionTypes'
  BY <1>0, <1>3, <1>4, <1>5, <1>6 DEF InspectionTypes, InspectionFields
<1>8. ScopesOpened'
  BY <1>3, <1>4, <1>5, <1>6 DEF InspectionTypes, ScopesOpened
<1>9. inspection.phase # "preparing" => Subject(inspection.search.query)' = <<inspection.opened, browser.format, inspection'.search.query, browser.exact>>
  BY <1>3, <1>5, <1>6 DEF Subject
<1>10. SearchOfShown'
  <2>1. CASE inspection'.search.phase = "ready"
    <3>1. inspection.search.phase = "ready" /\ inspection.phase = "ready" /\ inspection'.search = inspection.search
      BY <1>3, <1>5, <2>1 DEF SearchOfShown
    <3>2. inspection'.index = Subject(inspection.search.query)'
      BY <1>3, <1>5, <1>9, <3>1 DEF SearchOfShown, Subject
    <3> QED  BY <1>3, <1>5, <3>1, <3>2 DEF SearchOfShown
  <2>2. CASE inspection'.search.phase # "ready"
    BY <1>3, <1>5, <2>2 DEF SearchOfShown
  <2> QED  BY <2>1, <2>2
<1>11. JobsWanted'
  <2>1. ASSUME NEW task \in tasks', Live(task)'
        PROVE  /\ task \in tasks /\ task.kind \in {"prepare", "query"} /\ Live(task)
               /\ task.kind = "prepare" => FALSE
               /\ task.kind = "query" => FALSE
    <3>1. task \in tasks /\ task.scope \in 1 .. scopes /\ task.kind \in Kinds
      BY <1>4 DEF InspectionTypes, ScopesOpened
    <3>2. CASE task.kind = "prepare"
      BY <1>3, <1>5, <2>1, <3>1, <3>2, Lives, LivesNext DEF JobsWanted
    <3>3. CASE task.kind = "query"
      BY <1>3, <1>5, <2>1, <3>1, <3>3, Lives, LivesNext DEF JobsWanted
    <3>4. CASE task.kind \in {"selection", "history"}
      BY <1>5, <1>6, <2>1, <3>1, <3>4, LivesNext
    <3> QED  BY <3>1, <3>2, <3>3, <3>4 DEF Kinds
  <2> QED  BY <2>1 DEF JobsWanted
<1>12. InspectionTruthful'
  <2>1. CASE inspection.phase = "preparing"
    BY <1>3, <1>5, <1>6, <2>1 DEF InspectionTruthful, MatchIsOfShown, LastIntentShown, SearchOfShown
  <2>2. CASE inspection.phase # "preparing"
    <3>1. browser'.match = inspection'.search.selected
      BY <1>3, <1>5, <1>6, <2>2 DEF InspectionTruthful, MatchIsOfShown
    <3>2. browser'.match # NoMatch => browser'.match.of = Subject(inspection.search.query)'
      <4>1. browser'.match # NoMatch => inspection'.search = inspection.search
        BY <1>3, <1>5, <1>6, <2>2 DEF SearchOfShown, InspectionTruthful, MatchIsOfShown
      <4> QED  BY <1>6, <1>9, <2>2, <4>1 DEF InspectionTruthful, MatchIsOfShown, Subject
    <3> QED  BY <1>5, <1>6, <3>1, <3>2 DEF InspectionTruthful, MatchIsOfShown, LastIntentShown
  <2> QED  BY <2>1, <2>2
<1> QED  BY <1>7, <1>8, <1>10, <1>11, <1>12

\* Lemma: the document asked for is there, or reading it failed.
LEMMA Prepares ==
  ASSUME InspectionInv, NEW task \in tasks, PrepareResumes(task)
  PROVE  InspectionInv'
<1> USE DEF InspectionInv
<1>0. InspectionFields /\ task.kind = "prepare" /\ scopes' = scopes /\ tasks' = tasks \ {task}
  BY DEF InspectionTypes, PrepareResumes
<1>1. CASE ~Live(task)
  BY <1>0, <1>1, OnlyMode DEF PrepareResumes
<1>2. CASE Live(task)
  <2>0. task.scope = inspection.request /\ inspection.phase = "preparing"
        /\ inspection.search.phase = "idle" /\ inspection.search.selected = NoMatch
        /\ inspection.query = 0 /\ inspection.selection = 0 /\ inspection.target = -1
    BY <1>0, <1>2, Lives DEF JobsWanted, SearchOfShown
  <2>1. PICK phase \in {"ready", "error"} :
          /\ inspection' = [inspection EXCEPT !.phase = phase]
          /\ browser' = Changed(browser, inspection', Nothing)
    BY <1>2 DEF PrepareResumes
  <2>2. /\ DOMAIN inspection' = DOMAIN inspection /\ inspection'.search = inspection.search
        /\ inspection'.phase \in {"ready", "error"} /\ inspection'.request = inspection.request
        /\ inspection'.query = 0 /\ inspection'.selection = 0 /\ inspection'.target = -1
    BY <1>0, <2>0, <2>1 DEF InspectionFields
  <2>3. /\ DOMAIN browser' = DOMAIN browser /\ browser'.match = NoMatch
        /\ browser'.history \in {0, browser.history}
        /\ inspection'.phase # "ready" => browser'.editor = Nothing
    <3> DEFINE shown == inspection'
    <3>1. browser' = Changed(browser, shown, Nothing) /\ shown.search.selected = NoMatch
      BY <2>0, <2>1, <2>2
    <3>2. DOMAIN browser = {"format", "editor", "exact", "match", "history", "note"}
      BY <1>0 DEF InspectionFields
    <3> HIDE DEF shown
    <3>3. /\ DOMAIN browser' = DOMAIN browser /\ browser'.match = NoMatch
          /\ browser'.history \in {0, browser.history}
          /\ shown.phase # "ready" => browser'.editor = Nothing
      BY <3>1, <3>2, Changes
    <3> QED  BY <3>3 DEF shown
  <2>4. InspectionTypes'
    BY <1>0, <2>2, <2>3 DEF InspectionTypes, InspectionFields
  <2>5. ScopesOpened'
    BY <1>0, <2>2, <2>3 DEF InspectionTypes, ScopesOpened
  <2>6. SearchOfShown'
    BY <2>0, <2>2 DEF SearchOfShown
  <2>7. JobsWanted'
    <3>1. \A other \in tasks' : other \in tasks /\ other.scope \in 1 .. scopes /\ other.scope # task.scope
      BY <1>0 DEF ScopesOpened
    <3> QED  BY <2>0, <2>2, <3>1, LivesNext DEF InspectionTypes, JobsWanted
  <2>8. InspectionTruthful'
    BY <2>0, <2>2, <2>3 DEF InspectionTruthful, MatchIsOfShown, LastIntentShown
  <2> QED  BY <2>4, <2>5, <2>6, <2>7, <2>8
<1> QED  BY <1>1, <1>2

\* Lemma: an index is there, of what is still searched.
LEMMA Queried ==
  ASSUME InspectionInv, NEW task \in tasks, QueryResumes(task)
  PROVE  InspectionInv'
<1> USE DEF InspectionInv
<1>0. InspectionFields /\ task.kind = "query"
  BY DEF InspectionTypes, QueryResumes
<1>1. CASE ~Live(task)
  BY <1>0, <1>1, OnlyMode DEF QueryResumes
<1>2. CASE Live(task)
  <2> DEFINE total == HitsOf(task.of)
             found == [inspection EXCEPT !.index = task.of, !.search.phase = "ready", !.search.total = total]
  <2>0. /\ task.scope = inspection.query /\ inspection.search.phase = "searching"
        /\ task.of = Subject(inspection.search.query) /\ inspection.phase = "ready"
        /\ inspection.search.selected = NoMatch /\ inspection.selection = 0 /\ inspection.target = -1
    BY <1>0, <1>2, Lives DEF JobsWanted, SearchOfShown
  <2>1. /\ DOMAIN found = DOMAIN inspection /\ found.opened = inspection.opened
        /\ found.search = [inspection.search EXCEPT !.phase = "ready", !.total = total]
        /\ found.phase = "ready" /\ found.request = inspection.request /\ found.query = inspection.query
        /\ found.selection = 0 /\ found.target = -1 /\ found.index = task.of
    BY <1>0, <2>0 DEF InspectionFields
  <2>2. \/ inspection' = found /\ tasks' = tasks \ {task} /\ scopes' = scopes
        \/ /\ scopes' = scopes + 1
           /\ inspection' = [found EXCEPT !.target = 0, !.selection = scopes']
           /\ tasks' = (tasks \ {task}) \cup {Task("selection", scopes', task.of, 0)}
    BY <1>2 DEF QueryResumes
  <2>3. browser' = Changed(browser, found, found.opened)
    BY <1>2 DEF QueryResumes
  <2> HIDE DEF found, total
  <2>4. /\ DOMAIN found.search = DOMAIN inspection.search /\ found.search.phase = "ready"
        /\ found.search.query = inspection.search.query /\ found.search.selected = NoMatch
    BY <1>0, <2>0, <2>1 DEF InspectionFields
  <2>5. /\ DOMAIN browser' = DOMAIN browser /\ browser'.match = NoMatch /\ browser'.exact = browser.exact
        /\ browser'.history \in {0, browser.history} /\ browser'.format = browser.format
    <3>1. DOMAIN browser = {"format", "editor", "exact", "match", "history", "note"}
      BY <1>0 DEF InspectionFields
    <3>2. found.phase = "ready" /\ found.search.selected = NoMatch
      BY <2>1, <2>4
    <3> QED  BY <2>3, <3>1, <3>2, Changes
  <2>6. /\ DOMAIN inspection' = DOMAIN inspection /\ inspection'.opened = inspection.opened
        /\ inspection'.search = found.search /\ inspection'.phase = "ready"
        /\ inspection'.request = inspection.request /\ inspection'.query = inspection.query
        /\ inspection'.index = task.of
        /\ \/ inspection'.selection = 0 /\ inspection'.target = -1 /\ scopes' = scopes
           \/ inspection'.selection = scopes' /\ inspection'.target = 0 /\ scopes' = scopes + 1
    BY <1>0, <2>1, <2>2 DEF InspectionFields
  <2>7. /\ scopes' \in Nat /\ scopes' >= scopes
        /\ \A other \in tasks' :
              /\ other.kind \in Kinds /\ other.scope \in 1 .. scopes'
              /\ \/ other \in tasks /\ other.scope <= scopes /\ other.scope # task.scope
                 \/ /\ scopes' = scopes + 1 /\ other.scope = scopes' /\ other.kind = "selection"
                    /\ other.of = task.of /\ other.ordinal = 0
        /\ \A other, third \in tasks' : other.scope = third.scope => other = third
    <3>1. CASE tasks' = tasks \ {task} /\ scopes' = scopes
      BY <3>1 DEF InspectionTypes, ScopesOpened
    <3>2. CASE scopes' = scopes + 1 /\ tasks' = (tasks \ {task}) \cup {Task("selection", scopes', task.of, 0)}
      <4> DEFINE new == Task("selection", scopes', task.of, 0)
      <4>1. /\ new.kind = "selection" /\ new.scope = scopes' /\ new.of = task.of /\ new.ordinal = 0
            /\ tasks' = (tasks \ {task}) \cup {new}
        BY <3>2 DEF Task
      <4> HIDE DEF new
      <4>2. scopes \in Nat /\ \A other \in tasks : other.scope \in 1 .. scopes /\ other.kind \in Kinds
        BY DEF InspectionTypes, ScopesOpened
      <4>3. \A other \in tasks \ {task} : other.scope # task.scope /\ other.scope # scopes'
        BY <3>2, <4>2 DEF ScopesOpened
      <4>4. \A other \in tasks' : other = new \/ other \in tasks \ {task}
        BY <4>1
      <4>5. \A other, third \in tasks' : other.scope = third.scope => other = third
        BY <4>1, <4>3, <4>4 DEF ScopesOpened
      <4> QED  BY <3>2, <4>1, <4>2, <4>3, <4>4, <4>5 DEF Kinds
    <3> QED  BY <2>2, <3>1, <3>2
  <2>8. task.of = Subject(inspection.search.query)'
    BY <2>0, <2>4, <2>5, <2>6 DEF Subject
  <2>9. InspectionTypes'
    BY <1>0, <2>4, <2>5, <2>6, <2>7 DEF InspectionTypes, InspectionFields
  <2>10. ScopesOpened'
    BY <2>5, <2>6, <2>7 DEF InspectionTypes, ScopesOpened
  <2>11. SearchOfShown'
    BY <2>4, <2>6, <2>8 DEF SearchOfShown
  <2>12. JobsWanted'
    <3>1. ASSUME NEW other \in tasks', Live(other)', other.kind = "prepare" PROVE FALSE
      BY <2>0, <2>6, <2>7, <3>1, Lives, LivesNext DEF JobsWanted
    <3>2. ASSUME NEW other \in tasks', Live(other)', other.kind = "query" PROVE FALSE
      BY <2>0, <2>6, <2>7, <3>2, LivesNext
    <3>3. ASSUME NEW other \in tasks', Live(other)', other.kind = "selection"
          PROVE  other.of = task.of /\ other.ordinal = inspection'.target
      <4>1. other.scope = inspection'.selection /\ other.scope \in 1 .. scopes'
        BY <2>7, <3>3, LivesNext
      <4>2. scopes' = scopes + 1 /\ inspection'.target = 0 /\ other.scope = scopes'
        BY <2>6, <4>1
      <4> QED  BY <2>7, <4>2 DEF InspectionTypes
    <3> QED  BY <2>4, <2>6, <2>8, <3>1, <3>2, <3>3 DEF JobsWanted
  <2>13. InspectionTruthful'
    BY <2>4, <2>5, <2>6, <2>7 DEF InspectionTypes, InspectionTruthful, MatchIsOfShown, LastIntentShown
  <2> QED  BY <2>9, <2>10, <2>11, <2>12, <2>13
<1> QED  BY <1>1, <1>2

\* Lemma: the hit asked for last is there.
LEMMA Selects ==
  ASSUME InspectionInv, NEW task \in tasks, SelectionResumes(task)
  PROVE  InspectionInv'
<1> USE DEF InspectionInv
<1>0. InspectionFields /\ task.kind = "selection" /\ scopes' = scopes /\ tasks' = tasks \ {task}
  BY DEF InspectionTypes, SelectionResumes
<1>1. CASE ~Live(task)
  BY <1>0, <1>1, OnlyMode DEF SelectionResumes
<1>2. CASE Live(task)
  <2> DEFINE hit == [of |-> task.of, ordinal |-> task.ordinal]
             shown == inspection'
  <2>0. /\ task.scope = inspection.selection /\ inspection.search.phase = "ready"
        /\ task.of = Subject(inspection.search.query) /\ task.ordinal = inspection.target
        /\ inspection.phase = "ready"
    BY <1>0, <1>2, Lives DEF JobsWanted, SearchOfShown
  <2>1. /\ inspection' = [inspection EXCEPT !.selection = 0, !.search.selected = hit]
        /\ browser' = Changed(browser, inspection', inspection.opened)
    BY <1>2 DEF SelectionResumes
  <2>2. hit.of = task.of /\ hit.ordinal = task.ordinal
    OBVIOUS
  <2> HIDE DEF hit
  <2>3. /\ DOMAIN inspection' = DOMAIN inspection /\ inspection'.opened = inspection.opened
        /\ inspection'.search = [inspection.search EXCEPT !.selected = hit]
        /\ inspection'.phase = "ready" /\ inspection'.request = inspection.request
        /\ inspection'.query = inspection.query /\ inspection'.index = inspection.index
        /\ inspection'.selection = 0 /\ inspection'.target = inspection.target
    BY <1>0, <2>0, <2>1 DEF InspectionFields
  <2>4. /\ DOMAIN inspection'.search = DOMAIN inspection.search /\ inspection'.search.phase = "ready"
        /\ inspection'.search.query = inspection.search.query /\ inspection'.search.selected = hit
    BY <1>0, <2>0, <2>3 DEF InspectionFields
  <2>5. /\ DOMAIN browser' = DOMAIN browser /\ browser'.match = hit /\ browser'.exact = browser.exact
        /\ browser'.history \in {0, browser.history} /\ browser'.format = browser.format
    <3>1. DOMAIN browser = {"format", "editor", "exact", "match", "history", "note"}
      BY <1>0 DEF InspectionFields
    <3>2. browser' = Changed(browser, shown, shown.opened) /\ shown.phase = "ready" /\ shown.search.selected = hit
      BY <2>1, <2>3, <2>4
    <3> HIDE DEF shown
    <3> QED  BY <3>1, <3>2, Changes
  <2>6. task.of = Subject(inspection.search.query)' /\ task.of = inspection'.index
    BY <2>0, <2>3, <2>4, <2>5 DEF Subject, SearchOfShown
  <2>7. InspectionTypes'
    BY <1>0, <2>3, <2>4, <2>5 DEF InspectionTypes, InspectionFields
  <2>8. ScopesOpened'
    BY <1>0, <2>3, <2>5 DEF InspectionTypes, ScopesOpened
  <2>9. SearchOfShown'
    BY <2>3, <2>4, <2>6 DEF SearchOfShown
  <2>10. JobsWanted'
    <3>1. \A other \in tasks' : other \in tasks /\ other.scope \in 1 .. scopes
      BY <1>0 DEF ScopesOpened
    <3> QED  BY <2>0, <2>3, <2>4, <3>1, Lives, LivesNext DEF InspectionTypes, JobsWanted
  <2>11. InspectionTruthful'
    BY <2>0, <2>2, <2>3, <2>4, <2>5, <2>6 DEF InspectionTruthful, MatchIsOfShown, LastIntentShown
  <2> QED  BY <2>7, <2>8, <2>9, <2>10, <2>11
<1> QED  BY <1>1, <1>2

\* Lemma: a wait for a page ends.
LEMMA Waited ==
  ASSUME InspectionInv, NEW task \in tasks, HistoryResumes(task)
  PROVE  InspectionInv'
<1>1. PICK note \in {"loaded", "failed"} :
        browser' = IF Live(task) THEN [browser EXCEPT !.history = 0, !.note = note] ELSE browser
  BY DEF HistoryResumes
<1>2. /\ DOMAIN browser' = DOMAIN browser /\ browser'.match = browser.match /\ browser'.exact = browser.exact
      /\ browser'.history \in {0, browser.history} /\ browser'.editor = browser.editor
      /\ browser'.format = browser.format
  BY <1>1 DEF InspectionInv, InspectionTypes, InspectionFields
<1> QED  BY <1>2, OnlyMode DEF HistoryResumes

\* Lemma: n and N aim at another hit.
LEMMA Moves ==
  ASSUME InspectionInv, NEW ordinal, SelectMatch(inspection, ordinal), UNCHANGED browser,
         inspection.search.phase = "ready"
  PROVE  InspectionInv'
<1> USE DEF InspectionInv
<1>1. /\ scopes' = scopes + 1
      /\ inspection' = [inspection EXCEPT !.target = ordinal, !.selection = scopes']
      /\ tasks' = tasks \cup {Task("selection", scopes', inspection.index, ordinal)}
      /\ inspection.phase = "ready"
  BY DEF SelectMatch, SearchOfShown
<1>2. /\ DOMAIN inspection' = DOMAIN inspection /\ inspection'.opened = inspection.opened
      /\ inspection'.search = inspection.search /\ inspection'.phase = "ready"
      /\ inspection'.request = inspection.request /\ inspection'.query = inspection.query
      /\ inspection'.index = inspection.index
      /\ inspection'.selection = scopes' /\ inspection'.target = ordinal
  BY <1>1 DEF InspectionTypes, InspectionFields
<1>3. /\ scopes' \in Nat /\ scopes' > scopes
      /\ \A task \in tasks' :
            /\ task.kind \in Kinds /\ task.scope \in 1 .. scopes'
            /\ \/ task \in tasks /\ task.scope <= scopes
               \/ /\ task.scope = scopes' /\ task.kind = "selection" /\ task.of = inspection.index
                  /\ task.ordinal = ordinal
      /\ \A task, other \in tasks' : task.scope = other.scope => task = other
  <2> DEFINE of == inspection.index
  <2>1. tasks' = tasks \cup {Task("selection", scopes', of, ordinal)}
    BY <1>1
  <2> HIDE DEF of
  <2>2. /\ scopes' \in Nat /\ scopes' > scopes
        /\ \A task \in tasks' :
            /\ task.kind \in Kinds /\ task.scope \in 1 .. scopes'
            /\ \/ task \in tasks /\ task.scope <= scopes
               \/ /\ task.scope = scopes' /\ task.kind = "selection" /\ task.of = of
                  /\ task.ordinal = ordinal
        /\ \A task, other \in tasks' : task.scope = other.scope => task = other
    BY <1>1, <2>1, ScopeStarts DEF Kinds
  <2> QED  BY <2>2 DEF of
<1>4. inspection.index = Subject(inspection.search.query)' /\ inspection.index = Subject(inspection.search.query)
  BY <1>2 DEF Subject, SearchOfShown
<1>5. InspectionTypes'
  BY <1>2, <1>3 DEF InspectionTypes, InspectionFields
<1>6. ScopesOpened'
  BY <1>2, <1>3 DEF InspectionTypes, ScopesOpened
<1>7. SearchOfShown'
  BY <1>2, <1>4 DEF SearchOfShown
<1>8. JobsWanted'
  <2>1. ASSUME NEW task \in tasks', Live(task)', task.kind \in {"prepare", "query"} PROVE FALSE
    BY <1>1, <1>2, <1>3, <2>1, Lives, LivesNext DEF InspectionTypes, ScopesOpened, JobsWanted
  <2>2. ASSUME NEW task \in tasks', Live(task)', task.kind = "selection"
        PROVE  task.of = inspection.index /\ task.ordinal = ordinal
    <3>1. task.scope = scopes'
      BY <1>2, <2>2, LivesNext
    <3> QED  BY <1>3, <3>1 DEF InspectionTypes
  <2> QED  BY <1>2, <1>4, <2>1, <2>2 DEF JobsWanted
<1>9. InspectionTruthful'
  <2>1. scopes' # 0
    BY <1>3 DEF InspectionTypes
  <2> QED  BY <1>2, <1>4, <2>1 DEF InspectionTruthful, MatchIsOfShown, LastIntentShown
<1> QED  BY <1>5, <1>6, <1>7, <1>8, <1>9

\* Lemma: a wait for a page begins.
LEMMA WaitsForEarlier ==
  ASSUME InspectionInv, LoadEarlier
  PROVE  InspectionInv'
<1> USE DEF InspectionInv
<1>1. /\ scopes' = scopes + 1 /\ UNCHANGED inspection
      /\ browser' = [browser EXCEPT !.history = scopes', !.note = "waiting"]
      /\ tasks' = tasks \cup {Task("history", scopes', <<>>, 0)}
  BY DEF LoadEarlier
<1>2. /\ DOMAIN browser' = DOMAIN browser /\ browser'.match = browser.match /\ browser'.exact = browser.exact
      /\ browser'.history = scopes' /\ browser'.editor = browser.editor /\ browser'.format = browser.format
  BY <1>1 DEF InspectionTypes, InspectionFields
<1>3. /\ scopes' \in Nat /\ scopes' > scopes
      /\ \A task \in tasks' :
            /\ task.kind \in Kinds /\ task.scope \in 1 .. scopes'
            /\ \/ task \in tasks /\ task.scope <= scopes
               \/ task.scope = scopes' /\ task.kind = "history" /\ task.of = <<>> /\ task.ordinal = 0
      /\ \A task, other \in tasks' : task.scope = other.scope => task = other
  BY <1>1, ScopeStarts DEF Kinds
<1>4. Subject(inspection.search.query)' = Subject(inspection.search.query)
  BY <1>1, <1>2 DEF Subject
<1>5. InspectionTypes'
  BY <1>1, <1>2, <1>3 DEF InspectionTypes, InspectionFields
<1>6. ScopesOpened'
  BY <1>1, <1>2, <1>3 DEF InspectionTypes, ScopesOpened
<1>7. SearchOfShown'
  BY <1>1, <1>4 DEF SearchOfShown
<1>8. JobsWanted'
  <2>1. ASSUME NEW task \in tasks', Live(task)', task.kind # "history" PROVE task \in tasks /\ Live(task)
    BY <1>1, <1>3, <2>1, Lives, LivesNext DEF Kinds
  <2> QED  BY <1>1, <1>4, <2>1 DEF JobsWanted
<1>9. InspectionTruthful'
  BY <1>1, <1>2, <1>4 DEF InspectionTruthful, MatchIsOfShown, LastIntentShown
<1> QED  BY <1>5, <1>6, <1>7, <1>8, <1>9

\* Lemma: every operation, key and job keeps what the Request shows true.
LEMMA InspectionStep == InspectionInv /\ [InspectionNext]_inspectionVars => InspectionInv'
<1> SUFFICES ASSUME InspectionInv, [InspectionNext]_inspectionVars PROVE InspectionInv'
  OBVIOUS
<1>0. DOMAIN browser = {"format", "editor", "exact", "match", "history", "note"}
  BY DEF InspectionInv, InspectionTypes, InspectionFields
<1>1. CASE UNCHANGED inspectionVars
  BY <1>1, OnlyMode DEF inspectionVars
<1>2. ASSUME NEW a \in Revision \cup Missing, Opens(a) PROVE InspectionInv'
  BY <1>2, OpensInspection
<1>3. CASE Suspends
  BY <1>3, SuspendsInspection
<1>4. CASE Escape
  <2>1. CASE browser.editor # Nothing /\ Clear([browser EXCEPT !.editor = Nothing])
    <3> DEFINE b == [browser EXCEPT !.editor = Nothing]
    <3>1. DOMAIN b = DOMAIN browser /\ b.history = browser.history /\ b.editor = Nothing
      BY <1>0
    <3> HIDE DEF b
    <3>2. Clear(b)
      BY <2>1 DEF b
    <3> QED  BY <3>1, <3>2, ClearInspection
  <2>2. CASE /\ browser' = [browser EXCEPT !.history = 0, !.note = "cancelled"]
             /\ UNCHANGED inspection /\ Unheld
    <3>1. /\ DOMAIN browser' = DOMAIN browser /\ browser'.match = browser.match /\ browser'.history = 0
          /\ browser'.exact = browser.exact /\ browser'.editor = browser.editor /\ browser'.format = browser.format
      BY <1>0, <2>2
    <3> QED  BY <2>2, <3>1, OnlyMode DEF Unheld
  <2>3. CASE Clear(browser)
    BY <2>3, ClearInspection
  <2>4. CASE /\ inspection.search.phase = "idle" /\ browser' = [browser EXCEPT !.format = "structured"]
             /\ UNCHANGED inspection /\ Unheld
    <3>1. /\ DOMAIN browser' = DOMAIN browser /\ browser'.match = browser.match
          /\ browser'.history = browser.history
          /\ browser'.exact = browser.exact /\ browser'.editor = browser.editor
      BY <1>0, <2>4
    <3> QED  BY <2>4, <3>1, OnlyMode DEF Unheld
  <2> QED  BY <1>4, <2>1, <2>2, <2>3, <2>4 DEF Escape
<1>5. CASE SubmitJump
  <2>1. CASE Clear([browser EXCEPT !.editor = Nothing, !.format = "structured"])
    <3> DEFINE b == [browser EXCEPT !.editor = Nothing, !.format = "structured"]
    <3>1. DOMAIN b = DOMAIN browser /\ b.history = browser.history /\ b.editor = Nothing
      BY <1>0
    <3> HIDE DEF b
    <3>2. Clear(b)
      BY <2>1 DEF b
    <3> QED  BY <3>1, <3>2, ClearInspection
  <2> QED  BY <1>1, <1>5, <2>1 DEF SubmitJump
<1>6. CASE ToggleCase
  <2> DEFINE b == [browser EXCEPT !.exact = ~@, !.match = NoMatch]
  <2>1. /\ DOMAIN b = DOMAIN browser /\ b.history = browser.history /\ b.match = NoMatch
        /\ b.editor = browser.editor /\ browser.editor = Nothing
    BY <1>0, <1>6 DEF ToggleCase, Ready
  <2> HIDE DEF b
  <2>2. FindText(inspection, b, inspection.search.query)
    BY <1>6 DEF ToggleCase, b
  <2> QED  BY <2>1, <2>2, FindInspection
<1>7. CASE ToggleFormat
  <2> DEFINE b == [browser EXCEPT !.format = IF @ = "json" THEN "structured" ELSE "json", !.match = NoMatch]
  <2>1. /\ DOMAIN b = DOMAIN browser /\ b.history = browser.history /\ b.match = NoMatch
        /\ b.editor = browser.editor /\ browser.editor = Nothing
    BY <1>0, <1>7 DEF ToggleFormat, Ready
  <2> HIDE DEF b
  <2>2. FindText(inspection, b, inspection.search.query)
    BY <1>7 DEF ToggleFormat, b
  <2> QED  BY <2>1, <2>2, FindInspection
<1>8. CASE StepSection
  <2> DEFINE b == [browser EXCEPT !.format = "structured"]
  <2>1. DOMAIN b = DOMAIN browser /\ b.history = browser.history /\ b.editor = browser.editor
    BY <1>0
  <2> HIDE DEF b
  <2>2. Clear(b)
    BY <1>8 DEF StepSection, b
  <2> QED  BY <2>1, <2>2, ClearInspection
<1>9. CASE LoadEarlier
  BY <1>9, WaitsForEarlier
<1>10. ASSUME NEW kind \in {"search", "jump"}, Edit(kind) PROVE InspectionInv'
  <2>1. browser' = [browser EXCEPT !.editor = kind] /\ inspection.phase = "ready"
        /\ UNCHANGED inspection /\ Unheld
    BY <1>10 DEF Edit, Ready
  <2>2. /\ DOMAIN browser' = DOMAIN browser /\ browser'.match = browser.match
        /\ browser'.history = browser.history
        /\ browser'.exact = browser.exact /\ browser'.format = browser.format
    BY <1>0, <2>1
  <2> QED  BY <2>1, <2>2, OnlyMode DEF Unheld
<1>11. ASSUME NEW text \in Query \cup {""}, SubmitSearch(text) PROVE InspectionInv'
  <2> DEFINE b == [browser EXCEPT !.editor = Nothing, !.match = NoMatch]
  <2>1. /\ DOMAIN b = DOMAIN browser /\ b.history = browser.history /\ b.match = NoMatch
        /\ b.editor = Nothing
    BY <1>0
  <2> HIDE DEF b
  <2>2. FindText(inspection, b, text)
    BY <1>11 DEF SubmitSearch, b
  <2> QED  BY <2>1, <2>2, FindInspection
<1>12. ASSUME NEW direction \in {-1, 1}, MoveMatch(direction) PROVE InspectionInv'
  <2>1. \E ordinal : SelectMatch(inspection, ordinal)
    BY <1>12 DEF MoveMatch
  <2> QED  BY <1>12, <2>1, Moves DEF MoveMatch
<1>13. ASSUME NEW task \in tasks,
              PrepareResumes(task) \/ QueryResumes(task) \/ SelectionResumes(task) \/ HistoryResumes(task)
       PROVE  InspectionInv'
  BY <1>13, Prepares, Queried, Selects, Waited
<1> QED  BY <1>1, <1>2, <1>3, <1>4, <1>5, <1>6, <1>7, <1>8, <1>9, <1>10, <1>11, <1>12, <1>13 DEF InspectionNext

\* What the panel shows was asked for last, of the Request that is shown, for
\* all Requests, queries and numbers of hits, however late the jobs resume.
THEOREM WhatIsShown == InspectionSpec => []InspectionTruthful
<1>1. InspectionInv => InspectionTruthful
  BY DEF InspectionInv
<1> QED  BY <1>1, InspectionStart, InspectionStep, PTL DEF InspectionSpec

-----------------------------------------------------------------------------
(***************************************************************************)
(* The requests of the Host.  The stack of surfaces and the queue are      *)
(* sequences without repetitions; every operation of the process is told   *)
(* by what it leaves in them, and a key by what its route says of the      *)
(* context it was taken in.  The invariant relates the two: at most one    *)
(* surface belongs to a request, the one shown, and a cancellation in      *)
(* flight is of that request, then no longer open, or of one that is over. *)
(***************************************************************************)

\* Lemma: numbers have a least one among them.
LEMMA LeastElement ==
  ASSUME NEW T, T \subseteq Nat, T # {}
  PROVE  \E x \in T : \A y \in T : x <= y
<1> DEFINE R == {ss \in Nat \X Nat : ss[1] < ss[2]}
<1>0. IsWellFoundedOn(R, Nat)
  BY NatLessThanWellFounded, Zenon DEF OpToRel
<1> HIDE DEF R
<1>1. PICK x \in T : \A y \in T : ~ (<<y, x>> \in R)
  BY <1>0, WFMin
<1>2. \A y \in T : ~ (y < x)
  BY <1>1 DEF R
<1> QED BY <1>2

\* Lemma: what is left when an element of a sequence is removed once.
LEMMA RemovedOnce ==
  ASSUME NEW S, NEW s \in Seq(S), NEW e, \E i \in 1 .. Len(s) : s[i] = e
  PROVE  \E n \in 1 .. Len(s) :
           /\ s[n] = e
           /\ RemoveFirst(s, e) \in Seq(S)
           /\ Len(RemoveFirst(s, e)) = Len(s) - 1
           /\ \A i \in 1 .. Len(s) - 1 :
                RemoveFirst(s, e)[i] = IF i < n THEN s[i] ELSE s[i + 1]
<1> DEFINE I == {i \in 1 .. Len(s) : s[i] = e}
<1>1. I # {} /\ I \subseteq Nat
  OBVIOUS
<1>2. PICK n \in I : n = SelectInSeq(s, LAMBDA v : v = e)
  <2>1. \E x \in I : \A y \in I : x <= y
    BY <1>1, LeastElement
  <2>2. Min(I) \in I
    BY <2>1 DEF Min
  <2> QED BY <1>1, <2>2 DEF SelectInSeq
<1>3. n \in 1 .. Len(s) /\ s[n] = e
  OBVIOUS
<1>7. RemoveFirst(s, e) = SubSeq(s, 1, n - 1) \o SubSeq(s, n + 1, Len(s))
  BY <1>2 DEF RemoveFirst, RemoveAt
<1> HIDE DEF I
<1>4. PICK a \in Seq(S) :
        /\ a = SubSeq(s, 1, n - 1) /\ Len(a) = n - 1
        /\ \A i \in 1 .. n - 1 : a[i] = s[i]
  <2>1. \A i \in 1 .. n - 1 : s[i] \in S
    BY <1>3
  <2>2. n - 1 \in Int /\ 1 \in Int
    BY <1>3
  <2>3. /\ SubSeq(s, 1, n - 1) \in Seq(S)
        /\ Len(SubSeq(s, 1, n - 1)) = IF 1 <= n - 1 THEN (n - 1) - 1 + 1 ELSE 0
        /\ \A i \in 1 .. (n - 1) - 1 + 1 : SubSeq(s, 1, n - 1)[i] = s[1 + i - 1]
    BY <2>1, <2>2, SubSeqProperties
  <2>4. Len(SubSeq(s, 1, n - 1)) = n - 1
    BY <1>3, <2>3
  <2>5. \A i \in 1 .. n - 1 : SubSeq(s, 1, n - 1)[i] = s[i]
    BY <1>3, <2>3
  <2> QED BY <2>3, <2>4, <2>5
<1>5. PICK b \in Seq(S) :
        /\ b = SubSeq(s, n + 1, Len(s)) /\ Len(b) = Len(s) - n
        /\ \A i \in 1 .. Len(s) - n : b[i] = s[n + i]
  <2>1. \A i \in n + 1 .. Len(s) : s[i] \in S
    BY <1>3
  <2>2. n + 1 \in Int /\ Len(s) \in Int
    BY <1>3
  <2>3. /\ SubSeq(s, n + 1, Len(s)) \in Seq(S)
        /\ Len(SubSeq(s, n + 1, Len(s))) = IF n + 1 <= Len(s) THEN Len(s) - (n + 1) + 1 ELSE 0
        /\ \A i \in 1 .. Len(s) - (n + 1) + 1 : SubSeq(s, n + 1, Len(s))[i] = s[(n + 1) + i - 1]
    BY <2>1, <2>2, SubSeqProperties
  <2>4. Len(SubSeq(s, n + 1, Len(s))) = Len(s) - n
    BY <1>3, <2>3
  <2>5. \A i \in 1 .. Len(s) - n : SubSeq(s, n + 1, Len(s))[i] = s[n + i]
    BY <1>3, <2>3
  <2> QED BY <2>3, <2>4, <2>5
<1>8. RemoveFirst(s, e) = a \o b
  BY <1>4, <1>5, <1>7, Zenon
<1>9. /\ a \o b \in Seq(S) /\ Len(a \o b) = Len(a) + Len(b)
      /\ \A i \in 1 .. Len(a) + Len(b) : (a \o b)[i] = IF i <= Len(a) THEN a[i] ELSE b[i - Len(a)]
  BY ConcatProperties
<1>10. Len(a) + Len(b) = Len(s) - 1
  <2>1. Len(s) \in Nat /\ n \in Nat
    BY <1>3
  <2>2. Len(a) = n - 1 /\ Len(b) = Len(s) - n
    BY <1>4, <1>5
  <2> QED BY <2>1, <2>2
<1>11. ASSUME NEW i \in 1 .. Len(s) - 1
       PROVE  (a \o b)[i] = IF i < n THEN s[i] ELSE s[i + 1]
  <2>1. CASE i < n
    <3>1. i \in 1 .. n - 1
      BY <2>1, <1>3
    <3> QED BY <2>1, <3>1, <1>4, <1>9, <1>10
  <2>2. CASE ~(i < n)
    <3>1. i - Len(a) \in 1 .. Len(s) - n /\ n + (i - Len(a)) = i + 1 /\ ~(i <= Len(a))
      BY <2>2, <1>3, <1>4
    <3>2. b[i - Len(a)] = s[i + 1]
      BY <3>1, <1>5
    <3> QED BY <2>2, <3>1, <3>2, <1>9, <1>10
  <2> QED BY <2>1, <2>2
<1> QED BY <1>3, <1>8, <1>9, <1>10, <1>11

\* Lemma: of a sequence without repetitions the rest keeps everything else.
LEMMA RemoveFirstKeeps ==
  ASSUME NEW S, NEW s \in Seq(S), NEW e, IsInjective(s)
  PROVE  /\ RemoveFirst(s, e) \in Seq(S) /\ IsInjective(RemoveFirst(s, e))
         /\ Range(RemoveFirst(s, e)) = Range(s) \ {e}
         /\ RemoveFirst(s, e) # <<>> /\ Last(s) # e => Last(RemoveFirst(s, e)) = Last(s)
<1> DEFINE t == RemoveFirst(s, e)
<1>1. CASE \E i \in 1 .. Len(s) : s[i] = e
  <2>1. PICK n \in 1 .. Len(s) :
           /\ s[n] = e /\ t \in Seq(S) /\ Len(t) = Len(s) - 1
           /\ \A i \in 1 .. Len(s) - 1 : t[i] = IF i < n THEN s[i] ELSE s[i + 1]
    BY <1>1, RemovedOnce
  <2> HIDE DEF t
  <2>2. IsInjective(t)
    <3> SUFFICES ASSUME NEW i \in 1 .. Len(s) - 1, NEW j \in 1 .. Len(s) - 1, t[i] = t[j]
                 PROVE  i = j
      BY <2>1 DEF IsInjective
    <3>1. \A x, y \in 1 .. Len(s) : s[x] = s[y] => x = y
      BY DEF IsInjective
    <3>2. \A k \in 1 .. Len(s) - 1 : t[k] = s[IF k < n THEN k ELSE k + 1]
      BY <2>1
    <3>3. (IF i < n THEN i ELSE i + 1) = (IF j < n THEN j ELSE j + 1)
      BY <3>1, <3>2
    <3> QED BY <3>3
  <2>3. ASSUME NEW x \in Range(t)  PROVE x \in Range(s) \ {e}
    BY <2>1 DEF Range, IsInjective
  <2>4. ASSUME NEW x \in Range(s), x # e  PROVE x \in Range(t)
    <3>1. PICK i \in 1 .. Len(s) : s[i] = x
      BY DEF Range
    <3>2. CASE i < n
      <4>1. i \in 1 .. Len(s) - 1 /\ t[i] = x
        BY <2>1, <3>1, <3>2
      <4> QED BY <4>1, <2>1 DEF Range
    <3>3. CASE i > n
      <4>1. i - 1 \in 1 .. Len(s) - 1 /\ ~(i - 1 < n) /\ (i - 1) + 1 = i
        BY <2>1, <3>1, <3>3
      <4>2. t[i - 1] = x
        BY <2>1, <3>1, <4>1
      <4> QED BY <4>1, <4>2, <2>1 DEF Range
    <3> QED BY <3>1, <3>2, <3>3, <2>1, <2>4
  <2>5. t # <<>> /\ Last(s) # e => Last(t) = Last(s)
    <3> SUFFICES ASSUME t # <<>>, Last(s) # e  PROVE Last(t) = Last(s)
      OBVIOUS
    <3>1. Len(t) \in 1 .. Len(s) - 1 /\ Len(t) + 1 = Len(s)
      BY <2>1
    <3>2. n # Len(s)
      BY <2>1 DEF Last
    <3> QED BY <2>1, <3>1, <3>2 DEF Last
  <2>6. Range(t) = Range(s) \ {e}
    BY <2>3, <2>4
  <2> QED BY <2>1, <2>2, <2>5, <2>6 DEF t
<1>2. CASE ~ \E i \in 1 .. Len(s) : s[i] = e
  <2>1. t = s
    BY <1>2 DEF RemoveFirst
  <2>2. e \notin Range(s)
    BY <1>2 DEF Range
  <2> QED BY <2>1, <2>2
<1> QED BY <1>1, <1>2

\* Lemma: what a sequence without repetitions is after a new element is appended.
LEMMA AppendKeeps ==
  ASSUME NEW S, NEW s \in Seq(S), NEW e \in S, IsInjective(s), e \notin Range(s)
  PROVE  /\ Append(s, e) \in Seq(S) /\ IsInjective(Append(s, e))
         /\ Range(Append(s, e)) = Range(s) \cup {e}
         /\ Append(s, e) # <<>> /\ Last(Append(s, e)) = e
<1> DEFINE t == Append(s, e)
<1>1. /\ t \in Seq(S) /\ Len(t) = Len(s) + 1 /\ t[Len(s) + 1] = e
      /\ \A i \in 1 .. Len(s) : t[i] = s[i]
  OBVIOUS
<1> HIDE DEF t
<1>2. IsInjective(t)
  BY <1>1 DEF IsInjective, Range
<1>3. Range(t) = Range(s) \cup {e}
  <2>1. \A x \in Range(t) : x \in Range(s) \cup {e}
    BY <1>1 DEF Range
  <2>2. \A x \in Range(s) \cup {e} : x \in Range(t)
    BY <1>1 DEF Range
  <2> QED BY <2>1, <2>2
<1>4. t # <<>> /\ Last(t) = e
  BY <1>1 DEF Last
<1> QED BY <1>1, <1>2, <1>3, <1>4 DEF t

\* Lemma: and after its first is taken.
LEMMA TailKeeps ==
  ASSUME NEW S, NEW s \in Seq(S), IsInjective(s), s # <<>>
  PROVE  /\ Tail(s) \in Seq(S) /\ IsInjective(Tail(s)) /\ Head(s) \in S
         /\ Head(s) \notin Range(Tail(s))
         /\ Range(s) = Range(Tail(s)) \cup {Head(s)}
<1> DEFINE t == Tail(s)
<1>1. /\ t \in Seq(S) /\ Len(t) = Len(s) - 1 /\ Len(s) >= 1 /\ Head(s) = s[1] /\ s[1] \in S
      /\ \A i \in 1 .. Len(s) - 1 : t[i] = s[i + 1]
  OBVIOUS
<1> HIDE DEF t
<1>2. IsInjective(t)
  <2> SUFFICES ASSUME NEW i \in 1 .. Len(s) - 1, NEW j \in 1 .. Len(s) - 1, t[i] = t[j]
               PROVE  i = j
    BY <1>1 DEF IsInjective
  <2>1. \A x, y \in 1 .. Len(s) : s[x] = s[y] => x = y
    BY DEF IsInjective
  <2>2. i + 1 = j + 1
    BY <1>1, <2>1
  <2> QED BY <2>2
<1>3. Head(s) \notin Range(t)
  BY <1>1 DEF IsInjective, Range
<1>4. Range(s) = Range(t) \cup {Head(s)}
  <2>a. Range(t) \subseteq Range(s)
    <3> SUFFICES ASSUME NEW x \in Range(t)  PROVE x \in Range(s)
      OBVIOUS
    <3>1. PICK i \in 1 .. Len(s) - 1 : t[i] = x
      BY <1>1 DEF Range
    <3>2. i + 1 \in 1 .. Len(s) /\ s[i + 1] = x
      BY <1>1, <3>1
    <3> QED BY <3>2 DEF Range
  <2>b. Head(s) \in Range(s)
    <3>1. 1 \in 1 .. Len(s)
      BY <1>1
    <3> QED BY <1>1, <3>1 DEF Range
  <2>1. \A x \in Range(t) \cup {Head(s)} : x \in Range(s)
    BY <2>a, <2>b
  <2>2. ASSUME NEW x \in Range(s), x # Head(s)  PROVE x \in Range(t)
    <3>1. PICK i \in 1 .. Len(s) : s[i] = x
      BY DEF Range
    <3>2. i - 1 \in 1 .. Len(s) - 1 /\ (i - 1) + 1 = i
      BY <3>1, <2>2, <1>1
    <3>3. t[i - 1] = x
      BY <1>1, <3>1, <3>2
    <3> QED BY <3>2, <3>3, <1>1 DEF Range
  <2> QED BY <2>1, <2>2
<1> QED BY <1>1, <1>2, <1>3, <1>4 DEF t

-----------------------------------------------------------------------------
Surfaces == [owner : Request \cup {"nobody", "editor", "rail", "menu"}, page : Nat, custom : BOOLEAN]

UiTyped(u) ==
  u \in [queue : Seq(Request), key : Request \cup {NoRequest},
         phase : {"idle", "open", "cancelling"}, surface : Surfaces,
         stack : Seq(Surfaces), base : Surfaces, focus : Surfaces]

\* The focus is in the editor, on the rail or on the surface on top, and goes
\* back to one of the first two: to the home of the composer unless it strayed.
FocusOn(u, home, astray) ==
  /\ u.stack = <<>> => u.focus \in {Editor, Rail}
  /\ u.stack # <<>> => u.base \in {Editor, Rail} /\ u.focus \in {Editor, Rail, Last(u.stack)}
  /\ ~astray => /\ u.focus = IF u.stack # <<>> THEN Last(u.stack) ELSE home
                /\ u.stack # <<>> => u.base = home

Steady(u, home, astray) == UiTyped(u) /\ IsInjective(u.stack) /\ FocusOn(u, home, astray)

SameRequests(u, v) ==
  v.queue = u.queue /\ v.key = u.key /\ v.phase = u.phase /\ v.surface = u.surface

\* Lemma: the surfaces of requests are not the editor, the rail or the menu.
LEMMA SurfaceFacts ==
  /\ {NoSurface, Editor, Rail, Menu} \subseteq Surfaces
  /\ NoSurface # Menu /\ NoSurface # Editor /\ NoSurface # Rail /\ Editor # Menu /\ Rail # Menu
  /\ \A r \in Request, p \in Nat, c \in BOOLEAN :
       Surface(r, p, c) \in Surfaces \ {NoSurface, Editor, Rail, Menu}
  /\ \A r \in Request : r # NoRequest /\ r # "menu"
<1>1. \A r \in Request : r \notin {"no request", "nobody", "editor", "rail", "menu"}
  BY InteractionAssumption
<1>2. \A r \in Request, p \in Nat, c \in BOOLEAN :
        /\ Surface(r, p, c) \in Surfaces
        /\ Surface(r, p, c).owner = r
  BY DEF Surface, Surfaces
<1>3. {NoSurface, Editor, Rail, Menu} \subseteq Surfaces
  BY DEF Surface, Surfaces, NoSurface, Editor, Rail, Menu
<1>4. NoSurface.owner = "nobody" /\ Editor.owner = "editor" /\ Rail.owner = "rail" /\ Menu.owner = "menu"
  BY DEF Surface, NoSurface, Editor, Rail, Menu
<1>5. \A r \in Request : r \notin {"nobody", "editor", "rail", "menu"}
  BY <1>1
<1>6. \A r \in Request, p \in Nat, c \in BOOLEAN :
        Surface(r, p, c) \notin {NoSurface, Editor, Rail, Menu}
  <2> SUFFICES ASSUME NEW r \in Request, NEW p \in Nat, NEW c \in BOOLEAN
               PROVE  Surface(r, p, c) \notin {NoSurface, Editor, Rail, Menu}
    OBVIOUS
  <2>1. Surface(r, p, c).owner = r
    BY <1>2
  <2> QED BY <2>1, <1>4, <1>5
<1>7. \A r \in Request : r # NoRequest /\ r # "menu"
  BY <1>1 DEF NoRequest
<1>8. NoSurface # Menu /\ NoSurface # Editor /\ NoSurface # Rail /\ Editor # Menu /\ Rail # Menu
  BY <1>4
<1> QED BY <1>2, <1>3, <1>6, <1>7, <1>8, Zenon

\* Lemma: a surface that opens has the keys, and the one below is remembered.
LEMMA OpenSteady ==
  ASSUME NEW u, NEW home \in {Editor, Rail}, NEW astray, Steady(u, home, astray),
         NEW s \in Surfaces, s \notin Range(u.stack)
  PROVE  /\ Steady(OpenSurface(u, s), home, astray)
         /\ Range(OpenSurface(u, s).stack) = Range(u.stack) \cup {s}
         /\ SameRequests(u, OpenSurface(u, s))
         /\ OpenSurface(u, s).focus = s
<1> DEFINE v == OpenSurface(u, s)
           base == IF u.stack = <<>> THEN u.focus ELSE u.base
<1>1. UiTyped(u) /\ IsInjective(u.stack) /\ FocusOn(u, home, astray)
  BY DEF Steady
<1>2. u.stack \in Seq(Surfaces) /\ u.focus \in Surfaces /\ u.base \in Surfaces
  BY <1>1 DEF UiTyped
<1>3. /\ Append(u.stack, s) \in Seq(Surfaces) /\ IsInjective(Append(u.stack, s))
      /\ Range(Append(u.stack, s)) = Range(u.stack) \cup {s}
      /\ Append(u.stack, s) # <<>> /\ Last(Append(u.stack, s)) = s
  BY <1>1, <1>2, AppendKeeps
<1>4. v = [u EXCEPT !.base = base, !.stack = Append(u.stack, s), !.focus = s]
  BY <1>1, <1>3 DEF OpenSurface, ApplyActive, UiTyped
<1>5. UiTyped(v) /\ v.base = base /\ v.stack = Append(u.stack, s) /\ v.focus = s /\ SameRequests(u, v)
  BY <1>1, <1>2, <1>3, <1>4 DEF UiTyped, SameRequests
<1>6. base \in {Editor, Rail} /\ (~astray => base = home)
  BY <1>1 DEF FocusOn
<1> HIDE DEF v, base
<1>7. FocusOn(v, home, astray)
  BY <1>3, <1>5, <1>6 DEF FocusOn
<1> QED BY <1>3, <1>5, <1>7 DEF Steady, v

\* Lemma: a surface that closes gives the keys back, wherever it is in the stack.
LEMMA CloseSteady ==
  ASSUME NEW u, NEW home \in {Editor, Rail}, NEW astray, Steady(u, home, astray),
         NEW s
  PROVE  /\ Steady(CloseSurface(u, s), home, astray)
         /\ Range(CloseSurface(u, s).stack) = Range(u.stack) \ {s}
         /\ SameRequests(u, CloseSurface(u, s))
<1> DEFINE v == CloseSurface(u, s)
           rest == RemoveFirst(u.stack, s)
           closed == [u EXCEPT !.stack = rest]
<1>1. UiTyped(u) /\ IsInjective(u.stack) /\ FocusOn(u, home, astray)
  BY DEF Steady
<1>2. u.stack \in Seq(Surfaces) /\ u.focus \in Surfaces /\ u.base \in Surfaces
  BY <1>1 DEF UiTyped
<1>3. CASE s \notin Range(u.stack)
  <2>1. v = u
    BY <1>3 DEF CloseSurface
  <2> HIDE DEF v
  <2>2. SameRequests(u, v) /\ Steady(v, home, astray) /\ Range(v.stack) = Range(u.stack) \ {s}
    BY <2>1, <1>3 DEF SameRequests
  <2> QED BY <2>2 DEF v
<1>4. CASE s \in Range(u.stack)
  <2>1. /\ rest \in Seq(Surfaces) /\ IsInjective(rest) /\ Range(rest) = Range(u.stack) \ {s}
        /\ rest # <<>> /\ Last(u.stack) # s => Last(rest) = Last(u.stack)
    BY <1>1, <1>2, RemoveFirstKeeps
  <2>2. u.stack # <<>>
    BY <1>2, <1>4 DEF Range
  <2>3. Last(u.stack) \in Range(u.stack)
    BY <1>2, <2>2 DEF Last, Range
  <2>4. rest # <<>> => Last(rest) \in Surfaces
    BY <2>1 DEF Last
  <2>5. UiTyped(closed) /\ SameRequests(u, closed) /\ closed.stack = rest
        /\ closed.base = u.base /\ closed.focus = u.focus
    BY <1>1, <2>1 DEF UiTyped, SameRequests
  <2>6. CASE Last(u.stack) = s /\ rest = <<>>
    <3>1. v = [closed EXCEPT !.focus = u.base, !.base = NoSurface]
      BY <1>4, <2>5, <2>6 DEF CloseSurface, ApplyActive
    <3>2. UiTyped(v) /\ SameRequests(u, v) /\ v.stack = rest /\ v.focus = u.base
      BY <3>1, <2>5, <1>2, SurfaceFacts DEF UiTyped, SameRequests
    <3> HIDE DEF v, rest, closed
    <3>3. FocusOn(v, home, astray)
      BY <3>2, <2>6, <2>2, <1>1 DEF FocusOn
    <3> QED BY <3>2, <3>3, <2>1 DEF Steady, v
  <2>7. CASE Last(u.stack) = s /\ rest # <<>>
    <3>1. v = [closed EXCEPT !.focus = Last(rest)]
      BY <1>4, <2>5, <2>7 DEF CloseSurface, ApplyActive
    <3>2. UiTyped(v) /\ SameRequests(u, v) /\ v.stack = rest /\ v.focus = Last(rest) /\ v.base = u.base
      BY <3>1, <2>5, <2>4, <2>7 DEF UiTyped, SameRequests
    <3> HIDE DEF v, rest, closed
    <3>3. FocusOn(v, home, astray)
      BY <3>2, <2>7, <2>2, <1>1 DEF FocusOn
    <3> QED BY <3>2, <3>3, <2>1 DEF Steady, v
  <2>8. CASE Last(u.stack) # s
    <3>1. v = closed
      BY <1>4, <2>8 DEF CloseSurface
    <3>2. rest # <<>>
      <4>1. Last(u.stack) \in Range(rest)
        BY <2>1, <2>3, <2>8
      <4> HIDE DEF rest
      <4> QED BY <4>1, EmptySeq DEF Range
    <3>3. UiTyped(v) /\ SameRequests(u, v) /\ v.stack = rest /\ v.focus = u.focus /\ v.base = u.base
      BY <3>1, <2>5
    <3> HIDE DEF v, rest, closed
    <3>4. FocusOn(v, home, astray)
      BY <3>2, <3>3, <2>1, <2>2, <2>8, <1>1 DEF FocusOn
    <3> QED BY <3>3, <3>4, <2>1 DEF Steady, v
  <2> QED BY <2>6, <2>7, <2>8
<1> QED BY <1>3, <1>4

-----------------------------------------------------------------------------
\* The requests shown or queued, of which the process has at most one shown.
Known(u) == Range(u.queue) \cup ({u.key} \cap Request)

Presented(u) ==
  /\ IsInjective(u.queue) /\ u.key \notin Range(u.queue)
  /\ u.queue # <<>> => u.key # NoRequest
  /\ u.key = NoRequest => u.surface = NoSurface /\ Range(u.stack) \subseteq {Menu}
  /\ u.key # NoRequest => /\ u.surface.owner = u.key /\ u.surface \in Range(u.stack)
                          /\ Range(u.stack) \subseteq {Menu, u.surface}

\* Lemma: a page opens where no request has a surface.
LEMMA PageShown ==
  ASSUME NEW u, NEW home \in {Editor, Rail}, NEW astray, Steady(u, home, astray),
         NEW r \in Request, u.key = r, NEW page \in Nat, NEW custom, custom \in BOOLEAN,
         u.surface = NoSurface, Range(u.stack) \subseteq {Menu},
         IsInjective(u.queue), r \notin Range(u.queue)
  PROVE  LET v == ShowPage(u, r, page, custom) IN
         /\ Steady(v, home, astray) /\ Presented(v)
         /\ v.queue = u.queue /\ v.key = r /\ v.phase = u.phase
<1> DEFINE s == Surface(r, page, custom)
           opened == OpenSurface(u, s)
           v == ShowPage(u, r, page, custom)
<1>1. s \in Surfaces /\ s # NoSurface /\ s # Menu /\ NoSurface # Menu /\ r # NoRequest /\ s.owner = r
  BY SurfaceFacts DEF Surface
<1>2. /\ Steady(opened, home, astray) /\ Range(opened.stack) = Range(u.stack) \cup {s}
      /\ SameRequests(u, opened)
  BY <1>1, OpenSteady
<1>3. NoSurface \notin Range(opened.stack) /\ opened.surface = NoSurface
  BY <1>1, <1>2 DEF SameRequests
<1>4. CloseSurface(opened, opened.surface) = opened
  BY <1>3 DEF CloseSurface
<1>5. v = [opened EXCEPT !.surface = s]
  BY <1>4 DEF ShowPage
<1> HIDE DEF opened, s
<1>6. /\ UiTyped(v) /\ v.stack = opened.stack /\ v.base = opened.base /\ v.focus = opened.focus
      /\ v.surface = s /\ v.queue = u.queue /\ v.key = r /\ v.phase = u.phase
  BY <1>1, <1>2, <1>5 DEF Steady, UiTyped, SameRequests
<1> HIDE DEF v
<1>7. Steady(v, home, astray)
  BY <1>2, <1>6 DEF Steady, FocusOn
<1>8. Presented(v)
  BY <1>1, <1>2, <1>6 DEF Presented
<1> QED BY <1>6, <1>7, <1>8 DEF v

\* Lemma: the next request is shown when none is.
LEMMA NextShown ==
  ASSUME NEW u, NEW home \in {Editor, Rail}, NEW astray, Steady(u, home, astray),
         u.key = NoRequest, u.surface = NoSurface, Range(u.stack) \subseteq {Menu},
         IsInjective(u.queue)
  PROVE  LET v == StartNext(u) IN
         /\ Steady(v, home, astray) /\ Presented(v) /\ Known(v) = Range(u.queue)
         /\ v.key \in Range(u.queue) \cup {NoRequest}
<1> DEFINE v == StartNext(u)
<1>1. u.queue \in Seq(Request)
  BY DEF Steady, UiTyped
<1>2. NoRequest \notin Request
  BY SurfaceFacts
<1>3. CASE u.queue = <<>>
  <2>1. v = u
    BY <1>3 DEF StartNext
  <2>2. Range(u.queue) = {}
    BY <1>3, EmptySeq DEF Range
  <2> HIDE DEF v
  <2>3. Steady(v, home, astray) /\ Presented(v) /\ Known(v) = Range(u.queue) /\ v.key = NoRequest
    BY <2>1, <2>2, <1>2, <1>3 DEF Presented, Known
  <2> QED BY <2>3 DEF v
<1>4. CASE u.queue # <<>>
  <2> DEFINE r == Head(u.queue)
             w == [u EXCEPT !.key = r, !.phase = "open", !.surface = NoSurface, !.queue = Tail(u.queue)]
  <2>1. /\ Tail(u.queue) \in Seq(Request) /\ IsInjective(Tail(u.queue)) /\ r \in Request
        /\ r \notin Range(Tail(u.queue)) /\ Range(u.queue) = Range(Tail(u.queue)) \cup {r}
    BY <1>1, <1>4, TailKeeps
  <2>2. v = ShowPage(w, r, 1, FALSE)
    BY <1>4 DEF StartNext
  <2>3. /\ UiTyped(w) /\ w.stack = u.stack /\ w.base = u.base /\ w.focus = u.focus
        /\ w.key = r /\ w.phase = "open" /\ w.surface = NoSurface /\ w.queue = Tail(u.queue)
    BY <2>1, SurfaceFacts DEF Steady, UiTyped
  <2> HIDE DEF w, r, v
  <2>4. Steady(w, home, astray)
    BY <2>3 DEF Steady, FocusOn
  <2>5. /\ Steady(v, home, astray) /\ Presented(v)
        /\ v.queue = Tail(u.queue) /\ v.key = r
    <3>1. PICK no : no = FALSE
      OBVIOUS
    <3>2. v = ShowPage(w, r, 1, no) /\ no \in BOOLEAN /\ 1 \in Nat
      BY <2>2, <3>1
    <3>3. /\ w.key = r /\ w.surface = NoSurface /\ Range(w.stack) \subseteq {Menu}
          /\ IsInjective(w.queue) /\ r \in Request /\ r \notin Range(w.queue)
      BY <2>1, <2>3
    <3>4. /\ Steady(v, home, astray) /\ Presented(v)
          /\ v.queue = w.queue /\ v.key = r /\ v.phase = w.phase
      BY <2>4, <3>2, <3>3, PageShown
    <3> QED BY <2>3, <3>4
  <2>6. Known(v) = Range(u.queue)
    BY <2>1, <2>5 DEF Known
  <2> QED BY <2>1, <2>5, <2>6 DEF v
<1> QED BY <1>3, <1>4

\* Lemma: a request that is over is no longer shown or queued, the others are.
LEMMA RequestCompleted ==
  ASSUME NEW u, NEW home \in {Editor, Rail}, NEW astray, Steady(u, home, astray),
         Presented(u), NEW r \in Request
  PROVE  LET v == CompleteRequest(u, r) IN
         /\ Steady(v, home, astray) /\ Presented(v) /\ Known(v) = Known(u) \ {r}
         /\ v.key \in Range(u.queue) \cup {NoRequest} \/ (v.key = u.key /\ v.phase = u.phase)
         /\ Range(v.queue) \subseteq Range(u.queue)
<1> DEFINE v == CompleteRequest(u, r)
<1>1. u.queue \in Seq(Request) /\ u.key \in Request \cup {NoRequest} /\ NoRequest \notin Request
  BY SurfaceFacts DEF Steady, UiTyped
<1>2. CASE u.key # r
  <2> DEFINE rest == RemoveFirst(u.queue, r)
  <2>1. v = [u EXCEPT !.queue = rest]
    BY <1>2 DEF CompleteRequest
  <2>2. rest \in Seq(Request) /\ IsInjective(rest) /\ Range(rest) = Range(u.queue) \ {r}
    BY <1>1, RemoveFirstKeeps DEF Presented
  <2>3. /\ UiTyped(v) /\ v.stack = u.stack /\ v.base = u.base /\ v.focus = u.focus
        /\ v.key = u.key /\ v.phase = u.phase /\ v.surface = u.surface /\ v.queue = rest
    BY <2>1, <2>2 DEF Steady, UiTyped
  <2>4. rest # <<>> => u.queue # <<>>
    <3>1. u.queue = <<>> => Range(u.queue) = {}
      BY EmptySeq DEF Range
    <3> HIDE DEF rest
    <3>2. rest # <<>> => rest[1] \in Range(rest)
      BY <2>2 DEF Range
    <3> QED BY <3>1, <3>2, <2>2
  <2> HIDE DEF v, rest
  <2>5. Steady(v, home, astray)
    BY <2>3 DEF Steady, FocusOn
  <2>6. Presented(v)
    BY <2>2, <2>3, <2>4 DEF Presented
  <2>7. Known(v) = Known(u) \ {r}
    BY <2>2, <2>3, <1>2 DEF Known
  <2> QED BY <2>2, <2>3, <2>5, <2>6, <2>7 DEF v
<1>3. CASE u.key = r
  <2> DEFINE c == CloseSurface(u, u.surface)
             w == Idle(c)
  <2>1. v = StartNext(w)
    BY <1>3 DEF CompleteRequest
  <2>2. /\ Steady(c, home, astray) /\ Range(c.stack) = Range(u.stack) \ {u.surface}
        /\ SameRequests(u, c)
    BY CloseSteady
  <2> HIDE DEF c
  <2>3. /\ UiTyped(w) /\ w.stack = c.stack /\ w.base = c.base /\ w.focus = c.focus
        /\ w.key = NoRequest /\ w.surface = NoSurface /\ w.queue = u.queue
    BY <2>2, SurfaceFacts DEF Idle, Steady, UiTyped, SameRequests
  <2> HIDE DEF w, v
  <2>4. Steady(w, home, astray)
    BY <2>2, <2>3 DEF Steady, FocusOn
  <2>5. Range(w.stack) \subseteq {Menu} /\ IsInjective(w.queue)
    BY <2>2, <2>3, <1>1, <1>3 DEF Presented
  <2>6. /\ Steady(v, home, astray) /\ Presented(v) /\ Known(v) = Range(u.queue)
        /\ v.key \in Range(u.queue) \cup {NoRequest}
    BY <2>1, <2>3, <2>4, <2>5, NextShown
  <2>7. Known(v) = Known(u) \ {r} /\ Range(v.queue) \subseteq Range(u.queue)
    BY <2>6, <1>3 DEF Known, Presented
  <2> QED BY <2>6, <2>7 DEF v
<1> QED BY <1>2, <1>3

\* Lemma: a request the process does not know is queued, and shown if none is.
LEMMA RequestEnqueued ==
  ASSUME NEW u, NEW home \in {Editor, Rail}, NEW astray, Steady(u, home, astray),
         Presented(u), NEW r \in Request, r \notin Known(u), NEW v, v = Enqueue(u, r)
  PROVE  /\ Steady(v, home, astray) /\ Presented(v) /\ Known(v) = Known(u) \cup {r}
         /\ u.key = NoRequest \/ (v.key = u.key /\ v.phase = u.phase)
<1> DEFINE w == [u EXCEPT !.queue = Append(u.queue, r)]
<1>1. u.queue \in Seq(Request) /\ u.key \in Request \cup {NoRequest} /\ NoRequest \notin Request
  BY SurfaceFacts DEF Steady, UiTyped
<1>2. v = StartNext(w)
  BY DEF Enqueue, Known
<1>3. /\ Append(u.queue, r) \in Seq(Request) /\ IsInjective(Append(u.queue, r))
      /\ Range(Append(u.queue, r)) = Range(u.queue) \cup {r}
      /\ Append(u.queue, r) # <<>>
  BY <1>1, AppendKeeps DEF Presented, Known
<1>4. /\ UiTyped(w) /\ w.stack = u.stack /\ w.base = u.base /\ w.focus = u.focus
      /\ w.key = u.key /\ w.phase = u.phase /\ w.surface = u.surface /\ w.queue = Append(u.queue, r)
  BY <1>3 DEF Steady, UiTyped
<1> HIDE DEF w
<1>5. Steady(w, home, astray)
  BY <1>4 DEF Steady, FocusOn
<1>6. CASE u.key = NoRequest
  <2>1. Range(u.queue) = {}
    BY <1>6, EmptySeq DEF Presented, Range
  <2>2. /\ Steady(v, home, astray) /\ Presented(v) /\ Known(v) = Range(w.queue)
        /\ v.key \in Range(w.queue) \cup {NoRequest}
    <3>1. /\ w.key = NoRequest /\ w.surface = NoSurface /\ Range(w.stack) \subseteq {Menu}
          /\ IsInjective(w.queue)
      BY <1>3, <1>4, <1>6 DEF Presented
    <3> QED BY <1>2, <1>5, <3>1, NextShown
  <2>3. Known(v) = Known(u) \cup {r}
    BY <2>1, <2>2, <1>1, <1>3, <1>4, <1>6 DEF Known
  <2> QED BY <1>6, <2>2, <2>3
<1>7. CASE u.key # NoRequest
  <2>1. v = w
    BY <1>2, <1>4, <1>7 DEF StartNext
  <2>2. Presented(v)
    BY <2>1, <1>1, <1>3, <1>4, <1>7 DEF Presented, Known
  <2>3. Known(v) = Known(u) \cup {r}
    BY <2>1, <1>3, <1>4 DEF Known
  <2>4. v.key = u.key /\ v.phase = u.phase
    BY <2>1, <1>4
  <2>5. Steady(v, home, astray)
    BY <2>1, <1>5
  <2> QED BY <2>2, <2>3, <2>4, <2>5
<1> QED BY <1>6, <1>7

\* Lemma: the surface of the request shown gives way to another page of it.
LEMMA PageTurned ==
  ASSUME NEW u, NEW home \in {Editor, Rail}, NEW astray, Steady(u, home, astray),
         Presented(u), NEW r \in Request, u.key = r, NEW page \in Nat, NEW custom, custom \in BOOLEAN
  PROVE  LET v == ShowPage(HideSurface(u, r), r, page, custom) IN
         /\ Steady(v, home, astray) /\ Presented(v)
         /\ v.queue = u.queue /\ v.key = u.key /\ v.phase = u.phase
<1> DEFINE c == CloseSurface(u, u.surface)
           w == HideSurface(u, r)
           v == ShowPage(w, r, page, custom)
<1>1. /\ Steady(c, home, astray) /\ Range(c.stack) = Range(u.stack) \ {u.surface}
      /\ SameRequests(u, c)
  BY CloseSteady
<1>2. w = [c EXCEPT !.surface = NoSurface]
  BY DEF HideSurface
<1> HIDE DEF c
<1>3. /\ UiTyped(w) /\ w.stack = c.stack /\ w.base = c.base /\ w.focus = c.focus
      /\ w.key = u.key /\ w.phase = u.phase /\ w.surface = NoSurface /\ w.queue = u.queue
  BY <1>1, <1>2, SurfaceFacts DEF Steady, UiTyped, SameRequests
<1> HIDE DEF w
<1>4. Steady(w, home, astray)
  BY <1>1, <1>3 DEF Steady, FocusOn
<1>5. /\ Range(w.stack) \subseteq {Menu} /\ IsInjective(w.queue) /\ r \notin Range(w.queue)
      /\ w.key = r
  BY <1>1, <1>3, SurfaceFacts DEF Presented
<1> HIDE DEF v
<1>6. /\ Steady(v, home, astray) /\ Presented(v)
      /\ v.queue = w.queue /\ v.key = r /\ v.phase = w.phase
  BY <1>3, <1>4, <1>5, PageShown DEF v
<1> QED BY <1>3, <1>6 DEF v, w

\* Lemma: the bindings of the composer are not those of surfaces, and only one
\* of them focuses the rail.
LEMMA BaseBinding ==
  \A b \in BaseBindings :
    /\ b.priority \in {Base, OnSurface, Modal}
    /\ b.action # "surface.confirm"
    /\ b.action = "attachments.focus" => b.when = "attachments"
<1>1. \A action, keys, when, priority : \A b \in Bind(action, keys, when, priority) :
        b.action = action /\ b.when = when /\ b.priority = priority
  BY DEF Bind
<1> QED BY <1>1 DEF BaseBindings

\* Lemma: the rows of a surface bind its context and none is the attachments' key.
LEMMA SurfaceRow ==
  ASSUME NEW context, NEW rows, \A r \in rows : r[1] # "attachments.focus",
         NEW b \in Rows(context, rows)
  PROVE  b.priority = OnSurface /\ b.action # "attachments.focus" /\ b.when = context
BY DEF Rows, Bind

\* Lemma: and so does no binding of any surface.
LEMMA SurfaceBinding ==
  \A b \in SurfaceBindings :
    b.priority = OnSurface /\ b.action # "attachments.focus" /\ b.when \in SurfaceContext
<1> DEFINE Quiet(rows) == \A r \in rows : r[1] # "attachments.focus"
           Fine(bindings) == \A b \in bindings :
             b.priority = OnSurface /\ b.action # "attachments.focus" /\ b.when \in SurfaceContext
<1>1. /\ Quiet(Leave) /\ Quiet(Arrows) /\ Quiet(Letters) /\ Quiet(Pages) /\ Quiet(Ends)
      /\ Quiet(EnterKey) /\ Quiet(EnterOrSpace)
  BY DEF Leave, Arrows, Letters, Pages, Ends, EnterKey, EnterOrSpace
<1>2. Quiet(Select(2)) /\ Quiet(Select(4)) /\ Quiet(Select(9))
  BY DEF Select
<1>3. Quiet(Reader)
  BY <1>1 DEF Reader
<1>4. /\ Quiet({<<"surface.back", {"escape"}>>}) /\ Quiet({<<"surface.next", {"tab"}>>})
      /\ Quiet({<<"surface.toggle", {"space"}>>}) /\ Quiet({<<"surface.refresh", {"r", "R"}>>})
      /\ Quiet({<<"surface.first", {"g"}>>}) /\ Quiet({<<"surface.request-jump", {"g"}>>})
      /\ Quiet({<<"surface.back", {"h"}>>, <<"surface.search", {"/", "s"}>>, <<"surface.create", {"n"}>>,
                <<"surface.edit", {"e"}>>, <<"surface.refresh", {"r"}>>,
                <<"surface.expand", {"l", "right"}>>})
  OBVIOUS
<1>5. \A x, y : Quiet(x) /\ Quiet(y) => Quiet(x \cup y)
  OBVIOUS
<1>6. \A context, rows : context \in SurfaceContext /\ Quiet(rows) => Fine(Rows(context, rows))
  BY SurfaceRow
<1> HIDE DEF Quiet, Fine
<1>7. /\ Fine(Rows("choice", Leave \cup Letters \cup EnterKey))
      /\ Fine(Rows("text-input", {<<"surface.back", {"escape"}>>}))
      /\ Fine(Rows("approval", Letters \cup {<<"surface.next", {"tab"}>>} \cup Select(2) \cup EnterKey))
      /\ Fine(Rows("multi-select", Arrows \cup Pages \cup EnterKey \cup {<<"surface.toggle", {"space"}>>}))
  BY <1>1, <1>3, <1>4, <1>5, <1>6, <1>2 DEF SurfaceContext
<1>8. /\ Fine(Rows("menu", Leave \cup Letters \cup Ends \cup EnterOrSpace))
      /\ Fine(Rows("memory", Leave \cup Arrows \cup Pages \cup EnterOrSpace))
      /\ Fine(Rows("model-menu", Leave \cup Arrows \cup Pages \cup Select(9) \cup EnterKey))
      /\ Fine(Rows("web-menu", Leave \cup Letters \cup Ends \cup EnterOrSpace \cup {<<"surface.refresh", {"r", "R"}>>}))
  BY <1>1, <1>3, <1>4, <1>5, <1>6, <1>2 DEF SurfaceContext
<1>9. /\ Fine(Rows("rewind-point", Leave \cup Arrows \cup Pages \cup EnterKey))
      /\ Fine(Rows("rewind-confirm", Leave \cup Arrows \cup Pages \cup Select(4) \cup EnterKey \cup {<<"surface.next", {"tab"}>>}))
      /\ Fine(Rows("skills", Leave \cup Letters \cup Ends \cup EnterKey \cup {<<"surface.back", {"h"}>>, <<"surface.search", {"/", "s"}>>, <<"surface.create", {"n"}>>, <<"surface.edit", {"e"}>>, <<"surface.refresh", {"r"}>>, <<"surface.expand", {"l", "right"}>>}))
  BY <1>1, <1>3, <1>4, <1>5, <1>6, <1>2 DEF SurfaceContext
<1>10. /\ Fine(Rows("trajectory", Reader \cup {<<"surface.first", {"g"}>>}))
      /\ Fine(Rows("request", Reader \cup {<<"surface.request-jump", {"g"}>>}))
  BY <1>1, <1>3, <1>4, <1>5, <1>6, <1>2 DEF SurfaceContext
<1> QED BY <1>7, <1>8, <1>9, <1>10 DEF SurfaceBindings, Fine

\* Lemma: what a route tells about the context it was taken in.
LEMMA RouteContext ==
  ASSUME NEW k, NEW c
  PROVE  LET route == ResolveTerminalInput(k, "press", c) IN
         /\ route = "attachments.focus" => InBase(c)
         /\ route = "surface.confirm" => c.takes \in SurfaceContext
<1> DEFINE route == ResolveTerminalInput(k, "press", c)
<1> SUFFICES ASSUME route \in {"attachments.focus", "surface.confirm"}
             PROVE  /\ route = "attachments.focus" => InBase(c)
                    /\ route = "surface.confirm" => c.takes \in SurfaceContext
  OBVIOUS
<1>1. Candidates(k, c) # {} /\ route = (CHOOSE b \in Winners(k, c) : TRUE).action
  BY DEF ResolveTerminalInput, ResolveKeymapInput, Unmatched, Suppressed, Throws
<1>2. \A b \in Candidates(k, c) : b \in Bindings /\ Available(b.when, c)
  BY DEF Candidates, BoundTo
<1>3. \A b \in Bindings : b.priority \in {100, 200, 300}
  BY BaseBinding, SurfaceBinding DEF Bindings, Base, OnSurface, Modal
<1>4. Winners(k, c) # {}
  <2>1. CASE \E b \in Candidates(k, c) : b.priority = 300
    BY <2>1, <1>2, <1>3 DEF Winners
  <2>2. CASE /\ ~ \E b \in Candidates(k, c) : b.priority = 300
             /\ \E b \in Candidates(k, c) : b.priority = 200
    BY <2>2, <1>2, <1>3 DEF Winners
  <2>3. CASE \A b \in Candidates(k, c) : b.priority = 100
    BY <2>3, <1>1 DEF Winners
  <2> QED BY <1>2, <1>3, <2>1, <2>2, <2>3
<1>5. PICK b \in Bindings : Available(b.when, c) /\ b.action = route
  BY <1>1, <1>2, <1>4 DEF Winners
<1> HIDE DEF route
<1>6. CASE b \in BaseBindings
  BY <1>5, <1>6, BaseBinding DEF Available
<1>7. CASE b \in SurfaceBindings
  <2>1. Available(b.when, c) => c.takes = b.when
    BY <1>7, SurfaceBinding DEF Available, SurfaceContext
  <2> QED BY <1>5, <1>7, <2>1, SurfaceBinding
<1> QED BY <1>6, <1>7 DEF Bindings

Home == IF composing.rail THEN Rail ELSE Editor

\* Who is shown or queued is pending, and a cancellation in flight is of the
\* request shown, then no longer open, or of one that is over.
Kept(u, a, cs) ==
  /\ Presented(u)
  /\ \A r \in Known(u) : a[r] = "pending"
  /\ \A r \in cs : a[r] # "new" /\ r \notin Range(u.queue) /\ (u.key = r => u.phase = "cancelling")

InteractionInv ==
  /\ asked \in [Request -> {"new", "pending", "answered", "withdrawn", "retired"}]
  /\ cancels \subseteq Request
  /\ composing \in [image : BOOLEAN, rail : BOOLEAN, text : BOOLEAN, preparing : BOOLEAN]
  /\ Steady(ui, Home, strayed) /\ Kept(ui, asked, cancels)

\* Lemma: the keys belong to the editor or to the rail beside it.
LEMMA HomeType == Home \in {Editor, Rail} /\ Home' \in {Editor, Rail}
BY DEF Home

\* Lemma: at the start nothing is asked and the editor has the keys.
LEMMA InteractionInitial == InteractionInit => InteractionInv
<1> SUFFICES ASSUME InteractionInit  PROVE InteractionInv
  OBVIOUS
<1>1. /\ ui.queue = <<>> /\ ui.key = NoRequest /\ ui.phase = "idle" /\ ui.surface = NoSurface
      /\ ui.stack = <<>> /\ ui.base = NoSurface /\ ui.focus = Editor
      /\ composing.rail = FALSE /\ strayed = FALSE /\ cancels = {}
  BY DEF InteractionInit
<1>2. Range(<<>>) = {} /\ IsInjective(<<>>) /\ <<>> \in Seq(Request) /\ <<>> \in Seq(Surfaces)
  BY EmptySeq DEF Range, IsInjective
<1>3. UiTyped(ui)
  BY <1>2, SurfaceFacts DEF UiTyped, InteractionInit
<1>4. Home = Editor
  BY <1>1 DEF Home
<1>5. Steady(ui, Home, strayed)
  BY <1>1, <1>2, <1>3, <1>4 DEF Steady, FocusOn
<1>6. Kept(ui, asked, cancels)
  BY <1>1, <1>2, SurfaceFacts DEF Kept, Presented, Known
<1> QED BY <1>5, <1>6 DEF InteractionInv, InteractionInit

\* Lemma: the surface on top, and what has the focus beyond the composer.
LEMMA OnTop ==
  ASSUME InteractionInv
  PROVE  /\ ui.stack # <<>> /\ Top.owner # "menu" =>
              Top = ui.surface /\ ui.surface.owner = ui.key /\ ui.key \in Request
                /\ ui.surface.page \in Nat
         /\ ui.focus.custom \/ ui.focus.owner \in Request =>
              ui.focus = Top /\ Top = ui.surface /\ ui.surface.owner = ui.key /\ ui.key \in Request
                /\ ui.surface.page \in Nat
<1>1. /\ UiTyped(ui) /\ Presented(ui) /\ FocusOn(ui, Home, strayed)
  BY DEF InteractionInv, Steady, Kept
<1>2. ui.stack # <<>> => Top = Last(ui.stack) /\ Last(ui.stack) \in Range(ui.stack)
  <2>1. ui.stack \in Seq(Surfaces)
    BY <1>1 DEF UiTyped
  <2> QED BY <2>1 DEF Top, Last, Range
<1>3. Menu.owner = "menu" /\ ~Menu.custom /\ ~Editor.custom /\ ~Rail.custom
      /\ Editor.owner = "editor" /\ Rail.owner = "rail"
  BY DEF Menu, Editor, Rail, Surface
<1>4. ui.stack # <<>> /\ Top.owner # "menu" =>
              Top = ui.surface /\ ui.surface.owner = ui.key /\ ui.key \in Request
                /\ ui.surface.page \in Nat
  BY <1>1, <1>2, <1>3 DEF UiTyped, Presented, Surfaces
<1>5. Request \cap {"editor", "rail", "menu"} = {}
  BY InteractionAssumption
<1>6. ASSUME ui.focus.custom \/ ui.focus.owner \in Request
      PROVE  ui.stack # <<>> /\ Top.owner # "menu" /\ ui.focus = Top
  <2>1. ui.focus # Editor /\ ui.focus # Rail /\ ui.focus # Menu
    BY <1>3, <1>5, <1>6
  <2>2. ui.stack # <<>> /\ ui.focus = Top
    BY <2>1, <1>1, <1>2 DEF FocusOn
  <2>3. Top # Menu /\ Top \in Range(ui.stack)
    BY <2>1, <2>2, <1>2
  <2>4. ui.key # NoRequest /\ Top = ui.surface /\ ui.surface.owner = ui.key
    BY <2>3, <1>1 DEF Presented
  <2>5. ui.key \in Request
    BY <2>4, <1>1 DEF UiTyped
  <2> QED BY <2>2, <2>4, <2>5, <1>5
<1> QED BY <1>4, <1>6

\* Lemma: what a key does.
LEMMA KeyDoes ==
  ASSUME NEW k, KeyPress(k), InteractionInv
  PROVE  \/ Interrupt \/ CancelOrExit \/ OtherSurface
         \/ FocusAttachments /\ ui.stack = <<>>
         \/ \E image \in BOOLEAN : LeaveRail(image)
         \/ /\ Top = ui.surface /\ ui.surface.owner = ui.key /\ ui.key \in Request
            /\ ui.surface.page \in Nat
            /\ AnswerPage(ui.surface) \/ AnswerOtherwise(ui.surface)
         \/ /\ composing' = [composing EXCEPT !.text = (k # "enter")]
            /\ UNCHANGED <<asked, ui, cancels, run, strayed, released>>
         \/ UNCHANGED interactionVars
<1>1. composing.image \in BOOLEAN
  BY DEF InteractionInv
<1>2. PICK route : /\ route = ResolveTerminalInput(k, "press", Context)
        /\ CASE route = "interaction.cancel" \/ route = "run.interrupt" -> Interrupt
             [] route = "app.cancel-or-exit" -> CancelOrExit
             [] route = "attachments.focus" -> FocusAttachments
             [] route = "attachments.leave" -> LeaveRail(composing.image)
             [] route = "attachments.remove-selected" -> LeaveRail(FALSE)
             [] route = "surface.confirm" -> ConfirmDialog(Top)
             [] route = "surface.back" /\ Top = Menu -> OtherSurface
             [] route = Unmatched -> Passthrough(k)
             [] OTHER -> UNCHANGED interactionVars
  BY DEF KeyPress, Route
<1>3. \/ Interrupt \/ CancelOrExit \/ OtherSurface \/ UNCHANGED interactionVars
      \/ route = "attachments.focus" /\ FocusAttachments
      \/ LeaveRail(composing.image) \/ LeaveRail(FALSE)
      \/ route = "surface.confirm" /\ ConfirmDialog(Top)
      \/ Passthrough(k)
  BY <1>2
<1>4. /\ route = "attachments.focus" => InBase(Context)
      /\ route = "surface.confirm" => Context.takes \in SurfaceContext
  BY <1>2, RouteContext
<1>5. InBase(Context) => ui.stack = <<>>
  BY DEF InBase, Context, Flag
<1>6. Context.takes \in SurfaceContext => ui.stack # <<>>
  BY DEF Context, NoContext, SurfaceContext
<1>7. CASE route = "surface.confirm" /\ ConfirmDialog(Top)
  <2>1. \/ Top.owner # "menu" /\ (AnswerPage(Top) \/ AnswerOtherwise(Top))
        \/ OtherSurface
    BY <1>7 DEF ConfirmDialog
  <2> QED BY <2>1, <1>4, <1>6, <1>7, OnTop
<1>8. CASE Passthrough(k)
  <2>1. \/ (ui.focus.custom \/ ui.focus.owner \in Request) /\ AnswerPage(ui.focus)
        \/ composing' = [composing EXCEPT !.text = (k # "enter")] /\ UNCHANGED <<asked, ui, cancels, run, strayed, released>>
        \/ UNCHANGED interactionVars
    BY <1>8 DEF Passthrough
  <2> QED BY <2>1, OnTop
<1> QED BY <1>1, <1>3, <1>4, <1>5, <1>7, <1>8

\* Lemma: an interrupt cancels the request shown, or changes no request.
LEMMA CancelKeeps ==
  ASSUME InteractionInv, Interrupt
  PROVE  InteractionInv' /\ asked' = asked
<1>1. CASE UNCHANGED interactionVars
  BY <1>1 DEF InteractionInv, interactionVars, Home
<1>2. CASE ui.key # NoRequest /\ CancelInteraction
  <2>1. asked' = asked /\ composing' = composing /\ strayed' = strayed
    BY <1>2 DEF CancelInteraction
  <2>2. CASE UNCHANGED <<ui, cancels>>
    BY <2>1, <2>2 DEF InteractionInv, Home
  <2>3. CASE ui' = [ui EXCEPT !.phase = "cancelling"] /\ cancels' = cancels \cup {ui.key}
    <3>1. UiTyped(ui) /\ Presented(ui) /\ FocusOn(ui, Home, strayed) /\ IsInjective(ui.stack)
      BY DEF InteractionInv, Steady, Kept
    <3>2. /\ UiTyped(ui') /\ ui'.queue = ui.queue /\ ui'.key = ui.key /\ ui'.phase = "cancelling"
          /\ ui'.surface = ui.surface /\ ui'.stack = ui.stack /\ ui'.base = ui.base
          /\ ui'.focus = ui.focus
      BY <2>3, <3>1 DEF UiTyped
    <3>3. ui.key \in Request /\ ui.key \in Known(ui)
      BY <1>2, <3>1 DEF UiTyped, Known
    <3>4. Home' = Home
      BY <2>1 DEF Home
    <3>5. Steady(ui', Home', strayed')
      BY <2>1, <3>1, <3>2, <3>4 DEF Steady, FocusOn
    <3>6. Kept(ui', asked', cancels')
      <4>1. Presented(ui')
        BY <3>1, <3>2 DEF Presented
      <4>2. \A r \in Known(ui') : asked'[r] = "pending"
        BY <2>1, <3>2 DEF Known, InteractionInv, Kept
      <4>3. \A r \in cancels' : asked'[r] # "new" /\ r \notin Range(ui'.queue) /\ (ui'.key = r => ui'.phase = "cancelling")
        BY <2>1, <2>3, <3>1, <3>2, <3>3 DEF Presented, InteractionInv, Kept
      <4> QED BY <4>1, <4>2, <4>3 DEF Kept
    <3> QED BY <2>1, <2>3, <3>3, <3>5, <3>6 DEF InteractionInv
  <2> QED BY <1>2, <2>1, <2>2, <2>3 DEF CancelInteraction
<1>3. CASE UNCHANGED <<asked, ui, cancels, composing, strayed>>
  BY <1>3 DEF InteractionInv, Home
<1> QED BY <1>1, <1>2, <1>3 DEF Interrupt, Interruption

\* Lemma: the requests after one is over, whatever became of it.
LEMMA CompletedKept ==
  ASSUME NEW u, NEW a, NEW cs, NEW home \in {Editor, Rail}, NEW astray,
         Steady(u, home, astray), Kept(u, a, cs), NEW r \in Request, NEW b, NEW ds,
         \A q \in Request \ {r} : b[q] = a[q], b[r] # "new" \/ r \notin ds,
         ds \subseteq cs, cs \subseteq Request
  PROVE  Steady(CompleteRequest(u, r), home, astray) /\ Kept(CompleteRequest(u, r), b, ds)
<1>1. PICK v : v = CompleteRequest(u, r)
  OBVIOUS
<1>2. /\ Steady(v, home, astray) /\ Presented(v) /\ Known(v) = Known(u) \ {r}
      /\ v.key \in Range(u.queue) \cup {NoRequest} \/ (v.key = u.key /\ v.phase = u.phase)
      /\ Range(v.queue) \subseteq Range(u.queue)
  <2>1. Presented(u)
    BY DEF Kept
  <2> QED BY <1>1, <2>1, RequestCompleted
<1>3. Range(u.queue) \subseteq Request
  BY DEF Steady, UiTyped, Range
<1>4. \A q \in Known(v) : b[q] = "pending"
  BY <1>2, <1>3 DEF Known, Kept
<1>5. \A q \in ds : b[q] # "new" /\ q \notin Range(v.queue) /\ (v.key = q => v.phase = "cancelling")
  BY <1>2, <1>3, SurfaceFacts DEF Kept
<1> QED BY <1>1, <1>2, <1>4, <1>5 DEF Kept

\* Lemma: every action keeps the requests and the owner of the keys in step.
LEMMA InteractionStep == InteractionInv /\ [InteractionNext]_interactionVars => InteractionInv'
<1> SUFFICES ASSUME InteractionInv, [InteractionNext]_interactionVars  PROVE InteractionInv'
  OBVIOUS
<1> DEFINE States == {"new", "pending", "answered", "withdrawn", "retired"}
<1>1. /\ asked \in [Request -> States] /\ cancels \subseteq Request
      /\ composing \in [image : BOOLEAN, rail : BOOLEAN, text : BOOLEAN, preparing : BOOLEAN]
      /\ Steady(ui, Home, strayed) /\ Kept(ui, asked, cancels)
  BY DEF InteractionInv
<1>2. UiTyped(ui) /\ IsInjective(ui.stack) /\ FocusOn(ui, Home, strayed) /\ Presented(ui)
  BY <1>1 DEF Steady, Kept
<1>3. Home \in {Editor, Rail}
  BY HomeType
<1>4. ASSUME NEW r \in Request, HostAsks(r)  PROVE InteractionInv'
  <2>1. /\ asked[r] = "new" /\ asked' = [asked EXCEPT ![r] = "pending"]
        /\ ui' = Enqueue(ui, r)
        /\ UNCHANGED <<cancels, composing, strayed>>
    BY <1>4 DEF HostAsks
  <2>2. r \notin Known(ui) /\ r \notin cancels
    BY <1>1, <2>1 DEF Kept
  <2>3. /\ Steady(ui', Home, strayed) /\ Presented(ui') /\ Known(ui') = Known(ui) \cup {r}
        /\ ui.key = NoRequest \/ (ui'.key = ui.key /\ ui'.phase = ui.phase)
    BY <1>1, <1>2, <1>3, <2>1, <2>2, RequestEnqueued
  <2>4. Home' = Home
    BY <2>1 DEF Home
  <2>5. \A q \in Known(ui') : asked'[q] = "pending"
    <3>1. Known(ui) \subseteq Request
      BY <1>2 DEF Known, UiTyped, Range
    <3> QED BY <1>1, <2>1, <2>3, <3>1 DEF Kept
  <2>6. \A q \in cancels' : asked'[q] # "new" /\ q \notin Range(ui'.queue) /\ (ui'.key = q => ui'.phase = "cancelling")
    <3> SUFFICES ASSUME NEW q \in cancels
                 PROVE  /\ asked'[q] # "new" /\ q \notin Range(ui'.queue)
                        /\ ui'.key = q => ui'.phase = "cancelling"
      BY <2>1
    <3>1. /\ q \in Request /\ q # NoRequest /\ q # r /\ q \notin Range(ui.queue)
          /\ asked[q] # "new" /\ (ui.key = q => ui.phase = "cancelling")
      BY <1>1, <2>2, SurfaceFacts DEF Kept
    <3>2. /\ q \in Known(ui') => q = ui.key
          /\ q \in Range(ui'.queue) \/ q = ui'.key => q \in Known(ui')
          /\ ui'.key \notin Range(ui'.queue)
      BY <2>3, <3>1 DEF Known, Presented
    <3> QED BY <1>1, <2>1, <2>3, <3>1, <3>2
  <2>7. asked' \in [Request -> States]
    BY <1>1, <2>1
  <2> QED BY <1>1, <2>1, <2>3, <2>4, <2>5, <2>6, <2>7 DEF InteractionInv, Kept
<1>5. ASSUME NEW r \in Request, HostWithdraws(r)  PROVE InteractionInv'
  <2>1. /\ asked' = [asked EXCEPT ![r] = "withdrawn"] /\ ui' = CompleteRequest(ui, r)
        /\ UNCHANGED <<cancels, composing, strayed>>
    BY <1>5 DEF HostWithdraws
  <2>2. /\ \A q \in Request \ {r} : asked'[q] = asked[q]
        /\ asked'[r] # "new" /\ asked' \in [Request -> States]
    BY <1>1, <2>1
  <2>3. Steady(ui', Home, strayed) /\ Kept(ui', asked', cancels)
    <3>1. PICK b : b = asked'
      OBVIOUS
    <3>2. /\ \A q \in Request \ {r} : b[q] = asked[q]
          /\ b[r] # "new" \/ r \notin cancels
      BY <2>2, <3>1
    <3>3. Steady(CompleteRequest(ui, r), Home, strayed) /\ Kept(CompleteRequest(ui, r), b, cancels)
      BY <1>1, <1>3, <3>2, CompletedKept
    <3> QED BY <2>1, <3>1, <3>3
  <2>4. Home' = Home
    BY <2>1 DEF Home
  <2> QED BY <1>1, <2>1, <2>2, <2>3, <2>4 DEF InteractionInv
<1>6. ASSUME NEW r \in Request, CancelReturns(r)  PROVE InteractionInv'
  <2>1. /\ r \in cancels /\ cancels' = cancels \ {r}
        /\ UNCHANGED <<asked, composing, strayed>>
    BY <1>6 DEF CancelReturns
  <2>2. Home' = Home
    BY <2>1 DEF Home
  <2>3. CASE ui' = CompleteRequest(ui, r)
    <3>1. Steady(ui', Home, strayed) /\ Kept(ui', asked, cancels')
      <4>1. cancels' \subseteq cancels /\ r \notin cancels'
        BY <2>1
      <4> QED BY <1>1, <1>3, <2>3, <4>1, CompletedKept
    <3> QED BY <1>1, <2>1, <2>2, <3>1 DEF InteractionInv
  <2>4. CASE ui' = ui
    BY <1>1, <2>1, <2>2, <2>4 DEF InteractionInv, Kept
  <2>5. CASE ui.key = r /\ ui' = [ui EXCEPT !.phase = "open"]
    <3>1. /\ UiTyped(ui') /\ ui'.queue = ui.queue /\ ui'.key = ui.key
          /\ ui'.surface = ui.surface /\ ui'.stack = ui.stack /\ ui'.base = ui.base
          /\ ui'.focus = ui.focus
      BY <2>5, <1>2 DEF UiTyped
    <3>2. Steady(ui', Home, strayed)
      BY <1>2, <3>1 DEF Steady, FocusOn
    <3>3. Presented(ui') /\ Known(ui') = Known(ui)
      BY <1>2, <3>1 DEF Presented, Known
    <3>4. Kept(ui', asked, cancels')
      BY <1>1, <2>1, <2>5, <3>1, <3>3 DEF Kept
    <3> QED BY <1>1, <2>1, <2>2, <3>2, <3>4 DEF InteractionInv
  <2> QED BY <1>6, <2>3, <2>4, <2>5 DEF CancelReturns
<1>7. CASE SessionSwitched
  <2>10. PICK w : w = [ui EXCEPT !.queue = <<>>]
    OBVIOUS
  <2>11. PICK c : c = CloseSurface(w, ui.surface)
    OBVIOUS
  <2>1. /\ asked' = [r \in Request |-> IF asked[r] = "pending" THEN "retired" ELSE asked[r]]
        /\ ui' = Idle(c) /\ cancels' = {} /\ strayed' = (strayed \/ composing.rail)
        /\ composing' \in [image : BOOLEAN, rail : {FALSE}, text : BOOLEAN, preparing : BOOLEAN]
    BY <1>7, <2>10, <2>11 DEF SessionSwitched, Retire
  <2>2. <<>> \in Seq(Request) /\ Range(<<>>) = {} /\ IsInjective(<<>>)
    BY EmptySeq DEF Range, IsInjective
  <2>3. /\ UiTyped(w) /\ w.stack = ui.stack /\ w.base = ui.base /\ w.focus = ui.focus
        /\ w.queue = <<>> /\ w.surface = ui.surface
    BY <1>2, <2>10, <2>2 DEF UiTyped
  <2>4. Steady(w, Home, strayed)
    BY <1>2, <2>3 DEF Steady, FocusOn
  <2>5. /\ Steady(c, Home, strayed) /\ Range(c.stack) = Range(ui.stack) \ {ui.surface}
        /\ SameRequests(w, c)
    <3>1. /\ Steady(c, Home, strayed) /\ Range(c.stack) = Range(w.stack) \ {ui.surface}
          /\ SameRequests(w, c)
      BY <1>3, <2>11, <2>4, CloseSteady
    <3> QED BY <2>3, <3>1
  <2>6. /\ UiTyped(ui') /\ ui'.queue = <<>> /\ ui'.key = NoRequest /\ ui'.surface = NoSurface
        /\ ui'.stack = c.stack /\ ui'.base = c.base /\ ui'.focus = c.focus
    BY <2>1, <2>3, <2>5, SurfaceFacts DEF Idle, Steady, UiTyped, SameRequests
  <2>7. Home' = Editor
    BY <2>1 DEF Home
  <2>8. Steady(ui', Home', strayed')
    <3>1. ~strayed' => ~strayed /\ Home = Editor
      BY <2>1 DEF Home
    <3>2. IsInjective(ui'.stack)
      BY <2>5, <2>6 DEF Steady
    <3>3. FocusOn(ui', Home', strayed')
      BY <2>5, <2>6, <2>7, <3>1 DEF Steady, FocusOn
    <3> QED BY <2>6, <3>2, <3>3 DEF Steady
  <2>9. Kept(ui', asked', cancels')
    BY <2>1, <2>2, <2>5, <2>6, <1>2, SurfaceFacts DEF Kept, Presented, Known
  <2>12. asked' \in [Request -> States]
    BY <1>1, <2>1
  <2>13. composing' \in [image : BOOLEAN, rail : BOOLEAN, text : BOOLEAN, preparing : BOOLEAN]
    BY <2>1
  <2> QED BY <2>1, <2>8, <2>9, <2>12, <2>13 DEF InteractionInv
<1>8. CASE RunChanges \/ PreparationChanges \/ ImageArrives
  <2>1. /\ UNCHANGED <<asked, ui, cancels, strayed>> /\ composing'.rail = composing.rail
        /\ composing' \in [image : BOOLEAN, rail : BOOLEAN, text : BOOLEAN, preparing : BOOLEAN]
    BY <1>1, <1>8 DEF RunChanges, PreparationChanges, ImageArrives
  <2> QED BY <1>1, <2>1 DEF InteractionInv, Home
<1>9. CASE OtherSurface
  <2>1. UNCHANGED <<asked, cancels, composing, strayed>>
    BY <1>9 DEF OtherSurface
  <2>2. Home' = Home
    BY <2>1 DEF Home
  <2>3. Menu \in Surfaces /\ NoSurface # Menu /\ \A r \in Request : r # "menu" /\ r # NoRequest
    BY SurfaceFacts
  <2>4. ui.surface # Menu
    <3>1. Menu.owner = "menu"
      BY DEF Menu, Surface
    <3> QED BY <1>2, <2>3, <3>1 DEF Presented, UiTyped
  <2>5. /\ Steady(ui', Home, strayed) /\ SameRequests(ui, ui')
        /\ Range(ui'.stack) \in {Range(ui.stack) \cup {Menu}, Range(ui.stack) \ {Menu}}
    <3>1. CASE Menu \in Range(ui.stack)
      <4>1. ui' = CloseSurface(ui, Menu)
        BY <1>9, <3>1 DEF OtherSurface
      <4> QED BY <1>1, <1>3, <4>1, CloseSteady
    <3>2. CASE Menu \notin Range(ui.stack)
      <4>1. ui' = OpenSurface(ui, Menu)
        BY <1>9, <3>2 DEF OtherSurface
      <4> QED BY <1>1, <1>3, <2>3, <3>2, <4>1, OpenSteady
    <3> QED BY <3>1, <3>2
  <2>6. Kept(ui', asked, cancels)
    BY <1>1, <1>2, <2>4, <2>5 DEF Kept, Presented, Known, SameRequests
  <2> QED BY <1>1, <2>1, <2>2, <2>5, <2>6 DEF InteractionInv
<1>10. ASSUME NEW k \in Pressed, KeyPress(k)  PROVE InteractionInv'
  <2>1. CASE Interrupt
    BY <2>1, CancelKeeps
  <2>2. CASE CancelOrExit
    <3>1. CASE Interrupt
      BY <3>1, CancelKeeps
    <3>2. CASE /\ composing' = [composing EXCEPT !.text = FALSE, !.image = FALSE]
               /\ UNCHANGED <<asked, ui, cancels, run, strayed, released>>
      <4>1. /\ composing'.rail = composing.rail
            /\ composing' \in [image : BOOLEAN, rail : BOOLEAN, text : BOOLEAN, preparing : BOOLEAN]
        BY <1>1, <3>2
      <4> QED BY <1>1, <3>2, <4>1 DEF InteractionInv, Home
    <3> QED BY <2>2, <3>1, <3>2 DEF CancelOrExit
  <2>3. CASE FocusAttachments /\ ui.stack = <<>>
    <3>1. /\ composing' = [composing EXCEPT !.rail = TRUE] /\ ui' = [ui EXCEPT !.focus = Rail]
          /\ strayed' = FALSE /\ UNCHANGED <<asked, cancels>>
      BY <2>3 DEF FocusAttachments
    <3>2. /\ UiTyped(ui') /\ ui'.queue = ui.queue /\ ui'.key = ui.key /\ ui'.phase = ui.phase
          /\ ui'.surface = ui.surface /\ ui'.stack = ui.stack /\ ui'.base = ui.base /\ ui'.focus = Rail
      BY <1>2, <3>1, SurfaceFacts DEF UiTyped
    <3>3. /\ composing' \in [image : BOOLEAN, rail : BOOLEAN, text : BOOLEAN, preparing : BOOLEAN]
          /\ Home' = Rail
      BY <1>1, <3>1 DEF Home
    <3>4. Steady(ui', Home', strayed')
      BY <1>2, <2>3, <3>1, <3>2, <3>3 DEF Steady, FocusOn
    <3>5. Kept(ui', asked, cancels)
      BY <1>1, <1>2, <3>2 DEF Kept, Presented, Known
    <3> QED BY <1>1, <3>1, <3>3, <3>4, <3>5 DEF InteractionInv
  <2>4. ASSUME NEW image \in BOOLEAN, LeaveRail(image)  PROVE InteractionInv'
    <3>1. /\ composing' = [composing EXCEPT !.rail = FALSE, !.image = image]
          /\ ui' = [ui EXCEPT !.focus = Editor]
          /\ strayed' = (ui.stack # <<>>) /\ UNCHANGED <<asked, cancels>>
      BY <2>4 DEF LeaveRail
    <3>2. /\ UiTyped(ui') /\ ui'.queue = ui.queue /\ ui'.key = ui.key /\ ui'.phase = ui.phase
          /\ ui'.surface = ui.surface /\ ui'.stack = ui.stack /\ ui'.base = ui.base /\ ui'.focus = Editor
      BY <1>2, <3>1, SurfaceFacts DEF UiTyped
    <3>3. /\ composing' \in [image : BOOLEAN, rail : BOOLEAN, text : BOOLEAN, preparing : BOOLEAN]
          /\ Home' = Editor
      BY <1>1, <3>1 DEF Home
    <3>4. Steady(ui', Home', strayed')
      BY <1>2, <3>1, <3>2, <3>3 DEF Steady, FocusOn
    <3>5. Kept(ui', asked, cancels)
      BY <1>1, <1>2, <3>2 DEF Kept, Presented, Known
    <3> QED BY <1>1, <3>1, <3>3, <3>4, <3>5 DEF InteractionInv
  <2>5. CASE /\ ui.surface.owner = ui.key /\ ui.key \in Request /\ ui.surface.page \in Nat
             /\ AnswerPage(ui.surface) \/ AnswerOtherwise(ui.surface)
    <3>1. PICK r \in Request : r = ui.key
      BY <2>5
    <3>2. CASE Respond(r)
      <4>1. /\ UNCHANGED <<cancels, composing, strayed>>
            /\ \/ UNCHANGED <<asked, ui>>
               \/ asked' = [asked EXCEPT ![r] = "answered"] /\ ui' = CompleteRequest(ui, r)
        BY <3>2 DEF Respond
      <4>2. Home' = Home
        BY <4>1 DEF Home
      <4>3. CASE UNCHANGED <<asked, ui>>
        BY <1>1, <4>1, <4>2, <4>3 DEF InteractionInv
      <4>4. CASE asked' = [asked EXCEPT ![r] = "answered"] /\ ui' = CompleteRequest(ui, r)
        <5>1. /\ \A q \in Request \ {r} : asked'[q] = asked[q]
              /\ asked'[r] # "new" /\ asked' \in [Request -> States]
          BY <1>1, <4>4
        <5>2. Steady(ui', Home, strayed) /\ Kept(ui', asked', cancels)
          <6>1. PICK b : b = asked'
            OBVIOUS
          <6>2. /\ \A q \in Request \ {r} : b[q] = asked[q]
                /\ b[r] # "new" \/ r \notin cancels
            BY <5>1, <6>1
          <6>3. Steady(CompleteRequest(ui, r), Home, strayed) /\ Kept(CompleteRequest(ui, r), b, cancels)
            BY <1>1, <1>3, <6>2, CompletedKept
          <6> QED BY <4>4, <6>1, <6>3
        <5> QED BY <1>1, <4>1, <4>2, <5>1, <5>2 DEF InteractionInv
      <4> QED BY <4>1, <4>3, <4>4
    <3>3. ASSUME NEW page \in Nat, NEW custom, custom \in BOOLEAN,
                 ui' = ShowPage(HideSurface(ui, r), r, page, custom),
                 UNCHANGED <<asked, cancels, composing, strayed>>
          PROVE  InteractionInv'
      <4>1. /\ Steady(ui', Home, strayed) /\ Presented(ui')
            /\ ui'.queue = ui.queue /\ ui'.key = ui.key /\ ui'.phase = ui.phase
        BY <1>1, <1>2, <1>3, <3>1, <3>3, PageTurned
      <4>2. Kept(ui', asked, cancels)
        BY <1>1, <4>1 DEF Kept, Known
      <4>3. Home' = Home
        BY <3>3 DEF Home
      <4> QED BY <1>1, <3>3, <4>1, <4>2, <4>3 DEF InteractionInv
    <3>4. \/ Respond(r)
          \/ \E page \in Nat : \E custom : custom \in BOOLEAN
               /\ ui' = ShowPage(HideSurface(ui, r), r, page, custom)
               /\ UNCHANGED <<asked, cancels, composing, strayed>>
      <4>1. CASE AnswerOtherwise(ui.surface)
        BY <4>1, <2>5, <3>1 DEF AnswerOtherwise
      <4>2. CASE AnswerPage(ui.surface)
        <5>1. CASE Respond(r)
          BY <5>1
        <5>2. CASE /\ ui' = ShowPage(HideSurface(ui, r), r, ui.surface.page + 1, FALSE)
                   /\ UNCHANGED <<asked, cancels, composing, strayed>>
          <6>1. ui.surface.page + 1 \in Nat /\ FALSE \in BOOLEAN
            BY <2>5
          <6> QED BY <5>2, <6>1
        <5> QED BY <4>2, <5>1, <5>2, <2>5, <3>1 DEF AnswerPage
      <4> QED BY <2>5, <4>1, <4>2
    <3> QED BY <3>2, <3>3, <3>4
  <2>6. CASE /\ composing' = [composing EXCEPT !.text = (k # "enter")]
             /\ UNCHANGED <<asked, ui, cancels, run, strayed, released>>
    <3>1. /\ composing'.rail = composing.rail
          /\ composing' \in [image : BOOLEAN, rail : BOOLEAN, text : BOOLEAN, preparing : BOOLEAN]
      BY <1>1, <2>6
    <3> QED BY <1>1, <2>6, <3>1 DEF InteractionInv, Home
  <2>7. CASE UNCHANGED interactionVars
    BY <1>1, <2>7 DEF InteractionInv, interactionVars, Home
  <2> QED BY <1>9, <1>10, <2>1, <2>2, <2>3, <2>4, <2>5, <2>6, <2>7, KeyDoes
<1>11. CASE UNCHANGED interactionVars
  BY <1>1, <1>11 DEF InteractionInv, interactionVars, Home
<1> QED BY <1>4, <1>5, <1>6, <1>7, <1>8, <1>9, <1>10, <1>11 DEF InteractionNext

\* A request the Host waits for is shown or queued, or its cancellation returned.
Awaited == \A r \in Request : asked[r] = "pending" => r \in Known(ui) \cup released

\* Lemma: what becomes of the requests when a key is pressed: they stay as they
\* are, or the one shown is answered.
LEMMA KeyRequests ==
  ASSUME InteractionInv, NEW k, KeyPress(k)
  PROVE  /\ released' = released
         /\ \/ asked' = asked /\ Known(ui') = Known(ui)
            \/ \E r \in Request : /\ asked' = [asked EXCEPT ![r] = "answered"]
                                 /\ Known(ui') = Known(ui) \ {r}
<1>1. UiTyped(ui) /\ Steady(ui, Home, strayed) /\ Presented(ui) /\ Home \in {Editor, Rail}
  BY HomeType DEF InteractionInv, Steady, Kept
<1>2. \A v : SameRequests(ui, v) => Known(v) = Known(ui)
  BY DEF SameRequests, Known
<1>3. CASE Interrupt \/ CancelOrExit
  <2>1. released' = released /\ asked' = asked
    BY <1>3 DEF Interrupt, CancelOrExit, CancelInteraction, interactionVars
  <2>2. ui' = ui \/ ui' = [ui EXCEPT !.phase = "cancelling"]
    BY <1>3 DEF Interrupt, CancelOrExit, CancelInteraction, interactionVars
  <2>3. Known(ui') = Known(ui)
    BY <1>1, <2>2 DEF Known, UiTyped
  <2> QED BY <2>1, <2>3
<1>4. CASE OtherSurface
  <2>1. released' = released /\ asked' = asked
    BY <1>4 DEF OtherSurface
  <2>2. CASE Menu \in Range(ui.stack)
    <3>1. SameRequests(ui, ui')
      BY <1>1, <1>4, <2>2, CloseSteady DEF OtherSurface
    <3> QED BY <1>2, <2>1, <3>1
  <2>3. CASE Menu \notin Range(ui.stack)
    <3>1. SameRequests(ui, ui')
      BY <1>1, <1>4, <2>3, SurfaceFacts, OpenSteady DEF OtherSurface
    <3> QED BY <1>2, <2>1, <3>1
  <2> QED BY <2>2, <2>3
<1>5. CASE FocusAttachments \/ \E image \in BOOLEAN : LeaveRail(image)
  <2>1. /\ released' = released /\ asked' = asked
        /\ ui' = [ui EXCEPT !.focus = Rail] \/ ui' = [ui EXCEPT !.focus = Editor]
    BY <1>5 DEF FocusAttachments, LeaveRail
  <2> QED BY <1>1, <2>1 DEF Known, UiTyped
<1>6. CASE /\ ui.surface.owner = ui.key /\ ui.key \in Request /\ ui.surface.page \in Nat
           /\ AnswerPage(ui.surface) \/ AnswerOtherwise(ui.surface)
  <2>1. PICK r \in Request : r = ui.key
    BY <1>6
  <2>2. CASE Respond(r)
    <3>1. /\ released' = released
          /\ \/ UNCHANGED <<asked, ui>>
             \/ asked' = [asked EXCEPT ![r] = "answered"] /\ ui' = CompleteRequest(ui, r)
      BY <2>2 DEF Respond
    <3>2. Known(CompleteRequest(ui, r)) = Known(ui) \ {r}
      BY <1>1, RequestCompleted
    <3> QED BY <3>1, <3>2
  <2>3. ASSUME NEW page \in Nat, NEW custom, custom \in BOOLEAN,
               ui' = ShowPage(HideSurface(ui, r), r, page, custom)
        PROVE  Known(ui') = Known(ui)
    <3>1. ui'.queue = ui.queue /\ ui'.key = ui.key
      BY <1>1, <2>1, <2>3, PageTurned
    <3> QED BY <3>1 DEF Known
  <2>4. CASE AnswerOtherwise(ui.surface)
    BY <1>6, <2>1, <2>3, <2>4 DEF AnswerOtherwise
  <2>5. CASE AnswerPage(ui.surface)
    <3>1. CASE ui' = ShowPage(HideSurface(ui, r), r, ui.surface.page + 1, FALSE)
               /\ UNCHANGED <<asked, released>>
      <4>1. ui.surface.page + 1 \in Nat /\ FALSE \in BOOLEAN
        BY <1>6
      <4>2. Known(ui') = Known(ui)
        BY <2>3, <3>1, <4>1
      <4> QED BY <3>1, <4>2
    <3> QED BY <1>6, <2>1, <2>2, <2>5, <3>1 DEF AnswerPage
  <2> QED BY <1>6, <2>4, <2>5
<1>7. CASE UNCHANGED <<asked, ui, released>>
  BY <1>7
<1> QED BY <1>3, <1>4, <1>5, <1>6, <1>7, KeyDoes DEF interactionVars

\* Lemma: no action loses a request the Host waits for.
LEMMA AwaitedStep == InteractionInv /\ Awaited /\ [InteractionNext]_interactionVars => Awaited'
<1> SUFFICES ASSUME InteractionInv, Awaited, [InteractionNext]_interactionVars  PROVE Awaited'
  OBVIOUS
<1>1. /\ asked \in [Request -> {"new", "pending", "answered", "withdrawn", "retired"}]
      /\ Steady(ui, Home, strayed) /\ Presented(ui) /\ UiTyped(ui) /\ Home \in {Editor, Rail}
      /\ \A r \in Known(ui) : asked[r] = "pending"
  BY HomeType DEF InteractionInv, Steady, Kept
<1>2. ASSUME asked' = asked, Known(ui') = Known(ui), released' = released  PROVE Awaited'
  BY <1>2 DEF Awaited
<1>3. ASSUME NEW r \in Request, NEW over \in {"answered", "withdrawn"},
             asked' = [asked EXCEPT ![r] = over], Known(ui') = Known(ui) \ {r},
             released' = released
      PROVE  Awaited'
  BY <1>1, <1>3 DEF Awaited
<1>4. ASSUME NEW r \in Request, HostAsks(r)  PROVE Awaited'
  <2>1. /\ asked' = [asked EXCEPT ![r] = "pending"] /\ released' = released
        /\ asked[r] = "new" /\ ui' = Enqueue(ui, r)
    BY <1>4 DEF HostAsks
  <2>2. Known(ui') = Known(ui) \cup {r}
    <3>1. r \notin Known(ui)
      BY <1>1, <2>1
    <3> QED BY <1>1, <2>1, <3>1, RequestEnqueued
  <2> QED BY <1>1, <2>1, <2>2 DEF Awaited
<1>5. ASSUME NEW r \in Request, HostWithdraws(r)  PROVE Awaited'
  <2>1. /\ asked' = [asked EXCEPT ![r] = "withdrawn"] /\ released' = released
        /\ ui' = CompleteRequest(ui, r)
    BY <1>5 DEF HostWithdraws
  <2>2. Known(ui') = Known(ui) \ {r}
    BY <1>1, <2>1, RequestCompleted
  <2> QED BY <1>3, <2>1, <2>2
<1>6. ASSUME NEW r \in Request, CancelReturns(r)  PROVE Awaited'
  <2>1. asked' = asked
    BY <1>6 DEF CancelReturns
  <2>2. CASE ui' = CompleteRequest(ui, r) /\ released' = released \cup {r}
    <3>1. Known(ui') = Known(ui) \ {r}
      BY <1>1, <2>2, RequestCompleted
    <3> QED BY <2>1, <2>2, <3>1 DEF Awaited
  <2>3. CASE (ui' = ui \/ ui' = [ui EXCEPT !.phase = "open"]) /\ released' = released
    <3>1. Known(ui') = Known(ui)
      BY <1>1, <2>3 DEF Known, UiTyped
    <3> QED BY <1>2, <2>1, <2>3, <3>1
  <2> QED BY <1>6, <2>2, <2>3 DEF CancelReturns
<1>7. CASE SessionSwitched
  <2>1. \A r \in Request : asked'[r] # "pending"
    BY <1>1, <1>7 DEF SessionSwitched
  <2> QED BY <2>1 DEF Awaited
<1>8. CASE RunChanges \/ PreparationChanges \/ ImageArrives \/ UNCHANGED interactionVars
  <2>1. UNCHANGED <<asked, ui, released>>
    BY <1>8 DEF RunChanges, PreparationChanges, ImageArrives, interactionVars
  <2> QED BY <1>2, <2>1
<1>9. CASE OtherSurface
  <2>1. UNCHANGED <<asked, released>>
    BY <1>9 DEF OtherSurface
  <2>2. SameRequests(ui, ui')
    <3>1. CASE Menu \in Range(ui.stack)
      BY <1>1, <1>9, <3>1, CloseSteady DEF OtherSurface
    <3>2. CASE Menu \notin Range(ui.stack)
      BY <1>1, <1>9, <3>2, SurfaceFacts, OpenSteady DEF OtherSurface
    <3> QED BY <3>1, <3>2
  <2> QED BY <1>2, <2>1, <2>2 DEF SameRequests, Known
<1>10. ASSUME NEW k \in Pressed, KeyPress(k)  PROVE Awaited'
  BY <1>2, <1>3, <1>10, KeyRequests
<1> QED BY <1>4, <1>5, <1>6, <1>7, <1>8, <1>9, <1>10 DEF InteractionNext

\* Theorem: in every instance the requests the Host waits for are the one shown
\* and those queued behind it, each once, but for one whose cancellation has
\* returned, and the surface of the request shown is the only one of a request
\* (PendingShown; process.ts: enqueue, startNext, complete, cancel).
THEOREM RequestsShown == InteractionSpec => []PendingShown
<1>1. InteractionInv /\ Awaited => PendingShown
  <2> SUFFICES ASSUME InteractionInv, Awaited  PROVE PendingShown
    OBVIOUS
  <2>1. UiTyped(ui) /\ Presented(ui) /\ \A r \in Known(ui) : asked[r] = "pending"
    BY DEF InteractionInv, Steady, Kept
  <2>2. /\ IsInjective(ui.queue) /\ ui.key \notin Range(ui.queue)
        /\ ui.queue # <<>> => ui.key # NoRequest
    BY <2>1 DEF Presented
  <2>3. Menu.owner \notin Request /\ NoSurface # Menu
    BY SurfaceFacts DEF Menu, Surface
  <2>4. ASSUME NEW i \in 1 .. Len(ui.stack), ui.stack[i].owner \in Request
        PROVE  ui.stack[i] = ui.surface /\ ui.surface.owner = ui.key
    <3>1. ui.stack[i] \in Range(ui.stack)
      BY <2>1 DEF UiTyped, Range
    <3> QED BY <2>1, <2>3, <2>4, <3>1 DEF Presented
  <2>5. ui.key # NoRequest <=> ui.surface \in Range(ui.stack)
    BY <2>1, <2>3 DEF Presented
  <2>6. \A r \in Request : r \in Known(ui) <=> r = ui.key \/ r \in Range(ui.queue)
    BY DEF Known
  <2>7. \A r \in Request :
          /\ r = ui.key \/ r \in Range(ui.queue) => asked[r] = "pending"
          /\ asked[r] = "pending" => r = ui.key \/ r \in Range(ui.queue) \/ r \in released
    BY <2>1, <2>6 DEF Awaited
  <2> QED BY <2>2, <2>4, <2>5, <2>7 DEF PendingShown
<1>2. InteractionInit => Awaited
  BY DEF InteractionInit, Awaited
<1> QED BY <1>1, <1>2, InteractionInitial, InteractionStep, AwaitedStep, PTL DEF InteractionSpec

\* Theorem: in every instance a key goes to the composer or to the surface on
\* top; to the one on top, and back to where it went before, until the rail is
\* left under a surface or by a change of the Session (FocusOwned;
\* surface-host.ts: applyActiveSurface, composer/process.ts: leaveAttachmentRail).
THEOREM FocusComesBack == InteractionSpec => []FocusOwned
<1>1. InteractionInv => FocusOwned
  <2> SUFFICES ASSUME InteractionInv  PROVE FocusOwned
    OBVIOUS
  <2>1. FocusOn(ui, Home, strayed)
    BY DEF InteractionInv, Steady
  <2>2. ui.focus \in {Editor, Rail} \cup IF ui.stack = <<>> THEN {} ELSE {Last(ui.stack)}
    BY <2>1 DEF FocusOn
  <2> QED BY <2>1, <2>2 DEF FocusOn, FocusOwned, Home
<1> QED BY <1>1, InteractionInitial, InteractionStep, PTL DEF InteractionSpec

\* Lemma: an answer is that of the surface on top.
LEMMA AnswerStep ==
  ASSUME InteractionInv, [InteractionNext]_interactionVars,
         NEW r \in Request, asked'[r] = "answered", asked[r] # "answered"
  PROVE  /\ Top.owner = r /\ Top.page = Len(PagesOf[r])
         /\ ui.key = r /\ r \notin cancels
<1>1. asked \in [Request -> {"new", "pending", "answered", "withdrawn", "retired"}]
  BY DEF InteractionInv
<1>2. asked' # asked
  OBVIOUS
<1>3. PICK k \in Pressed : KeyPress(k)
  <2>1. ASSUME NEW q \in Request, HostAsks(q) \/ HostWithdraws(q) \/ CancelReturns(q)  PROVE FALSE
    BY <1>1, <2>1 DEF HostAsks, HostWithdraws, CancelReturns
  <2>2. ~SessionSwitched
    BY <1>1 DEF SessionSwitched
  <2>3. ~(RunChanges \/ PreparationChanges \/ ImageArrives \/ OtherSurface)
    BY <1>2 DEF RunChanges, PreparationChanges, ImageArrives, OtherSurface
  <2>4. ~UNCHANGED interactionVars
    BY <1>2 DEF interactionVars
  <2> QED BY <2>1, <2>2, <2>3, <2>4 DEF InteractionNext
<1>4. ~Interrupt
  BY <1>2, CancelKeeps
<1>5. ~CancelOrExit
  BY <1>2, <1>4 DEF CancelOrExit
<1>6. /\ Top = ui.surface /\ ui.surface.owner = ui.key /\ ui.key \in Request
      /\ AnswerPage(ui.surface) \/ AnswerOtherwise(ui.surface)
  BY <1>2, <1>3, <1>4, <1>5, KeyDoes DEF OtherSurface, FocusAttachments, LeaveRail, interactionVars
<1>7. ui.surface.page = Len(PagesOf[ui.key]) /\ Respond(ui.key)
  BY <1>2, <1>6 DEF AnswerPage, AnswerOtherwise
<1>8. ui.phase = "open" /\ asked' = [asked EXCEPT ![ui.key] = "answered"]
  BY <1>2, <1>7 DEF Respond
<1>9. ui.key = r
  BY <1>1, <1>6, <1>8
<1>10. r \notin cancels
  BY <1>8, <1>9 DEF InteractionInv, Kept
<1> QED BY <1>6, <1>7, <1>9, <1>10

\* Theorem: the Host gets an answer only from the request on top of the stack, on
\* its last page and while it is not being cancelled (AnswersWhatIsShown).
THEOREM AnswersShown == InteractionSpec => AnswersWhatIsShown
<1>1. InteractionInv /\ [InteractionNext]_interactionVars =>
        [\A r \in Request : asked'[r] = "answered" /\ asked[r] # "answered" =>
           /\ Top.owner = r /\ Top.page = Len(PagesOf[r])
           /\ ui.key = r /\ r \notin cancels]_interactionVars
  BY AnswerStep
<1> QED BY <1>1, InteractionInitial, InteractionStep, PTL DEF InteractionSpec, AnswersWhatIsShown

-----------------------------------------------------------------------------
(***************************************************************************)
(* The ledger.  It is built one event after the other; what has been built *)
(* when an event is reached has one record for each node met so far, so    *)
(* the end of a node finds its start or stands for it.                     *)
(***************************************************************************)
Window(w) == w.from \in 1 .. Len(EventLog) /\ w.to \in w.from .. Len(EventLog)

\* What the ledger of a window is once the events up to i have been read.
ReadUpTo(w, i, s) ==
  /\ s \in Seq({RecordOf(w, j) : j \in w.from .. w.to})
  /\ \A m \in 1 .. Len(s) : \E j \in w.from .. i : Yields(w, j) /\ s[m] = RecordOf(w, j)
  /\ \A j \in w.from .. i : Yields(w, j) => \E m \in 1 .. Len(s) : s[m].key = EventLog[j].key
  /\ \A m, n \in 1 .. Len(s) : s[m].key = s[n].key => m = n

\* Lemma: two events of a window that yield records are of different nodes.
LEMMA YieldsOnce ==
  ASSUME NEW w, Window(w), NEW i \in w.from .. w.to, NEW j \in w.from .. w.to, i < j,
         Yields(w, j)
  PROVE  EventLog[i].key # EventLog[j].key
<1> SUFFICES ASSUME EventLog[i].key = EventLog[j].key  PROVE FALSE
  OBVIOUS
<1>1. i \in 1 .. Len(EventLog) /\ j \in 1 .. Len(EventLog)
  BY TrajectoryAssumption DEF Window
<1>2. EventLog[i].role = "start" /\ EventLog[j].role = "end" /\ EventLog[i].kind = EventLog[j].kind
  BY <1>1, TrajectoryAssumption
<1>3. Starts(w, EventLog[j].key, EventLog[j].kind)
  BY <1>2 DEF Starts
<1> QED  BY <1>2, <1>3 DEF Yields

\* Lemma: the next event adds its record, or has one already.
LEMMA ReadsNext ==
  ASSUME NEW w, Window(w), NEW i \in w.from .. w.to, NEW s, ReadUpTo(w, i - 1, s)
  PROVE  ReadUpTo(w, i, IF Yields(w, i) THEN Append(s, RecordOf(w, i)) ELSE s)
<1> DEFINE R == {RecordOf(w, j) : j \in w.from .. w.to}
           r == RecordOf(w, i)
           t == Append(s, r)
<1>0. i \in Int /\ w.from \in Int /\ w.to \in Int
  BY TrajectoryAssumption DEF Window
<1>1. s \in Seq(R) /\ r \in R /\ r.key = EventLog[i].key
  BY DEF ReadUpTo, RecordOf
<1>2. /\ \A m \in 1 .. Len(s) : \E j \in w.from .. i - 1 : Yields(w, j) /\ s[m] = RecordOf(w, j)
      /\ \A j \in w.from .. i - 1 : Yields(w, j) => \E m \in 1 .. Len(s) : s[m].key = EventLog[j].key
      /\ \A m, n \in 1 .. Len(s) : s[m].key = s[n].key => m = n
  BY DEF ReadUpTo
<1>3. CASE ~Yields(w, i)
  <2>1. \A m \in 1 .. Len(s) : \E j \in w.from .. i : Yields(w, j) /\ s[m] = RecordOf(w, j)
    BY <1>0, <1>2
  <2>2. \A j \in w.from .. i : Yields(w, j) => \E m \in 1 .. Len(s) : s[m].key = EventLog[j].key
    <3>1. \A j \in w.from .. i : j = i \/ j \in w.from .. i - 1
      BY <1>0
    <3> QED  BY <1>2, <1>3, <3>1
  <2>3. ReadUpTo(w, i, s)
    BY <1>1, <1>2, <2>1, <2>2 DEF ReadUpTo
  <2> QED  BY <1>3, <2>3
<1>4. CASE Yields(w, i)
  <2> HIDE DEF R, r
  <2>1. /\ t \in Seq(R) /\ Len(t) = Len(s) + 1 /\ Len(s) \in Nat
        /\ \A m \in 1 .. Len(s) : t[m] = s[m]
        /\ t[Len(s) + 1] = r
    BY <1>1
  <2> HIDE DEF t
  <2>2. \A m \in 1 .. Len(t) : m \in 1 .. Len(s) \/ m = Len(s) + 1
    BY <2>1
  <2>3. \A m \in 1 .. Len(s) : s[m].key # r.key
    <3> TAKE m \in 1 .. Len(s)
    <3>1. PICK j \in w.from .. i - 1 : s[m] = RecordOf(w, j)
      BY <1>2
    <3>2. j \in w.from .. w.to /\ j < i
      BY <1>0, <3>1
    <3>3. EventLog[j].key # EventLog[i].key
      BY <1>4, <3>2, YieldsOnce
    <3> QED  BY <1>1, <3>1, <3>3 DEF RecordOf
  <2>4. \A m \in 1 .. Len(t) : \E j \in w.from .. i : Yields(w, j) /\ t[m] = RecordOf(w, j)
    <3> TAKE m \in 1 .. Len(t)
    <3>1. CASE m \in 1 .. Len(s)
      <4>1. PICK j \in w.from .. i - 1 : Yields(w, j) /\ s[m] = RecordOf(w, j)
        BY <1>2, <3>1
      <4>2. j \in w.from .. i
        BY <1>0, <4>1
      <4> QED  BY <2>1, <3>1, <4>1, <4>2
    <3>2. CASE m = Len(s) + 1
      <4>1. i \in w.from .. i
        BY <1>0
      <4> QED  BY <1>4, <2>1, <3>2, <4>1 DEF r
    <3> QED  BY <2>2, <3>1, <3>2
  <2>5. \A j \in w.from .. i : Yields(w, j) => \E m \in 1 .. Len(t) : t[m].key = EventLog[j].key
    <3> TAKE j \in w.from .. i
    <3> HAVE Yields(w, j)
    <3>1. CASE j = i
      <4>1. Len(s) + 1 \in 1 .. Len(t)
        BY <2>1
      <4> QED  BY <1>1, <2>1, <3>1, <4>1
    <3>2. CASE j # i
      <4>1. j \in w.from .. i - 1
        BY <1>0, <3>2
      <4>2. PICK m \in 1 .. Len(s) : s[m].key = EventLog[j].key
        BY <1>2, <4>1
      <4>3. m \in 1 .. Len(t)
        BY <2>1, <4>2
      <4> QED  BY <2>1, <4>2, <4>3
    <3> QED  BY <3>1, <3>2
  <2>6. \A m, n \in 1 .. Len(t) : t[m].key = t[n].key => m = n
    BY <1>2, <2>1, <2>2, <2>3
  <2>7. ReadUpTo(w, i, t)
    BY <2>1, <2>4, <2>5, <2>6 DEF ReadUpTo, R
  <2> QED  BY <1>4, <2>7 DEF t, r
<1> QED  BY <1>3, <1>4

\* Lemma: numbers that are reached one by one from a first one are reached all.
LEMMA Reached ==
  ASSUME NEW M \in Nat, NEW N \in Nat, M <= N, NEW T, M \in T, \A n \in M + 1 .. N : n - 1 \in T => n \in T
  PROVE  \A n \in M .. N : n \in T
<1> DEFINE missing == {n \in M .. N : n \notin T}
<1> SUFFICES ASSUME missing # {}  PROVE FALSE
  OBVIOUS
<1>1. PICK x \in missing : \A y \in missing : x <= y
  <2>1. missing \subseteq Nat
    OBVIOUS
  <2> HIDE DEF missing
  <2> QED  BY <2>1, LeastElement
<1>2. x \in M + 1 .. N /\ x - 1 \in M .. N
  BY <1>1
<1>3. x - 1 \notin missing
  BY <1>1, <1>2
<1> QED  BY <1>1, <1>2, <1>3

\* Lemma: the ledger of a window has one record for each node in it.
LEMMA LedgerRead ==
  ASSUME NEW w, Window(w)
  PROVE  ReadUpTo(w, w.to, Records(w))
<1> DEFINE M == w.from - 1
           N == w.to
           Value(h, i) == IF i < w.from THEN <<>>
                          ELSE IF Yields(w, i) THEN Append(h[i - 1], RecordOf(w, i)) ELSE h[i - 1]
           step(h) == [i \in M .. N |-> Value(h, i)]
           built == CHOOSE h : h = step(h)
           Upto(k, h) == DOMAIN h = M .. k /\ \A i \in M .. k : h[i] = Value(h, i)
           T == {k \in M .. N : \E h : h = [i \in M .. k |-> h[i]] /\ Upto(k, h)}
<1>0. M \in Nat /\ N \in Nat /\ M <= N /\ w.from = M + 1
  BY TrajectoryAssumption DEF Window
<1>1. Records(w) = built[N]
  BY DEF Records
<1>2. M \in T
  <2> DEFINE g == [i \in M .. M |-> <<>>]
  <2>1. g = [i \in M .. M |-> g[i]] /\ Upto(M, g)
    BY <1>0
  <2> HIDE DEF g, Upto
  <2> QED  BY <1>0, <2>1
<1>3. ASSUME NEW k \in M + 1 .. N, k - 1 \in T  PROVE k \in T
  <2>1. PICK h : h = [i \in M .. k - 1 |-> h[i]] /\ Upto(k - 1, h)
    BY <1>3
  <2> DEFINE g == [i \in M .. k |-> IF i = k THEN Value(h, k) ELSE h[i]]
  <2>2. k \in M .. N /\ k \in Int /\ M \in Int
    BY <1>0
  <2> HIDE DEF N, M
  <2>3. DOMAIN g = M .. k /\ g = [i \in M .. k |-> g[i]]
    OBVIOUS
  <2>4. ASSUME NEW i \in M .. k  PROVE g[i] = Value(g, i)
    <3>1. CASE i = k
      <4>1. k - 1 \in M .. k /\ k - 1 # k
        BY <1>3, <2>2
      <4>2. g[k - 1] = h[k - 1] /\ g[i] = Value(h, i)
        BY <3>1, <4>1
      <4> HIDE DEF g
      <4> QED  BY <3>1, <4>2
    <3>2. CASE i # k
      <4>1. i \in M .. k - 1 /\ g[i] = h[i]
        BY <2>2, <3>2
      <4>2. h[i] = Value(h, i)
        BY <2>1, <4>1
      <4>3. CASE i < w.from
        BY <4>1, <4>2, <4>3
      <4>4. CASE ~(i < w.from)
        <5>1. i - 1 \in M .. k /\ i - 1 # k
          BY <1>0, <2>2, <4>1, <4>4
        <5>2. g[i - 1] = h[i - 1]
          BY <5>1
        <5> HIDE DEF g
        <5> QED  BY <4>1, <4>2, <5>2
      <4> QED  BY <4>3, <4>4
    <3> QED  BY <3>1, <3>2
  <2>5. Upto(k, g)
    BY <2>3, <2>4
  <2> HIDE DEF g, Upto
  <2> QED  BY <2>2, <2>3, <2>5
<1>4. N \in T
  <2>1. \A n \in M .. N : n \in T
    <3> HIDE DEF T, M, N
    <3> QED  BY <1>0, <1>2, <1>3, Reached
  <2> HIDE DEF T
  <2> QED  BY <1>0, <2>1
<1>5. PICK h : h = [i \in M .. N |-> h[i]] /\ Upto(N, h)
  BY <1>4
<1>6. h = step(h)
  <2> HIDE DEF M, N, Value
  <2>1. step(h) = [i \in M .. N |-> h[i]]
    BY <1>5
  <2> HIDE DEF step
  <2> QED  BY <1>5, <2>1
<1>7. built = step(built)
  <2> HIDE DEF step
  <2> QED  BY <1>6
<1> HIDE DEF built
<1>8. \A i \in M .. N : built[i] = Value(built, i)
  <2> HIDE DEF Value, M, N
  <2> QED  BY <1>7
<1> DEFINE right == {n \in M .. N : ReadUpTo(w, n, built[n])}
<1>9. M \in right
  <2>1. built[M] = <<>> /\ M \in M .. N
    BY <1>0, <1>8
  <2>2. w.from .. M = {}
    BY <1>0
  <2>3. ReadUpTo(w, M, <<>>)
    <3> HIDE DEF M, N
    <3> QED  BY <2>2 DEF ReadUpTo
  <2> QED  BY <2>1, <2>3
<1>10. ASSUME NEW n \in M + 1 .. N, n - 1 \in right  PROVE n \in right
  <2>1. n \in w.from .. w.to /\ n \in M .. N /\ ~(n < w.from)
    BY <1>0
  <2>2. built[n] = IF Yields(w, n) THEN Append(built[n - 1], RecordOf(w, n)) ELSE built[n - 1]
    BY <1>8, <2>1
  <2>3. ReadUpTo(w, n - 1, built[n - 1])
    BY <1>10
  <2>4. ReadUpTo(w, n, built[n])
    BY <2>1, <2>2, <2>3, ReadsNext
  <2> QED  BY <2>1, <2>4
<1>11. \A n \in M .. N : n \in right
  <2> HIDE DEF right, M, N
  <2> QED  BY <1>0, <1>9, <1>10, Reached
<1> QED  BY <1>0, <1>1, <1>11

\* Lemma: a window that grows loses no node: where the end of one stood for
\* it, its start does once that is loaded.
LEMMA NodesStay ==
  ASSUME NEW w, NEW v, Window(w), Window(v), v.from <= w.from, w.to <= v.to,
         NEW m \in 1 .. Len(Records(w))
  PROVE  \E n \in 1 .. Len(Records(v)) : Records(v)[n].key = Records(w)[m].key
<1>1. ReadUpTo(w, w.to, Records(w)) /\ ReadUpTo(v, v.to, Records(v))
  BY LedgerRead
<1>2. PICK j \in w.from .. w.to : Records(w)[m] = RecordOf(w, j)
  BY <1>1 DEF ReadUpTo
<1>3. Records(w)[m].key = EventLog[j].key
  BY <1>2 DEF RecordOf
<1>4. j \in v.from .. v.to
  BY TrajectoryAssumption DEF Window
<1>5. \A i \in v.from .. v.to : Yields(v, i) =>
        \E n \in 1 .. Len(Records(v)) : Records(v)[n].key = EventLog[i].key
  BY <1>1 DEF ReadUpTo
<1>6. CASE Yields(v, j)
  BY <1>3, <1>4, <1>5, <1>6
<1>7. CASE ~Yields(v, j)
  <2>1. PICK i \in v.from .. v.to : EventLog[i].role = "start" /\ EventLog[i].key = EventLog[j].key
    BY <1>7 DEF Yields, Starts
  <2>2. Yields(v, i)
    BY <2>1 DEF Yields
  <2> QED  BY <1>3, <1>5, <2>1, <2>2
<1> QED  BY <1>6, <1>7

\* Lemma: the least element of a set of numbers is one of them.
LEMMA MinIn ==
  ASSUME NEW S, S \subseteq Nat, S # {}
  PROVE  Min(S) \in S
<1>1. \E x \in S : \A y \in S : x <= y
  BY LeastElement
<1> QED  BY <1>1 DEF Min

\* Lemma: the last row of a ledger that has one.
LEMMA LastRow ==
  ASSUME NEW ledger, Len(ledger) \in Nat \ {0}
  PROVE  LastOf(ledger) = Len(ledger)
<1> DEFINE n == Len(ledger)
<1>1. n \in Nat /\ n >= 1
  OBVIOUS
<1> HIDE DEF n
<1>2. \E x \in {1, n} : \A y \in {1, n} : x >= y
  BY <1>1
<1>3. Max({1, n}) \in {1, n} /\ \A y \in {1, n} : Max({1, n}) >= y
  BY <1>2 DEF Max
<1>4. Max({1, n}) = n
  BY <1>1, <1>3
<1> QED  BY <1>4 DEF n, LastOf

(***************************************************************************)
(* The view.  Whatever a step did, it ends in syncing the browser, which   *)
(* makes the Request follow the selected Step and the loaded window; the   *)
(* invariant adds what a browser that prepares was opened for.             *)
(***************************************************************************)
ViewFields(v) ==
  /\ DOMAIN v = {"open", "records", "mode", "index", "follow", "tab", "folded", "info", "split", "loading", "browser"}
  /\ DOMAIN v.browser = {"owner", "opened", "active", "preparing"}
  /\ v.browser.active \in BOOLEAN /\ v.browser.preparing \in BOOLEAN
  /\ v.open = TRUE

\* The Request shown is of the selected Step and of the window w.
Asked(v, w) ==
  /\ v.browser # NoBrowser => v.browser.owner = Selected(v).key
  /\ v.browser.active => v.browser.opened = <<w, Availability(w)>>
  /\ v.browser.preparing => v.browser.active /\ w.from = 1

Truthful(v, w) == ViewFields(v) /\ v.records = Records(w) /\ Asked(v, w)

TrajectoryInv ==
  /\ loaded \in [from : 1 .. Len(EventLog), to : 1 .. Len(EventLog)] /\ loaded.from <= loaded.to
  /\ view = NoView \/ Truthful(view, loaded)

\* Lemma: syncing makes the browser that of the selected Step and of w, if what
\* it prepared so far was of a window without missing history.
LEMMA Synced ==
  ASSUME NEW v, NEW w, NEW before, ViewFields(v), v.records = Records(w),
         v.browser.active => v.browser.opened = <<before, Availability(before)>>,
         v.browser.preparing => v.browser.active /\ before.from = 1
  PROVE  /\ Truthful(SyncRequest(v, w), w)
         /\ SyncRequest(v, w).index = v.index /\ SyncRequest(v, w).follow = v.follow
<1> DEFINE r == Selected(v)
           active == (v.mode = "detail" \/ v.split) /\ TabNames[v.tab] = "payload" /\ r.kind = "step"
           own == IF v.browser.owner = r.key THEN v.browser ELSE [NoBrowser EXCEPT !.owner = r.key]
           left == IF own.active /\ own.preparing THEN [own EXCEPT !.opened = <<>>, !.preparing = FALSE] ELSE own
           now == <<w, Availability(w)>>
           b == CASE r.kind # "step" -> NoBrowser
                  [] r.kind = "step" /\ ~active -> [left EXCEPT !.active = FALSE]
                  [] r.kind = "step" /\ active /\ own.opened = now -> [own EXCEPT !.active = TRUE]
                  [] OTHER -> [own EXCEPT !.opened = now, !.active = TRUE, !.preparing = (w.from = 1)]
           s == [v EXCEPT !.browser = b]
           B == {"owner", "opened", "active", "preparing"}
<1>1. SyncRequest(v, w) = s
  BY DEF SyncRequest
<1>2. /\ DOMAIN own = B /\ own.active \in BOOLEAN /\ own.preparing \in BOOLEAN
      /\ own.owner = r.key
      /\ own.preparing => own.active /\ own.opened = <<before, Availability(before)>> /\ before.from = 1
  <2>1. CASE v.browser.owner = r.key
    <3>1. own = v.browser
      BY <2>1
    <3> QED  BY <2>1, <3>1 DEF ViewFields
  <2>2. CASE v.browser.owner # r.key
    <3>1. own = [NoBrowser EXCEPT !.owner = r.key]
      BY <2>2
    <3> QED  BY <3>1 DEF NoBrowser
  <2> QED  BY <2>1, <2>2
<1> HIDE DEF own, r
<1>3. /\ DOMAIN b = B /\ b.active \in BOOLEAN /\ b.preparing \in BOOLEAN
      /\ b # NoBrowser => b.owner = r.key
      /\ b.active => b.opened = now
      /\ b.preparing => b.active /\ w.from = 1
  <2> HIDE DEF active
  <2>1. CASE r.kind # "step"
    <3>1. b = NoBrowser
      BY <2>1
    <3> HIDE DEF b
    <3> QED  BY <3>1 DEF NoBrowser
  <2>2. CASE r.kind = "step" /\ ~active
    <3>1. b = [left EXCEPT !.active = FALSE]
      BY <2>2
    <3>2. DOMAIN left = B /\ left.preparing = FALSE /\ left.owner = r.key
      <4>1. CASE own.active /\ own.preparing
        BY <1>2, <4>1
      <4>2. CASE ~(own.active /\ own.preparing)
        BY <1>2, <4>2
      <4> QED  BY <4>1, <4>2
    <3> HIDE DEF b, left
    <3> QED  BY <3>1, <3>2
  <2>3. CASE r.kind = "step" /\ active /\ own.opened = now
    <3>1. b = [own EXCEPT !.active = TRUE]
      BY <2>3
    <3>2. own.preparing => before = w
      BY <1>2, <2>3
    <3> HIDE DEF b
    <3> QED  BY <1>2, <2>3, <3>1, <3>2
  <2>4. CASE r.kind = "step" /\ active /\ own.opened # now
    <3>1. b = [own EXCEPT !.opened = now, !.active = TRUE, !.preparing = (w.from = 1)]
      BY <2>4
    <3> HIDE DEF b, now
    <3> QED  BY <1>2, <3>1
  <2> QED  BY <2>1, <2>2, <2>3, <2>4
<1> HIDE DEF b
<1>4. /\ DOMAIN s = DOMAIN v /\ s.browser = b /\ s.records = v.records /\ s.index = v.index
      /\ s.follow = v.follow /\ s.open = v.open
  BY DEF ViewFields
<1> HIDE DEF s
<1>5. Selected(s) = r
  BY <1>4 DEF Selected, r
<1>6. ViewFields(s)
  BY <1>3, <1>4 DEF ViewFields
<1>7. Asked(s, w)
  BY <1>3, <1>4, <1>5 DEF Asked
<1> QED  BY <1>1, <1>4, <1>6, <1>7 DEF Truthful

\* Lemma: a snapshot selects the record that was selected.
LEMMA Reselected ==
  ASSUME NEW v, NEW w, NEW before, ViewFields(v), Asked(v, before)
  PROVE  LET ledger == Records(w)
             same == {n \in DOMAIN ledger : ledger[n].key = Selected(v).key} IN
         /\ Truthful(SetState(v, w), w)
         /\ SetState(v, w).index = IF v.follow \/ same = {} THEN LastOf(ledger) ELSE Min(same)
<1> DEFINE ledger == Records(w)
           same == {n \in DOMAIN ledger : ledger[n].key = Selected(v).key}
           at == IF v.follow \/ same = {} THEN LastOf(ledger) ELSE Min(same)
           u == [v EXCEPT !.records = ledger, !.index = at]
<1>1. SetState(v, w) = SyncRequest(u, w)
  BY DEF SetState
<1> HIDE DEF at
<1>2. ViewFields(u) /\ u.records = ledger /\ u.index = at /\ u.browser = v.browser
  BY DEF ViewFields
<1> HIDE DEF u, ledger
<1>3. /\ u.browser.active => u.browser.opened = <<before, Availability(before)>>
      /\ u.browser.preparing => u.browser.active /\ before.from = 1
  BY <1>2 DEF Asked
<1>4. u.records = Records(w)
  BY <1>2 DEF ledger
<1>5. Truthful(SyncRequest(u, w), w) /\ SyncRequest(u, w).index = u.index
  BY <1>2, <1>3, <1>4, Synced
<1> QED  BY <1>1, <1>2, <1>5 DEF at, ledger

\* Lemma: a key changes what is selected and shown; the ledger and the browser
\* it finds are those of the window.
LEMMA KeyKeeps ==
  ASSUME TrajectoryInv, view.open, NEW v, ViewFields(v), v.records = view.records, v.browser = view.browser,
         view' = SyncRequest(v, loaded), loaded' = loaded
  PROVE  TrajectoryInv'
<1>1. Truthful(view, loaded)
  BY DEF TrajectoryInv, NoView
<1>2. /\ v.records = Records(loaded)
      /\ v.browser.active => v.browser.opened = <<loaded, Availability(loaded)>>
      /\ v.browser.preparing => v.browser.active /\ loaded.from = 1
  BY <1>1 DEF Truthful, Asked
<1>3. Truthful(SyncRequest(v, loaded), loaded)
  BY <1>2, Synced
<1>4. PICK s : s = SyncRequest(v, loaded)
  OBVIOUS
<1>5. view' = s /\ Truthful(s, loaded)
  BY <1>3, <1>4
<1>6. PICK l : l = loaded
  OBVIOUS
<1>7. Truthful(s, l) /\ loaded' = l /\ view' = s
  BY <1>5, <1>6
<1>8. TrajectoryInv'
  <2>1. loaded' \in [from : 1 .. Len(EventLog), to : 1 .. Len(EventLog)] /\ loaded'.from <= loaded'.to
    BY DEF TrajectoryInv
  <2>2. Truthful(view', loaded')
    BY <1>7
  <2> QED  BY <2>1, <2>2 DEF TrajectoryInv
<1> QED  BY <1>8

\* Lemma: what the proof speaks of is not in the fields beside it.
LEMMA SameShown ==
  ASSUME NEW v, NEW u, NEW w, Truthful(v, w), ViewFields(u),
         u.records = v.records, u.browser = v.browser, u.index = v.index
  PROVE  Truthful(u, w)
<1>1. Selected(u) = Selected(v)
  BY DEF Selected
<1> QED  BY <1>1 DEF Truthful, Asked

\* Lemma: at the start no ledger is open.
LEMMA TrajectoryInitial == TrajectoryInit => TrajectoryInv
  BY TrajectoryAssumption DEF TrajectoryInit, TrajectoryInv

\* Lemma: what a snapshot makes of an open view.
LEMMA SnapshotTaken ==
  ASSUME TrajectoryInv, view.open, NEW w
  PROVE  Truthful(SetState(view, w), w)
<1>1. ViewFields(view) /\ Asked(view, loaded)
  BY DEF TrajectoryInv, NoView, Truthful
<1> QED  BY <1>1, Reselected

\* Lemma: an event that arrives at the end.
LEMMA ArrivesKeeps == TrajectoryInv /\ Arrives => TrajectoryInv'
<1> SUFFICES ASSUME TrajectoryInv, Arrives  PROVE TrajectoryInv'
  OBVIOUS
<1>1. PICK l : l = [loaded EXCEPT !.to = @ + 1]
  OBVIOUS
<1>2. loaded' = l /\ view' = IF view.open THEN SetState(view, l) ELSE view
  BY <1>1 DEF Arrives
<1>3. loaded' \in [from : 1 .. Len(EventLog), to : 1 .. Len(EventLog)] /\ loaded'.from <= loaded'.to
  BY TrajectoryAssumption DEF Arrives, TrajectoryInv
<1>4. view' = NoView \/ Truthful(view', loaded')
  <2>1. CASE view.open
    <3>1. PICK s : s = SetState(view, l)
      OBVIOUS
    <3>2. Truthful(s, l)
      BY <2>1, <3>1, SnapshotTaken
    <3> QED  BY <1>2, <2>1, <3>1, <3>2
  <2>2. CASE ~view.open
    <3>1. view = NoView
      BY <2>2 DEF TrajectoryInv, Truthful, ViewFields
    <3> QED  BY <1>2, <2>2, <3>1
  <2> QED  BY <2>1, <2>2
<1> QED  BY <1>3, <1>4 DEF TrajectoryInv

\* Lemma: a page that arrives before the window, or does not.
LEMMA PageKeeps == TrajectoryInv /\ PageSettles => TrajectoryInv'
<1> SUFFICES ASSUME TrajectoryInv, PageSettles  PROVE TrajectoryInv'
  OBVIOUS
<1>1. PICK from \in 1 .. loaded.from :
        /\ loaded' = [loaded EXCEPT !.from = from]
        /\ view' = IF view.open
                   THEN [(IF from = loaded.from THEN view ELSE SetState(view, loaded')) EXCEPT !.loading = FALSE]
                   ELSE view
  BY DEF PageSettles
<1>2. PICK l : l = [loaded EXCEPT !.from = from]
  OBVIOUS
<1>3. loaded' = l
  BY <1>1, <1>2
<1>4. loaded' \in [from : 1 .. Len(EventLog), to : 1 .. Len(EventLog)] /\ loaded'.from <= loaded'.to
  BY <1>1, TrajectoryAssumption DEF TrajectoryInv
<1>5. view' = NoView \/ Truthful(view', loaded')
  <2>1. CASE ~view.open
    <3>1. view = NoView
      BY <2>1 DEF TrajectoryInv, Truthful, ViewFields
    <3> QED  BY <1>1, <2>1, <3>1
  <2>2. CASE view.open
    <3> PICK v : v = IF from = loaded.from THEN view ELSE SetState(view, l)
      OBVIOUS
    <3>1. Truthful(v, l)
      <4>1. CASE from = loaded.from
        <5>1. l = loaded
          BY <1>2, <4>1 DEF TrajectoryInv
        <5>2. Truthful(view, loaded)
          BY <2>2 DEF TrajectoryInv, NoView
        <5> QED  BY <4>1, <5>1, <5>2
      <4>2. CASE from # loaded.from
        <5>1. Truthful(SetState(view, l), l)
          BY <2>2, SnapshotTaken
        <5> QED  BY <4>2, <5>1
      <4> QED  BY <4>1, <4>2
    <3>2. PICK u : u = [v EXCEPT !.loading = FALSE]
      OBVIOUS
    <3>3. ViewFields(v)
      BY <3>1 DEF Truthful
    <3>4. ViewFields(u) /\ u.records = v.records /\ u.browser = v.browser /\ u.index = v.index
      BY <3>2, <3>3 DEF ViewFields
    <3>5. Truthful(u, l)
      BY <3>1, <3>4, SameShown
    <3>6. view' = u
      BY <1>1, <1>3, <2>2, <3>2
    <3> QED  BY <1>3, <3>5, <3>6
  <2> QED  BY <2>1, <2>2
<1> QED  BY <1>4, <1>5 DEF TrajectoryInv

\* Lemma: every action keeps the view truthful.
LEMMA TrajectoryStep == TrajectoryInv /\ [TrajectoryNext]_trajectoryVars => TrajectoryInv'
<1> SUFFICES ASSUME TrajectoryInv, [TrajectoryNext]_trajectoryVars  PROVE TrajectoryInv'
  OBVIOUS
<1> DEFINE Leads(v) == ViewFields(v) /\ v.records = view.records /\ v.browser = view.browser
<1>1. ASSUME view.open  PROVE ViewFields(view) /\ Truthful(view, loaded)
  BY <1>1 DEF TrajectoryInv, Truthful, NoView
<1>2. ASSUME NEW v, view.open, Leads(v), Key(v)  PROVE TrajectoryInv'
  BY <1>2, KeyKeeps DEF Key
<1>3. ASSUME view' = NoView, loaded' = loaded  PROVE TrajectoryInv'
  BY <1>3 DEF TrajectoryInv
<1>4. ASSUME view.open, NEW tab, NEW v, Leads(v)  PROVE Leads(ActivateTab(v, tab))
  BY <1>4 DEF ActivateTab, ViewFields
<1>5. ASSUME view.open, NEW offset  PROVE Leads(Moved(offset))
  <2>1. PICK index, follow : Moved(offset) = [view EXCEPT !.index = index, !.follow = follow]
    BY DEF Moved
  <2>2. ViewFields(view)
    BY <1>1, <1>5
  <2> QED  BY <2>1, <2>2 DEF ViewFields
<1>6. CASE Arrives
  BY <1>6, ArrivesKeeps
<1>7. CASE PageSettles
  BY <1>7, PageKeeps
<1>8. CASE Open
  <2>1. PICK s : s = Fresh(loaded)
    OBVIOUS
  <2>2. Truthful(s, loaded)
    BY <2>1 DEF Fresh, Truthful, ViewFields, Asked, NoBrowser
  <2>3. view' = s /\ loaded' = loaded
    BY <1>8, <2>1 DEF Open
  <2>4. Truthful(view', loaded')
    BY <2>2, <2>3
  <2> QED  BY <2>3, <2>4 DEF TrajectoryInv
<1>9. CASE Info
  <2>1. view.open /\ Key([view EXCEPT !.info = ~@])
    BY <1>9 DEF Info
  <2>2. Leads([view EXCEPT !.info = ~@])
    BY <1>1, <2>1 DEF ViewFields
  <2> QED  BY <1>2, <2>1, <2>2
<1>10. CASE Back
  <2>1. CASE view.open /\ view.info /\ Key([view EXCEPT !.info = FALSE])
    <3>1. Leads([view EXCEPT !.info = FALSE])
      BY <1>1, <2>1 DEF ViewFields
    <3> QED  BY <1>2, <2>1, <3>1
  <2>2. CASE Reading /\ Key([view EXCEPT !.mode = "list"])
    <3>1. view.open
      BY <2>2 DEF Reading
    <3>2. Leads([view EXCEPT !.mode = "list"])
      BY <1>1, <3>1 DEF ViewFields
    <3> QED  BY <1>2, <2>2, <3>1, <3>2
  <2>3. CASE view' = NoView /\ loaded' = loaded
    BY <1>3, <2>3
  <2> QED  BY <1>10, <2>1, <2>2, <2>3 DEF Back
<1>11. CASE Next_
  BY <1>2, <1>5, <1>11 DEF Next_, Listing
<1>12. CASE Previous
  <2>1. view.open
    BY <1>12 DEF Previous, Listing
  <2>2. CASE Key(Moved(-1))
    BY <1>2, <1>5, <2>1, <2>2
  <2>3. CASE Key(view)
    <3>1. Leads(view)
      BY <1>1, <2>1
    <3> QED  BY <1>2, <2>1, <2>3, <3>1
  <2>4. CASE Key([view EXCEPT !.loading = TRUE, !.follow = FALSE])
    <3>1. Leads([view EXCEPT !.loading = TRUE, !.follow = FALSE])
      BY <1>1, <2>1 DEF ViewFields
    <3> QED  BY <1>2, <2>1, <2>4, <3>1
  <2> QED  BY <1>12, <2>2, <2>3, <2>4 DEF Previous
<1>13. CASE First
  <2>1. view.open /\ \E index : Key([view EXCEPT !.index = index, !.follow = FALSE])
    BY <1>13 DEF First, Listing
  <2>2. PICK index : Key([view EXCEPT !.index = index, !.follow = FALSE])
    BY <2>1
  <2>3. Leads([view EXCEPT !.index = index, !.follow = FALSE])
    BY <1>1, <2>1 DEF ViewFields
  <2> QED  BY <1>2, <2>1, <2>2, <2>3
<1>14. CASE Tail_
  <2>1. view.open /\ \E index : Key([view EXCEPT !.index = index, !.follow = TRUE])
    BY <1>14 DEF Tail_, Listing
  <2>2. PICK index : Key([view EXCEPT !.index = index, !.follow = TRUE])
    BY <2>1
  <2>3. Leads([view EXCEPT !.index = index, !.follow = TRUE])
    BY <1>1, <2>1 DEF ViewFields
  <2> QED  BY <1>2, <2>1, <2>2, <2>3
<1>15. CASE Collapse
  <2>1. view.open /\ \E folded, index : Key([view EXCEPT !.follow = FALSE, !.folded = folded, !.index = index])
    BY <1>15 DEF Collapse, Listing
  <2>2. PICK folded, index : Key([view EXCEPT !.follow = FALSE, !.folded = folded, !.index = index])
    BY <2>1
  <2>3. Leads([view EXCEPT !.follow = FALSE, !.folded = folded, !.index = index])
    BY <1>1, <2>1 DEF ViewFields
  <2> QED  BY <1>2, <2>1, <2>2, <2>3
<1>16. CASE Expand
  <2>1. view.open /\ \E folded : Key([view EXCEPT !.folded = folded])
    BY <1>16 DEF Expand, Listing
  <2>2. PICK folded : Key([view EXCEPT !.folded = folded])
    BY <2>1
  <2>3. Leads([view EXCEPT !.folded = folded])
    BY <1>1, <2>1 DEF ViewFields
  <2> QED  BY <1>2, <2>1, <2>2, <2>3
<1>17. CASE Confirm \/ SelectTab \/ ClickTab
  <2>1. view.open
    BY <1>17 DEF Confirm, SelectTab, ClickTab, Listing, Reading
  <2>2. PICK tab : Key(ActivateTab(view, tab))
    BY <1>17 DEF Confirm, SelectTab, ClickTab
  <2>3. Leads(view)
    BY <1>1, <2>1
  <2> QED  BY <1>2, <1>4, <2>1, <2>2, <2>3
<1>18. CASE Prepared
  <2>1. PICK u : u = [view EXCEPT !.browser.preparing = FALSE]
    OBVIOUS
  <2>2. view' = u /\ loaded' = loaded /\ view.open
    BY <1>18, <2>1 DEF Prepared
  <2>3. Truthful(view, loaded)
    BY <1>1, <2>2
  <2>4. /\ ViewFields(u) /\ u.records = view.records /\ u.index = view.index
        /\ u.browser.owner = view.browser.owner /\ u.browser.opened = view.browser.opened
        /\ u.browser.active = view.browser.active /\ u.browser.preparing = FALSE
    BY <2>1, <2>3 DEF Truthful, ViewFields
  <2>5. view.browser.preparing
    BY <1>18 DEF Prepared
  <2>6. Selected(u) = Selected(view)
    BY <2>4 DEF Selected
  <2>7. view.browser # NoBrowser
    BY <2>5 DEF NoBrowser
  <2>8. Truthful(u, loaded)
    BY <2>3, <2>4, <2>6, <2>7 DEF Truthful, Asked
  <2>9. Truthful(view', loaded')
    BY <2>2, <2>8
  <2> QED  BY <2>2, <2>9 DEF TrajectoryInv
<1>19. ASSUME NEW row \in drawn, ClickRow(row)  PROVE TrajectoryInv'
  <2>1. view.open /\ \E index, follow : Key([view EXCEPT !.index = index, !.mode = "list", !.follow = follow])
    BY <1>19 DEF ClickRow
  <2>2. PICK index, follow : Key([view EXCEPT !.index = index, !.mode = "list", !.follow = follow])
    BY <2>1
  <2>3. Leads([view EXCEPT !.index = index, !.mode = "list", !.follow = follow])
    BY <1>1, <2>1 DEF ViewFields
  <2> QED  BY <1>2, <2>1, <2>2, <2>3
<1>20. ASSUME NEW wide \in BOOLEAN, RenderFrame(wide)  PROVE TrajectoryInv'
  <2> PICK split : split = (wide /\ view.index \in DOMAIN Ledger)
    OBVIOUS
  <2> PICK v : v = SyncRequest([view EXCEPT !.split = split], loaded)
    OBVIOUS
  <2>1. view.open /\ loaded' = loaded /\ \/ view' = view
                                         \/ view' = v
                                         \/ view' = [v EXCEPT !.mode = "list"]
    BY <1>20 DEF RenderFrame
  <2>2. Truthful(view, loaded)
    BY <1>1, <2>1
  <2>3. Truthful(v, loaded)
    <3> PICK u : u = [view EXCEPT !.split = split]
      OBVIOUS
    <3>1. ViewFields(u) /\ u.records = view.records /\ u.browser = view.browser
      BY <2>2 DEF Truthful, ViewFields
    <3>2. /\ u.records = Records(loaded)
          /\ u.browser.active => u.browser.opened = <<loaded, Availability(loaded)>>
          /\ u.browser.preparing => u.browser.active /\ loaded.from = 1
      BY <2>2, <3>1 DEF Truthful, Asked
    <3>3. Truthful(SyncRequest(u, loaded), loaded)
      BY <3>1, <3>2, Synced
    <3> QED  BY <3>3
  <2>4. Truthful([v EXCEPT !.mode = "list"], loaded)
    <3> PICK u : u = [v EXCEPT !.mode = "list"]
      OBVIOUS
    <3>1. ViewFields(v)
      BY <2>3 DEF Truthful
    <3>2. ViewFields(u) /\ u.records = v.records /\ u.browser = v.browser /\ u.index = v.index
      BY <3>1 DEF ViewFields
    <3>3. Truthful(u, loaded)
      BY <2>3, <3>2, SameShown
    <3> QED  BY <3>3
  <2>5. Truthful(view', loaded')
    <3> PICK s : s = [v EXCEPT !.mode = "list"]
      OBVIOUS
    <3>1. \/ view' = view /\ Truthful(view, loaded)
          \/ view' = v /\ Truthful(v, loaded)
          \/ view' = s /\ Truthful(s, loaded)
      BY <2>1, <2>2, <2>3, <2>4
    <3> QED  BY <2>1, <3>1
  <2> QED  BY <2>1, <2>5 DEF TrajectoryInv
<1>21. CASE UNCHANGED trajectoryVars
  BY <1>21 DEF trajectoryVars, TrajectoryInv, Truthful, Asked, ViewFields
<1> QED
  BY <1>6, <1>7, <1>8, <1>9, <1>10, <1>11, <1>12, <1>13, <1>14, <1>15, <1>16, <1>17, <1>18, <1>19, <1>20, <1>21
     DEF TrajectoryNext

\* Lemma: what the invariant says of a view that is open.
LEMMA LedgerTruthful == TrajectoryInv => RecordsTruthful
<1> SUFFICES ASSUME TrajectoryInv  PROVE RecordsTruthful
  OBVIOUS
<1>1. CASE view.open
  <2>1. Truthful(view, loaded)
    BY <1>1 DEF TrajectoryInv, NoView
  <2>2. Window(loaded)
    BY TrajectoryAssumption DEF TrajectoryInv, Window
  <2>3. ReadUpTo(loaded, loaded.to, view.records)
    BY <2>1, <2>2, LedgerRead DEF Truthful
  <2>4. DOMAIN view.records = 1 .. Len(view.records)
    BY <2>3 DEF ReadUpTo
  <2>5. LedgerUnique
    BY <2>3, <2>4 DEF ReadUpTo, LedgerUnique, Ledger
  <2>6. RequestOfSelected
    BY <2>1 DEF Truthful, Asked, RequestOfSelected
  <2> QED  BY <2>5, <2>6 DEF RecordsTruthful
<1>2. CASE ~view.open
  BY <1>2 DEF RecordsTruthful, LedgerUnique, RequestOfSelected
<1> QED  BY <1>1, <1>2

\* The ledger has one record for each node in the loaded window, however the
\* window cuts the node's events, and the Request beside it is that of the
\* selected Step and of the events now loaded; nothing is prepared behind a
\* panel that is not shown.
THEOREM LedgerTrue == TrajectorySpec => []RecordsTruthful
<1>1. TrajectoryInv => RecordsTruthful
  BY LedgerTruthful
<1> QED  BY <1>1, TrajectoryInitial, TrajectoryStep, PTL DEF TrajectorySpec

\* Lemma: whatever becomes loaded, the ledger finds again what it selected.
LEMMA SelectionFound ==
  ASSUME TrajectoryInv, view.open, view.index \in DOMAIN Ledger,
         NEW w, Window(w), w.from <= loaded.from, loaded.to <= w.to
  PROVE  LET s == SetState(view, w) IN
         IF view.follow THEN s.index = Len(s.records) ELSE Selected(s).key = Selected(view).key
<1> DEFINE s == SetState(view, w)
           ledger == Records(w)
           same == {n \in DOMAIN ledger : ledger[n].key = Selected(view).key}
<1>1. Truthful(view, loaded) /\ Window(loaded)
  BY TrajectoryAssumption DEF TrajectoryInv, NoView, Window
<1>2. view.records = Records(loaded) /\ ViewFields(view) /\ Asked(view, loaded)
  BY <1>1 DEF Truthful
<1>3. ReadUpTo(loaded, loaded.to, Records(loaded)) /\ ReadUpTo(w, w.to, ledger)
  BY <1>1, LedgerRead
<1>4. /\ DOMAIN Records(loaded) = 1 .. Len(Records(loaded)) /\ DOMAIN ledger = 1 .. Len(ledger)
      /\ Len(ledger) \in Nat
  BY <1>3 DEF ReadUpTo
<1>5. view.index \in 1 .. Len(Records(loaded)) /\ Selected(view) = Records(loaded)[view.index]
  BY <1>2, <1>4 DEF Selected, Ledger
<1>6. PICK n \in 1 .. Len(ledger) : ledger[n].key = Selected(view).key
  BY <1>1, <1>5, NodesStay
<1>7. n \in same /\ same \subseteq Nat
  BY <1>4, <1>6
<1>8. Truthful(s, w) /\ s.index = IF view.follow \/ same = {} THEN LastOf(ledger) ELSE Min(same)
  BY <1>2, Reselected
<1>9. s.records = ledger
  BY <1>8 DEF Truthful
<1>10. CASE view.follow
  <2>1. Len(ledger) \in Nat \ {0}
    BY <1>4, <1>6
  <2>2. LastOf(ledger) = Len(ledger)
    BY <2>1, LastRow
  <2> QED  BY <1>8, <1>9, <1>10, <2>2
<1>11. CASE ~view.follow
  <2>1. same # {}
    BY <1>7
  <2>2. s.index = Min(same)
    BY <1>8, <1>11, <2>1
  <2>3. Min(same) \in same
    <3> HIDE DEF same
    <3> QED  BY <1>7, <2>1, MinIn
  <2>4. s.index \in DOMAIN ledger /\ ledger[s.index].key = Selected(view).key
    BY <2>2, <2>3
  <2>5. Selected(s) = ledger[s.index]
    <3> HIDE DEF s, ledger
    <3> QED  BY <1>9, <2>4 DEF Selected
  <2> QED  BY <1>11, <2>4, <2>5
<1> QED  BY <1>10, <1>11

\* Lemma: only what arrives changes the window, and it only widens it.
LEMMA WindowGrows ==
  ASSUME TrajectoryInv, TrajectoryNext, loaded' # loaded, view.open
  PROVE  \E w : /\ loaded' = w /\ Window(w) /\ w.from <= loaded.from /\ loaded.to <= w.to
                /\ \/ view' = SetState(view, w)
                   \/ view' = [SetState(view, w) EXCEPT !.loading = FALSE]
<1>1. CASE Arrives
  <2> PICK w : w = [loaded EXCEPT !.to = @ + 1]
    OBVIOUS
  <2>1. loaded' = w /\ view' = SetState(view, w)
    BY <1>1 DEF Arrives
  <2>2. Window(w) /\ w.from <= loaded.from /\ loaded.to <= w.to
    BY <1>1, TrajectoryAssumption DEF Arrives, Window, TrajectoryInv
  <2> QED  BY <2>1, <2>2
<1>2. CASE PageSettles
  <2>1. PICK from \in 1 .. loaded.from :
          /\ loaded' = [loaded EXCEPT !.from = from]
          /\ view' = [(IF from = loaded.from THEN view ELSE SetState(view, loaded')) EXCEPT !.loading = FALSE]
    BY <1>2 DEF PageSettles
  <2> PICK w : w = [loaded EXCEPT !.from = from]
    OBVIOUS
  <2>2. from # loaded.from
    BY <2>1 DEF TrajectoryInv
  <2>3. loaded' = w /\ view' = [SetState(view, w) EXCEPT !.loading = FALSE]
    BY <2>1, <2>2
  <2>4. Window(w) /\ w.from <= loaded.from /\ loaded.to <= w.to
    BY TrajectoryAssumption DEF Window, TrajectoryInv
  <2> QED  BY <2>3, <2>4
<1>3. CASE ~Arrives /\ ~PageSettles
  BY <1>3 DEF TrajectoryNext, Open, Info, Back, Next_, Previous, First, Tail_, Collapse, Expand, Confirm,
              SelectTab, ClickTab, Prepared, ClickRow, RenderFrame, Key
<1> QED  BY <1>1, <1>2, <1>3

\* Lemma: no step that loads events moves the selection.
LEMMA SelectionStep ==
  ASSUME TrajectoryInv, [TrajectoryNext]_trajectoryVars,
         view.open, view'.open, loaded' # loaded, view.index \in DOMAIN Ledger
  PROVE  IF view.follow THEN view'.index = Len(view'.records)
         ELSE Selected(view').key = Selected(view).key
<1>1. TrajectoryNext
  BY DEF trajectoryVars
<1>2. PICK w : /\ loaded' = w /\ Window(w) /\ w.from <= loaded.from /\ loaded.to <= w.to
               /\ \/ view' = SetState(view, w)
                  \/ view' = [SetState(view, w) EXCEPT !.loading = FALSE]
  BY <1>1, WindowGrows
<1> PICK s : s = SetState(view, w)
  OBVIOUS
<1>3. IF view.follow THEN s.index = Len(s.records) ELSE Selected(s).key = Selected(view).key
  BY <1>2, SelectionFound
<1>4. ViewFields(s)
  BY SnapshotTaken DEF Truthful
<1>5. view'.index = s.index /\ view'.records = s.records
  BY <1>2, <1>4 DEF ViewFields
<1>6. PICK u : u = view'
  OBVIOUS
<1>7. Selected(u) = Selected(s)
  BY <1>5, <1>6 DEF Selected
<1> QED  BY <1>3, <1>5, <1>6, <1>7

\* Events that arrive at the end and pages that arrive before the window leave
\* the record selected that was selected, or the newest if the ledger follows.
THEOREM SelectionStays == TrajectorySpec => SelectionKept
<1>1. TrajectoryInv /\ [TrajectoryNext]_trajectoryVars =>
        [ (view.open /\ view'.open /\ loaded' # loaded /\ view.index \in DOMAIN Ledger) =>
            IF view.follow THEN view'.index = Len(view'.records)
            ELSE Selected(view').key = Selected(view).key ]_trajectoryVars
  BY SelectionStep
<1> QED  BY <1>1, TrajectoryInitial, TrajectoryStep, PTL DEF TrajectorySpec, SelectionKept
====
