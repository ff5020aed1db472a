----------------------------- MODULE TabIndicator -----------------------------
(***************************************************************************)
(* The badge that the extension draws over the icon of a controlled tab,   *)
(* in the page (tab-indicator.js), while the site changes its own icons.   *)
(* An update decodes an image before it draws, so it may be overtaken.     *)
(***************************************************************************)
EXTENDS Sequences

CONSTANTS
  Link,     \* <link rel=icon> elements of the site
  Href,     \* what the site sets them to
  Icon      \* names of images a badge is drawn over

Made == "made"        \* the element created when the site has none
Elements == Link \cup {Made}
Bare == "no href"
Badge(icon) == "badge over " \o icon

\* The site names no badge: a badge is a data URL that only this script makes.
ASSUME IconAssumption ==
  /\ Made \notin Link
  /\ \A icon \in Icon : Badge(icon) \notin Href \cup {Bare, "none"}

VARIABLES
  dom,        \* for each element: in the document, its href, and the href the site wants
  records,    \* for each badged element: what to restore and the badge it was given
  indicator,  \* the controller: live, the icon it decodes or has decoded, the update that waits
  moved       \* the address changed since the last update

indicatorVars == <<dom, records, indicator, moved>>

NoRecord == [href |-> Bare, created |-> FALSE, badge |-> "none"]
Gone == [live |-> FALSE, icon |-> "none", decoded |-> "no", waiting |-> FALSE]

IndicatorInit ==
  /\ dom \in [Elements -> [in : BOOLEAN, href : {Bare} \cup Href, wanted : {Bare} \cup Href]]
  /\ \A e \in Elements : dom[e].href = dom[e].wanted /\ (e = Made => ~dom[e].in /\ dom[e].href = Bare)
  /\ records = [e \in Elements |-> NoRecord]
  /\ indicator = Gone
  /\ moved = FALSE

Icons == {e \in Elements : dom[e].in}

\* Mutant: the icon remembered replaces whatever the site shows by now.
RestoredRegardless(e) ==
  IF records[e] = NoRecord THEN dom[e]
  ELSE [dom[e] EXCEPT !.in = @ /\ ~records[e].created, !.href = records[e].href]

\* Give an element back, unless the site has replaced its icon meanwhile.
Restored(e) ==
  CASE records[e] = NoRecord \/ dom[e].href # records[e].badge -> dom[e]
    [] records[e] # NoRecord /\ dom[e].href = records[e].badge ->
         [dom[e] EXCEPT !.in = @ /\ ~records[e].created, !.href = records[e].href]

ClearBadge ==
  /\ dom' = [e \in Elements |-> Restored(e)]
  /\ records' = [e \in Elements |-> NoRecord]

\* Records of elements that left the document or that the site changed are
\* dropped; every icon then gets the badge.
ApplyBadge(href) ==
  LET kept(e) == records[e] # NoRecord /\ dom[e].in /\ dom[e].href = records[e].badge
      cleared(e) == IF dom[e].in THEN dom[e] ELSE Restored(e)
      badged(e) == IF Icons = {} THEN e = Made ELSE e \in Icons
  IN  /\ dom' = [e \in Elements |->
                  IF badged(e) THEN [cleared(e) EXCEPT !.in = TRUE, !.href = href]
                  ELSE cleared(e)]
      /\ records' = [e \in Elements |->
                  CASE ~badged(e) -> NoRecord
                    [] kept(e) -> [records[e] EXCEPT !.badge = href]
                    [] OTHER -> [href |-> cleared(e).href, badge |-> href,
                                 created |-> Icons = {}]]

\* A command of the extension: an icon to draw, or none.
Update(icon) ==
  /\ moved' = FALSE
  /\ IF icon = "none"
     THEN /\ ClearBadge
          /\ indicator' = [indicator EXCEPT !.live = TRUE, !.waiting = FALSE]
     ELSE /\ indicator' = [live |-> TRUE, icon |-> icon, waiting |-> TRUE,
                           decoded |-> IF icon = indicator.icon THEN indicator.decoded
                                       ELSE "pending"]
          /\ UNCHANGED <<dom, records>>

Decoded ==
  /\ indicator.decoded = "pending"
  /\ \E outcome \in {"image", "nothing"} : indicator' = [indicator EXCEPT !.decoded = outcome]
  /\ UNCHANGED <<dom, records, moved>>

\* The image is there: draw it if this is still the last update, of this page.
Draw ==
  /\ indicator.waiting /\ indicator.decoded # "pending"
  /\ indicator' = [indicator EXCEPT !.waiting = FALSE]
  /\ CASE moved -> UNCHANGED <<dom, records>>
       [] ~moved /\ indicator.decoded = "nothing" -> ClearBadge
       [] OTHER -> ApplyBadge(Badge(indicator.icon))
  /\ UNCHANGED moved

\* Control ends, another control takes over, or no update came for 15 s.
Dispose ==
  /\ indicator.live
  /\ ClearBadge
  /\ indicator' = Gone
  /\ UNCHANGED moved

SiteSets(e, href) ==
  /\ dom[e].in
  /\ dom' = [dom EXCEPT ![e].href = href, ![e].wanted = href]
  /\ UNCHANGED <<records, indicator, moved>>

SiteMoves(e) ==
  /\ e \in Link
  /\ dom' = [dom EXCEPT ![e].in = ~@]
  /\ UNCHANGED <<records, indicator, moved>>

AddressChanges ==
  /\ ~moved /\ indicator.live
  /\ moved' = TRUE
  /\ UNCHANGED <<dom, records, indicator>>

IndicatorNext ==
  \/ \E icon \in Icon \cup {"none"} : Update(icon)
  \/ Decoded \/ Draw \/ Dispose \/ AddressChanges
  \/ \E e \in Elements : SiteMoves(e) \/ \E href \in Href : SiteSets(e, href)

IndicatorSpec == IndicatorInit /\ [][IndicatorNext]_indicatorVars

-----------------------------------------------------------------------------
(* Properties *)

\* When control has ended every element has the icon the site wants, whatever
\* the site did meanwhile, and none of the extension's own is left.
IconRestored ==
  /\ ~indicator.live =>
       \A e \in Elements : dom[e].href = dom[e].wanted /\ (dom[e].in /\ e = Made => dom[e].href \in Href)
  /\ \A e \in Elements : dom[e].href \in {dom[e].wanted, records[e].badge}
=============================================================================
