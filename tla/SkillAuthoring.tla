----------------------------- MODULE SkillAuthoring -----------------------------
(***************************************************************************)
(* Skills (modules/skills, infrastructure/filesystem/                      *)
(* local-skill-authoring.ts): the catalogue of a Session is refreshed by   *)
(* whoever asks, one request at a time; a local Skill is created and       *)
(* edited on disk beside other writers, validated, and looked for in the   *)
(* catalogue until it is effective there.                                  *)
(***************************************************************************)
EXTENDS Integers, Sequences, FiniteSets, SequencesExt

CONSTANTS
  Skill,       \* names of Skills, numbered in their order
  Provided,    \* the Skills other providers have
  Query_,      \* a filter of the list: the Skills it leaves
  SkillFaults, \* bound: failing requests and writes
  OthersWrite  \* bound: files written or removed elsewhere

VARIABLES
  catalog,     \* SkillCatalog: rows, status, whether they are fresh, the request
  disk,        \* per Skill, its directory and file
  work,        \* the authoring under way, and what it reported
  desk,        \* the surfaces of Skills and what they show
  spent        \* faults and foreign writes so far, and the files others wrote and left

skillVars == <<catalog, disk, work, desk, spent>>

NothingListed == [read |-> FALSE, rows |-> {}, live |-> FALSE]
NoList == [view |-> FALSE, index |-> 1, detail |-> FALSE, filtered |-> FALSE, over |-> "none", name |-> 0]
NoWork == [step |-> "none", name |-> 0, tries |-> 0, ok |-> TRUE, report |-> "none"]
NoFile == [file |-> "none", by |-> "none"]

\* What the Host lists: every valid local file, and what others provide.
Listed == Provided \cup {n \in Skill : disk[n].file = "valid"}

-----------------------------------------------------------------------------
(* The catalogue                                                            *)

SkillRows(rows) == IF desk.filtered THEN rows \cap Query_ ELSE rows

\* A published catalogue bounds the cursor of the list.
Reframed(rows) ==
  [desk EXCEPT !.index = IF @ > Cardinality(SkillRows(rows)) /\ @ > 1
                         THEN IF SkillRows(rows) = {} THEN 1 ELSE Cardinality(SkillRows(rows)) ELSE @]

Publish(c) == catalog' = c /\ desk' = IF desk.view THEN Reframed(c.rows) ELSE desk

\* A request that is under way is joined, even by a caller that forces one, and
\* fresh rows are enough for a caller that does not.
Joins(force) == catalog.request.live \/ (~force /\ catalog.fresh)

RefreshCatalog(force) ==
  IF Joins(force) THEN UNCHANGED <<catalog, desk>>
  ELSE Publish([catalog EXCEPT !.status = "loading", !.request = [NothingListed EXCEPT !.live = TRUE]])

\* The Host reads its Skills some time before its answer arrives.
ListRead ==
  /\ catalog.request.live /\ ~catalog.request.read
  /\ catalog' = [catalog EXCEPT !.request.read = TRUE, !.request.rows = Listed]
  /\ UNCHANGED <<disk, work, desk, spent>>

ListAnswered ==
  /\ catalog.request.live /\ catalog.request.read
  /\ Publish([rows |-> catalog.request.rows, status |-> "ready", fresh |-> TRUE, request |-> NothingListed])
  /\ UNCHANGED <<disk, work, spent>>

\* SkillRows that are there stay, as stale ones.
ListFailed ==
  /\ catalog.request.live /\ spent.faults < SkillFaults
  /\ \E status \in {IF catalog.rows # {} THEN "stale" ELSE "error", "unavailable"} :
       Publish([catalog EXCEPT !.status = status, !.request = NothingListed])
  /\ spent' = [spent EXCEPT !.faults = @ + 1]
  /\ UNCHANGED <<disk, work>>

GrowsStale ==
  /\ catalog.fresh /\ ~catalog.request.live
  /\ catalog' = [catalog EXCEPT !.fresh = FALSE]
  /\ UNCHANGED <<disk, work, desk, spent>>

\* Autocompletion asks too.
AskSkills(force) == RefreshCatalog(force) /\ UNCHANGED <<disk, work, spent>>

-----------------------------------------------------------------------------
(* Files                                                                    *)

\* create: the directory of a new Skill is made exclusively.
CreateDirectory ==
  /\ work.step = "directory"
  /\ IF disk[work.name].file = "none"
     THEN disk' = [disk EXCEPT ![work.name] = [file |-> "empty", by |-> "me"]] /\ work' = [work EXCEPT !.step = "write"]
     ELSE work' = NoWork /\ UNCHANGED disk
  /\ UNCHANGED <<catalog, desk, spent>>

\* The wx flag.
MayWrite(name) == disk[name].file = "empty"

CreateFile ==
  /\ work.step = "write"
  /\ IF MayWrite(work.name)
     THEN disk' = [disk EXCEPT ![work.name] = [file |-> "valid", by |-> "me"]] /\ work' = [work EXCEPT !.step = "edit"]
     ELSE work' = NoWork /\ UNCHANGED disk
  /\ UNCHANGED <<catalog, desk, spent>>

\* A write that fails takes its directory away again, unless something is in it.
CreateFails ==
  /\ work.step = "write" /\ spent.faults < SkillFaults
  /\ spent' = [spent EXCEPT !.faults = @ + 1]
  /\ \E partial \in BOOLEAN :
       disk' = IF disk[work.name].file # "empty" THEN disk
               ELSE [disk EXCEPT ![work.name] = IF partial THEN [file |-> "invalid", by |-> "me"] ELSE NoFile]
  /\ work' = NoWork /\ UNCHANGED <<catalog, desk>>

\* The file is opened by an editor or by the Host and may be left in any shape;
\* both may fail, and what follows happens all the same.
Edited ==
  /\ work.step = "edit"
  /\ \E file \in {"valid", "invalid"} :
       /\ disk' = IF disk[work.name].file \in {"valid", "invalid"} THEN [disk EXCEPT ![work.name].file = file] ELSE disk
       /\ work' = [work EXCEPT !.step = "validate"]
  /\ UNCHANGED <<catalog, desk, spent>>

Validated ==
  /\ work.step = "validate"
  /\ work' = [work EXCEPT !.step = "ask", !.ok = disk[work.name].file = "valid"]
  /\ UNCHANGED <<catalog, disk, desk, spent>>

\* The delays of refreshUntilEffective.
Tries == 3

\* refreshUntilEffective asks, waits for the request it asked for or joined,
\* and looks.
Ask_ ==
  /\ work.step = "ask"
  /\ work' = [work EXCEPT !.step = "look", !.tries = @ + 1]
  /\ RefreshCatalog(TRUE) /\ UNCHANGED <<disk, spent>>

\* A file that is not valid is reported first, then an editor that failed.
Reported(found) ==
  IF ~work.ok THEN {"invalid"} ELSE {"editor failed", IF found THEN "effective" ELSE "not effective"}

Look ==
  /\ work.step = "look" /\ ~catalog.request.live
  /\ \E found \in {work.name \in catalog.rows} :
       IF found \/ work.tries = Tries
       THEN \E report \in Reported(found) : work' = [work EXCEPT !.step = "reported", !.report = report]
       ELSE work' = [work EXCEPT !.step = "ask"]
  /\ UNCHANGED <<catalog, disk, desk, spent>>

Forgotten == work.step = "reported" /\ work' = NoWork /\ UNCHANGED <<catalog, disk, desk, spent>>

\* Another program writes the file of a Skill, or removes it (bound: while one
\* is being written here).
WrittenElsewhere ==
  /\ work.step # "none" /\ spent.others < OthersWrite
  /\ \E n \in Skill \ Provided :
       IF disk[n].file \in {"none", "empty"}
       THEN /\ disk' = [disk EXCEPT ![n] = [file |-> "valid", by |-> "other"]]
            /\ spent' = [spent EXCEPT !.others = @ + 1, !.theirs = @ \cup {n}]
       ELSE /\ disk' = [disk EXCEPT ![n] = NoFile]
            /\ spent' = [spent EXCEPT !.others = @ + 1, !.theirs = @ \ {n}]
  /\ UNCHANGED <<catalog, work, desk>>

-----------------------------------------------------------------------------
(* The surfaces                                                             *)

Shown_ == SetToSortSeq(SkillRows(catalog.rows), <)
AtRest == work.step = "none"

OpenSkills ==
  /\ ~desk.view /\ desk.over = "none"
  /\ LET opened == [NoList EXCEPT !.view = TRUE]
     IN  IF Joins(FALSE) THEN desk' = opened /\ UNCHANGED catalog
         ELSE /\ desk' = opened
              /\ catalog' = [catalog EXCEPT !.status = "loading", !.request = [NothingListed EXCEPT !.live = TRUE]]
  /\ UNCHANGED <<disk, work, spent>>

Desk(d) == desk' = d /\ UNCHANGED <<catalog, disk, work, spent>>
InFront == desk.view /\ desk.over = "none"
\* Bound: the list is read while no Skill is being written.
Reads == InFront /\ AtRest

MoveSkill ==
  /\ Reads
  /\ \E index \in {desk.index - 1, desk.index + 1, 1, Cardinality(SkillRows(catalog.rows))} :
       /\ index = 1 \/ index \in DOMAIN Shown_
       /\ Desk([desk EXCEPT !.index = index])

SkillBack == InFront /\ Desk(IF desk.detail THEN [desk EXCEPT !.detail = FALSE] ELSE NoList)
SkillDetail == Reads /\ desk.index \in DOMAIN Shown_ /\ Desk([desk EXCEPT !.detail = TRUE])
InvokeSkill == Reads /\ desk.index \in DOMAIN Shown_ /\ Desk(NoList)

SearchSkills ==
  \/ Reads /\ Desk([desk EXCEPT !.over = "search"])
  \/ /\ desk.over = "search"
     /\ \E filtered \in BOOLEAN :
          Desk([desk EXCEPT !.over = "none", !.filtered = filtered, !.index = 1, !.detail = FALSE])
  \/ desk.over = "search" /\ Desk([desk EXCEPT !.over = "none"])

EditSkill ==
  /\ Reads /\ desk.index \in DOMAIN Shown_
  /\ \E name \in {Shown_[desk.index]} :
       work' = IF disk[name].file \in {"valid", "invalid"} THEN [NoWork EXCEPT !.step = "edit", !.name = name] ELSE NoWork
  /\ UNCHANGED <<catalog, disk, desk, spent>>

\* The wizard opens over what is in front once the targets are known (bound: the
\* top of the whole list): a target, a name that conflicts with nothing listed, a
\* description, when to use it and who may.  Anything else ends it.
WizardSteps == <<"target", "name", "description", "when", "invocation">>
StepAfter(step) == WizardSteps[SelectInSeq(WizardSteps, LAMBDA x : x = step) + 1]

Wizard ==
  \/ Reads /\ desk.index = 1 /\ ~desk.filtered /\ ~desk.detail /\ Desk([desk EXCEPT !.over = "target"])
  \/ desk.over \in {"target", "description", "when"} /\ Desk([desk EXCEPT !.over = StepAfter(@)])
  \/ /\ desk.over = "name"
     /\ \E name \in Skill \ catalog.rows : Desk([desk EXCEPT !.over = "description", !.name = name])
  \/ /\ desk.over = "invocation"
     /\ desk' = [desk EXCEPT !.over = "none", !.name = 0]
     /\ work' = [NoWork EXCEPT !.step = "directory", !.name = desk.name]
     /\ UNCHANGED <<catalog, disk, spent>>
  \/ desk.over \in ToSet(WizardSteps) /\ Desk([desk EXCEPT !.over = "none", !.name = 0])

-----------------------------------------------------------------------------

SkillsInit ==
  /\ catalog = [rows |-> {}, status |-> "loading", fresh |-> FALSE, request |-> [NothingListed EXCEPT !.live = TRUE]]
  \* there may be a file of before
  /\ \E file \in {"none", "valid"} : disk = [n \in Skill |-> IF n \in Provided THEN NoFile ELSE [NoFile EXCEPT !.file = file]]
  /\ work = NoWork
  /\ desk = NoList
  /\ spent = [faults |-> 0, others |-> 0, theirs |-> {}]

SkillsNext ==
  \/ \E force \in BOOLEAN : AskSkills(force)
  \/ ListRead \/ ListAnswered \/ ListFailed \/ GrowsStale
  \/ CreateDirectory \/ CreateFile \/ CreateFails \/ Edited \/ Validated \/ Ask_ \/ Look \/ Forgotten \/ WrittenElsewhere
  \/ OpenSkills \/ MoveSkill \/ SkillBack \/ SkillDetail \/ InvokeSkill \/ SearchSkills \/ EditSkill \/ Wizard

\* A Skill that was written, validated and left alone is reported as effective,
\* though the first request it joined was older than its file and another one
\* failed.
AuthoredIsEffective ==
  work.report = "not effective" => disk[work.name].file # "valid" \/ spent.others > 0

\* A write of ours never takes the place of somebody else's file, and a failed
\* creation leaves no empty directory behind.
NothingOverwritten ==
  \A n \in Skill :
     /\ disk[n].file = "empty" => work.step = "write" /\ work.name = n
     /\ n \in spent.theirs => disk[n].by = "other"

\* The catalogue is loading exactly while a request is under way, shows old rows
\* only as stale, and the cursor of the list stays on a row.
CatalogTruthful ==
  /\ catalog.status = "loading" <=> catalog.request.live
  /\ catalog.status = "stale" => catalog.rows # {}
  /\ catalog.status = "error" => catalog.rows = {}
  /\ desk.view => desk.index = 1 \/ desk.index \in DOMAIN Shown_

SkillsCurrent == AuthoredIsEffective /\ NothingOverwritten /\ CatalogTruthful
=============================================================================
