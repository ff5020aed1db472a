------------------------------ MODULE MemoryDialog ------------------------------
(***************************************************************************)
(* The memory dialog (modules/memory): the policy of one Session is shown  *)
(* and changed, one save at a time, while the dialog may be closed and     *)
(* opened again before a save is answered, and its documents are read.     *)
(***************************************************************************)
EXTENDS Integers, Sequences, FiniteSets

CONSTANTS
  DocLines,    \* lines of every document of the overview
  PageOfLines, \* lines shown at a time
  OpenBound,   \* bound: dialogs opened
  SaveFaults   \* bound: failing saves and reads, and changes made elsewhere

ASSUME MemoryDialogAssumption ==
  /\ Len(DocLines) \in Nat /\ \A i \in 1 .. Len(DocLines) : DocLines[i] \in Nat
  /\ PageOfLines \in Nat

VARIABLES
  policies,    \* per Session, its stored policy; the Session that is current; faults
  dialog_,     \* the dialog in front, if any
  policyCalls        \* overviews and saves on their way

memoryDialogVars == <<policies, dialog_, policyCalls>>

PolicyKey == {"useMemories", "generateMemories"}
PolicyOf == [PolicyKey -> BOOLEAN]
UnknownPolicy == [known |-> FALSE]
NoDialog_ == [open |-> FALSE]

\* Whatever names the dialog that a save belongs to; answers to another one are
\* not seen.
NextDialog == policies.opened + 1

-----------------------------------------------------------------------------
(* Opening                                                                  *)

\* open: the Session is taken before the overview is awaited.
AskOverview ==
  /\ ~dialog_.open /\ policies.opened < OpenBound /\ \A c \in policyCalls : c.step # "overview"
  /\ policyCalls' = policyCalls \cup {[step |-> "overview", of |-> policies.current, by |-> NextDialog]}
  /\ policies' = [policies EXCEPT !.opened = NextDialog] /\ UNCHANGED dialog_

\* The overview carries the policy of that moment, and the dialog opens unless
\* something else is in front.
OverviewArrives(c) ==
  /\ c.step = "overview" /\ policyCalls' = policyCalls \ {c}
  /\ \E active \in BOOLEAN :
       dialog_' = IF dialog_.open \/ active THEN dialog_
                  ELSE [open |-> TRUE, id |-> c.by, of |-> c.of, value |-> policies.stored[c.of], saving |-> FALSE,
                        index |-> 1, document |-> 0, offset |-> 0,
                        \* older saves of the Session are still on their way
                        beside |-> \E o \in policyCalls \ {c} : o.of = c.of]
  /\ UNCHANGED policies

-----------------------------------------------------------------------------
(* Keys                                                                     *)

In(d) == dialog_' = d /\ UNCHANGED <<policies, policyCalls>>
List == dialog_.open /\ dialog_.document = 0
KeyAt(index) == IF index = 1 THEN "useMemories" ELSE "generateMemories"

MoveInList ==
  /\ List
  /\ \E index \in {dialog_.index - 1, dialog_.index + 1} :
       index \in 1 .. Len(DocLines) + 2 /\ In([dialog_ EXCEPT !.index = index])

OpenDocument == List /\ dialog_.index > 2 /\ In([dialog_ EXCEPT !.document = dialog_.index - 2, !.offset = 0])

LastOffset == IF DocLines[dialog_.document] > PageOfLines THEN DocLines[dialog_.document] - PageOfLines ELSE 0

ScrollDocument ==
  /\ dialog_.open /\ dialog_.document # 0
  /\ \E by \in {-1, 1, -PageOfLines, PageOfLines} :
       \E offset \in {dialog_.offset + by} :
         In([dialog_ EXCEPT !.offset = IF offset < 0 THEN 0 ELSE IF offset > LastOffset THEN LastOffset ELSE offset])

LeaveMemory ==
  /\ dialog_.open
  /\ In(IF dialog_.document # 0 THEN [dialog_ EXCEPT !.document = 0, !.offset = 0] ELSE NoDialog_)

\* A policy that is being saved, or is not known, is not changed.
Chooses == ~dialog_.saving /\ dialog_.value # UnknownPolicy

\* savePolicy: the opposite of what is shown is asked for.
TogglePolicy ==
  /\ List /\ dialog_.index <= 2 /\ Chooses
  /\ policyCalls' = policyCalls \cup {[step |-> "save", of |-> dialog_.of, by |-> dialog_.id, key |-> KeyAt(dialog_.index),
                           value |-> ~dialog_.value[KeyAt(dialog_.index)]]}
  /\ dialog_' = [dialog_ EXCEPT !.saving = TRUE] /\ UNCHANGED policies

-----------------------------------------------------------------------------
(* Answers                                                                  *)

Answered(c, value) ==
  dialog_' = IF dialog_.open /\ dialog_.id = c.by THEN [dialog_ EXCEPT !.value = value, !.saving = FALSE] ELSE dialog_

\* The Host stores the choice beside the other one, and answers what it stored.
Saved(c) ==
  /\ c.step = "save" /\ policyCalls' = (policyCalls \ {c}) \cup {[step |-> "saved", of |-> c.of, by |-> c.by,
                                                      value |-> [policies.stored[c.of] EXCEPT ![c.key] = c.value]]}
  /\ policies' = [policies EXCEPT !.stored[c.of][c.key] = c.value] /\ UNCHANGED dialog_

SaveAnswered(c) == c.step = "saved" /\ Answered(c, c.value) /\ policyCalls' = policyCalls \ {c} /\ UNCHANGED policies

\* A save fails, with or without having been stored; the policy is read again,
\* and unknown when that fails too.
SaveFails(c) ==
  /\ c.step \in {"save", "saved"} /\ policies.faults < SaveFaults
  /\ policies' = [policies EXCEPT !.faults = @ + 1]
  /\ policyCalls' = (policyCalls \ {c}) \cup {[step |-> "read", of |-> c.of, by |-> c.by]} /\ UNCHANGED dialog_

ReadAgain(c) ==
  /\ c.step = "read" /\ policyCalls' = policyCalls \ {c}
  /\ \/ Answered(c, policies.stored[c.of]) /\ UNCHANGED policies
     \/ /\ policies.faults < SaveFaults /\ Answered(c, UnknownPolicy)
        /\ policies' = [policies EXCEPT !.faults = @ + 1]

\* Another Session is current: what is in front still is about the one before.
AnotherSession ==
  /\ policies.current = 1 /\ policies' = [policies EXCEPT !.current = 2]
  /\ UNCHANGED <<dialog_, policyCalls>>

-----------------------------------------------------------------------------

MemoryDialogInit ==
  /\ policies = [stored |-> [s \in {1, 2} |-> [k \in PolicyKey |-> s = 1]], current |-> 1, opened |-> 0, faults |-> 0]
  /\ dialog_ = NoDialog_ /\ policyCalls = {}

MemoryDialogNext ==
  \/ AskOverview \/ MoveInList \/ OpenDocument \/ ScrollDocument \/ LeaveMemory \/ TogglePolicy \/ AnotherSession
  \/ \E c \in policyCalls : OverviewArrives(c) \/ Saved(c) \/ SaveAnswered(c) \/ SaveFails(c) \/ ReadAgain(c)

\* A dialog that saves nothing shows the stored policy of the Session it was
\* opened for, or that it does not know it, after any failure; unless it was
\* opened while a save of an earlier dialog was on its way.
PolicyTruthful ==
  dialog_.open /\ ~dialog_.saving /\ ~dialog_.beside =>
    dialog_.value \in {UnknownPolicy, policies.stored[dialog_.of]}

\* Saving ends with its call, and the reader stays inside the document.
DialogAlive ==
  /\ dialog_.open /\ dialog_.saving => \E c \in policyCalls : c.by = dialog_.id /\ c.step # "overview"
  /\ dialog_.open /\ dialog_.document # 0 => dialog_.offset \in 0 .. LastOffset

MemoriesCurrent == PolicyTruthful /\ DialogAlive
=============================================================================
