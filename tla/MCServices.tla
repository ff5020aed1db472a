----------------------------- MODULE MCServices -----------------------------
(* The rewind service of a workspace and the memory service with its         *)
(* background learning, which share no state, side by side: a behaviour is   *)
(* one of a single service, chosen at the start.                             *)
EXTENDS MCRewindTransaction, MemoryLearning

CONSTANTS t1, t2

VARIABLE part

-----------------------------------------------------------------------------
(* Learning.  The index knows the summary "a" and the summary "c d", which  *)
(* reads like the summary "c" with details "d".                             *)

TwoTopics == {t1, t2}
Summaries == {<<"a">>, <<"b">>, <<"c">>, <<"c", "d">>}
Details == {NoDetail}
Callers == 0 .. MaxTurn

WriteOf(key, topic, old, oldTopic) ==
  [kind |-> "write", key |-> key, detail |-> NoDetail, topic |-> topic,
   old |-> old, oldTopic |-> oldTopic]

ForgetOf(key, topic) == [WriteOf(key, topic, NoSummary, NoTopic) EXCEPT !.kind = "forget"]

\* A new memory, corrections within and across topics, and removals.
Requests ==
  {WriteOf(<<"b">>, t1, NoSummary, NoTopic),
   WriteOf(<<"a">>, NoTopic, NoSummary, NoTopic),
   WriteOf(<<"b">>, t1, <<"a">>, t1),
   WriteOf(<<"b">>, t2, <<"a">>, t1),
   ForgetOf(<<"a">>, t1), ForgetOf(<<"c">>, t1)}

StoredDocs ==
  {[d \in Doc |-> IF d = Index THEN {[key |-> key, link |-> t1] : key \in {<<"a">>, <<"c", "d">>}}
                  ELSE IF d = t1 THEN {<<"a">>, <<"c", "d">>} ELSE {}]}

-----------------------------------------------------------------------------

ServicesInit ==
  /\ part \in {"rewind", "learning"}
  /\ Init /\ LearningInit
  \* the part that does not run starts in one state
  /\ part = "rewind" => enabled

ServicesNext ==
  \/ part = "rewind" /\ Next /\ UNCHANGED <<part, learningVars>>
  \/ part = "learning" /\ LearningNext /\ UNCHANGED <<part, vars>>

ServicesSpec == ServicesInit /\ [][ServicesNext]_<<part, vars, learningVars>>

-----------------------------------------------------------------------------

\* Whoever waits can go on without the user and without the foreground: a rewind
\* that waits for edits to be ingested (RewindProceeds), and a call that waits for
\* a drain (DrainProceeds).
WaitersProceed == RewindProceeds /\ DrainProceeds
=============================================================================
