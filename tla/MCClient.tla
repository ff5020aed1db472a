------------------------------ MODULE MCClient ------------------------------
(* The editor and the dialogs of the interactive client, which share no     *)
(* state, side by side: a behaviour is one of a single part, chosen at the  *)
(* start.                                                                   *)
EXTENDS Composer, ConfigurationProcess, SkillAuthoring, TaskProcess, MemoryDialog,
        Authentication, SessionCenter, ProviderUsage, Commands, TLC

VARIABLE part

\* A reference, alone, in a command or beside another one, and texts without one.
MCTyped == {<<>>, <<Word>>, <<1>>, <<Command, 1>>, <<2, 1>>}

\* Profiles with some of the sections, and models with and without efforts.
MCArea == {{"models"}, {"permissions", "plan"}, {"web"}}
MCEfforts == ("m1" :> <<"high">>) @@ ("m2" :> <<>>) @@ ("m3" :> <<"low">>)

\* A conversation, what a rewind made of it, a subagent and an empty Session.
Summary_(id, parent, subagent, blank) == [id |-> id, parent |-> parent, subagent |-> subagent, blank |-> blank]

MCSessionLists ==
  { <<Summary_(4, 0, FALSE, TRUE), Summary_(3, 1, FALSE, FALSE), Summary_(2, 1, TRUE, FALSE), Summary_(1, 0, FALSE, FALSE)>>,
    <<Summary_(2, 1, TRUE, FALSE), Summary_(1, 0, FALSE, FALSE)>> }

MCDocLines == <<5>>

\* One agent lists a command with a dialog and a name of the client's own, the
\* other a command with the name of a Skill.
MCListing == {{"permission", "usage"}, {"tidy"}}
MCSkillSet == {{"tidy"}}

-----------------------------------------------------------------------------

clientVars == <<part, vars, configurationVars, skillVars, taskVars, memoryDialogVars,
                signInVars, centerVars, usageVars, commandVars>>

Parts == {"composer", "configuration", "skills", "tasks", "memories", "sign-in", "center", "usage", "commands"}

\* The parts that do not run start in one state.
ClientInit ==
  /\ part \in Parts
  /\ ConfigurationInit /\ (part # "configuration" => settings.area = {"web"})
  /\ SkillsInit /\ (part # "skills" => disk[1].file = "none")
  /\ TaskInit /\ (part # "tasks" => host_.phase = "active")
  /\ CenterInit /\ (part # "center" => whereabouts.current = 3)
  /\ CommandsInit /\ (part # "commands" => console.session = Unbound)
  /\ Init /\ (part # "composer" => ~identity)
  /\ MemoryDialogInit /\ SignInInit /\ UsageInit

\* The parts that do not run stay as they are.
Alone(p, variables) == IF part = p THEN TRUE ELSE UNCHANGED variables

ClientNext ==
  /\ UNCHANGED part
  /\ Alone("composer", vars)
  /\ Alone("configuration", configurationVars) /\ Alone("skills", skillVars)
  /\ Alone("tasks", taskVars) /\ Alone("memories", memoryDialogVars) /\ Alone("sign-in", signInVars)
  /\ Alone("center", centerVars) /\ Alone("usage", usageVars)
  /\ Alone("commands", commandVars)
  /\ \/ part = "composer" /\ Next
     \/ part = "configuration" /\ ConfigurationNext
     \/ part = "skills" /\ SkillsNext
     \/ part = "tasks" /\ TaskNext
     \/ part = "memories" /\ MemoryDialogNext
     \/ part = "sign-in" /\ SignInNext
     \/ part = "center" /\ CenterNext
     \/ part = "usage" /\ UsageNext
     \/ part = "commands" /\ CommandsNext

\* Dialogs act for the Session, the Goal, the policy and the file they were
\* opened for, and show what is there, whatever the order of answers: what
\* ConfigurationProcess, SkillAuthoring, TaskProcess, MemoryDialog,
\* Authentication, SessionCenter, ProviderUsage and Commands promise.
DialogsCurrent ==
  /\ part = "configuration" => ConfigurationCurrent
  /\ part = "skills" => SkillsCurrent
  /\ part = "tasks" => TasksCurrent
  /\ part = "memories" => MemoriesCurrent
  /\ part = "sign-in" => SignInCurrent
  /\ part = "center" => CenterTruthful
  /\ part = "usage" => UsageCurrent
  /\ part = "commands" => CommandsCurrent

ClientSpec == ClientInit /\ [][ClientNext]_clientVars
=============================================================================
