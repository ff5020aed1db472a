-------------------------- MODULE MCSessionManager --------------------------
(* Instances of SessionManager for TLC. *)
EXTENDS SessionManager, TLC

CONSTANTS s1, s2, s3, p1, p2, a1

OneStored == {s1}
NoSessions == {}
OneSession == {s1}
TwoSessions == {s1, s2}
ThreeSessions == {s1, s2, s3}
OnePrompt == {p1}
TwoPrompts == {p1, p2}
OneAsk == {a1}
NoAsk == {}
NoPrompt == {}

\* Prompts are only told apart by their own progress.
PromptSymmetry == Permutations(TwoPrompts)
=============================================================================
