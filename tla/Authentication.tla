----------------------------- MODULE Authentication -----------------------------
(***************************************************************************)
(* Sign-in to a provider (modules/authentication, infrastructure/harness/  *)
(* authentication.ts): one attempt at a time lists the connections, lets   *)
(* the user choose one, and shows what the Host's authorization says, asks *)
(* and wants opened.  The user, the Host and the end of the process may    *)
(* each end it at any moment.                                              *)
(***************************************************************************)
EXTENDS Integers, Sequences, FiniteSets

CONSTANTS
  Url,          \* addresses the Host wants opened
  AttemptBound, \* bound: attempts
  PromptBound   \* bound: prompts of one attempt

VARIABLES
  attempts,  \* attempts under way, each with its surface, its prompt and its addresses
  signIn     \* whether the scope is active, attempts begun, addresses opened by each

signInVars == <<attempts, signIn>>

NewAttempt(named) ==
  [id |-> signIn.begun + 1, step |-> "listing", named |-> named, aborted |-> FALSE, surface |-> "none",
   asked |-> 0, awaited |-> "none", shown |-> "none", noted |-> {}, opening |-> {}]

Becomes(a, b) == attempts' = (attempts \ {a}) \cup {b}

\* The surface is closed and what the Host still awaits is withdrawn.
AttemptEnds(a) == attempts' = attempts \ {a}

-----------------------------------------------------------------------------
(* One attempt                                                              *)

\* connect looks at the surfaces; run refuses a second attempt, which may have
\* none yet.
Connect ==
  /\ signIn.active /\ signIn.begun < AttemptBound /\ \A a \in attempts : a.surface = "none"
  /\ attempts = {}
  /\ \E named \in BOOLEAN : attempts' = {NewAttempt(named)}
  /\ signIn' = [signIn EXCEPT !.begun = @ + 1]

\* authorize opens its view, unless the attempt was aborted by then.
Authorizes(a) == IF a.aborted THEN AttemptEnds(a) ELSE Becomes(a, [a EXCEPT !.step = "authorizing", !.surface = "authorize"])

\* There are no connections, or the one that was named is authorized, or one is
\* chosen.
Connections(a) ==
  /\ a.step = "listing"
  /\ \/ AttemptEnds(a)
     \/ a.named /\ Authorizes(a)
     \/ ~a.named /\ ~a.aborted /\ Becomes(a, [a EXCEPT !.step = "choosing", !.surface = "choose"])
  /\ UNCHANGED signIn

\* Making a choice, or taking it back, closes the surface first; authorize
\* follows some time later.
Choice(a) ==
  /\ \/ a.step = "choosing" /\ AttemptEnds(a)
     \/ a.step = "choosing" /\ ~a.aborted /\ Becomes(a, [a EXCEPT !.step = "chosen", !.surface = "none"])
     \/ a.step = "chosen" /\ Authorizes(a)
  /\ UNCHANGED signIn

-----------------------------------------------------------------------------
(* Authorization                                                            *)

\* notify: an address that is named again is not opened again.
Notify(a) ==
  /\ a.step = "authorizing" /\ ~a.aborted
  /\ \E url \in Url : Becomes(a, [a EXCEPT !.noted = @ \cup {url}, !.opening = IF url \in a.noted THEN @ ELSE @ \cup {url}])
  /\ UNCHANGED signIn

\* Opened some time later, unless the attempt was aborted meanwhile.
OpenUrl(a) ==
  \E url \in a.opening :
    /\ Becomes(a, [a EXCEPT !.opening = @ \ {url}])
    /\ signIn' = IF a.aborted THEN signIn ELSE [signIn EXCEPT !.opened[url] = @ \o <<a.id>>]

\* The Host asks, one thing at a time; a secret is refused.
Prompts(a) ==
  /\ a.step = "authorizing" /\ ~a.aborted /\ a.awaited = "none" /\ a.asked < PromptBound
  /\ \E kind \in {"select", "text"} : Becomes(a, [a EXCEPT !.asked = @ + 1, !.awaited = kind, !.shown = kind])
  /\ UNCHANGED signIn

\* An answer, the prompt's own signal or the attempt's ends a prompt once.
PromptEnds(a) ==
  /\ a.awaited # "none"
  /\ Becomes(a, [a EXCEPT !.awaited = "none", !.shown = "none"]) /\ UNCHANGED signIn

\* The Host is done, with or without success, or gave up; a prompt it left is
\* withdrawn with the attempt.
Outcome(a) == a.step = "authorizing" /\ AttemptEnds(a) /\ UNCHANGED signIn

\* Everything that waits for the signal hears of it.
AbortedBy(a) == [a EXCEPT !.aborted = TRUE, !.awaited = "none", !.shown = "none"]

\* Escape in the view, or in a prompt of it.
Cancels(a) == a.step = "authorizing" /\ ~a.aborted /\ Becomes(a, AbortedBy(a)) /\ UNCHANGED signIn

\* The scope is disposed of: what waits is aborted, and awaited.
DisposeSignIn ==
  /\ signIn.active /\ signIn' = [signIn EXCEPT !.active = FALSE]
  /\ attempts' = {AbortedBy(a) : a \in attempts}

-----------------------------------------------------------------------------

SignInInit == attempts = {} /\ signIn = [active |-> TRUE, begun |-> 0, opened |-> [u \in Url |-> <<>>]]

SignInNext ==
  \/ Connect \/ DisposeSignIn
  \/ \E a \in attempts :
       Connections(a) \/ Choice(a) \/ Notify(a) \/ OpenUrl(a) \/ Prompts(a) \/ PromptEnds(a) \/ Outcome(a) \/ Cancels(a)

\* One attempt at a time, and never one without end: nothing is asked for an
\* attempt that was aborted, and what is shown is what the Host awaits.
OneSignIn ==
  /\ Cardinality(attempts) <= 1
  /\ \A a \in attempts :
       /\ a.shown = a.awaited
       /\ a.aborted => a.awaited = "none"
       /\ a.surface = "authorize" => a.step = "authorizing"

\* An address is opened once in an attempt.
OpenedOnce ==
  \A url \in Url : Cardinality({i \in DOMAIN signIn.opened[url] : TRUE}) =
                   Cardinality({signIn.opened[url][i] : i \in DOMAIN signIn.opened[url]})

SignInCurrent == OneSignIn /\ OpenedOnce
=============================================================================
