---------------------------- MODULE ClientProofs ----------------------------
(***************************************************************************)
(* What the client keeps right while the user types and the Host answers,  *)
(* for any texts, Sessions, providers, documents and addresses: the draft  *)
(* that can be recovered (Composer), and six of the dialogs (TaskProcess,  *)
(* MemoryDialog, ProviderUsage, Authentication, SkillAuthoring,            *)
(* ConfigurationProcess).                                                  *)
(***************************************************************************)
EXTENDS Composer, TaskProcess, MemoryDialog, ProviderUsage, Authentication,
        SkillAuthoring, ConfigurationProcess,
        SequenceTheorems, WellFoundedInduction, FiniteSetTheorems, TLAPS

-----------------------------------------------------------------------------
(***************************************************************************)
(* The composer.  A draft that a submission or a rewind took away can be   *)
(* recovered as long as the text and the attachments are what was shown    *)
(* then.  The two controllers look at the editor one after the other, so   *)
(* the invariant is split in what the one and the other see, and calls     *)
(* that waited for a Session go on one after the other, each with what the *)
(* one before has left.                                                    *)
(***************************************************************************)
Fields == {"text", "active", "detached", "reserved", "next", "recover"}

\* The fields of a composer and of a draft it can recover.
Composed(c) ==
  /\ DOMAIN c = Fields
  /\ c.recover # NoDraft => DOMAIN c.recover = {"text", "active", "visible"} /\ c.recover.visible \in BOOLEAN

\* The text, and the attachments, that a recoverable draft stands for.
TextExact(c) == c.recover # NoDraft => c.text = (IF c.recover.visible THEN c.recover.text ELSE <<>>)
ActiveExact(c) == c.recover # NoDraft => c.active = (IF c.recover.visible THEN c.recover.active ELSE {})

Exact(c) == Composed(c) /\ TextExact(c) /\ ActiveExact(c)

\* Lemma: what the input controller forgets when it looks at the text.
LEMMA TextObserved ==
  ASSUME NEW c, Composed(c)
  PROVE  LET d == ObserveText(c) IN
         /\ Composed(d) /\ TextExact(d) /\ (ActiveExact(c) => ActiveExact(d))
         /\ d.text = c.text /\ d.active = c.active /\ d.recover \in {NoDraft, c.recover}
<1>1. CASE ObserveText(c) = c /\ TextExact(c)
  BY <1>1
<1>2. CASE ObserveText(c) = [c EXCEPT !.recover = NoDraft]
  <2> PICK d : d = [c EXCEPT !.recover = NoDraft]
    OBVIOUS
  <2>1. DOMAIN d = Fields /\ d.recover = NoDraft /\ d.text = c.text /\ d.active = c.active
    BY DEF Composed, Fields
  <2> QED  BY <1>2, <2>1 DEF Composed, TextExact, ActiveExact
<1> QED  BY <1>1, <1>2 DEF ObserveText, TextExact

\* Lemma: what it forgets when it looks at the attachments.
LEMMA AttachmentsObserved ==
  ASSUME NEW c, Composed(c)
  PROVE  LET d == ObserveAttachments(c) IN
         /\ Composed(d) /\ ActiveExact(d) /\ (TextExact(c) => TextExact(d))
         /\ d.text = c.text /\ d.active = c.active /\ d.recover \in {NoDraft, c.recover}
<1>1. CASE ObserveAttachments(c) = c /\ ActiveExact(c)
  BY <1>1
<1>2. CASE ObserveAttachments(c) = [c EXCEPT !.recover = NoDraft]
  <2> PICK d : d = [c EXCEPT !.recover = NoDraft]
    OBVIOUS
  <2>1. DOMAIN d = Fields /\ d.recover = NoDraft /\ d.text = c.text /\ d.active = c.active
    BY DEF Composed, Fields
  <2> QED  BY <1>2, <2>1 DEF Composed, TextExact, ActiveExact
<1> QED  BY <1>1, <1>2 DEF ObserveAttachments, ActiveExact

\* Lemma: binding the drafts to a text keeps what was recoverable or forgets it.
LEMMA ReconciledKeeps ==
  ASSUME NEW c, NEW text, Composed(c)
  PROVE  LET d == Reconciled(c, text) IN
         /\ Composed(d) /\ (TextExact(c) => TextExact(d)) /\ (ActiveExact(c) => ActiveExact(d))
         /\ d.text = c.text /\ d.recover \in {NoDraft, c.recover}
<1>1. CASE Bound(c, text) = c.active
  BY <1>1 DEF Reconciled
<1>2. CASE Bound(c, text) # c.active
  <2>0. PICK e : e = [c EXCEPT !.active = Bound(c, text), !.detached = (c.active \cup c.detached) \ Bound(c, text)]
    OBVIOUS
  <2>1. DOMAIN e = Fields /\ e.recover = c.recover /\ e.text = c.text
    BY <2>0 DEF Composed, Fields
  <2>2. Composed(e) /\ (TextExact(c) => TextExact(e))
    BY <2>1 DEF Composed, TextExact
  <2>3. Reconciled(c, text) = ObserveAttachments(e)
    BY <1>2, <2>0 DEF Reconciled
  <2> QED  BY <2>1, <2>2, <2>3, AttachmentsObserved
<1> QED  BY <1>1, <1>2

\* Lemma: so does every change of the text, and the text is right after it.
LEMMA TextSet ==
  ASSUME NEW c, NEW text, Composed(c)
  PROVE  LET d == SetText(c, text) IN
         /\ Composed(d) /\ TextExact(d) /\ (ActiveExact(c) => ActiveExact(d))
         /\ d.text = text /\ d.recover \in {NoDraft, c.recover}
<1>0. PICK e : e = [c EXCEPT !.text = text]
  OBVIOUS
<1>1. DOMAIN e = Fields /\ e.recover = c.recover /\ e.text = text /\ e.active = c.active
  BY <1>0 DEF Composed, Fields
<1>2. Composed(e) /\ (ActiveExact(c) => ActiveExact(e))
  BY <1>1 DEF Composed, ActiveExact
<1>3. PICK f : f = Reconciled(e, text)
  OBVIOUS
<1>4. Composed(f) /\ (ActiveExact(c) => ActiveExact(f)) /\ f.text = text /\ f.recover \in {NoDraft, c.recover}
  BY <1>1, <1>2, <1>3, ReconciledKeeps
<1>5. SetText(c, text) = ObserveText(f)
  BY <1>0, <1>3 DEF SetText
<1>6. /\ Composed(ObserveText(f)) /\ TextExact(ObserveText(f)) /\ (ActiveExact(f) => ActiveExact(ObserveText(f)))
      /\ ObserveText(f).text = f.text /\ ObserveText(f).recover \in {NoDraft, f.recover}
  BY <1>4, TextObserved
<1> QED  BY <1>4, <1>5, <1>6

\* Lemma: other attachments take the place of those there are; they may be
\* those of the draft shown.
LEMMA AllReplaced ==
  ASSUME NEW c, NEW drafts, Composed(c), TextExact(c),
         ActiveExact(c) \/ (c.recover # NoDraft => c.recover.visible /\ c.recover.active = drafts)
  PROVE  Exact(ReplacedAll(c, drafts))
<1>1. CASE c.detached = {} /\ c.reserved = 0 /\ drafts = c.active
  BY <1>1 DEF ReplacedAll, Exact, ActiveExact
<1>2. CASE ~(c.detached = {} /\ c.reserved = 0 /\ drafts = c.active)
  <2>0. PICK e : e = [c EXCEPT !.active = drafts, !.detached = {}, !.reserved = 0, !.next = Beyond(1, drafts)]
    OBVIOUS
  <2>1. DOMAIN e = Fields /\ e.recover = c.recover /\ e.text = c.text
    BY <2>0 DEF Composed, Fields
  <2>2. Composed(e) /\ TextExact(e)
    BY <2>1 DEF Composed, TextExact
  <2>3. ReplacedAll(c, drafts) = ObserveAttachments(e)
    BY <1>2, <2>0 DEF ReplacedAll
  <2> QED  BY <2>2, <2>3, AttachmentsObserved DEF Exact
<1> QED  BY <1>1, <1>2

\* Lemma: the attachments go away.
LEMMA Cleared ==
  ASSUME NEW c, Composed(c), TextExact(c),
         ActiveExact(c) \/ (c.recover # NoDraft => ~c.recover.visible)
  PROVE  Exact(Clear(c))
<1>0. PICK e : e = [c EXCEPT !.active = {}, !.detached = {}, !.reserved = 0, !.next = 1]
  OBVIOUS
<1>1. DOMAIN e = Fields /\ e.recover = c.recover /\ e.text = c.text /\ e.active = {}
  BY <1>0 DEF Composed, Fields
<1>2. Composed(e) /\ TextExact(e)
  BY <1>1 DEF Composed, TextExact
<1>3. CASE c.active = {} /\ c.detached = {} /\ c.reserved = 0
  <2>1. Clear(c) = e
    BY <1>0, <1>3 DEF Clear
  <2>2. ActiveExact(e)
    BY <1>1, <1>3 DEF ActiveExact
  <2> QED  BY <1>2, <2>1, <2>2 DEF Exact
<1>4. CASE ~(c.active = {} /\ c.detached = {} /\ c.reserved = 0)
  <2>1. Clear(c) = ObserveAttachments(e)
    BY <1>0, <1>4 DEF Clear
  <2> QED  BY <1>2, <2>1, AttachmentsObserved DEF Exact
<1> QED  BY <1>3, <1>4

\* Lemma: a change of a composer that leaves its text and what it can recover,
\* followed by a look at the attachments.
LEMMA ObservedExact ==
  ASSUME NEW c, NEW e, Exact(c), DOMAIN e = Fields, e.recover = c.recover, e.text = c.text
  PROVE  Exact(ObserveAttachments(e))
<1>1. Composed(e) /\ TextExact(e)
  BY DEF Exact, Composed, TextExact
<1> QED  BY <1>1, AttachmentsObserved DEF Exact

\* Lemma: what the operations on one composer keep.
LEMMA OperationsKeep ==
  ASSUME NEW c, Exact(c)
  PROVE  /\ \A text : Exact(SetText(c, text)) /\ Exact(Reconciled(c, text)) /\ Exact(PutBack(c, text))
         /\ Exact(Clear(c)) /\ Exact(DiscardDetached(c)) /\ Exact(Discard(c)) /\ Exact(ResetInput(c))
         /\ \A drafts : Exact(ReplacedAll(c, drafts)) /\ Exact(Restore(c, drafts))
         /\ \A m : Exact(RemoveMarker(c, m))
         /\ \A d : Exact(Complete(c, d))
         /\ \A i, m : Exact(Marked(c, i, m))
         /\ \A m : Exact(ObserveAttachments([c EXCEPT !.reserved = m]))
<1>0. Composed(c) /\ TextExact(c) /\ ActiveExact(c)
  BY DEF Exact
<1>1. \A text : Exact(SetText(c, text))
  BY <1>0, TextSet DEF Exact
<1>2. \A text : Exact(Reconciled(c, text))
  BY <1>0, ReconciledKeeps DEF Exact
<1>3. \A text : Exact(PutBack(c, text))
  BY <1>1 DEF PutBack
<1>4. Exact(Clear(c))
  BY <1>0, Cleared
<1>5. \A drafts : Exact(ReplacedAll(c, drafts))
  BY <1>0, AllReplaced
<1>6. Exact(DiscardDetached(c))
  <2> DEFINE e == [c EXCEPT !.detached = {}, !.next = IF c.active = {} /\ c.reserved = 0 THEN 1 ELSE c.next]
  <2>1. DOMAIN e = Fields /\ e.recover = c.recover /\ e.text = c.text
    BY <1>0 DEF Composed, Fields
  <2>2. DiscardDetached(c) = c \/ DiscardDetached(c) = ObserveAttachments(e)
    BY DEF DiscardDetached
  <2> HIDE DEF e
  <2> QED  BY <2>1, <2>2, ObservedExact
<1>7. \A m : Exact(ObserveAttachments([c EXCEPT !.reserved = m]))
  <2> TAKE m
  <2> DEFINE e == [c EXCEPT !.reserved = m]
  <2>1. DOMAIN e = Fields /\ e.recover = c.recover /\ e.text = c.text
    BY <1>0 DEF Composed, Fields
  <2> HIDE DEF e
  <2>2. Exact(ObserveAttachments(e))
    BY <2>1, ObservedExact
  <2> QED  BY <2>2 DEF e
<1>8. Exact(Discard(c))
  BY <1>7 DEF Discard
<1>9. Exact(ResetInput(c))
  <2>0. PICK e : e = [c EXCEPT !.recover = NoDraft]
    OBVIOUS
  <2>1. DOMAIN e = Fields /\ e.recover = NoDraft
    BY <1>0, <2>0 DEF Composed, Fields
  <2> QED  BY <2>0, <2>1 DEF ResetInput, Exact, Composed, TextExact, ActiveExact
<1>10. \A drafts : Exact(Restore(c, drafts))
  <2> TAKE drafts
  <2> DEFINE active == (drafts \ (c.active \cup c.detached)) \cup c.active
             e == [c EXCEPT !.active = active, !.next = Beyond(c.next, active)]
  <2>1. DOMAIN e = Fields /\ e.recover = c.recover /\ e.text = c.text
    BY <1>0 DEF Composed, Fields
  <2>2. Restore(c, drafts) = c \/ Restore(c, drafts) = ObserveAttachments(e)
    BY DEF Restore
  <2> HIDE DEF e
  <2> QED  BY <2>1, <2>2, ObservedExact
<1>11. \A m : Exact(RemoveMarker(c, m))
  BY <1>1 DEF RemoveMarker
<1>12. \A d : Exact(Complete(c, d))
  <2> TAKE d
  <2> DEFINE e == [c EXCEPT !.reserved = 0, !.active = c.active \cup {d}]
  <2>1. DOMAIN e = Fields /\ e.recover = c.recover /\ e.text = c.text
    BY <1>0 DEF Composed, Fields
  <2>2. Complete(c, d) = ObserveAttachments(e)
    BY DEF Complete
  <2> HIDE DEF e
  <2> QED  BY <2>1, <2>2, ObservedExact
<1>13. \A i, m : Exact(Marked(c, i, m))
  <2> TAKE i, m
  <2>0. PICK e : e = [c EXCEPT !.next = m + 1]
    OBVIOUS
  <2>1. DOMAIN e = Fields /\ e.recover = c.recover /\ e.text = c.text /\ e.active = c.active
    BY <1>0, <2>0 DEF Composed, Fields
  <2>2. Composed(e) /\ ActiveExact(e)
    BY <1>0, <2>1 DEF Composed, ActiveExact
  <2>3. Marked(c, i, m) = SetText(e, InsertedAt(c.text, i, m))
    BY <2>0 DEF Marked
  <2> QED  BY <2>2, <2>3, TextSet DEF Exact
<1> QED  BY <1>1, <1>2, <1>3, <1>4, <1>5, <1>6, <1>7, <1>8, <1>9, <1>10, <1>11, <1>12, <1>13

\* Lemma: a draft that is put into a composer leaves nothing to recover.
LEMMA DraftRestored ==
  ASSUME NEW c, Exact(c), NEW text, NEW drafts
  PROVE  Exact(RestoreDraft(c, text, drafts))
<1>1. Exact(ResetInput(c))
  BY OperationsKeep
<1>2. Exact(SetText(ResetInput(c), text))
  BY <1>1, OperationsKeep
<1> QED  BY <1>2, OperationsKeep DEF RestoreDraft

\* Lemma: a draft that is cleared can be recovered.
LEMMA Remembered ==
  ASSUME NEW c, Exact(c)
  PROVE  Exact(RememberAndClear(c))
<1>0. PICK recover : recover = [text |-> c.text, active |-> c.active, visible |-> FALSE]
  OBVIOUS
<1>1. DOMAIN recover = {"text", "active", "visible"} /\ recover.visible = FALSE
  BY <1>0
<1>2. PICK e : e = [c EXCEPT !.recover = recover]
  OBVIOUS
<1>3. DOMAIN e = Fields /\ e.recover = recover
  BY <1>2 DEF Exact, Composed, Fields
<1>4. Composed(e)
  BY <1>1, <1>3 DEF Composed
<1>5. PICK d : d = SetText(e, <<>>)
  OBVIOUS
<1>6. Composed(d) /\ TextExact(d) /\ d.recover \in {NoDraft, recover}
  BY <1>3, <1>4, <1>5, TextSet
<1>7. Exact(Clear(d))
  BY <1>1, <1>6, Cleared
<1>8. RememberAndClear(c) = c \/ RememberAndClear(c) = Clear(d)
  BY <1>0, <1>2, <1>5 DEF RememberAndClear
<1> QED  BY <1>7, <1>8

-----------------------------------------------------------------------------
(* Submissions: pairs of a composer and the calls                            *)

Paired(s) == DOMAIN s = {"c", "calls"} /\ Exact(s.c)

\* Lemma: a submission that is refused.
LEMMA RefusedKeeps ==
  ASSUME NEW s, NEW k, NEW text, Paired(s)
  PROVE  Paired(Refused(s, k, text))
<1>1. Exact(PutBack(s.c, text))
  BY OperationsKeep DEF Paired
<1> QED  BY <1>1 DEF Refused, Paired

\* Lemma: other calls beside the same composer.
LEMMA CallsChange ==
  ASSUME NEW s, NEW cs, Paired(s)
  PROVE  Paired([s EXCEPT !.calls = cs])
BY DEF Paired

\* Lemma: a prompt that is admitted.
LEMMA PromptedKeeps ==
  ASSUME NEW s, NEW k, NEW text, NEW ready, NEW hold, Paired(s)
  PROVE  Paired(Prompted(s, k, text, ready, hold))
<1> DEFINE call == [s.calls[k] EXCEPT !.text = text, !.epoch = epoch, !.drafts = s.c.active,
                                      !.want = <<>>, !.touched = FALSE, !.fromEditor = FALSE]
<1>1. CASE s.c.active = {}
  <2>1. Prompted(s, k, text, ready, hold) = [s EXCEPT !.calls = [s.calls EXCEPT ![k] = [call EXCEPT !.phase = "sending"]]]
    BY <1>1 DEF Prompted
  <2> HIDE DEF call
  <2> QED  BY <2>1, CallsChange
<1>2. CASE s.c.active # {}
  <2>1. CASE ~ready \/ Busy(s.calls) \/ ~Compiles(text, s.c.active)
    <3>1. Prompted(s, k, text, ready, hold) = Refused(s, k, text)
      BY <1>2, <2>1 DEF Prompted
    <3> QED  BY <3>1, RefusedKeeps
  <2>2. CASE ~(~ready \/ Busy(s.calls) \/ ~Compiles(text, s.c.active))
    <3>1. PICK cs : Prompted(s, k, text, ready, hold) = [c |-> IF hold THEN s.c ELSE Clear(s.c), calls |-> cs]
      BY <1>2, <2>2 DEF Prompted
    <3>2. Exact(s.c) /\ Exact(Clear(s.c))
      BY OperationsKeep DEF Paired
    <3> QED  BY <3>1, <3>2 DEF Paired
  <2> QED  BY <2>1, <2>2
<1> QED  BY <1>1, <1>2

\* Lemma: a text that is submitted.
LEMMA SubmittedKeeps ==
  ASSUME NEW s, NEW k, NEW text, NEW ready, NEW hold, Paired(s)
  PROVE  Paired(Submitted(s, k, text, ready, hold))
<1>0. PICK bound : bound = [s EXCEPT !.c = Reconciled(s.c, text)]
  OBVIOUS
<1>1. Paired(bound)
  <2>1. Exact(Reconciled(s.c, text))
    BY OperationsKeep DEF Paired
  <2> QED  BY <1>0, <2>1 DEF Paired
<1>2. \/ \E cs : Submitted(s, k, text, ready, hold) = [bound EXCEPT !.calls = cs]
      \/ Submitted(s, k, text, ready, hold) = Prompted(bound, k, text, ready, hold)
  BY <1>0 DEF Submitted
<1> QED  BY <1>1, <1>2, CallsChange, PromptedKeeps

\* Lemma: what the editor holds is submitted.
LEMMA EditorSubmittedKeeps ==
  ASSUME NEW s, NEW k, NEW ready, NEW hold, Paired(s)
  PROVE  Paired(EditorSubmitted(s, k, ready, hold))
<1>1. Exact(SetText(ResetInput(s.c), <<>>))
  <2>1. Exact(ResetInput(s.c))
    BY OperationsKeep DEF Paired
  <2> QED  BY <2>1, OperationsKeep
<1>2. \/ \E cs : EditorSubmitted(s, k, ready, hold) = [s EXCEPT !.calls = cs]
      \/ \E cs : EditorSubmitted(s, k, ready, hold)
                   = Submitted([c |-> SetText(ResetInput(s.c), <<>>), calls |-> cs], k, s.c.text, ready, hold)
  BY DEF EditorSubmitted
<1>3. \A cs : Paired([c |-> SetText(ResetInput(s.c), <<>>), calls |-> cs])
  BY <1>1 DEF Paired
<1>4. CASE \E cs : EditorSubmitted(s, k, ready, hold) = [s EXCEPT !.calls = cs]
  BY <1>4, CallsChange
<1>5. ASSUME NEW cs, EditorSubmitted(s, k, ready, hold)
                       = Submitted([c |-> SetText(ResetInput(s.c), <<>>), calls |-> cs], k, s.c.text, ready, hold)
      PROVE  Paired(EditorSubmitted(s, k, ready, hold))
  <2>0. PICK bare : bare = [c |-> SetText(ResetInput(s.c), <<>>), calls |-> cs]
    OBVIOUS
  <2>1. Paired(bare)
    BY <1>3, <2>0
  <2> QED  BY <1>5, <2>0, <2>1, SubmittedKeeps
<1> QED  BY <1>2, <1>4, <1>5

\* Lemma: a submission that waited goes on, or fails.
LEMMA WaitingKeeps ==
  ASSUME NEW s, NEW k, NEW ready, Paired(s)
  PROVE  Paired(Admitted(s, k, ready)) /\ Paired(AdmissionFailed(s, k))
<1>1. Paired(Admitted(s, k, ready))
  BY EditorSubmittedKeeps, SubmittedKeeps DEF Admitted
<1>2. Paired(AdmissionFailed(s, k))
  <2>1. Exact(PutBack(s.c, s.calls[k].text))
    BY OperationsKeep DEF Paired
  <2> QED  BY <2>1 DEF AdmissionFailed, Paired
<1> QED  BY <1>1, <1>2

\* Lemma: numbers have a least one among them.
LEMMA LeastElement ==
  ASSUME NEW T, T \subseteq Nat, T # {}
  PROVE  \E x \in T : \A y \in T : x <= y
<1> DEFINE R == {ss \in Nat \X Nat : ss[1] < ss[2]}
<1>0. IsWellFoundedOn(R, Nat)
  BY NatLessThanWellFounded, Zenon DEF OpToRel
<1> HIDE DEF R
<1>1. PICK x \in T : \A y \in T : ~ (<<y, x>> \in R)
  BY <1>0, WFMin
<1>2. \A y \in T : ~ (y < x)
  BY <1>1 DEF R
<1> QED BY <1>2

\* Lemma: numbers reached one after the other.
LEMMA Reached ==
  ASSUME NEW N \in Nat, NEW T, 0 \in T, \A n \in 1 .. N : n - 1 \in T => n \in T
  PROVE  \A n \in 0 .. N : n \in T
<1> DEFINE missing == {n \in 0 .. N : n \notin T}
<1> SUFFICES ASSUME missing # {}  PROVE FALSE
  OBVIOUS
<1>1. PICK x \in missing : \A y \in missing : x <= y
  <2>1. missing \subseteq Nat
    OBVIOUS
  <2> HIDE DEF missing
  <2> QED  BY <2>1, LeastElement
<1>2. x \in 1 .. N /\ x - 1 \in 0 .. N
  BY <1>1
<1>3. x - 1 \notin missing
  BY <1>1, <1>2
<1> QED  BY <1>1, <1>2, <1>3

\* Lemma: what waited for a Session goes on, one call after the other.
LEMMA AllWaitingKeep ==
  ASSUME NEW s, NEW created, NEW ready, Paired(s)
  PROVE  Paired(ForWaiting(s, created, ready))
<1> DEFINE N == MaxCall
           Value(h, i) == IF i = 0 THEN s
                          ELSE IF s.calls[i].phase # "waiting" THEN h[i - 1]
                          ELSE IF created THEN Admitted(h[i - 1], i, ready)
                          ELSE AdmissionFailed(h[i - 1], i)
           step(h) == [i \in 0 .. N |-> Value(h, i)]
           built == CHOOSE h : h = step(h)
           Upto(k, h) == DOMAIN h = 0 .. k /\ \A i \in 0 .. k : h[i] = Value(h, i)
           T == {k \in 0 .. N : \E h : h = [i \in 0 .. k |-> h[i]] /\ Upto(k, h)}
<1>0. N \in Nat
  BY ComposerBounds
<1>1. ForWaiting(s, created, ready) = built[N]
  BY DEF ForWaiting
<1>2. 0 \in T
  <2> DEFINE g == [i \in 0 .. 0 |-> s]
  <2>1. g = [i \in 0 .. 0 |-> g[i]] /\ Upto(0, g)
    OBVIOUS
  <2> HIDE DEF g, Upto
  <2> QED  BY <1>0, <2>1
<1>3. ASSUME NEW k \in 1 .. N, k - 1 \in T  PROVE k \in T
  <2>1. PICK h : h = [i \in 0 .. k - 1 |-> h[i]] /\ Upto(k - 1, h)
    BY <1>3
  <2> DEFINE g == [i \in 0 .. k |-> IF i = k THEN Value(h, k) ELSE h[i]]
  <2>2. k \in 0 .. N /\ k \in Int /\ k > 0
    BY <1>0
  <2> HIDE DEF N
  <2>3. DOMAIN g = 0 .. k /\ g = [i \in 0 .. k |-> g[i]]
    OBVIOUS
  <2>4. ASSUME NEW i \in 0 .. k  PROVE g[i] = Value(g, i)
    <3>0. CASE i = 0
      <4>1. i \in 0 .. k - 1 /\ i # k
        BY <2>2, <3>0
      <4>2. g[i] = h[i] /\ h[i] = s
        BY <2>1, <3>0, <4>1
      <4> HIDE DEF g
      <4> QED  BY <3>0, <4>2
    <3>1. CASE i # 0
      <4>1. i - 1 \in 0 .. k /\ i - 1 # k /\ i - 1 \in 0 .. k - 1
        BY <2>2, <3>1
      <4>2. g[i - 1] = h[i - 1]
        BY <4>1
      <4>3. g[i] = Value(h, i)
        <5>1. CASE i = k
          BY <5>1
        <5>2. CASE i # k
          <6>1. i \in 0 .. k - 1
            BY <2>2, <5>2
          <6>2. g[i] = h[i] /\ h[i] = Value(h, i)
            BY <2>1, <5>2, <6>1
          <6> QED  BY <6>2
        <5> QED  BY <5>1, <5>2
      <4> HIDE DEF g
      <4> QED  BY <4>2, <4>3
    <3> QED  BY <3>0, <3>1
  <2>5. Upto(k, g)
    BY <2>3, <2>4
  <2> HIDE DEF g, Upto
  <2> QED  BY <2>2, <2>3, <2>5
<1>4. N \in T
  <2>1. \A n \in 0 .. N : n \in T
    <3> HIDE DEF T, N
    <3> QED  BY <1>0, <1>2, <1>3, Reached
  <2> HIDE DEF T
  <2> QED  BY <1>0, <2>1
<1>5. PICK h : h = [i \in 0 .. N |-> h[i]] /\ Upto(N, h)
  BY <1>4
<1>6. h = step(h)
  <2> HIDE DEF N, Value
  <2>1. step(h) = [i \in 0 .. N |-> h[i]]
    BY <1>5
  <2> HIDE DEF step
  <2> QED  BY <1>5, <2>1
<1>7. built = step(built)
  <2> HIDE DEF step
  <2> QED  BY <1>6
<1> HIDE DEF built
<1>8. \A i \in 0 .. N : built[i] = Value(built, i)
  <2> HIDE DEF Value, N
  <2> QED  BY <1>7
<1> DEFINE right == {n \in 0 .. N : Paired(built[n])}
<1>9. 0 \in right
  BY <1>0, <1>8
<1>10. ASSUME NEW n \in 1 .. N, n - 1 \in right  PROVE n \in right
  <2>1. n \in 0 .. N /\ n # 0 /\ Paired(built[n - 1])
    BY <1>0, <1>10
  <2>2. built[n] \in {built[n - 1], Admitted(built[n - 1], n, ready), AdmissionFailed(built[n - 1], n)}
    BY <1>8, <2>1
  <2>3. Paired(built[n])
    BY <2>1, <2>2, WaitingKeeps
  <2> QED  BY <2>1, <2>3
<1>11. \A n \in 0 .. N : n \in right
  <2> HIDE DEF right, N
  <2> QED  BY <1>0, <1>9, <1>10, Reached
<1> QED  BY <1>0, <1>1, <1>11

-----------------------------------------------------------------------------

\* Lemma: what a composer is handed when it is installed.
LEMMA TransferredExact ==
  ASSUME NEW c, NEW preserve
  PROVE  Exact(Transferred(c, preserve)) /\ Exact(EmptyComposer)
<1>1. Exact(EmptyComposer)
  BY DEF EmptyComposer, Exact, Composed, TextExact, ActiveExact, Fields
<1>2. \A text, drafts : Exact(RestoreDraft(EmptyComposer, text, drafts))
  BY <1>1, DraftRestored
<1> QED  BY <1>1, <1>2 DEF Transferred

\* Lemma: every action leaves the recoverable draft exact.
LEMMA ComposerStep == Exact(composer) /\ [Next]_vars => Exact(composer)'
<1> SUFFICES ASSUME Exact(composer), [Next]_vars  PROVE Exact(composer')
  BY DEF Exact, Composed, TextExact, ActiveExact
<1>0. \A s : Become(s) /\ Paired(s) => Exact(composer')
  BY DEF Become, Paired
<1>1. \A c : Become(With(c)) => composer' = c
  BY DEF Become, With
<1>2. \A c, cs : Become([c |-> c, calls |-> cs]) => composer' = c
  BY DEF Become
<1>3. Paired(With(composer))
  BY DEF Paired, With
<1>4. CASE Edit
  <2>1. PICK text : composer' = SetText(composer, text)
    BY <1>1, <1>4 DEF Edit
  <2> QED  BY <2>1, OperationsKeep
<1>5. CASE Enter
  <2> DEFINE cleared == ResetInput(SetText(composer, <<>>))
             bare == Reconciled(cleared, composer.text)
  <2>0. PICK k \in Call, local, ready, hold \in BOOLEAN :
          LET s == [c |-> bare, calls |-> [calls EXCEPT ![k] = MadeOf(composer.text)]]
          IN  \/ Become(Submitted(s, k, composer.text, ready, hold))
              \/ Become([s EXCEPT !.calls[k].phase = "waiting"])
    BY <1>5 DEF Enter
  <2> DEFINE cs == [calls EXCEPT ![k] = MadeOf(composer.text)]
             more == [cs EXCEPT ![k] = [cs[k] EXCEPT !.phase = "waiting"]]
  <2> HIDE DEF bare
  <2>1. \/ Become(Submitted([c |-> bare, calls |-> cs], k, composer.text, ready, hold))
        \/ Become([[c |-> bare, calls |-> cs] EXCEPT !.calls = more])
    BY <2>0
  <2> HIDE DEF cs, more
  <2> USE DEF bare
  <2>2. Exact(SetText(composer, <<>>))
    BY OperationsKeep
  <2>3. Exact(cleared)
    BY <2>2, OperationsKeep
  <2> HIDE DEF cleared
  <2>4. Exact(bare)
    BY <2>3, OperationsKeep
  <2> HIDE DEF bare
  <2>5. PICK s : s = [c |-> bare, calls |-> cs]
    OBVIOUS
  <2>6. Paired(s)
    BY <2>4, <2>5 DEF Paired
  <2>7. Paired(Submitted(s, k, composer.text, ready, hold))
    BY <2>6, SubmittedKeeps
  <2>8. Paired([s EXCEPT !.calls = more])
    BY <2>6, CallsChange
  <2> QED  BY <1>0, <2>1, <2>5, <2>7, <2>8
<1>6. CASE SubmitEditor
  <2>1. \/ \E k, ready, hold : Become(EditorSubmitted(With(composer), k, ready, hold))
        \/ composer' = composer
    BY <1>6 DEF SubmitEditor
  <2> QED  BY <1>0, <1>3, <2>1, EditorSubmittedKeeps
<1>7. CASE CreationCommitted \/ SwitchSession
  <2>1. composer' = Transferred(composer, ~identity)
    BY <1>7 DEF CreationCommitted, SwitchSession, Install
  <2> QED  BY <2>1, TransferredExact
<1>8. CASE CreationSettled \/ CreationFailed
  <2>1. PICK created, ready : Become(ForWaiting(With(composer), created, ready))
    BY <1>8 DEF CreationSettled, CreationFailed
  <2> QED  BY <1>0, <1>3, <2>1, AllWaitingKeep
<1>9. CASE SupersededRejected
  <2>1. PICK k : Become(AdmissionFailed(With(composer), k))
    BY <1>9 DEF SupersededRejected
  <2> QED  BY <1>0, <1>3, <2>1, WaitingKeeps
<1>10. CASE RewindDraft
  <2>1. PICK text, drafts : composer' = RestoreDraft(composer, text, drafts)
    BY <1>1, <1>10 DEF RewindDraft
  <2> QED  BY <2>1, DraftRestored
<1>11. CASE CommandDone
  <2>1. \/ composer' = composer
        \/ \E drafts : composer' = ReplacedAll(composer, drafts)
    BY <1>2, <1>11 DEF CommandDone
  <2> QED  BY <2>1, OperationsKeep
<1>12. CASE HeldReleased
  <2>1. composer' = Clear(composer)
    BY <1>2, <1>12 DEF HeldReleased
  <2> QED  BY <2>1, OperationsKeep
<1>13. CASE Sent
  <2>1. composer' = composer \/ composer' = DiscardDetached(composer)
    BY <1>2, <1>13 DEF Sent
  <2> QED  BY <2>1, OperationsKeep
<1>14. CASE CallFailed
  <2>1. \/ composer' = composer
        \/ \E text : composer' = PutBack(composer, text)
        \/ \E text, drafts : composer' = PutBack(Restore(composer, drafts), text)
    BY <1>2, <1>14 DEF CallFailed
  <2>2. \A drafts : Exact(Restore(composer, drafts))
    BY OperationsKeep
  <2>3. \A text : Exact(PutBack(composer, text))
    BY OperationsKeep
  <2>4. \A text, drafts : Exact(PutBack(Restore(composer, drafts), text))
    BY <2>2, OperationsKeep
  <2> QED  BY <2>1, <2>3, <2>4
<1>15. CASE PasteStarted
  <2>1. PICK i, m : composer' = Marked(ObserveAttachments([composer EXCEPT !.reserved = m]), i, m)
    BY <1>1, <1>15 DEF PasteStarted
  <2>2. Exact(ObserveAttachments([composer EXCEPT !.reserved = m]))
    BY OperationsKeep
  <2> QED  BY <2>1, <2>2, OperationsKeep
<1>16. CASE PasteLoaded
  <2>1. composer' = PasteLanded(composer, paste)
    BY <1>1, <1>16 DEF PasteLoaded
  <2> QED  BY <2>1, OperationsKeep DEF PasteLanded
<1>17. CASE PasteFailed
  <2>1. composer' = Discard(RemoveMarker(composer, paste))
    BY <1>1, <1>17 DEF PasteFailed
  <2>2. Exact(RemoveMarker(composer, paste))
    BY OperationsKeep
  <2> QED  BY <2>1, <2>2, OperationsKeep
<1>18. CASE FileLoaded
  <2>1. PICK i, m : \E d : LET c == Marked(ObserveAttachments(composer), i, m)
                           IN  composer' = ObserveAttachments([c EXCEPT !.active = c.active \cup {d}])
    BY <1>1, <1>18 DEF FileLoaded
  <2>2. PICK c : c = Marked(ObserveAttachments(composer), i, m)
    OBVIOUS
  <2>3. PICK d : composer' = ObserveAttachments([c EXCEPT !.active = c.active \cup {d}])
    BY <2>1, <2>2
  <2>4. Exact(ObserveAttachments(composer))
    BY AttachmentsObserved DEF Exact
  <2>5. Exact(c)
    BY <2>2, <2>4, OperationsKeep
  <2>6. PICK e : e = [c EXCEPT !.active = c.active \cup {d}]
    OBVIOUS
  <2>7. DOMAIN e = Fields /\ e.recover = c.recover /\ e.text = c.text
    BY <2>5, <2>6 DEF Exact, Composed, Fields
  <2> QED  BY <2>3, <2>5, <2>6, <2>7, ObservedExact
<1>19. CASE RemoveAttachment
  <2>1. PICK m : LET c == RemoveMarker(composer, m) IN composer' = Reconciled(c, c.text)
    BY <1>1, <1>19 DEF RemoveAttachment
  <2>2. Exact(RemoveMarker(composer, m))
    BY OperationsKeep
  <2> QED  BY <2>1, <2>2, OperationsKeep
<1>20. CASE ClearDraft
  <2>1. composer' = RememberAndClear(composer)
    BY <1>1, <1>20 DEF ClearDraft
  <2> QED  BY <2>1, Remembered
<1>21. CASE PreviousDraft
  <2>0. PICK recover : recover = [composer.recover EXCEPT !.visible = TRUE]
    OBVIOUS
  <2>1. PICK e : e = [composer EXCEPT !.recover = recover]
    OBVIOUS
  <2>2. PICK c : c = SetText(e, composer.recover.text)
    OBVIOUS
  <2>3. composer.recover # NoDraft /\ composer' = ReplacedAll(c, composer.recover.active)
    BY <1>1, <1>21, <2>0, <2>1, <2>2 DEF PreviousDraft
  <2>4. /\ DOMAIN recover = {"text", "active", "visible"} /\ recover.visible = TRUE
        /\ recover.active = composer.recover.active
    BY <2>0, <2>3 DEF Exact, Composed
  <2>5. DOMAIN e = Fields /\ e.recover = recover
    BY <2>1 DEF Exact, Composed, Fields
  <2>6. Composed(e)
    BY <2>4, <2>5 DEF Composed
  <2>7. Composed(c) /\ TextExact(c) /\ c.recover \in {NoDraft, recover}
    BY <2>2, <2>5, <2>6, TextSet
  <2> QED  BY <2>3, <2>4, <2>7, AllReplaced
<1>22. CASE NextDraft
  <2>0. PICK recover : recover = [composer.recover EXCEPT !.visible = FALSE]
    OBVIOUS
  <2>1. PICK e : e = [composer EXCEPT !.recover = recover]
    OBVIOUS
  <2>2. PICK c : c = SetText(e, <<>>)
    OBVIOUS
  <2>3. composer.recover # NoDraft /\ composer' = Clear(c)
    BY <1>1, <1>22, <2>0, <2>1, <2>2 DEF NextDraft
  <2>4. DOMAIN recover = {"text", "active", "visible"} /\ recover.visible = FALSE
    BY <2>0, <2>3 DEF Exact, Composed
  <2>5. DOMAIN e = Fields /\ e.recover = recover
    BY <2>1 DEF Exact, Composed, Fields
  <2>6. Composed(e)
    BY <2>4, <2>5 DEF Composed
  <2>7. Composed(c) /\ TextExact(c) /\ c.recover \in {NoDraft, recover}
    BY <2>2, <2>5, <2>6, TextSet
  <2> QED  BY <2>3, <2>4, <2>7, Cleared
<1>23. CASE OpeningOther \/ CommandOpens \/ Prepared \/ CancelPreparation \/ UNCHANGED vars
  BY <1>23 DEF OpeningOther, CommandOpens, Prepared, CancelPreparation, vars
<1> QED  BY <1>4, <1>5, <1>6, <1>7, <1>8, <1>9, <1>10, <1>11, <1>12, <1>13, <1>14, <1>15, <1>16, <1>17,
            <1>18, <1>19, <1>20, <1>21, <1>22, <1>23 DEF Next

\* Theorem: a draft that can be recovered is exactly what the composer shows,
\* or the composer is empty.
THEOREM DraftRecovered == Spec => []RecoveryExact
<1>1. Init => Exact(composer)
  BY TransferredExact DEF Init
<1>2. Exact(composer) => RecoveryExact
  BY DEF Exact, Composed, TextExact, ActiveExact, RecoveryExact
<1> QED  BY <1>1, <1>2, ComposerStep, PTL DEF Spec

-----------------------------------------------------------------------------
(***************************************************************************)
(* The Task surface.  Rows come and go under its cursor, also while the    *)
(* confirmation of a clear is shown, from which the list of the Goal comes *)
(* back with the cursor where it was.                                      *)
(***************************************************************************)
\* A dialog in front creates or edits a Goal.
Asking(ds) ==
  ds # <<>> => DOMAIN ds[1] = {"kind", "action", "shown"} /\ ds[1].action \in {"create", "edit"}

TaskTypes ==
  /\ DOMAIN host_ = {"epoch", "phase", "revision", "todos", "running"}
  /\ host_.todos \in Nat
  /\ DOMAIN taskView = {"stage", "index", "pending"} /\ taskView.index \in Nat
  /\ taskView.stage \in {"closed", "root", "todos", "runtime", "goal", "goal-confirm"}
  /\ taskView.pending \in {"none", "clear"}
  /\ Asking(dialogs)

\* The list a stage is or comes back to.
ListOf(stage) == IF stage = "goal-confirm" THEN "goal" ELSE stage

\* The cursor is on a row of the list that is shown or was, or on its top.
OnRow(v, h) == v.stage # "closed" => v.index = 0 \/ v.index < RowCount(ListOf(v.stage), h)

TaskInv ==
  /\ TaskTypes /\ ChangesItsGoal /\ OnRow(taskView, host_)
  /\ \A w \in changing : w.op = "clear" => w.from = "goal-confirm"
  /\ taskView.pending = "clear" <=> taskView.stage = "goal-confirm"

\* Lemma: it holds at the start.
LEMMA TaskInitial == TaskInit => TaskInv
  BY DEF TaskInit, TaskInv, TaskTypes, ChangesItsGoal, OnRow, NoTaskView, NoGoal, Asking

\* Lemma: rows are counted.
LEMMA RowsCounted ==
  ASSUME NEW stage, NEW h, h.todos \in Nat
  PROVE  RowCount(stage, h) \in Nat
<1>1. Len(GoalRows(h.phase)) \in Nat
  BY DEF GoalRows
<1> QED  BY <1>1 DEF RowCount

\* Lemma: a publication leaves the cursor on a row.
LEMMA FollowsKeeps ==
  ASSUME TaskInv, NEW h, Follows(h), h.todos \in Nat,
         DOMAIN h = {"epoch", "phase", "revision", "todos", "running"},
         dialogs' = dialogs, changing' \subseteq changing
  PROVE  TaskInv'
<1> PICK count : count = RowCount(taskView.stage, h)
  OBVIOUS
<1>1. /\ host_' = h
      /\ taskView' = IF taskView.index >= count
                     THEN [taskView EXCEPT !.index = IF count = 0 THEN 0 ELSE count - 1] ELSE taskView
  BY DEF Follows
<1>2. count \in Nat /\ taskView.index \in Nat
  BY RowsCounted DEF TaskInv, TaskTypes
<1>3. /\ DOMAIN taskView' = {"stage", "index", "pending"} /\ taskView'.stage = taskView.stage
      /\ taskView'.pending = taskView.pending /\ taskView'.index \in Nat
      /\ taskView'.index = 0 \/ taskView'.index < count
  BY <1>1, <1>2 DEF TaskInv, TaskTypes
<1>4. TaskTypes'
  BY <1>1, <1>3 DEF TaskInv, TaskTypes
<1>5. OnRow(taskView', h)
  <2>1. CASE taskView.stage = "goal-confirm"
    <3>1. count = 1
      BY <2>1 DEF RowCount
    <3> QED  BY <1>3, <3>1 DEF OnRow
  <2>2. CASE taskView.stage # "goal-confirm"
    BY <1>3, <2>2 DEF OnRow, ListOf
  <2> QED  BY <2>1, <2>2
<1>6. OnRow(taskView', host_')
  BY <1>1, <1>5
<1>7. ChangesItsGoal' /\ \A w \in changing' : w.op = "clear" => w.from = "goal-confirm"
  BY DEF TaskInv, ChangesItsGoal
<1> QED  BY <1>3, <1>4, <1>6, <1>7 DEF TaskInv

\* Lemma: a key that only moves the cursor or goes to another stage.
LEMMA ViewKeeps ==
  ASSUME TaskInv, NEW v, taskView' = v, host_' = host_,
         DOMAIN v = {"stage", "index", "pending"}, v.index \in Nat,
         v.stage \in {"closed", "root", "todos", "runtime", "goal", "goal-confirm"}, v.pending \in {"none", "clear"},
         v.pending = "clear" <=> v.stage = "goal-confirm", OnRow(v, host_),
         Asking(dialogs'),
         \A w \in changing' : w.ref = w.shown /\ (w.op = "clear" => w.from = "goal-confirm")
  PROVE  TaskInv'
<1>1. OnRow(taskView', host_')
  OBVIOUS
<1> QED  BY <1>1 DEF TaskInv, TaskTypes, ChangesItsGoal

\* Lemma: an action of the Goal opens a dialog for it or is sent for it.
LEMMA GoalActs ==
  ASSUME TaskInv, NEW action, GoalAction(action), action = "clear" => taskView.stage = "goal-confirm"
  PROVE  /\ Asking(dialogs')
         /\ \A w \in changing' : w.ref = w.shown /\ (w.op = "clear" => w.from = "goal-confirm")
<1>1. /\ Asking(dialogs)
      /\ \A w \in changing : w.ref = w.shown /\ (w.op = "clear" => w.from = "goal-confirm")
  BY DEF TaskInv, TaskTypes, ChangesItsGoal
<1>2. CASE action \in {"create", "edit", "rounds"} /\ \E kind : \E a \in {"create", "edit"} : dialogs' = <<Dialog(kind, a)>>
           /\ changing' = changing
  BY <1>1, <1>2 DEF Dialog, Asking
<1>3. CASE dialogs' = dialogs /\ changing' = changing
  BY <1>1, <1>3
<1>4. CASE dialogs' = dialogs /\ changing' = changing \cup {Change(action, Ref)}
  <2> PICK new : new = Change(action, Ref)
    OBVIOUS
  <2>1. new.ref = new.shown /\ new.op = action /\ new.from = taskView.stage
    BY DEF Change
  <2> QED  BY <1>1, <1>4, <2>1
<1>5. \/ action \in {"create", "edit", "rounds"} /\ (\E kind : \E a \in {"create", "edit"} : dialogs' = <<Dialog(kind, a)>>)
         /\ changing' = changing
      \/ dialogs' = dialogs /\ changing' = changing
      \/ dialogs' = dialogs /\ changing' = changing \cup {Change(action, Ref)}
  BY DEF GoalAction
<1> QED  BY <1>2, <1>3, <1>4, <1>5

\* Lemma: every key, every answer and every publication of the Host keeps it.
LEMMA TaskStep == TaskInv /\ [TaskNext]_taskVars => TaskInv'
<1> SUFFICES ASSUME TaskInv, [TaskNext]_taskVars  PROVE TaskInv'
  OBVIOUS
<1>1. /\ TaskTypes /\ OnRow(taskView, host_)
      /\ taskView.pending = "clear" <=> taskView.stage = "goal-confirm"
      /\ Asking(dialogs)
      /\ \A w \in changing : w.ref = w.shown /\ (w.op = "clear" => w.from = "goal-confirm")
  BY DEF TaskInv, TaskTypes, ChangesItsGoal
<1>2. ASSUME NEW v, Looks(v), DOMAIN v = {"stage", "index", "pending"}, v.index \in Nat,
             v.stage \in {"closed", "root", "todos", "runtime", "goal", "goal-confirm"}, v.pending \in {"none", "clear"},
             v.pending = "clear" <=> v.stage = "goal-confirm", OnRow(v, host_)
      PROVE  TaskInv'
  BY <1>1, <1>2, ViewKeeps DEF Looks
<1>3. ASSUME NEW stage \in {"root", "todos", "runtime", "goal"}, NEW v, v = [NoTaskView EXCEPT !.stage = stage]
      PROVE  /\ DOMAIN v = {"stage", "index", "pending"} /\ v.index = 0 /\ v.stage = stage /\ v.pending = "none"
             /\ OnRow(v, host_)
  BY <1>3 DEF NoTaskView, OnRow
<1>4. CASE OpenTask
  <2> PICK v : v = [NoTaskView EXCEPT !.stage = "root"]
    OBVIOUS
  <2>1. Looks(v)
    BY <1>4 DEF OpenTask
  <2> QED  BY <1>2, <1>3, <2>1
<1>5. CASE TaskMoves
  <2>1. PICK index : /\ index \in 0 .. RowCount(taskView.stage, host_) - 1 /\ Looks([taskView EXCEPT !.index = index])
                     /\ taskView.stage # "closed"
    BY <1>5 DEF TaskMoves, Walks
  <2> PICK v : v = [taskView EXCEPT !.index = index]
    OBVIOUS
  <2>2. /\ DOMAIN v = {"stage", "index", "pending"} /\ v.index = index /\ v.stage = taskView.stage
        /\ v.pending = taskView.pending
    BY <1>1 DEF TaskTypes
  <2>3. RowCount(taskView.stage, host_) \in Nat
    BY <1>1, RowsCounted DEF TaskTypes
  <2>4. index \in Nat /\ index < RowCount(taskView.stage, host_)
    BY <2>1, <2>3
  <2>5. OnRow(v, host_)
    <3>1. CASE taskView.stage = "goal-confirm"
      <4>1. RowCount(taskView.stage, host_) = 1
        BY <3>1 DEF RowCount
      <4> QED  BY <2>2, <2>4, <4>1 DEF OnRow
    <3>2. CASE taskView.stage # "goal-confirm"
      BY <2>2, <2>4, <3>2 DEF OnRow, ListOf
    <3> QED  BY <3>1, <3>2
  <2> QED  BY <1>1, <1>2, <2>1, <2>2, <2>4, <2>5 DEF TaskTypes
<1>6. CASE TaskBack
  <2>1. CASE taskView.stage = "root"
    <3>1. Looks(NoTaskView)
      BY <1>6, <2>1 DEF TaskBack
    <3> QED  BY <1>2, <3>1 DEF NoTaskView, OnRow
  <2>2. CASE taskView.stage = "goal-confirm"
    <3> PICK v : v = [taskView EXCEPT !.stage = "goal", !.pending = "none"]
      OBVIOUS
    <3>1. Looks(v)
      BY <1>6, <2>2 DEF TaskBack
    <3>2. /\ DOMAIN v = {"stage", "index", "pending"} /\ v.index = taskView.index /\ v.stage = "goal"
          /\ v.pending = "none"
      BY <1>1 DEF TaskTypes
    <3>3. OnRow(v, host_)
      BY <1>1, <2>2, <3>2 DEF OnRow, ListOf
    <3> QED  BY <1>1, <1>2, <3>1, <3>2, <3>3 DEF TaskTypes
  <2>3. CASE taskView.stage \notin {"root", "goal-confirm"}
    <3> PICK v : v = [NoTaskView EXCEPT !.stage = "root"]
      OBVIOUS
    <3>1. Looks(v)
      BY <1>6, <2>3 DEF TaskBack
    <3> QED  BY <1>2, <1>3, <3>1
  <2> QED  BY <2>1, <2>2, <2>3
<1>7. CASE TaskSelects
  <2>1. CASE taskView.stage = "root"
    <3> PICK stage : stage = <<"goal", "todos", "runtime">>[taskView.index + 1]
      OBVIOUS
    <3> PICK v : v = [NoTaskView EXCEPT !.stage = stage]
      OBVIOUS
    <3>1. Looks(v)
      BY <1>7, <2>1 DEF TaskSelects
    <3>2. taskView.index \in 0 .. 2
      BY <1>1, <2>1 DEF OnRow, ListOf, RowCount, TaskTypes
    <3>3. stage \in {"goal", "todos", "runtime"}
      <4>1. CASE taskView.index = 0
        BY <4>1
      <4>2. CASE taskView.index = 1
        BY <4>2
      <4>3. CASE taskView.index = 2
        BY <4>3
      <4> QED  BY <3>2, <4>1, <4>2, <4>3
    <3> QED  BY <1>2, <1>3, <3>1, <3>3
  <2>2. CASE taskView.stage = "runtime"
    <3> PICK new : new = Change("cancel", Ref)
      OBVIOUS
    <3>1. changing' = {new} /\ UNCHANGED <<host_, taskView, dialogs>>
      BY <1>7, <2>2 DEF TaskSelects
    <3>2. new.op = "cancel" /\ new.ref = new.shown
      BY DEF Change
    <3> QED  BY <1>1, <3>1, <3>2, ViewKeeps DEF TaskTypes
  <2>3. CASE taskView.stage = "goal-confirm"
    <3> PICK v : v = [NoTaskView EXCEPT !.stage = "goal"]
      OBVIOUS
    <3>1. GoalAction(taskView.pending) /\ taskView' = v /\ host_' = host_
      BY <1>7, <2>3 DEF TaskSelects
    <3>2. /\ Asking(dialogs')
          /\ \A w \in changing' : w.ref = w.shown /\ (w.op = "clear" => w.from = "goal-confirm")
      BY <2>3, <3>1, GoalActs
    <3> QED  BY <1>3, <3>1, <3>2, ViewKeeps
  <2>4. CASE taskView.stage = "goal"
    <3>1. PICK action : IF action = "clear"
                        THEN Looks([taskView EXCEPT !.stage = "goal-confirm", !.pending = action])
                        ELSE GoalAction(action) /\ UNCHANGED <<host_, taskView>>
      BY <1>7, <2>4 DEF TaskSelects
    <3>2. CASE action = "clear"
      <4> PICK v : v = [taskView EXCEPT !.stage = "goal-confirm", !.pending = "clear"]
        OBVIOUS
      <4>1. Looks(v)
        BY <3>1, <3>2
      <4>2. /\ DOMAIN v = {"stage", "index", "pending"} /\ v.index = taskView.index /\ v.stage = "goal-confirm"
            /\ v.pending = "clear"
        BY <1>1 DEF TaskTypes
      <4>3. OnRow(v, host_)
        BY <1>1, <2>4, <4>2 DEF OnRow, ListOf
      <4> QED  BY <1>1, <1>2, <4>1, <4>2, <4>3 DEF TaskTypes
    <3>3. CASE action # "clear"
      <4>1. /\ Asking(dialogs')
            /\ \A w \in changing' : w.ref = w.shown /\ (w.op = "clear" => w.from = "goal-confirm")
        BY <3>1, <3>3, GoalActs
      <4> QED  BY <1>1, <3>1, <3>3, <4>1, ViewKeeps DEF TaskTypes
    <3> QED  BY <3>2, <3>3
  <2> QED  BY <1>7, <2>1, <2>2, <2>3, <2>4 DEF TaskSelects
<1>8. CASE SubmitDialog
  <2> PICK dialog : dialog = dialogs[1]
    OBVIOUS
  <2>1. dialogs # <<>> /\ host_' = host_ /\ taskView' = taskView
    BY <1>8 DEF SubmitDialog
  <2>2. dialog.action \in {"create", "edit"} /\ DOMAIN dialog = {"kind", "action", "shown"}
    BY <1>1, <2>1 DEF Asking
  <2>3. \/ dialogs' = <<>> /\ changing' = changing
        \/ dialogs' = <<[dialog EXCEPT !.kind = "rounds"]>> /\ changing' = changing
        \/ /\ dialogs' = <<>>
           /\ changing' = changing \cup {[Change(dialog.action, dialog.shown) EXCEPT !.ref = Named_(dialog)]}
    BY <1>8 DEF SubmitDialog
  <2>4. Asking(dialogs')
    <3> PICK next : next = [dialog EXCEPT !.kind = "rounds"]
      OBVIOUS
    <3>1. next.action = dialog.action /\ DOMAIN next = DOMAIN dialog
      BY <2>2
    <3> QED  BY <2>3, <2>2, <3>1 DEF Asking
  <2> PICK new : new = [Change(dialog.action, dialog.shown) EXCEPT !.ref = Named_(dialog)]
    OBVIOUS
  <2>5. new.op = dialog.action /\ new.ref = new.shown
    BY DEF Change, Named_
  <2>6. \A w \in changing' : w.ref = w.shown /\ (w.op = "clear" => w.from = "goal-confirm")
    BY <1>1, <2>2, <2>3, <2>5
  <2> QED  BY <1>1, <2>1, <2>4, <2>6, ViewKeeps DEF TaskTypes
<1>9. CASE Dismiss
  BY <1>1, <1>9, ViewKeeps DEF TaskTypes, Dismiss, Asking
<1>10. ASSUME NEW w \in changing, Settled_(w)  PROVE TaskInv'
  <2>1. changing' = changing \ {w} /\ dialogs' = dialogs
    BY <1>10 DEF Settled_
  <2>2. CASE Accepts(w)
    <3> PICK h : h = After(w.op)
      OBVIOUS
    <3>1. Follows(h)
      BY <1>10, <2>2 DEF Settled_
    <3>2. DOMAIN h = {"epoch", "phase", "revision", "todos", "running"} /\ h.todos \in Nat
      BY <1>1 DEF After, TaskTypes
    <3> QED  BY <2>1, <3>1, <3>2, FollowsKeeps
  <2>3. CASE ~Accepts(w)
    <3>1. UNCHANGED <<host_, taskView>>
      BY <1>10, <2>3 DEF Settled_
    <3> QED  BY <1>1, <2>1, <3>1, ViewKeeps DEF TaskTypes
  <2> QED  BY <2>2, <2>3
<1>11. CASE HostChanges
  <2>1. dialogs' = dialogs /\ changing' = changing
    BY <1>11 DEF HostChanges
  <2>2. PICK h : /\ Follows(h)
                 /\ \/ \E phase : h = [host_ EXCEPT !.phase = phase, !.revision = @ + 1]
                    \/ \E todos \in TodoCount : h = [host_ EXCEPT !.todos = todos]
                    \/ h = [host_ EXCEPT !.running = ~@]
    BY <1>11 DEF HostChanges
  <2>3. DOMAIN h = {"epoch", "phase", "revision", "todos", "running"} /\ h.todos \in Nat
    BY <1>1, <2>2, TaskAssumption DEF TaskTypes
  <2> QED  BY <2>1, <2>2, <2>3, FollowsKeeps
<1>12. CASE TaskSessionChanges
  <2>1. /\ taskView' = NoTaskView /\ dialogs' = dialogs /\ changing' = changing
        /\ DOMAIN host_' = {"epoch", "phase", "revision", "todos", "running"} /\ host_'.todos \in Nat
    BY <1>12 DEF TaskSessionChanges
  <2>2. OnRow(taskView, host_)'
    BY <2>1 DEF OnRow, NoTaskView
  <2> QED  BY <1>1, <2>1, <2>2 DEF TaskInv, TaskTypes, NoTaskView, ChangesItsGoal
<1>13. CASE UNCHANGED taskVars
  BY <1>1, <1>13, ViewKeeps DEF taskVars, TaskTypes
<1> QED
  BY <1>4, <1>5, <1>6, <1>7, <1>8, <1>9, <1>10, <1>11, <1>12, <1>13 DEF TaskNext

\* Lemma: what the invariant says of the surface and of the changes on their way.
LEMMA TaskShown == TaskInv => TasksCurrent
  BY DEF TaskInv, TaskTypes, TasksCurrent, ClearedOnPurpose, OnRow, ListOf

\* Theorem: a change of a Goal names the Goal that was shown when it was asked
\* for; a Goal is cleared only from its confirmation; and however rows come and
\* go, the cursor stays on a row of the list that is shown.
THEOREM TasksStayCurrent == TaskInit /\ [][TaskNext]_taskVars => []TasksCurrent
<1>1. TaskInv => TasksCurrent
  BY TaskShown
<1> QED  BY <1>1, TaskInitial, TaskStep, PTL

-----------------------------------------------------------------------------
(***************************************************************************)
(* The memory dialog.  A save may be answered when its dialog is long      *)
(* closed and another one is open; so for each call on its way the         *)
(* invariant says whose it is: a dialog has at most one, has it exactly    *)
(* while it is saving, and nobody else saves for its Session, unless that  *)
(* was so when it opened.                                                  *)
(***************************************************************************)
DialogFields ==
  {"open", "id", "of", "value", "saving", "index", "document", "offset", "beside"}

MemoryTypes ==
  /\ DOMAIN policies = {"stored", "current", "opened", "faults"}
  /\ policies.stored \in [{1, 2} -> PolicyOf] /\ policies.current \in {1, 2} /\ policies.opened \in Nat
  /\ \A c \in policyCalls :
       /\ c.of \in {1, 2} /\ c.by \in 1 .. policies.opened
       /\ c.step \in {"overview", "save", "saved", "read"}
       /\ c.step = "save" => c.key \in PolicyKey /\ c.value \in BOOLEAN
  /\ dialog_.open \in BOOLEAN
  /\ dialog_.open =>
       /\ DOMAIN dialog_ = DialogFields
       /\ dialog_.id \in 1 .. policies.opened /\ dialog_.of \in {1, 2}
       /\ dialog_.saving \in BOOLEAN /\ dialog_.beside \in BOOLEAN
       /\ dialog_.index \in 1 .. Len(DocLines) + 2
       /\ dialog_.document \in 0 .. Len(DocLines)

\* An overview is asked for while no dialog is open, and is of the next one.
OneOverview ==
  \A c \in policyCalls : c.step = "overview" =>
    /\ ~dialog_.open /\ c.by = policies.opened
    /\ \A o \in policyCalls : o.by = c.by => o = c

\* A dialog saves one thing at a time.
OneSave == \A c, o \in policyCalls : c.by = o.by => c = o

\* The calls of the dialog that is open.
SavesOfDialog ==
  dialog_.open =>
    /\ dialog_.saving <=> \E c \in policyCalls : c.by = dialog_.id
    /\ \A c \in policyCalls : c.by = dialog_.id =>
         /\ c.of = dialog_.of
         /\ ~dialog_.beside /\ c.step = "saved" => c.value = policies.stored[dialog_.of]
    /\ ~dialog_.beside => \A c \in policyCalls : c.of = dialog_.of => c.by = dialog_.id

MemoryInv ==
  /\ MemoryTypes /\ OneOverview /\ OneSave /\ SavesOfDialog /\ PolicyTruthful
  /\ dialog_.open /\ dialog_.document # 0 => dialog_.offset \in 0 .. LastOffset

\* Lemma: without a dialog nothing is on its way.
LEMMA MemoryInitial == MemoryDialogInit => MemoryInv
  BY DEF MemoryDialogInit, MemoryInv, MemoryTypes, OneOverview, OneSave, SavesOfDialog, PolicyTruthful, NoDialog_,
         PolicyOf

\* Lemma: where a document ends.
LEMMA LastLine ==
  ASSUME MemoryTypes, dialog_.open, dialog_.document # 0
  PROVE  LastOffset \in Nat
  BY MemoryDialogAssumption DEF MemoryTypes, LastOffset

\* Lemma: what an action keeps that changes only where the reader is.
LEMMA ReaderMoves ==
  ASSUME MemoryInv, dialog_.open, UNCHANGED <<policies, policyCalls>>,
         dialog_'.open, DOMAIN dialog_' = DialogFields,
         \A f \in DialogFields \ {"index", "document", "offset"} : dialog_'[f] = dialog_[f],
         dialog_'.index \in 1 .. Len(DocLines) + 2, dialog_'.document \in 0 .. Len(DocLines),
         dialog_'.document # 0 => dialog_'.offset \in 0 .. LastOffset'
  PROVE  MemoryInv'
<1>1. /\ dialog_'.id = dialog_.id /\ dialog_'.of = dialog_.of /\ dialog_'.value = dialog_.value
      /\ dialog_'.saving = dialog_.saving /\ dialog_'.beside = dialog_.beside /\ dialog_'.open = dialog_.open
  BY DEF DialogFields
<1>2. MemoryTypes' /\ OneOverview' /\ OneSave'
  BY <1>1 DEF MemoryInv, MemoryTypes, OneOverview, OneSave
<1>3. SavesOfDialog' /\ PolicyTruthful'
  BY <1>1 DEF MemoryInv, SavesOfDialog, PolicyTruthful
<1> QED  BY <1>2, <1>3 DEF MemoryInv

\* Lemma: the answer to the save of the dialog that is open.
LEMMA AnswerKeeps ==
  ASSUME MemoryInv, NEW c \in policyCalls, c.step # "overview", NEW value,
         Answered(c, value), policyCalls' = policyCalls \ {c}, policies'.stored = policies.stored,
         policies'.opened = policies.opened, policies'.current = policies.current,
         DOMAIN policies' = DOMAIN policies,
         dialog_.open /\ ~dialog_.beside /\ dialog_.id = c.by => value \in {UnknownPolicy, policies.stored[dialog_.of]}
  PROVE  MemoryInv'
<1>1. CASE dialog_.open /\ dialog_.id = c.by
  <2> PICK d : d = [dialog_ EXCEPT !.value = value, !.saving = FALSE]
    OBVIOUS
  <2>1. /\ DOMAIN d = DialogFields /\ d.value = value /\ d.saving = FALSE /\ d.open = TRUE
        /\ d.id = dialog_.id /\ d.of = dialog_.of /\ d.index = dialog_.index /\ d.document = dialog_.document
        /\ d.offset = dialog_.offset /\ d.beside = dialog_.beside
    BY <1>1 DEF MemoryInv, MemoryTypes, DialogFields
  <2>2. dialog_' = d
    BY <1>1 DEF Answered
  <2>3. MemoryTypes' /\ OneOverview' /\ OneSave'
    BY <1>1, <2>1, <2>2 DEF MemoryInv, MemoryTypes, OneOverview, OneSave
  <2>4. \A o \in policyCalls' : o.by # d.id
    BY <1>1, <2>1 DEF MemoryInv, OneSave
  <2>5. SavesOfDialog'
    BY <1>1, <2>1, <2>2, <2>4 DEF MemoryInv, SavesOfDialog
  <2>6. PolicyTruthful'
    BY <1>1, <2>1, <2>2 DEF PolicyTruthful
  <2>7. d.document # 0 => d.offset \in 0 .. LastOffset'
    BY <1>1, <2>1, <2>2 DEF MemoryInv, LastOffset
  <2> QED  BY <2>2, <2>3, <2>5, <2>6, <2>7 DEF MemoryInv
<1>2. CASE ~(dialog_.open /\ dialog_.id = c.by)
  <2>1. dialog_' = dialog_
    BY <1>2 DEF Answered
  <2>2. MemoryTypes' /\ OneOverview' /\ OneSave'
    BY <2>1 DEF MemoryInv, MemoryTypes, OneOverview, OneSave
  <2>3. SavesOfDialog' /\ PolicyTruthful'
    BY <1>2, <2>1 DEF MemoryInv, SavesOfDialog, PolicyTruthful
  <2> QED  BY <2>1, <2>2, <2>3 DEF MemoryInv, LastOffset
<1> QED  BY <1>1, <1>2

\* Lemma: every action keeps it known whose the calls are.
LEMMA MemoryStep == MemoryInv /\ [MemoryDialogNext]_memoryDialogVars => MemoryInv'
<1> SUFFICES ASSUME MemoryInv, [MemoryDialogNext]_memoryDialogVars  PROVE MemoryInv'
  OBVIOUS
<1>1. MemoryTypes
  BY DEF MemoryInv
<1>2. CASE AskOverview
  <2> PICK new : new = [step |-> "overview", of |-> policies.current, by |-> NextDialog]
    OBVIOUS
  <2>1. /\ new.step = "overview" /\ new.of = policies.current /\ new.by = policies.opened + 1
        /\ policyCalls' = policyCalls \cup {new} /\ dialog_' = dialog_ /\ ~dialog_.open
        /\ DOMAIN policies' = DOMAIN policies /\ policies'.opened = policies.opened + 1
        /\ policies'.stored = policies.stored /\ policies'.current = policies.current
        /\ \A c \in policyCalls : c.step # "overview"
    BY <1>1, <1>2 DEF AskOverview, NextDialog, MemoryTypes
  <2>2. \A c \in policyCalls : c.by # new.by
    BY <1>1, <2>1 DEF MemoryTypes
  <2>3. MemoryTypes'
    BY <1>1, <2>1 DEF MemoryTypes
  <2>4. OneOverview' /\ OneSave'
    BY <2>1, <2>2 DEF MemoryInv, OneOverview, OneSave
  <2> QED  BY <2>1, <2>3, <2>4 DEF MemoryInv, SavesOfDialog, PolicyTruthful
<1>3. ASSUME NEW c \in policyCalls, OverviewArrives(c)  PROVE MemoryInv'
  <2>1. c.step = "overview" /\ policyCalls' = policyCalls \ {c} /\ policies' = policies /\ ~dialog_.open
    BY <1>3 DEF OverviewArrives, MemoryInv, OneOverview
  <2>2. c.by \in 1 .. policies.opened /\ c.of \in {1, 2}
    BY <1>1 DEF MemoryTypes
  <2>3. \A o \in policyCalls' : o.step # "overview" /\ o.by # c.by
    BY <2>1 DEF MemoryInv, OneOverview
  <2>4. CASE dialog_' = dialog_
    <3>1. MemoryTypes' /\ OneOverview' /\ OneSave'
      BY <2>1, <2>4 DEF MemoryInv, MemoryTypes, OneOverview, OneSave
    <3> QED  BY <2>1, <2>4, <3>1 DEF MemoryInv, SavesOfDialog, PolicyTruthful
  <2>5. CASE dialog_' # dialog_
    <3> PICK d : d = [open |-> TRUE, id |-> c.by, of |-> c.of, value |-> policies.stored[c.of], saving |-> FALSE,
                      index |-> 1, document |-> 0, offset |-> 0,
                      beside |-> \E o \in policyCalls \ {c} : o.of = c.of]
      OBVIOUS
    <3>1. dialog_' = d
      BY <1>3, <2>1, <2>5 DEF OverviewArrives
    <3>2. /\ DOMAIN d = DialogFields /\ d.open = TRUE /\ d.id = c.by /\ d.of = c.of
          /\ d.value = policies.stored[c.of] /\ d.saving = FALSE /\ d.index = 1 /\ d.document = 0
          /\ d.beside \in BOOLEAN /\ (~d.beside => \A o \in policyCalls' : o.of # c.of)
      BY <2>1 DEF DialogFields
    <3>3. MemoryTypes'
      BY <1>1, <2>1, <2>2, <3>1, <3>2, MemoryDialogAssumption DEF MemoryTypes
    <3>4. OneOverview' /\ OneSave'
      BY <2>1, <2>3, <3>1 DEF MemoryInv, OneOverview, OneSave
    <3>5. SavesOfDialog' /\ PolicyTruthful'
      BY <2>1, <2>3, <3>1, <3>2 DEF SavesOfDialog, PolicyTruthful
    <3> QED  BY <3>1, <3>2, <3>3, <3>4, <3>5 DEF MemoryInv
  <2> QED  BY <2>4, <2>5
<1>4. CASE MoveInList
  <2>1. PICK index : /\ index \in 1 .. Len(DocLines) + 2 /\ dialog_.open /\ dialog_.document = 0
                     /\ In([dialog_ EXCEPT !.index = index])
    BY <1>4 DEF MoveInList, List
  <2>2. DOMAIN dialog_ = DialogFields
    BY <1>1, <2>1 DEF MemoryTypes
  <2> QED  BY <2>1, <2>2, ReaderMoves, MemoryDialogAssumption DEF In, DialogFields
<1>5. CASE OpenDocument
  <2>1. dialog_.open /\ dialog_.index > 2 /\ In([dialog_ EXCEPT !.document = dialog_.index - 2, !.offset = 0])
    BY <1>5 DEF OpenDocument, List
  <2>2. DOMAIN dialog_ = DialogFields /\ dialog_.index \in 1 .. Len(DocLines) + 2
    BY <1>1, <2>1 DEF MemoryTypes
  <2>3. /\ dialog_'.open /\ DOMAIN dialog_' = DialogFields
        /\ \A f \in DialogFields \ {"index", "document", "offset"} : dialog_'[f] = dialog_[f]
        /\ dialog_'.index = dialog_.index /\ dialog_'.document = dialog_.index - 2 /\ dialog_'.offset = 0
    BY <2>1, <2>2 DEF In, DialogFields
  <2>4. dialog_'.document \in 0 .. Len(DocLines) /\ dialog_'.document # 0
    BY <2>1, <2>2, <2>3, MemoryDialogAssumption
  <2>5. LastOffset' \in Nat
    BY <2>4, MemoryDialogAssumption DEF LastOffset
  <2>6. dialog_'.offset \in 0 .. LastOffset'
    BY <2>3, <2>5
  <2> QED  BY <2>1, <2>2, <2>3, <2>4, <2>6, ReaderMoves DEF In
<1>6. CASE ScrollDocument
  <2> PICK by \in {-1, 1, -PageOfLines, PageOfLines} :
        /\ dialog_.open /\ dialog_.document # 0
        /\ \E offset \in {dialog_.offset + by} :
             In([dialog_ EXCEPT !.offset = IF offset < 0 THEN 0 ELSE IF offset > LastOffset THEN LastOffset ELSE offset])
    BY <1>6 DEF ScrollDocument
  <2> PICK to : to = IF dialog_.offset + by < 0 THEN 0
                     ELSE IF dialog_.offset + by > LastOffset THEN LastOffset ELSE dialog_.offset + by
    OBVIOUS
  <2>1. In([dialog_ EXCEPT !.offset = to])
    OBVIOUS
  <2>2. DOMAIN dialog_ = DialogFields /\ dialog_.index \in 1 .. Len(DocLines) + 2
        /\ dialog_.document \in 0 .. Len(DocLines)
    BY <1>1 DEF MemoryTypes
  <2>3. /\ dialog_'.open /\ DOMAIN dialog_' = DialogFields
        /\ \A f \in DialogFields \ {"index", "document", "offset"} : dialog_'[f] = dialog_[f]
        /\ dialog_'.index = dialog_.index /\ dialog_'.document = dialog_.document /\ dialog_'.offset = to
    BY <2>1, <2>2 DEF In, DialogFields
  <2>4. LastOffset \in Nat /\ LastOffset' = LastOffset
    BY <1>1, <2>3, LastLine DEF LastOffset
  <2>5. dialog_.offset \in 0 .. LastOffset
    BY DEF MemoryInv
  <2>6. by \in Int
    BY MemoryDialogAssumption
  <2>7. to \in 0 .. LastOffset
    BY <2>4, <2>5, <2>6
  <2> QED  BY <2>1, <2>2, <2>3, <2>4, <2>7, ReaderMoves DEF In
<1>7. CASE LeaveMemory
  <2>1. dialog_.open /\ UNCHANGED <<policies, policyCalls>>
    BY <1>7 DEF LeaveMemory, In
  <2>2. CASE dialog_.document # 0
    <3>1. dialog_' = [dialog_ EXCEPT !.document = 0, !.offset = 0]
      BY <1>7, <2>2 DEF LeaveMemory, In
    <3>2. DOMAIN dialog_ = DialogFields /\ dialog_.index \in 1 .. Len(DocLines) + 2
      BY <1>1, <2>1 DEF MemoryTypes
    <3>3. /\ dialog_'.open /\ DOMAIN dialog_' = DialogFields
          /\ \A f \in DialogFields \ {"index", "document", "offset"} : dialog_'[f] = dialog_[f]
          /\ dialog_'.index = dialog_.index /\ dialog_'.document = 0
      BY <2>1, <3>1, <3>2 DEF DialogFields
    <3> QED  BY <2>1, <3>2, <3>3, ReaderMoves, MemoryDialogAssumption
  <2>3. CASE dialog_.document = 0
    <3>1. dialog_' = NoDialog_
      BY <1>7, <2>3 DEF LeaveMemory, In
    <3>2. dialog_'.open = FALSE
      BY <3>1 DEF NoDialog_
    <3>3. MemoryTypes' /\ OneOverview' /\ OneSave'
      BY <2>1, <3>2 DEF MemoryInv, MemoryTypes, OneOverview, OneSave
    <3> QED  BY <3>2, <3>3 DEF MemoryInv, SavesOfDialog, PolicyTruthful
  <2> QED  BY <2>2, <2>3
<1>8. CASE TogglePolicy
  <2> PICK new : new = [step |-> "save", of |-> dialog_.of, by |-> dialog_.id, key |-> KeyAt(dialog_.index),
                        value |-> ~dialog_.value[KeyAt(dialog_.index)]]
    OBVIOUS
  <2> PICK d : d = [dialog_ EXCEPT !.saving = TRUE]
    OBVIOUS
  <2>1. /\ dialog_.open /\ ~dialog_.saving /\ policyCalls' = policyCalls \cup {new} /\ dialog_' = d /\ policies' = policies
        /\ dialog_.document = 0
    BY <1>8 DEF TogglePolicy, List, Chooses
  <2>2. new.step = "save" /\ new.of = dialog_.of /\ new.by = dialog_.id /\ new.key \in PolicyKey /\ new.value \in BOOLEAN
    BY DEF KeyAt, PolicyKey
  <2>3. /\ DOMAIN d = DialogFields /\ d.value = dialog_.value /\ d.saving = TRUE /\ d.open = TRUE
        /\ d.id = dialog_.id /\ d.of = dialog_.of /\ d.index = dialog_.index /\ d.document = dialog_.document
        /\ d.offset = dialog_.offset /\ d.beside = dialog_.beside
    BY <1>1, <2>1 DEF MemoryTypes, DialogFields
  <2>4. \A c \in policyCalls : c.by # dialog_.id /\ c.step # "overview"
    BY <2>1 DEF MemoryInv, SavesOfDialog, OneOverview
  <2>5. MemoryTypes'
    BY <1>1, <2>1, <2>2, <2>3 DEF MemoryTypes
  <2>6. OneOverview' /\ OneSave'
    BY <2>1, <2>2, <2>4 DEF MemoryInv, OneOverview, OneSave
  <2>7. SavesOfDialog' /\ PolicyTruthful'
    BY <2>1, <2>2, <2>3, <2>4 DEF MemoryInv, SavesOfDialog, PolicyTruthful
  <2> QED  BY <2>1, <2>3, <2>5, <2>6, <2>7 DEF MemoryInv
<1>9. CASE AnotherSession
  <2>1. /\ dialog_' = dialog_ /\ policyCalls' = policyCalls /\ DOMAIN policies' = DOMAIN policies
        /\ policies'.stored = policies.stored /\ policies'.opened = policies.opened /\ policies'.current = 2
    BY <1>1, <1>9 DEF AnotherSession, MemoryTypes
  <2>2. MemoryTypes' /\ OneOverview' /\ OneSave' /\ SavesOfDialog' /\ PolicyTruthful'
    BY <2>1 DEF MemoryInv, MemoryTypes, OneOverview, OneSave, SavesOfDialog, PolicyTruthful
  <2> QED  BY <2>1, <2>2 DEF MemoryInv, LastOffset
<1>10. ASSUME NEW c \in policyCalls, Saved(c)  PROVE MemoryInv'
  <2> PICK now : now = [policies.stored[c.of] EXCEPT ![c.key] = c.value]
    OBVIOUS
  <2> PICK new : new = [step |-> "saved", of |-> c.of, by |-> c.by, value |-> now]
    OBVIOUS
  <2>1. /\ c.step = "save" /\ c.of \in {1, 2} /\ c.by \in 1 .. policies.opened
        /\ c.key \in PolicyKey /\ c.value \in BOOLEAN
    BY <1>1, <1>10 DEF Saved, MemoryTypes
  <2>2. now \in PolicyOf
    BY <1>1, <2>1 DEF MemoryTypes, PolicyOf
  <2>3. /\ DOMAIN policies' = DOMAIN policies /\ policies'.current = policies.current
        /\ policies'.opened = policies.opened /\ policies'.stored = [policies.stored EXCEPT ![c.of] = now]
    BY <1>1, <1>10 DEF Saved, MemoryTypes
  <2>4. /\ policies'.stored \in [{1, 2} -> PolicyOf] /\ policies'.stored[c.of] = now
        /\ \A s \in {1, 2} : s # c.of => policies'.stored[s] = policies.stored[s]
    BY <1>1, <2>1, <2>2, <2>3 DEF MemoryTypes
  <2>5. policyCalls' = (policyCalls \ {c}) \cup {new} /\ dialog_' = dialog_
    BY <1>10 DEF Saved
  <2>6. new.step = "saved" /\ new.of = c.of /\ new.by = c.by /\ new.value = now
    OBVIOUS
  <2>7. MemoryTypes'
    BY <1>1, <2>1, <2>3, <2>4, <2>5, <2>6 DEF MemoryTypes
  <2>8. \A o \in policyCalls \ {c} : o.by # c.by
    BY DEF MemoryInv, OneSave
  <2>9. OneOverview' /\ OneSave'
    BY <2>1, <2>3, <2>5, <2>6, <2>8 DEF MemoryInv, OneOverview, OneSave
  <2>10. ASSUME dialog_.open  PROVE dialog_.of \in {1, 2}
    BY <1>1, <2>10 DEF MemoryTypes
  <2>11. SavesOfDialog'
    <3> SUFFICES ASSUME dialog_.open  PROVE SavesOfDialog'
      BY <2>5 DEF SavesOfDialog
    <3>1. /\ dialog_.saving <=> \E o \in policyCalls : o.by = dialog_.id
          /\ \A o \in policyCalls : o.by = dialog_.id =>
               /\ o.of = dialog_.of
               /\ ~dialog_.beside /\ o.step = "saved" => o.value = policies.stored[dialog_.of]
          /\ ~dialog_.beside => \A o \in policyCalls : o.of = dialog_.of => o.by = dialog_.id
      BY DEF MemoryInv, SavesOfDialog
    <3>2. dialog_.saving <=> \E o \in policyCalls' : o.by = dialog_.id
      BY <2>5, <2>6, <2>8, <3>1
    <3>3. ASSUME NEW o \in policyCalls', o.by = dialog_.id
          PROVE  /\ o.of = dialog_.of
                 /\ ~dialog_.beside /\ o.step = "saved" => o.value = policies'.stored[dialog_.of]
      <4>1. CASE o = new
        BY <2>4, <2>6, <3>1, <3>3, <4>1
      <4>2. CASE o # new
        <5>1. o \in policyCalls \ {c}
          BY <2>5, <4>2
        <5>2. ~dialog_.beside => c.of # dialog_.of
          BY <2>8, <3>1, <3>3, <5>1
        <5> QED  BY <2>4, <2>10, <3>1, <3>3, <5>1, <5>2
      <4> QED  BY <4>1, <4>2
    <3>4. ~dialog_.beside => \A o \in policyCalls' : o.of = dialog_.of => o.by = dialog_.id
      BY <2>5, <2>6, <3>1
    <3> QED  BY <2>5, <3>2, <3>3, <3>4 DEF SavesOfDialog
  <2>12. PolicyTruthful'
    <3> SUFFICES ASSUME dialog_.open, ~dialog_.saving, ~dialog_.beside
                 PROVE  dialog_.value \in {UnknownPolicy, policies'.stored[dialog_.of]}
      BY <2>5 DEF PolicyTruthful, UnknownPolicy
    <3>1. c.of # dialog_.of
      BY DEF MemoryInv, SavesOfDialog
    <3>2. policies'.stored[dialog_.of] = policies.stored[dialog_.of]
      BY <2>4, <2>10, <3>1
    <3> QED  BY <3>2 DEF MemoryInv, PolicyTruthful
  <2>13. LastOffset' = LastOffset
    BY <2>5 DEF LastOffset
  <2> QED  BY <2>5, <2>7, <2>9, <2>11, <2>12, <2>13 DEF MemoryInv
<1>11. ASSUME NEW c \in policyCalls, SaveAnswered(c)  PROVE MemoryInv'
  <2>1. c.step = "saved" /\ Answered(c, c.value) /\ policyCalls' = policyCalls \ {c} /\ policies' = policies
    BY <1>11 DEF SaveAnswered
  <2>2. dialog_.open /\ ~dialog_.beside /\ dialog_.id = c.by => c.value = policies.stored[dialog_.of]
    BY <2>1 DEF MemoryInv, SavesOfDialog
  <2> QED  BY <2>1, <2>2, AnswerKeeps
<1>12. ASSUME NEW c \in policyCalls, SaveFails(c)  PROVE MemoryInv'
  <2> PICK new : new = [step |-> "read", of |-> c.of, by |-> c.by]
    OBVIOUS
  <2>1. /\ c.step \in {"save", "saved"} /\ policyCalls' = (policyCalls \ {c}) \cup {new} /\ dialog_' = dialog_
        /\ DOMAIN policies' = DOMAIN policies /\ policies'.current = policies.current
        /\ policies'.opened = policies.opened /\ policies'.stored = policies.stored
    BY <1>1, <1>12 DEF SaveFails, MemoryTypes
  <2>2. new.step = "read" /\ new.of = c.of /\ new.by = c.by
    OBVIOUS
  <2>3. MemoryTypes'
    BY <1>1, <2>1, <2>2 DEF MemoryTypes
  <2>4. \A o \in policyCalls \ {c} : o.by # c.by
    BY DEF MemoryInv, OneSave
  <2>5. OneOverview' /\ OneSave'
    BY <2>1, <2>2, <2>4 DEF MemoryInv, OneOverview, OneSave
  <2>6. SavesOfDialog'
    BY <2>1, <2>2, <2>4 DEF MemoryInv, SavesOfDialog
  <2>7. PolicyTruthful' /\ LastOffset' = LastOffset
    BY <2>1 DEF MemoryInv, PolicyTruthful, LastOffset
  <2> QED  BY <2>1, <2>3, <2>5, <2>6, <2>7 DEF MemoryInv
<1>13. ASSUME NEW c \in policyCalls, ReadAgain(c)  PROVE MemoryInv'
  <2>1. c.step = "read" /\ policyCalls' = policyCalls \ {c}
    BY <1>13 DEF ReadAgain
  <2>2. /\ DOMAIN policies' = DOMAIN policies /\ policies'.current = policies.current
        /\ policies'.opened = policies.opened /\ policies'.stored = policies.stored
    BY <1>1, <1>13 DEF ReadAgain, MemoryTypes
  <2>3. PICK value \in {UnknownPolicy, policies.stored[c.of]} : Answered(c, value)
    BY <1>13 DEF ReadAgain
  <2>4. dialog_.open /\ dialog_.id = c.by => c.of = dialog_.of
    BY DEF MemoryInv, SavesOfDialog
  <2>5. dialog_.open /\ ~dialog_.beside /\ dialog_.id = c.by => value \in {UnknownPolicy, policies.stored[dialog_.of]}
    BY <2>4
  <2> QED  BY <2>1, <2>2, <2>3, <2>5, AnswerKeeps
<1>14. CASE UNCHANGED memoryDialogVars
  BY <1>14 DEF memoryDialogVars, MemoryInv, MemoryTypes, OneOverview, OneSave, SavesOfDialog, PolicyTruthful, LastOffset
<1> QED
  BY <1>2, <1>3, <1>4, <1>5, <1>6, <1>7, <1>8, <1>9, <1>10, <1>11, <1>12, <1>13, <1>14 DEF MemoryDialogNext

\* Lemma: what the invariant says of the dialog in front.
LEMMA MemoryShown == MemoryInv => MemoriesCurrent
  BY DEF MemoryInv, MemoriesCurrent, DialogAlive, SavesOfDialog, OneOverview, MemoryTypes

\* A dialog shows the policy that is stored for the Session it was opened for,
\* or that it does not know it, whatever order saves and failures are answered
\* in; saving ends with its call, and the reader stays inside the document.
THEOREM MemoriesShown == MemoryDialogInit /\ [][MemoryDialogNext]_memoryDialogVars => []MemoriesCurrent
<1>1. MemoryInv => MemoriesCurrent
  BY MemoryShown
<1> QED  BY <1>1, MemoryInitial, MemoryStep, PTL

-----------------------------------------------------------------------------
(***************************************************************************)
(* The quota.  Reads of an observation that is over still answer, and so   *)
(* do those that a newer one overtook; the invariant says of which         *)
(* provider a read of the present observation is, that the newest revision *)
(* is shown or on its way, and that a background read and the timer take   *)
(* turns.                                                                  *)
(***************************************************************************)
Observed == usage.provider # NoProvider
Ours(r) == r.by = usage.id /\ r.by # 0

UsageTypes ==
  /\ DOMAIN usage = {"provider", "id", "revision", "snapshot", "timer", "active", "reads"}
  /\ usage.provider \in Provider \cup {NoProvider}
  /\ usage.id \in Nat /\ usage.revision \in Nat /\ usage.reads \in Nat
  /\ usage.timer \in BOOLEAN /\ usage.active \in BOOLEAN
  /\ \A r \in reads :
       /\ r.id \in Nat /\ r.id < usage.reads
       /\ r.by \in 0 .. usage.id /\ r.background \in BOOLEAN
       /\ r.background => r.by # 0

\* What is observed, and what of it is on its way.
ReadsOfObserved ==
  /\ Observed => usage.id # 0 /\ usage.active
  /\ usage.timer => Observed
  /\ \A r \in reads : Ours(r) /\ Observed => r.of = usage.provider

\* The newest revision is shown or on its way; what is not observed is not shown.
NewestComes ==
  usage.snapshot # NoSnapshot =>
    /\ Observed /\ usage.snapshot.of = usage.provider
    /\ \/ usage.snapshot.revision = usage.revision
       \/ \E r \in reads : Ours(r) /\ r.revision = usage.revision

\* A refresh waits for the timer or is on its way.
OneRefresh ==
  /\ \A r, o \in reads : r.background /\ o.background /\ Ours(r) /\ Ours(o) => r = o
  /\ usage.timer => \A r \in reads : r.background => ~Ours(r)

UsageInv == UsageTypes /\ ReadsOfObserved /\ NewestComes /\ OneRefresh

\* Lemma: it holds before anything is observed.
LEMMA UsageInitial == UsageInit => UsageInv
  BY DEF UsageInit, UsageInv, UsageTypes, ReadsOfObserved, NewestComes, OneRefresh, Observed

\* What a read is made from: what is observed by then, or a new observation
\* that takes its place; a background one when none waits or is on its way.
MayRead(u, provider, background) ==
  /\ provider \in Provider /\ background \in BOOLEAN
  /\ DOMAIN u = DOMAIN usage /\ u.reads = usage.reads /\ u.provider \in Provider \cup {NoProvider}
  /\ u.id \in Nat /\ u.revision \in Nat /\ u.timer \in BOOLEAN /\ u.active \in BOOLEAN
  /\ u.provider # NoProvider => u.id # 0 /\ u.active
  /\ \/ u.id = usage.id /\ u.provider = usage.provider /\ u.revision = usage.revision /\ u.snapshot = usage.snapshot
     \/ u.id = usage.id + 1 /\ u.snapshot = NoSnapshot
  /\ background => u.provider = provider /\ ~u.timer /\ \A r \in reads : r.background => r.by # u.id
  /\ u.timer => u.provider # NoProvider /\ \A r \in reads : r.background => r.by # u.id

\* Lemma: a read of what is observed by then.
LEMMA ReadKeeps ==
  ASSUME NEW u, NEW provider, NEW background, UsageInv,
         MayRead(u, provider, background), ReadUsage(u, provider, background)
  PROVE  UsageInv'
<1> USE DEF MayRead
<1> PICK seen : seen = (u.provider = provider)
  OBVIOUS
<1> PICK new : new = [id |-> u.reads, of |-> provider, background |-> background,
                      by |-> IF seen THEN u.id ELSE 0, revision |-> IF seen THEN u.revision + 1 ELSE 0]
  OBVIOUS
<1>1. /\ usage' = [u EXCEPT !.reads = @ + 1, !.revision = IF seen THEN @ + 1 ELSE @]
      /\ reads' = reads \cup {new}
  BY DEF ReadUsage
<1>2. UsageTypes
  BY DEF UsageInv
<1>3. /\ DOMAIN usage' = {"provider", "id", "revision", "snapshot", "timer", "active", "reads"}
      /\ usage'.reads = usage.reads + 1 /\ usage'.provider = u.provider /\ usage'.id = u.id
      /\ usage'.timer = u.timer /\ usage'.active = u.active /\ usage'.snapshot = u.snapshot
      /\ usage'.revision = IF seen THEN u.revision + 1 ELSE u.revision
  BY <1>1, <1>2 DEF UsageTypes
<1>4. /\ new.id = usage.reads /\ new.of = provider /\ new.background = background
      /\ new.by = IF seen THEN u.id ELSE 0
      /\ new.revision = IF seen THEN u.revision + 1 ELSE 0
  OBVIOUS
<1>5. NoProvider \notin Provider
  BY UsageAssumption DEF NoProvider
<1>6. u.id = usage.id \/ u.id = usage.id + 1
  OBVIOUS
<1>7. \A r \in reads : r.by \in 0 .. usage.id /\ r.id < usage.reads /\ r.id \in Nat /\ r.background \in BOOLEAN
                       /\ (r.background => r.by # 0)
  BY <1>2 DEF UsageTypes
<1>8. usage.id \in Nat /\ usage.reads \in Nat
  BY <1>2 DEF UsageTypes
<1>9. background => new.by # 0
  BY <1>4, <1>5
<1>10. UsageTypes'
  <2>1. new.by \in 0 .. u.id
    BY <1>4
  <2>2. \A r \in reads : r.by \in 0 .. u.id
    BY <1>6, <1>7, <1>8
  <2>3. \A r \in reads' : /\ r.id \in Nat /\ r.id < usage'.reads
                          /\ r.by \in 0 .. u.id /\ r.background \in BOOLEAN
                          /\ r.background => r.by # 0
    BY <1>1, <1>3, <1>4, <1>7, <1>8, <1>9, <2>1, <2>2
  <2> QED  BY <1>3, <1>8, <2>3 DEF UsageTypes
<1>11. ReadsOfObserved'
  <2>1. ASSUME NEW r \in reads', r.by = u.id, r.by # 0, u.provider # NoProvider
        PROVE  r.of = u.provider
    <3>1. CASE r = new
      BY <1>4, <2>1, <3>1
    <3>2. CASE r # new
      <4>1. r \in reads
        BY <1>1, <3>2
      <4>2. u.id # usage.id + 1
        BY <1>7, <1>8, <2>1, <4>1
      <4> QED  BY <1>6, <2>1, <4>1, <4>2 DEF UsageInv, ReadsOfObserved, Ours, Observed
    <3> QED  BY <3>1, <3>2
  <2> QED  BY <1>3, <2>1 DEF ReadsOfObserved, Observed, Ours
<1>12. NewestComes'
  <2> SUFFICES ASSUME u.snapshot # NoSnapshot
               PROVE  /\ u.provider # NoProvider /\ u.snapshot.of = u.provider
                      /\ \/ u.snapshot.revision = usage'.revision
                         \/ \E r \in reads' : r.by = u.id /\ r.by # 0 /\ r.revision = usage'.revision
    BY <1>3 DEF NewestComes, Observed, Ours, NoSnapshot
  <2>1. u.id = usage.id /\ u.provider = usage.provider /\ u.revision = usage.revision /\ u.snapshot = usage.snapshot
    OBVIOUS
  <2>2. /\ u.provider # NoProvider /\ u.snapshot.of = u.provider
        /\ \/ u.snapshot.revision = u.revision
           \/ \E r \in reads : r.by = u.id /\ r.by # 0 /\ r.revision = u.revision
    BY <2>1 DEF UsageInv, NewestComes, Observed, Ours
  <2>3. CASE seen
    <3>1. new.by = u.id /\ new.revision = usage'.revision /\ u.id # 0 /\ new \in reads'
      BY <1>1, <1>3, <1>4, <2>2, <2>3
    <3> QED  BY <2>2, <3>1
  <2>4. CASE ~seen
    BY <1>1, <1>3, <2>2, <2>4
  <2> QED  BY <2>3, <2>4
<1>13. OneRefresh'
  <2>1. \A r, o \in reads : r.background /\ o.background /\ r.by = u.id /\ o.by = u.id /\ u.id # 0 => r = o
    BY <1>6, <1>7, <1>8 DEF UsageInv, OneRefresh, Ours
  <2>2. background => \A r \in reads : r.background => r.by # u.id
    OBVIOUS
  <2>3. \A r, o \in reads' : r.background /\ o.background /\ r.by = u.id /\ o.by = u.id /\ u.id # 0 => r = o
    BY <1>1, <1>4, <2>1, <2>2
  <2>4. u.timer => \A r \in reads' : r.background => r.by # u.id
    BY <1>1, <1>4
  <2> QED  BY <1>3, <2>3, <2>4 DEF OneRefresh, Ours
<1> QED  BY <1>10, <1>11, <1>12, <1>13 DEF UsageInv

\* Lemma: an observation that stops shows nothing and waits for nothing.
LEMMA StopKeeps ==
  ASSUME UsageInv, DOMAIN usage' = DOMAIN usage, usage'.provider = NoProvider, usage'.snapshot = NoSnapshot,
         usage'.timer = FALSE, usage'.active \in BOOLEAN, usage'.id = usage.id, usage'.revision = usage.revision,
         usage'.reads = usage.reads, reads' = reads
  PROVE  UsageInv'
<1>1. UsageTypes'
  BY DEF UsageInv, UsageTypes
<1>2. ReadsOfObserved' /\ NewestComes'
  BY DEF ReadsOfObserved, NewestComes, Observed
<1>3. OneRefresh'
  BY DEF UsageInv, OneRefresh, Ours
<1> QED  BY <1>1, <1>2, <1>3 DEF UsageInv

\* Lemma: every read, answer and tick keeps it.
LEMMA UsageStep == UsageInv /\ [UsageNext]_usageVars => UsageInv'
<1> SUFFICES ASSUME UsageInv, [UsageNext]_usageVars  PROVE UsageInv'
  OBVIOUS
<1>1. UsageTypes /\ ReadsOfObserved
  BY DEF UsageInv
<1>2. NoProvider \notin Provider
  BY UsageAssumption DEF NoProvider
<1>3. CASE Observe
  <2>1. PICK provider \in Provider \cup {NoProvider} :
          /\ provider # usage.provider
          /\ IF provider = NoProvider \/ ~usage.active THEN usage' = Stopped /\ reads' = reads
             ELSE ReadUsage([Stopped EXCEPT !.provider = provider, !.id = @ + 1, !.revision = 0], provider, TRUE)
    BY <1>3 DEF Observe
  <2>2. CASE provider = NoProvider \/ ~usage.active
    <3>1. usage' = Stopped /\ reads' = reads
      BY <2>1, <2>2
    <3>2. /\ DOMAIN usage' = DOMAIN usage /\ usage'.provider = NoProvider /\ usage'.snapshot = NoSnapshot
          /\ usage'.timer = FALSE /\ usage'.active = usage.active /\ usage'.id = usage.id
          /\ usage'.revision = usage.revision /\ usage'.reads = usage.reads
      BY <1>1, <3>1 DEF Stopped, UsageTypes
    <3> QED  BY <1>1, <3>1, <3>2, StopKeeps DEF UsageTypes
  <2>3. CASE provider # NoProvider /\ usage.active
    <3> PICK u : u = [Stopped EXCEPT !.provider = provider, !.id = @ + 1, !.revision = 0]
      OBVIOUS
    <3> PICK background : background = TRUE
      OBVIOUS
    <3>1. ReadUsage(u, provider, background)
      BY <2>1, <2>3
    <3>2. /\ DOMAIN u = DOMAIN usage /\ u.reads = usage.reads /\ u.provider = provider /\ u.id = usage.id + 1
          /\ u.revision = 0 /\ u.timer = FALSE /\ u.active = usage.active /\ u.snapshot = NoSnapshot
      BY <1>1 DEF Stopped, UsageTypes
    <3>3. \A r \in reads : r.by # u.id
      BY <1>1, <3>2 DEF UsageTypes
    <3>4. provider \in Provider /\ usage.id \in Nat
      BY <1>1, <2>3 DEF UsageTypes
    <3>5. /\ u.provider \in Provider \cup {NoProvider} /\ u.id \in Nat /\ u.revision \in Nat
          /\ u.timer \in BOOLEAN /\ u.active \in BOOLEAN
          /\ u.provider # NoProvider => u.id # 0 /\ u.active
      <4>1. u.timer \in BOOLEAN /\ (u.active = usage.active)
        BY <3>2, Zenon
      <4>2. u.active \in BOOLEAN
        BY <1>1, <4>1, Zenon DEF UsageTypes
      <4>3. u.id # 0 /\ u.id \in Nat /\ u.revision \in Nat
        BY <3>2, <3>4
      <4>4. u.active
        BY <2>3, <4>1, Zenon
      <4> QED  BY <3>2, <3>4, <4>1, <4>2, <4>3, <4>4, Zenon
    <3>6. background => u.provider = provider /\ ~u.timer /\ \A r \in reads : r.background => r.by # u.id
      BY <3>2, <3>3
    <3>7. u.timer => u.provider # NoProvider /\ \A r \in reads : r.background => r.by # u.id
      BY <3>2
    <3>8. \/ u.id = usage.id /\ u.provider = usage.provider /\ u.revision = usage.revision /\ u.snapshot = usage.snapshot
          \/ u.id = usage.id + 1 /\ u.snapshot = NoSnapshot
      BY <3>2
    <3>9. background \in BOOLEAN
      OBVIOUS
    <3>10. MayRead(u, provider, background)
      BY <3>2, <3>4, <3>5, <3>6, <3>7, <3>8, <3>9 DEF MayRead
    <3> QED  BY <3>1, <3>10, ReadKeeps
  <2> QED  BY <2>2, <2>3
<1>4. CASE Ticks
  <2>0. PICK u : u = [usage EXCEPT !.timer = FALSE]
    OBVIOUS
  <2>10. PICK background : background = TRUE
    OBVIOUS
  <2>11. PICK provider : provider = usage.provider
    OBVIOUS
  <2>1. ReadUsage(u, provider, background) /\ usage.timer
    BY <1>4, <2>0, <2>10, <2>11 DEF Ticks
  <2>2. /\ DOMAIN u = DOMAIN usage /\ u.reads = usage.reads /\ u.provider = usage.provider /\ u.id = usage.id
        /\ u.revision = usage.revision /\ u.timer = FALSE /\ u.active = usage.active /\ u.snapshot = usage.snapshot
    BY <1>1, <2>0 DEF UsageTypes
  <2>3. provider \in Provider /\ usage.id # 0 /\ usage.active
    BY <2>11, <1>1, <2>1 DEF UsageTypes, ReadsOfObserved, Observed
  <2>4. \A r \in reads : r.background => r.by # usage.id
    BY <2>1, <2>3 DEF UsageInv, OneRefresh, Ours
  <2>5. /\ u.provider \in Provider \cup {NoProvider} /\ u.id \in Nat /\ u.revision \in Nat
        /\ u.timer \in BOOLEAN /\ u.active \in BOOLEAN
        /\ u.provider # NoProvider => u.id # 0 /\ u.active
    BY <1>1, <2>2, <2>3 DEF UsageTypes
  <2>6. background => u.provider = provider /\ ~u.timer /\ \A r \in reads : r.background => r.by # u.id
    BY <2>2, <2>4, <2>11
  <2>7. u.timer => u.provider # NoProvider /\ \A r \in reads : r.background => r.by # u.id
    BY <2>2
  <2>8. \/ u.id = usage.id /\ u.provider = usage.provider /\ u.revision = usage.revision /\ u.snapshot = usage.snapshot
        \/ u.id = usage.id + 1 /\ u.snapshot = NoSnapshot
    BY <2>2
  <2>9. background \in BOOLEAN
    BY <2>10
  <2>12. MayRead(u, provider, background)
    BY <2>2, <2>3, <2>5, <2>6, <2>7, <2>8, <2>9 DEF MayRead
  <2> QED  BY <2>1, <2>12, ReadKeeps
<1>5. CASE Asks_
  <2>0. PICK u, background : u = usage /\ background = FALSE
    OBVIOUS
  <2>1. PICK provider \in Provider : ReadUsage(u, provider, background)
    BY <1>5, <2>0 DEF Asks_
  <2>2. /\ DOMAIN u = DOMAIN usage /\ u.reads = usage.reads
        /\ u.provider \in Provider \cup {NoProvider} /\ u.id \in Nat /\ u.revision \in Nat
        /\ u.timer \in BOOLEAN /\ u.active \in BOOLEAN
    BY <1>1, <2>0 DEF UsageTypes
  <2>3. u.provider # NoProvider => u.id # 0 /\ u.active
    BY <1>1, <2>0 DEF ReadsOfObserved, Observed
  <2>4. u.timer => u.provider # NoProvider /\ \A r \in reads : r.background => r.by # u.id
    BY <1>1, <2>0, <2>3 DEF UsageInv, OneRefresh, Ours, ReadsOfObserved, Observed
  <2>5. ~background /\ background \in BOOLEAN
    BY <2>0
  <2>6. \/ u.id = usage.id /\ u.provider = usage.provider /\ u.revision = usage.revision /\ u.snapshot = usage.snapshot
        \/ u.id = usage.id + 1 /\ u.snapshot = NoSnapshot
    BY <2>0
  <2>7. MayRead(u, provider, background)
    BY <2>1, <2>2, <2>3, <2>4, <2>5, <2>6 DEF MayRead
  <2> QED  BY <2>1, <2>7, ReadKeeps
<1>6. CASE DisposeUsage
  <2>1. usage' = [Stopped EXCEPT !.active = FALSE] /\ reads' = reads
    BY <1>6 DEF DisposeUsage
  <2>2. /\ DOMAIN usage' = DOMAIN usage /\ usage'.provider = NoProvider /\ usage'.snapshot = NoSnapshot
        /\ usage'.timer = FALSE /\ usage'.active = FALSE /\ usage'.id = usage.id
        /\ usage'.revision = usage.revision /\ usage'.reads = usage.reads
    BY <1>1, <2>1 DEF Stopped, UsageTypes
  <2> QED  BY <2>1, <2>2, StopKeeps
<1>7. ASSUME NEW r \in reads, Answers(r)  PROVE UsageInv'
  <2>1. reads' = reads \ {r}
    BY <1>7 DEF Answers
  <2>2. PICK shown, timer :
          /\ usage' = [usage EXCEPT !.snapshot = shown, !.timer = timer]
          /\ ~Publishes(r) => shown = usage.snapshot
          /\ Publishes(r) => shown \in {NoSnapshot, [of |-> r.of, revision |-> r.revision]}
          /\ timer \in BOOLEAN
          /\ timer => usage.timer \/ (r.background /\ r.by = usage.id /\ usage.provider # NoProvider /\ usage.active)
    <3>1. PICK failed \in BOOLEAN :
            usage' = [usage EXCEPT
              !.snapshot = IF ~Publishes(r) THEN @ ELSE IF failed \/ r.of \in Quotaless THEN NoSnapshot
                           ELSE [of |-> r.of, revision |-> r.revision],
              !.timer = @ \/ (r.background /\ (failed \/ r.of \notin Quotaless)
                                /\ r.by = usage.id /\ usage.provider # NoProvider /\ usage.active)]
      BY <1>7 DEF Answers
    <3> PICK shown : shown = IF ~Publishes(r) THEN usage.snapshot ELSE IF failed \/ r.of \in Quotaless THEN NoSnapshot
                             ELSE [of |-> r.of, revision |-> r.revision]
      OBVIOUS
    <3> PICK timer : timer = (usage.timer \/ (r.background /\ (failed \/ r.of \notin Quotaless)
                                /\ r.by = usage.id /\ usage.provider # NoProvider /\ usage.active))
      OBVIOUS
    <3>2. usage' = [usage EXCEPT !.snapshot = shown, !.timer = timer]
      BY <3>1
    <3>3. timer \in BOOLEAN
      BY <1>1 DEF UsageTypes
    <3> QED  BY <3>2, <3>3
  <2>3. /\ DOMAIN usage' = DOMAIN usage /\ usage'.provider = usage.provider /\ usage'.snapshot = shown
        /\ usage'.timer = timer /\ usage'.active = usage.active /\ usage'.id = usage.id
        /\ usage'.revision = usage.revision /\ usage'.reads = usage.reads
    BY <1>1, <2>2 DEF UsageTypes
  <2>4. UsageTypes'
    BY <1>1, <2>1, <2>2, <2>3 DEF UsageTypes
  <2>5. ReadsOfObserved'
    BY <1>1, <2>1, <2>2, <2>3 DEF ReadsOfObserved, Observed, Ours
  <2>6. NewestComes'
    <3>1. CASE Publishes(r)
      <4>1. r.by = usage.id /\ r.by # 0 /\ usage.provider # NoProvider /\ r.revision = usage.revision
        BY <3>1 DEF Publishes
      <4>2. r.of = usage.provider
        BY <1>1, <4>1 DEF ReadsOfObserved, Ours, Observed
      <4>3. shown = NoSnapshot \/ (shown.of = r.of /\ shown.revision = r.revision)
        <5>0. PICK told : told = [of |-> r.of, revision |-> r.revision]
          OBVIOUS
        <5>1. told.of = r.of /\ told.revision = r.revision
          BY <5>0
        <5>2. shown = NoSnapshot \/ shown = told
          BY <2>2, <3>1, <5>0
        <5>3. CASE shown = told
          BY <5>1, <5>3
        <5> QED  BY <5>2, <5>3
      <4>4. shown # NoSnapshot => shown.of = usage.provider /\ shown.revision = usage.revision
        BY <4>1, <4>2, <4>3
      <4> QED  BY <2>3, <4>1, <4>4 DEF NewestComes, Observed, NoSnapshot
    <3>2. CASE ~Publishes(r)
      <4> SUFFICES ASSUME usage.snapshot # NoSnapshot
                   PROVE  /\ usage.provider # NoProvider /\ usage.snapshot.of = usage.provider
                          /\ \/ usage.snapshot.revision = usage.revision
                             \/ \E o \in reads' : o.by = usage.id /\ o.by # 0 /\ o.revision = usage.revision
        BY <2>2, <2>3, <3>2 DEF NewestComes, Observed, Ours, NoSnapshot
      <4>1. /\ usage.provider # NoProvider /\ usage.snapshot.of = usage.provider
            /\ \/ usage.snapshot.revision = usage.revision
               \/ \E o \in reads : o.by = usage.id /\ o.by # 0 /\ o.revision = usage.revision
        BY DEF UsageInv, NewestComes, Observed, Ours
      <4>2. usage.active
        BY <1>1, <4>1 DEF ReadsOfObserved, Observed
      <4>3. ~(r.by = usage.id /\ r.by # 0 /\ r.revision = usage.revision)
        BY <3>2, <4>1, <4>2 DEF Publishes
      <4> QED  BY <2>1, <4>1, <4>3
    <3> QED  BY <3>1, <3>2
  <2>7. OneRefresh'
    <3>1. \A o, p \in reads' : o.background /\ p.background /\ o.by = usage.id /\ o.by # 0
                               /\ p.by = usage.id /\ p.by # 0 => o = p
      BY <2>1 DEF UsageInv, OneRefresh, Ours
    <3>2. timer => \A o \in reads' : o.background => ~(o.by = usage.id /\ o.by # 0)
      <4>1. CASE usage.timer
        BY <2>1, <4>1 DEF UsageInv, OneRefresh, Ours
      <4>2. CASE ~usage.timer
        <5> SUFFICES ASSUME timer, NEW o \in reads', o.background, o.by = usage.id, o.by # 0  PROVE FALSE
          OBVIOUS
        <5>1. r.background /\ r.by = usage.id
          BY <2>2, <4>2
        <5>2. r = o
          BY <2>1, <5>1 DEF UsageInv, OneRefresh, Ours
        <5> QED  BY <2>1, <5>2
      <4> QED  BY <4>1, <4>2
    <3> QED  BY <2>3, <3>1, <3>2 DEF OneRefresh, Ours
  <2> QED  BY <2>4, <2>5, <2>6, <2>7 DEF UsageInv
<1>8. CASE UNCHANGED usageVars
  BY <1>8 DEF usageVars, UsageInv, UsageTypes, ReadsOfObserved, NewestComes, OneRefresh, Observed, Ours
<1> QED  BY <1>3, <1>4, <1>5, <1>6, <1>7, <1>8 DEF UsageNext

\* Lemma: what the invariant says of the quota shown.
LEMMA UsageTold == UsageInv => UsageCurrent
<1> SUFFICES ASSUME UsageInv  PROVE UsageCurrent
  OBVIOUS
<1> DEFINE fresh == {r \in reads : r.background /\ r.by = usage.id}
<1>1. \A r \in fresh : Ours(r)
  BY DEF UsageInv, UsageTypes, Ours
<1>2. fresh = {} \/ \E r \in fresh : fresh = {r}
  BY <1>1 DEF UsageInv, OneRefresh
<1>3. Cardinality(fresh) \in {0, 1} /\ (fresh = {} => Cardinality(fresh) = 0)
  <2> HIDE DEF fresh
  <2> QED  BY <1>2, FS_EmptySet, FS_Singleton
<1>4. usage.timer => fresh = {}
  BY <1>1 DEF UsageInv, OneRefresh
<1>5. Cardinality(fresh) + (IF usage.timer THEN 1 ELSE 0) <= 1
  <2> HIDE DEF fresh
  <2> QED  BY <1>3, <1>4
<1>6. usage.timer => usage.provider # NoProvider /\ usage.active
  BY DEF UsageInv, ReadsOfObserved, Observed
<1>7. usage.snapshot # NoSnapshot =>
        /\ usage.snapshot.of = usage.provider
        /\ usage.snapshot.revision = usage.revision
             \/ \E r \in reads : r.by = usage.id /\ r.revision = usage.revision
  BY DEF UsageInv, NewestComes, Ours
<1> QED  BY <1>5, <1>6, <1>7 DEF UsageCurrent

\* Theorem: the quota shown is that of the provider observed, and the newest of
\* those read unless a newer read is on its way, whatever the order in which the
\* reads answer; and of the timer and the background read there is one at a time.
THEOREM UsageStaysCurrent == UsageInit /\ [][UsageNext]_usageVars => []UsageCurrent
<1>1. UsageInv => UsageCurrent
  BY UsageTold
<1> QED  BY <1>1, UsageInitial, UsageStep, PTL

-----------------------------------------------------------------------------
(***************************************************************************)
(* The sign-in.  The Host repeats what it shows, and what it asks may be   *)
(* answered after the attempt was aborted; the invariant keeps apart the   *)
(* addresses an attempt has named and those it has still to open, and the  *)
(* attempts that opened an address.                                        *)
(***************************************************************************)
AttemptFields == {"id", "step", "named", "aborted", "surface", "asked", "awaited", "shown", "noted", "opening"}

SignInTypes ==
  /\ DOMAIN signIn = {"active", "begun", "opened"}
  /\ signIn.begun \in Nat /\ signIn.opened \in [Url -> Seq(Nat)]

\* One attempt at a time, and never one without end.
Orderly(a) ==
  /\ DOMAIN a = AttemptFields /\ a.aborted \in BOOLEAN
  /\ a.shown = a.awaited
  /\ a.aborted => a.awaited = "none"
  /\ a.surface = "authorize" => a.step = "authorizing"

\* The attempt under way is the last one begun; what it still opens, and what
\* it has not named, it has not opened.
Unopened(a) ==
  /\ a.id = signIn.begun /\ a.opening \subseteq a.noted /\ a.opening \subseteq Url
  /\ \A url \in Url : url \in a.opening \/ url \notin a.noted =>
       \A i \in 1 .. Len(signIn.opened[url]) : signIn.opened[url][i] # a.id

\* An address was opened once by an attempt, of those begun so far.
OnceEach ==
  \A url \in Url : \A i, j \in 1 .. Len(signIn.opened[url]) :
    /\ signIn.opened[url][i] <= signIn.begun
    /\ signIn.opened[url][i] = signIn.opened[url][j] => i = j

SignInInv ==
  /\ SignInTypes /\ OnceEach
  /\ \A a, b \in attempts : a = b
  /\ \A a \in attempts : Orderly(a) /\ Unopened(a)

\* Lemma: the attempt under way goes on, or ends.
LEMMA AttemptGoesOn ==
  ASSUME SignInInv, NEW a \in attempts, UNCHANGED signIn,
         \/ AttemptEnds(a)
         \/ \E b : /\ Becomes(a, b) /\ Orderly(b) /\ b.id = a.id /\ b.opening \subseteq Url
                   /\ b.opening \subseteq b.noted /\ a.noted \subseteq b.noted
                   /\ \A url \in b.opening : url \in a.opening \/ url \notin a.noted
  PROVE  SignInInv'
<1>1. attempts = {a}
  BY DEF SignInInv
<1>2. CASE AttemptEnds(a)
  <2>1. attempts' = {}
    BY <1>1, <1>2 DEF AttemptEnds
  <2> QED  BY <2>1 DEF SignInInv, SignInTypes, OnceEach
<1>3. ASSUME NEW b, Becomes(a, b), Orderly(b), b.id = a.id, b.opening \subseteq Url,
             b.opening \subseteq b.noted, a.noted \subseteq b.noted,
             \A url \in b.opening : url \in a.opening \/ url \notin a.noted
      PROVE  SignInInv'
  <2>1. attempts' = {b}
    BY <1>1, <1>3 DEF Becomes
  <2>2. Unopened(a) /\ SignInTypes /\ OnceEach
    BY DEF SignInInv
  <2>3. Unopened(b)'
    BY <1>3, <2>2 DEF Unopened
  <2>4. SignInTypes' /\ OnceEach'
    BY <2>2 DEF SignInTypes, OnceEach
  <2>5. Orderly(b)'
    BY <1>3 DEF Orderly
  <2> QED  BY <2>1, <2>3, <2>4, <2>5 DEF SignInInv
<1> QED  BY <1>2, <1>3

\* Lemma: an attempt that hears of an abort has nothing awaited.
LEMMA AbortedOrderly ==
  ASSUME NEW a, Orderly(a)
  PROVE  /\ Orderly(AbortedBy(a)) /\ AbortedBy(a).id = a.id /\ AbortedBy(a).noted = a.noted
         /\ AbortedBy(a).opening = a.opening
BY DEF Orderly, AbortedBy, AttemptFields

\* Lemma: every event of an attempt, also those after its abort, keeps it.
LEMMA SignInStep == SignInInv /\ [SignInNext]_signInVars => SignInInv'
<1> SUFFICES ASSUME SignInInv, [SignInNext]_signInVars  PROVE SignInInv'
  OBVIOUS
<1>0. SignInTypes /\ OnceEach /\ (\A a, b \in attempts : a = b) /\ (\A a \in attempts : Orderly(a) /\ Unopened(a))
  BY DEF SignInInv
<1>1. CASE Connect
  <2>1. PICK named : attempts' = {NewAttempt(named)}
    BY <1>1 DEF Connect
  <2>2. signIn' = [signIn EXCEPT !.begun = signIn.begun + 1]
    BY <1>1 DEF Connect
  <2>3. /\ DOMAIN signIn' = {"active", "begun", "opened"} /\ signIn'.opened = signIn.opened
        /\ signIn'.begun = signIn.begun + 1 /\ signIn.begun \in Nat
    BY <1>0, <2>2 DEF SignInTypes
  <2>4. PICK a : a = NewAttempt(named)
    OBVIOUS
  <2>5. Orderly(a) /\ a.id = signIn.begun + 1 /\ a.opening = {}
    BY <2>4 DEF NewAttempt, Orderly, AttemptFields
  <2>6. \A url \in Url : \A i \in 1 .. Len(signIn.opened[url]) :
          signIn.opened[url][i] <= signIn.begun /\ signIn.opened[url][i] \in Nat
    BY <1>0 DEF OnceEach, SignInTypes
  <2>7. Unopened(a)'
    BY <2>3, <2>5, <2>6 DEF Unopened
  <2>8. SignInTypes' /\ OnceEach'
    <3>1. SignInTypes'
      BY <1>0, <2>3 DEF SignInTypes
    <3>2. OnceEach'
      BY <1>0, <2>3, <2>6 DEF OnceEach
    <3> QED  BY <3>1, <3>2
  <2>9. attempts' = {a} /\ Orderly(a)'
    BY <2>1, <2>4, <2>5 DEF Orderly
  <2> QED  BY <2>7, <2>8, <2>9 DEF SignInInv
<1>2. CASE DisposeSignIn
  <2>1. /\ signIn' = [signIn EXCEPT !.active = FALSE]
        /\ attempts' = {AbortedBy(a) : a \in attempts}
    BY <1>2 DEF DisposeSignIn
  <2>2. /\ DOMAIN signIn' = {"active", "begun", "opened"} /\ signIn'.opened = signIn.opened
        /\ signIn'.begun = signIn.begun
    BY <1>0, <2>1 DEF SignInTypes
  <2>3. \A a \in attempts : Orderly(AbortedBy(a))' /\ Unopened(AbortedBy(a))'
    BY <1>0, <2>2, AbortedOrderly DEF Unopened, Orderly
  <2>4. SignInTypes' /\ OnceEach'
    BY <1>0, <2>2 DEF SignInTypes, OnceEach
  <2>5. \A b \in attempts' : \E a \in attempts : b = AbortedBy(a)
    BY <2>1
  <2>6. \A b \in attempts' : Orderly(b)' /\ Unopened(b)'
    BY <2>3, <2>5
  <2>7. \A b, c \in attempts' : b = c
    BY <1>0, <2>5
  <2> QED  BY <2>4, <2>6, <2>7 DEF SignInInv
<1>3. ASSUME NEW a \in attempts,
             Connections(a) \/ Choice(a) \/ Prompts(a) \/ PromptEnds(a) \/ Outcome(a) \/ Cancels(a) \/ Notify(a)
      PROVE  SignInInv'
  <2>1. Orderly(a) /\ Unopened(a)
    BY <1>0
  <2>2. UNCHANGED signIn
    BY <1>3 DEF Connections, Choice, Prompts, PromptEnds, Outcome, Cancels, Notify
  <2> DEFINE Good(b) == /\ Orderly(b) /\ b.id = a.id /\ b.opening \subseteq Url
                        /\ b.opening \subseteq b.noted /\ a.noted \subseteq b.noted
                        /\ \A url \in b.opening : url \in a.opening \/ url \notin a.noted
  <2>3. AttemptEnds(a) \/ \E b : Becomes(a, b) /\ Good(b)
    <3>1. CASE Connections(a) \/ Choice(a)
      <4>1. \/ AttemptEnds(a)
            \/ Becomes(a, [a EXCEPT !.step = "choosing", !.surface = "choose"])
            \/ Becomes(a, [a EXCEPT !.step = "chosen", !.surface = "none"])
            \/ Becomes(a, [a EXCEPT !.step = "authorizing", !.surface = "authorize"])
        BY <3>1 DEF Connections, Choice, Authorizes
      <4>2. Good([a EXCEPT !.step = "choosing", !.surface = "choose"])
        BY <2>1 DEF Orderly, Unopened, AttemptFields
      <4>3. Good([a EXCEPT !.step = "chosen", !.surface = "none"])
        BY <2>1 DEF Orderly, Unopened, AttemptFields
      <4>4. Good([a EXCEPT !.step = "authorizing", !.surface = "authorize"])
        BY <2>1 DEF Orderly, Unopened, AttemptFields
      <4> HIDE DEF Good
      <4> QED  BY <4>1, <4>2, <4>3, <4>4
    <3>2. CASE Notify(a)
      <4>1. PICK url \in Url : Becomes(a, [a EXCEPT !.noted = a.noted \cup {url},
                                             !.opening = IF url \in a.noted THEN a.opening ELSE a.opening \cup {url}])
        BY <3>2 DEF Notify
      <4>2. PICK b : b = [a EXCEPT !.noted = a.noted \cup {url},
                                   !.opening = IF url \in a.noted THEN a.opening ELSE a.opening \cup {url}]
        OBVIOUS
      <4>3. /\ Orderly(b) /\ b.id = a.id /\ b.noted = a.noted \cup {url}
            /\ b.opening = IF url \in a.noted THEN a.opening ELSE a.opening \cup {url}
        BY <2>1, <4>2 DEF Orderly, AttemptFields
      <4>4. Good(b)
        BY <2>1, <4>3 DEF Unopened
      <4> HIDE DEF Good
      <4> QED  BY <4>1, <4>2, <4>4
    <3>3. CASE Prompts(a)
      <4>1. PICK kind : ~a.aborted /\ Becomes(a, [a EXCEPT !.asked = a.asked + 1, !.awaited = kind, !.shown = kind])
        BY <3>3 DEF Prompts
      <4>2. PICK b : b = [a EXCEPT !.asked = a.asked + 1, !.awaited = kind, !.shown = kind]
        OBVIOUS
      <4>3. Orderly(b) /\ b.id = a.id /\ b.noted = a.noted /\ b.opening = a.opening
        BY <2>1, <4>1, <4>2 DEF Orderly, AttemptFields
      <4>4. Good(b)
        BY <2>1, <4>3 DEF Unopened
      <4> HIDE DEF Good
      <4> QED  BY <4>1, <4>2, <4>4
    <3>4. CASE PromptEnds(a)
      <4>1. PICK b : b = [a EXCEPT !.awaited = "none", !.shown = "none"]
        OBVIOUS
      <4>2. Becomes(a, b)
        BY <3>4, <4>1 DEF PromptEnds
      <4>3. Orderly(b) /\ b.id = a.id /\ b.noted = a.noted /\ b.opening = a.opening
        BY <2>1, <4>1 DEF Orderly, AttemptFields
      <4>4. Good(b)
        BY <2>1, <4>3 DEF Unopened
      <4> HIDE DEF Good
      <4> QED  BY <4>2, <4>4
    <3>5. CASE Outcome(a)
      BY <3>5 DEF Outcome
    <3>6. CASE Cancels(a)
      <4>1. Becomes(a, AbortedBy(a))
        BY <3>6 DEF Cancels
      <4>2. Good(AbortedBy(a))
        BY <2>1, AbortedOrderly DEF Unopened
      <4> HIDE DEF Good
      <4> QED  BY <4>1, <4>2
    <3> QED  BY <1>3, <3>1, <3>2, <3>3, <3>4, <3>5, <3>6
  <2> QED  BY <2>2, <2>3, AttemptGoesOn
<1>4. ASSUME NEW a \in attempts, OpenUrl(a)  PROVE SignInInv'
  <2>1. Orderly(a) /\ Unopened(a)
    BY <1>0
  <2>2. PICK url \in a.opening :
          /\ Becomes(a, [a EXCEPT !.opening = a.opening \ {url}])
          /\ signIn' = IF a.aborted THEN signIn ELSE [signIn EXCEPT !.opened[url] = signIn.opened[url] \o <<a.id>>]
    BY <1>4 DEF OpenUrl
  <2>3. PICK b : b = [a EXCEPT !.opening = a.opening \ {url}]
    OBVIOUS
  <2>4. Orderly(b) /\ b.id = a.id /\ b.noted = a.noted /\ b.opening = a.opening \ {url}
    BY <2>1, <2>3 DEF Orderly, AttemptFields
  <2>5. attempts' = {b}
    BY <1>0, <2>2, <2>3 DEF Becomes
  <2>6. CASE a.aborted
    <3>1. UNCHANGED signIn
      BY <2>2, <2>6
    <3>2. Unopened(b)'
      BY <2>1, <2>4, <3>1 DEF Unopened
    <3>3. SignInTypes' /\ OnceEach'
      BY <1>0, <3>1 DEF SignInTypes, OnceEach
    <3> QED  BY <2>4, <2>5, <3>2, <3>3 DEF SignInInv, Orderly
  <2>7. CASE ~a.aborted
    <3>1. /\ DOMAIN signIn' = {"active", "begun", "opened"} /\ signIn'.begun = signIn.begun
          /\ signIn'.opened = [signIn.opened EXCEPT ![url] = signIn.opened[url] \o <<a.id>>]
      BY <1>0, <2>2, <2>7 DEF SignInTypes
    <3>2. url \in Url /\ a.id = signIn.begun /\ signIn.begun \in Nat /\ signIn.opened[url] \in Seq(Nat)
          /\ \A other \in Url : signIn.opened[other] \in Seq(Nat)
      BY <1>0, <2>1 DEF Unopened, SignInTypes
    <3> DEFINE before == signIn.opened[url]
               after == signIn'.opened[url]
    <3>3. after = Append(before, a.id)
      BY <1>0, <3>1, <3>2, AppendIsConcat DEF SignInTypes
    <3>4. /\ after \in Seq(Nat) /\ Len(after) = Len(before) + 1 /\ after[Len(before) + 1] = a.id
          /\ \A i \in 1 .. Len(before) : after[i] = before[i]
          /\ Len(before) \in Nat
      BY <3>2, <3>3
    <3>5. \A other \in Url : other # url => signIn'.opened[other] = signIn.opened[other]
      BY <1>0, <3>1 DEF SignInTypes
    <3>6. signIn'.opened \in [Url -> Seq(Nat)]
      <4>1. signIn.opened \in [Url -> Seq(Nat)] /\ before \o <<a.id>> \in Seq(Nat)
        BY <1>0, <3>2 DEF SignInTypes
      <4> QED  BY <3>1, <4>1
    <3>7. \A i \in 1 .. Len(before) : before[i] # a.id /\ before[i] <= signIn.begun
      BY <1>0, <2>1, <2>2, <3>2 DEF Unopened, OnceEach
    <3>8. ASSUME NEW i \in 1 .. Len(after), NEW j \in 1 .. Len(after)
          PROVE  after[i] <= signIn.begun /\ (after[i] = after[j] => i = j)
      <4>0. i \in 1 .. Len(before) \/ i = Len(before) + 1
        BY <3>4
      <4>1. j \in 1 .. Len(before) \/ j = Len(before) + 1
        BY <3>4
      <4>2. \A m, n \in 1 .. Len(before) : before[m] = before[n] => m = n
        BY <1>0, <3>2 DEF OnceEach
      <4> HIDE DEF before, after
      <4>3. after[i] <= signIn.begun
        BY <3>2, <3>4, <3>7, <4>0
      <4>4. CASE i \in 1 .. Len(before) /\ j \in 1 .. Len(before)
        <5>1. after[i] = before[i] /\ after[j] = before[j]
          BY <3>4, <4>4
        <5> QED  BY <4>2, <4>3, <4>4, <5>1
      <4>5. CASE i \in 1 .. Len(before) /\ j = Len(before) + 1
        <5>1. after[i] # a.id /\ after[j] = a.id
          BY <3>4, <3>7, <4>5
        <5> QED  BY <4>3, <5>1
      <4>6. CASE i = Len(before) + 1 /\ j \in 1 .. Len(before)
        <5>1. after[j] # a.id /\ after[i] = a.id
          BY <3>4, <3>7, <4>6
        <5> QED  BY <4>3, <5>1
      <4>7. CASE i = Len(before) + 1 /\ j = Len(before) + 1
        BY <4>3, <4>7
      <4> QED  BY <4>0, <4>1, <4>4, <4>5, <4>6, <4>7
    <3>9. OnceEach'
      <4>1. ASSUME NEW other \in Url, NEW i \in 1 .. Len(signIn'.opened[other]), NEW j \in 1 .. Len(signIn'.opened[other])
            PROVE  /\ signIn'.opened[other][i] <= signIn'.begun
                   /\ signIn'.opened[other][i] = signIn'.opened[other][j] => i = j
        <5>1. CASE other = url
          BY <3>1, <3>8, <4>1, <5>1
        <5>2. CASE other # url
          BY <1>0, <3>1, <3>5, <4>1, <5>2 DEF OnceEach
        <5> QED  BY <5>1, <5>2
      <4> QED  BY <4>1 DEF OnceEach
    <3>10. Unopened(b)'
      <4>1. ASSUME NEW other \in Url, other \in b.opening \/ other \notin b.noted
            PROVE  \A i \in 1 .. Len(signIn'.opened[other]) : signIn'.opened[other][i] # b.id
        <5>1. other # url
          BY <2>1, <2>4, <4>1 DEF Unopened
        <5>2. other \in a.opening \/ other \notin a.noted
          BY <2>4, <4>1
        <5> QED  BY <2>1, <2>4, <3>5, <5>1, <5>2 DEF Unopened
      <4>2. b.id = signIn'.begun /\ b.opening \subseteq b.noted /\ b.opening \subseteq Url
        BY <2>1, <2>4, <3>1 DEF Unopened
      <4> QED  BY <4>1, <4>2 DEF Unopened
    <3>11. SignInTypes'
      BY <3>1, <3>2, <3>6 DEF SignInTypes
    <3>12. Orderly(b)'
      BY <2>4 DEF Orderly
    <3> QED  BY <2>5, <3>9, <3>10, <3>11, <3>12 DEF SignInInv
  <2> QED  BY <2>6, <2>7
<1>5. CASE UNCHANGED signInVars
  BY <1>0, <1>5 DEF signInVars, SignInInv, SignInTypes, OnceEach, Orderly, Unopened
<1> QED  BY <1>1, <1>2, <1>3, <1>4, <1>5 DEF SignInNext

\* Lemma: what the invariant says of the attempts and of the addresses.
LEMMA SignInTold == SignInInv => SignInCurrent
<1> SUFFICES ASSUME SignInInv  PROVE SignInCurrent
  OBVIOUS
<1>1. Cardinality(attempts) <= 1
  <2>1. CASE attempts = {}
    BY <2>1, FS_EmptySet
  <2>2. CASE attempts # {}
    <3>1. PICK a : attempts = {a}
      BY <2>2 DEF SignInInv
    <3>2. Cardinality({a}) = 1
      BY FS_Singleton
    <3> QED  BY <3>1, <3>2
  <2> QED  BY <2>1, <2>2
<1>2. OneSignIn
  BY <1>1 DEF SignInInv, Orderly, OneSignIn
<1>3. ASSUME NEW url \in Url
      PROVE  Cardinality({i \in DOMAIN signIn.opened[url] : TRUE}) =
             Cardinality({signIn.opened[url][i] : i \in DOMAIN signIn.opened[url]})
  <2> DEFINE log == signIn.opened[url]
             N == 1 .. Len(log)
             ids == {log[i] : i \in DOMAIN log}
  <2>1. log \in Seq(Nat) /\ DOMAIN log = N /\ Len(log) \in Nat
    BY DEF SignInInv, SignInTypes
  <2>2. \A i, j \in N : log[i] = log[j] => i = j
    BY DEF SignInInv, OnceEach
  <2>3. {i \in DOMAIN log : TRUE} = N
    BY <2>1
  <2>4. IsFiniteSet(N)
    <3>1. PICK n \in Nat : n = Len(log)
      BY <2>1
    <3>2. IsFiniteSet(1 .. n)
      BY FS_Interval
    <3> QED  BY <3>1, <3>2
  <2>5. log \in [N -> ids]
    BY <2>1
  <2> HIDE DEF log, N
  <2>6. log \in Surjection(N, ids)
    BY <2>1, <2>5 DEF Surjection
  <2>7. log \in Injection(N, ids)
    BY <2>1, <2>2, <2>5 DEF Injection, IsInjective
  <2> HIDE DEF ids
  <2>8. Cardinality(ids) = Cardinality(N)
    BY <2>4, <2>6, <2>7, FS_Surjection
  <2> QED  BY <2>3, <2>8 DEF ids, log
<1> QED  BY <1>2, <1>3 DEF SignInCurrent, OpenedOnce

\* Theorem: there is one sign-in at a time, what it shows is what the Host awaits,
\* nothing is awaited by one that was aborted, and no attempt opens an address
\* twice.
THEOREM SignInStaysCurrent == SignInInit /\ [][SignInNext]_signInVars => []SignInCurrent
<1>1. SignInInit => SignInInv
  <2> SUFFICES ASSUME SignInInit  PROVE SignInInv
    OBVIOUS
  <2>1. attempts = {} /\ DOMAIN signIn = {"active", "begun", "opened"} /\ signIn.begun = 0
        /\ signIn.opened = [u \in Url |-> <<>>]
    BY DEF SignInInit
  <2>2. signIn.opened \in [Url -> Seq(Nat)] /\ \A url \in Url : Len(signIn.opened[url]) = 0
    BY <2>1
  <2> QED  BY <2>1, <2>2 DEF SignInInv, SignInTypes, OnceEach
<1>2. SignInInv => SignInCurrent
  BY SignInTold
<1> QED  BY <1>1, <1>2, SignInStep, PTL

-----------------------------------------------------------------------------
(***************************************************************************)
(* Local Skills.  What others wrote is never absent or an empty directory, *)
(* which is where this program writes; and an empty directory is that of   *)
(* the creation under way.                                                 *)
(***************************************************************************)
FilesKnown ==
  /\ DOMAIN disk = Skill /\ \A n \in Skill : DOMAIN disk[n] = {"file", "by"}
  /\ DOMAIN work = {"step", "name", "tries", "ok", "report"}
  /\ DOMAIN spent = {"faults", "others", "theirs"}

TheirsStay ==
  \A n \in Skill : n \in spent.theirs => disk[n].by = "other" /\ disk[n].file \notin {"none", "empty"}

EmptyIsOurs == \A n \in Skill : disk[n].file = "empty" => work.step = "write" /\ work.name = n

\* A surface over the list leaves no authoring beside it.
NothingBeside ==
  /\ DOMAIN desk = {"view", "index", "detail", "filtered", "over", "name"}
  /\ desk.over # "none" => AtRest

FilesInv == FilesKnown /\ TheirsStay /\ EmptyIsOurs

\* Lemma: it holds at the start, whatever file there is.
LEMMA FilesInitial == SkillsInit => FilesInv
<1> SUFFICES ASSUME SkillsInit  PROVE FilesInv
  OBVIOUS
<1>1. PICK file \in {"none", "valid"} : disk = [n \in Skill |-> IF n \in Provided THEN NoFile ELSE [NoFile EXCEPT !.file = file]]
  BY DEF SkillsInit
<1>2. ASSUME NEW n \in Skill  PROVE DOMAIN disk[n] = {"file", "by"} /\ disk[n].file # "empty"
  BY <1>1 DEF NoFile
<1>3. DOMAIN work = {"step", "name", "tries", "ok", "report"}
  BY DEF SkillsInit, NoWork
<1>4. DOMAIN spent = {"faults", "others", "theirs"} /\ spent.theirs = {}
  BY DEF SkillsInit
<1> QED  BY <1>1, <1>2, <1>3, <1>4 DEF FilesInv, FilesKnown, TheirsStay, EmptyIsOurs

\* Lemma: a step that leaves the files and takes no writing away.
LEMMA FilesLeft ==
  ASSUME FilesInv, disk' = disk, NEW w, work' = w, DOMAIN w = DOMAIN work, DOMAIN spent' = DOMAIN spent,
         spent'.theirs = spent.theirs, work.step = "write" => w.step = "write" /\ w.name = work.name
  PROVE  FilesInv'
BY DEF FilesInv, FilesKnown, TheirsStay, EmptyIsOurs

\* Lemma: a step that replaces one file.
LEMMA FileReplaced ==
  ASSUME FilesInv, NEW name, NEW file, DOMAIN file = {"file", "by"},
         disk' = [disk EXCEPT ![name] = file],
         DOMAIN work' = DOMAIN work, DOMAIN spent' = DOMAIN spent,
         \A n \in Skill : n # name => (n \in spent'.theirs => n \in spent.theirs),
         name \in Skill /\ name \in spent'.theirs => file.by = "other" /\ file.file \notin {"none", "empty"},
         file.file = "empty" => work'.step = "write" /\ work'.name = name,
         \A n \in Skill : n # name /\ work.step = "write" /\ work.name = n => work' = work
  PROVE  FilesInv'
<1>1. \A n \in Skill : disk'[n] = IF n = name THEN file ELSE disk[n]
  BY DEF FilesInv, FilesKnown
<1>2. DOMAIN disk' = Skill
  BY DEF FilesInv, FilesKnown
<1>3. FilesKnown'
  BY <1>1, <1>2 DEF FilesInv, FilesKnown
<1>4. TheirsStay'
  BY <1>1 DEF FilesInv, TheirsStay
<1>5. EmptyIsOurs'
  BY <1>1 DEF FilesInv, EmptyIsOurs
<1> QED  BY <1>3, <1>4, <1>5 DEF FilesInv

\* Lemma: a catalogue that is published leaves the surfaces where they are.
LEMMA PublishedBehind ==
  ASSUME NothingBeside, NEW force, RefreshCatalog(force)
  PROVE  DOMAIN desk' = DOMAIN desk /\ desk'.over = desk.over
<1>1. DOMAIN desk = {"view", "index", "detail", "filtered", "over", "name"}
  BY DEF NothingBeside
<1>2. ASSUME NEW rows, desk' = Reframed(rows)  PROVE DOMAIN desk' = DOMAIN desk /\ desk'.over = desk.over
  BY <1>1, <1>2 DEF Reframed
<1>3. ASSUME NEW c, Publish(c)  PROVE DOMAIN desk' = DOMAIN desk /\ desk'.over = desk.over
  BY <1>2, <1>3 DEF Publish
<1> QED  BY <1>3 DEF RefreshCatalog

\* Lemma: a Skill is authored when nothing is over the list.
LEMMA DeskStep == NothingBeside /\ [SkillsNext]_skillVars => NothingBeside'
<1> SUFFICES ASSUME NothingBeside, [SkillsNext]_skillVars  PROVE NothingBeside'
  OBVIOUS
<1>1. DOMAIN desk = {"view", "index", "detail", "filtered", "over", "name"} /\ (desk.over # "none" => work.step = "none")
  BY DEF NothingBeside, AtRest
<1>2. ASSUME DOMAIN desk' = DOMAIN desk, desk'.over = desk.over, work' = work \/ desk.over = "none"
      PROVE  NothingBeside'
  BY <1>2 DEF NothingBeside, AtRest
<1>3. ASSUME NEW d, Desk(d), DOMAIN d = DOMAIN desk, work.step = "none"  PROVE NothingBeside'
  BY <1>1, <1>3 DEF NothingBeside, AtRest, Desk
<1>4. ASSUME NEW d, desk' = d, DOMAIN d = DOMAIN desk, d.over = "none"  PROVE NothingBeside'
  BY <1>1, <1>4 DEF NothingBeside
<1>5. DOMAIN NoList = DOMAIN desk /\ NoList.over = "none"
  BY <1>1 DEF NoList
<1>6. ASSUME NEW c, Publish(c), work' = work  PROVE NothingBeside'
  <2>1. DOMAIN desk' = DOMAIN desk /\ desk'.over = desk.over
    BY <1>1, <1>6 DEF Publish, Reframed
  <2> QED  BY <1>2, <1>6, <2>1
<1>7. CASE ListAnswered \/ ListFailed
  BY <1>6, <1>7 DEF ListAnswered, ListFailed
<1>8. CASE \E force \in BOOLEAN : AskSkills(force)
  BY <1>2, <1>8, PublishedBehind DEF AskSkills
<1>9. CASE Ask_
  BY <1>1, <1>2, <1>9, PublishedBehind DEF Ask_
<1>10. CASE ListRead \/ GrowsStale \/ WrittenElsewhere \/ CreateDirectory \/ CreateFile \/ CreateFails \/ Edited
            \/ Validated \/ Look \/ Forgotten \/ EditSkill
  BY <1>1, <1>2, <1>10 DEF ListRead, GrowsStale, WrittenElsewhere, CreateDirectory, CreateFile, CreateFails, Edited,
                          Validated, Look, Forgotten, EditSkill, Reads, InFront
<1>11. CASE OpenSkills
  <2> PICK d : d = [NoList EXCEPT !.view = TRUE]
    OBVIOUS
  <2>1. desk' = d
    BY <1>11 DEF OpenSkills
  <2>2. DOMAIN d = DOMAIN desk /\ d.over = "none"
    BY <1>5
  <2> QED  BY <1>4, <2>1, <2>2
<1>12. CASE MoveSkill
  <2>1. PICK index : Desk([desk EXCEPT !.index = index]) /\ work.step = "none"
    BY <1>12 DEF MoveSkill, Reads, AtRest
  <2> QED  BY <1>1, <1>3, <2>1
<1>13. CASE SkillBack \/ InvokeSkill
  <2>1. desk.over = "none" /\ (Desk(NoList) \/ Desk([desk EXCEPT !.detail = FALSE]))
    BY <1>13 DEF SkillBack, InvokeSkill, Reads, InFront
  <2>2. DOMAIN [desk EXCEPT !.detail = FALSE] = DOMAIN desk /\ [desk EXCEPT !.detail = FALSE].over = "none"
    BY <1>1, <2>1
  <2> QED  BY <1>4, <1>5, <2>1, <2>2 DEF Desk
<1>14. CASE SkillDetail
  <2>1. Desk([desk EXCEPT !.detail = TRUE]) /\ work.step = "none"
    BY <1>14 DEF SkillDetail, Reads, AtRest
  <2> QED  BY <1>1, <1>3, <2>1
<1>15. CASE SearchSkills
  <2>1. work.step = "none"
    BY <1>1, <1>15 DEF SearchSkills, Reads, AtRest
  <2>2. \/ Desk([desk EXCEPT !.over = "search"])
        \/ Desk([desk EXCEPT !.over = "none"])
        \/ \E filtered \in BOOLEAN : Desk([desk EXCEPT !.over = "none", !.filtered = filtered, !.index = 1, !.detail = FALSE])
    BY <1>15 DEF SearchSkills
  <2>3. CASE Desk([desk EXCEPT !.over = "search"])
    BY <1>1, <1>3, <2>1, <2>3
  <2>4. CASE Desk([desk EXCEPT !.over = "none"])
    BY <1>1, <1>3, <2>1, <2>4
  <2>5. ASSUME NEW filtered \in BOOLEAN,
               Desk([desk EXCEPT !.over = "none", !.filtered = filtered, !.index = 1, !.detail = FALSE])
        PROVE  NothingBeside'
    BY <1>1, <1>3, <2>1, <2>5
  <2> QED  BY <2>2, <2>3, <2>4, <2>5
<1>16. CASE Wizard
  <2>1. ASSUME NEW over, Desk([desk EXCEPT !.over = over]), work.step = "none"  PROVE NothingBeside'
    BY <1>1, <1>3, <2>1
  <2>2. CASE Reads /\ Desk([desk EXCEPT !.over = "target"])
    BY <2>1, <2>2 DEF Reads, AtRest
  <2>3. CASE desk.over \in {"target", "description", "when"} /\ Desk([desk EXCEPT !.over = StepAfter(@)])
    BY <1>1, <2>1, <2>3
  <2>4. ASSUME NEW name, desk.over = "name", Desk([desk EXCEPT !.over = "description", !.name = name])
        PROVE  NothingBeside'
    BY <1>1, <1>3, <2>4
  <2>5. CASE desk' = [desk EXCEPT !.over = "none", !.name = 0]
    <3> PICK d : d = [desk EXCEPT !.over = "none", !.name = 0]
      OBVIOUS
    <3>1. DOMAIN d = DOMAIN desk
      OBVIOUS
    <3>2. d.over = "none"
      BY <1>1
    <3> QED  BY <1>4, <2>5, <3>1, <3>2
  <2>6. CASE desk.over \in ToSet(WizardSteps) /\ Desk([desk EXCEPT !.over = "none", !.name = 0])
    BY <2>5, <2>6 DEF Desk
  <2>7. CASE \E name \in Skill \ catalog.rows :
                desk.over = "name" /\ Desk([desk EXCEPT !.over = "description", !.name = name])
    BY <2>4, <2>7
  <2>8. Reads /\ Desk([desk EXCEPT !.over = "target"]) => NothingBeside'
    BY <2>2
  <2>9. desk.over \in {"target", "description", "when"} /\ Desk([desk EXCEPT !.over = StepAfter(@)]) => NothingBeside'
    BY <2>3
  <2> QED  BY <1>16, <2>5, <2>6, <2>7, <2>8, <2>9 DEF Wizard
<1>17. CASE UNCHANGED skillVars
  BY <1>2, <1>17 DEF skillVars
<1> QED
  BY <1>7, <1>8, <1>9, <1>10, <1>11, <1>12, <1>13, <1>14, <1>15, <1>16, <1>17 DEF SkillsNext

\* Lemma: every step of the authoring, and every foreign write, keeps it.
LEMMA FilesStep == FilesInv /\ NothingBeside /\ [SkillsNext]_skillVars => FilesInv'
<1> SUFFICES ASSUME FilesInv, NothingBeside, [SkillsNext]_skillVars  PROVE FilesInv'
  OBVIOUS
<1>1. /\ DOMAIN disk = Skill /\ \A n \in Skill : DOMAIN disk[n] = {"file", "by"}
      /\ DOMAIN work = {"step", "name", "tries", "ok", "report"}
      /\ DOMAIN spent = {"faults", "others", "theirs"}
  BY DEF FilesInv, FilesKnown
<1>2. ASSUME UNCHANGED <<disk, work, spent>>  PROVE FilesInv'
  BY <1>2, FilesLeft
<1>3. ASSUME NEW w, disk' = disk, spent' = spent, work' = w, DOMAIN w = DOMAIN work, work.step # "write"
      PROVE  FilesInv'
  BY <1>3, FilesLeft
<1>4. DOMAIN NoWork = DOMAIN work /\ DOMAIN NoFile = {"file", "by"} /\ NoFile.file = "none" /\ NoWork.step = "none"
  BY <1>1 DEF NoWork, NoFile
<1>5. CASE ListRead \/ ListAnswered \/ GrowsStale \/ OpenSkills \/ MoveSkill \/ SkillBack \/ SkillDetail
           \/ InvokeSkill \/ SearchSkills \/ \E force \in BOOLEAN : AskSkills(force)
  BY <1>2, <1>5 DEF ListRead, ListAnswered, GrowsStale, OpenSkills, MoveSkill, SkillBack, SkillDetail,
                    InvokeSkill, SearchSkills, AskSkills, Desk
<1>6. CASE ListFailed
  <2>1. disk' = disk /\ work' = work /\ spent' = [spent EXCEPT !.faults = @ + 1]
    BY <1>6 DEF ListFailed
  <2> PICK s : s = [spent EXCEPT !.faults = @ + 1]
    OBVIOUS
  <2>2. DOMAIN s = DOMAIN spent /\ s.theirs = spent.theirs
    BY <1>1
  <2> QED  BY <2>1, <2>2, FilesLeft
<1>7. CASE CreateDirectory
  <2>1. CASE disk[work.name].file = "none"
    <3> PICK w : w = [work EXCEPT !.step = "write"]
      OBVIOUS
    <3> PICK file : file = [file |-> "empty", by |-> "me"]
      OBVIOUS
    <3>1. disk' = [disk EXCEPT ![work.name] = file] /\ work' = w /\ spent' = spent
      BY <1>7, <2>1 DEF CreateDirectory
    <3>2. DOMAIN w = DOMAIN work /\ w.step = "write" /\ w.name = work.name /\ DOMAIN file = {"file", "by"}
      BY <1>1
    <3>3. work.name \in Skill => work.name \notin spent.theirs
      BY <2>1 DEF FilesInv, TheirsStay
    <3>4. work.step # "write"
      BY <1>7 DEF CreateDirectory
    <3> HIDE DEF FilesInv
    <3> QED  BY <3>1, <3>2, <3>3, <3>4, FileReplaced
  <2>2. CASE disk[work.name].file # "none"
    BY <1>3, <1>4, <1>7, <2>2 DEF CreateDirectory
  <2> QED  BY <2>1, <2>2
<1>8. CASE CreateFile
  <2>1. CASE MayWrite(work.name)
    <3> PICK w : w = [work EXCEPT !.step = "edit"]
      OBVIOUS
    <3> PICK file : file = [file |-> "valid", by |-> "me"]
      OBVIOUS
    <3>1. disk' = [disk EXCEPT ![work.name] = file] /\ work' = w /\ spent' = spent
      BY <1>8, <2>1 DEF CreateFile
    <3>2. DOMAIN w = DOMAIN work /\ DOMAIN file = {"file", "by"} /\ file.file = "valid"
      BY <1>1
    <3>3. work.name \in Skill => work.name \notin spent.theirs
      BY <2>1 DEF FilesInv, TheirsStay, MayWrite
    <3> QED  BY <3>1, <3>2, <3>3, FileReplaced
  <2>2. CASE ~MayWrite(work.name)
    <3>1. disk' = disk /\ spent' = spent /\ work' = NoWork
      BY <1>8, <2>2 DEF CreateFile
    <3>2. \A n \in Skill : disk[n].file # "empty"
      BY <2>2 DEF FilesInv, EmptyIsOurs, MayWrite
    <3> QED  BY <1>4, <3>1, <3>2 DEF FilesInv, FilesKnown, TheirsStay, EmptyIsOurs
  <2> QED  BY <2>1, <2>2
<1>9. CASE CreateFails
  <2> PICK s : s = [spent EXCEPT !.faults = @ + 1]
    OBVIOUS
  <2>1. spent' = s /\ DOMAIN s = DOMAIN spent /\ s.theirs = spent.theirs /\ work' = NoWork
    BY <1>1, <1>9 DEF CreateFails
  <2>2. CASE disk[work.name].file # "empty"
    <3>1. disk' = disk
      BY <1>9, <2>2 DEF CreateFails
    <3>2. \A n \in Skill : disk[n].file # "empty"
      BY <2>2 DEF FilesInv, EmptyIsOurs
    <3> QED  BY <1>4, <2>1, <3>1, <3>2 DEF FilesInv, FilesKnown, TheirsStay, EmptyIsOurs
  <2>3. CASE disk[work.name].file = "empty"
    <3>1. PICK file : /\ disk' = [disk EXCEPT ![work.name] = file]
                      /\ file = [file |-> "invalid", by |-> "me"] \/ file = NoFile
      BY <1>9, <2>3 DEF CreateFails
    <3>2. DOMAIN file = {"file", "by"} /\ file.file # "empty"
      BY <1>4, <3>1
    <3>3. work.name \in Skill => work.name \notin spent.theirs
      BY <2>3 DEF FilesInv, TheirsStay
    <3> QED  BY <1>4, <2>1, <3>1, <3>2, <3>3, FileReplaced
  <2> QED  BY <2>2, <2>3
<1>10. CASE Edited
  <2> PICK w : w = [work EXCEPT !.step = "validate"]
    OBVIOUS
  <2>1. work' = w /\ DOMAIN w = DOMAIN work /\ spent' = spent /\ work.step = "edit"
    BY <1>1, <1>10 DEF Edited
  <2>2. CASE disk[work.name].file \in {"valid", "invalid"}
    <3>1. PICK shape \in {"valid", "invalid"} : disk' = [disk EXCEPT ![work.name].file = shape]
      BY <1>10, <2>2 DEF Edited
    <3> PICK file : file = [disk[work.name] EXCEPT !.file = shape]
      OBVIOUS
    <3>2. disk' = [disk EXCEPT ![work.name] = file]
      BY <3>1
    <3>3. work.name \in Skill => DOMAIN file = {"file", "by"} /\ file.file = shape /\ file.by = disk[work.name].by
      BY <1>1
    <3>4. CASE work.name \in Skill
      <4>1. work.name \in spent.theirs => file.by = "other"
        BY <3>3, <3>4 DEF FilesInv, TheirsStay
      <4> QED  BY <2>1, <3>2, <3>3, <3>4, <4>1, FileReplaced
    <3>5. CASE work.name \notin Skill
      <4>1. DOMAIN disk' = Skill /\ \A n \in Skill : disk'[n] = disk[n]
        BY <1>1, <3>2, <3>5
      <4> QED  BY <1>1, <2>1, <4>1 DEF FilesInv, FilesKnown, TheirsStay, EmptyIsOurs
    <3> QED  BY <3>4, <3>5
  <2>3. CASE disk[work.name].file \notin {"valid", "invalid"}
    BY <1>3, <1>10, <2>1, <2>3 DEF Edited
  <2> QED  BY <2>2, <2>3
<1>11. CASE Validated \/ Ask_ \/ Look \/ Forgotten \/ EditSkill \/ Wizard
  <2>1. PICK w : work' = w /\ disk' = disk /\ spent' = spent /\ (w # work => DOMAIN w = DOMAIN work /\ work.step # "write")
    <3>1. CASE Validated
      <4>1. disk' = disk /\ spent' = spent /\ work.step # "write" /\ DOMAIN work' = DOMAIN work
        BY <1>1, <1>4, <3>1 DEF Validated
      <4> QED  BY <4>1
    <3>2. CASE Ask_
      <4>1. disk' = disk /\ spent' = spent /\ work.step # "write" /\ DOMAIN work' = DOMAIN work
        BY <1>1, <1>4, <3>2 DEF Ask_
      <4> QED  BY <4>1
    <3>3. CASE Look
      <4>1. disk' = disk /\ spent' = spent /\ work.step # "write" /\ DOMAIN work' = DOMAIN work
        BY <1>1, <1>4, <3>3 DEF Look
      <4> QED  BY <4>1
    <3>4. CASE Forgotten
      <4>1. disk' = disk /\ spent' = spent /\ work.step # "write" /\ DOMAIN work' = DOMAIN work
        BY <1>1, <1>4, <3>4 DEF Forgotten
      <4> QED  BY <4>1
    <3>5. CASE EditSkill
      <4>1. disk' = disk /\ spent' = spent /\ work.step # "write" /\ DOMAIN work' = DOMAIN work
        BY <1>1, <1>4, <3>5 DEF EditSkill, Reads, AtRest, NoWork
      <4> QED  BY <4>1
    <3>6. CASE Wizard
      <4>1. CASE work' = work
        BY <3>6, <4>1 DEF Wizard, Desk
      <4>2. CASE work' # work
        <5>1. /\ desk.over = "invocation" /\ disk' = disk /\ spent' = spent
              /\ work' = [NoWork EXCEPT !.step = "directory", !.name = desk.name]
          BY <3>6, <4>2 DEF Wizard, Desk
        <5>2. work.step = "none"
          BY <5>1 DEF NothingBeside, AtRest
        <5> PICK w : w = [NoWork EXCEPT !.step = "directory", !.name = desk.name]
          OBVIOUS
        <5>3. DOMAIN w = DOMAIN work
          BY <1>4
        <5>4. work' = w
          BY <5>1
        <5> HIDE DEF FilesInv
        <5> QED  BY <5>1, <5>2, <5>3, <5>4
      <4> QED  BY <4>1, <4>2
    <3> QED  BY <1>11, <3>1, <3>2, <3>3, <3>4, <3>5, <3>6
  <2>2. CASE w = work
    BY <2>1, <2>2, <1>1, FilesLeft
  <2>3. CASE w # work
    BY <1>3, <2>1, <2>3
  <2> QED  BY <2>2, <2>3
<1>12. CASE WrittenElsewhere
  <2>1. work' = work
    BY <1>12 DEF WrittenElsewhere
  <2>2. PICK n \in Skill :
          IF disk[n].file \in {"none", "empty"}
          THEN /\ disk' = [disk EXCEPT ![n] = [file |-> "valid", by |-> "other"]]
               /\ spent' = [spent EXCEPT !.others = @ + 1, !.theirs = @ \cup {n}]
          ELSE /\ disk' = [disk EXCEPT ![n] = NoFile]
               /\ spent' = [spent EXCEPT !.others = @ + 1, !.theirs = @ \ {n}]
    BY <1>12 DEF WrittenElsewhere
  <2>3. PICK file : /\ disk' = [disk EXCEPT ![n] = file]
                    /\ \/ /\ file = [file |-> "valid", by |-> "other"]
                          /\ spent'.theirs = spent.theirs \cup {n}
                       \/ file = NoFile /\ spent'.theirs = spent.theirs \ {n}
    BY <1>1, <2>2
  <2>4. DOMAIN spent' = DOMAIN spent
    BY <2>2
  <2>5. DOMAIN file = {"file", "by"} /\ file.file # "empty"
        /\ (n \in spent'.theirs => file.by = "other" /\ file.file \notin {"none", "empty"})
    BY <1>4, <2>3
  <2>6. \A m \in Skill : m # n => (m \in spent'.theirs => m \in spent.theirs)
    BY <2>3
  <2> QED  BY <2>1, <2>3, <2>4, <2>5, <2>6, FileReplaced
<1>13. CASE UNCHANGED skillVars
  BY <1>2, <1>13 DEF skillVars
<1> QED
  BY <1>5, <1>6, <1>7, <1>8, <1>9, <1>10, <1>11, <1>12, <1>13 DEF SkillsNext

\* Theorem: a file that somebody else wrote is never replaced by one of ours,
\* whenever in the course of a creation it appeared, and an empty directory is
\* never left behind.
THEOREM TheirsAreKept == SkillsInit /\ [][SkillsNext]_skillVars => []NothingOverwritten
<1>1. FilesInv => NothingOverwritten
  BY DEF FilesInv, TheirsStay, EmptyIsOurs, NothingOverwritten
<1>2. SkillsInit => NothingBeside
  BY DEF SkillsInit, NothingBeside, NoList
<1> QED  BY <1>1, <1>2, DeskStep, FilesInitial, FilesStep, PTL

-----------------------------------------------------------------------------
(***************************************************************************)
(* Configuration.  Surfaces are opened, and their rows chosen, while       *)
(* answers of the Host are on their way; for each of those the invariant   *)
(* says what it carries, and of each menu that it shows the confirmation   *)
(* exactly while a preset is pending.                                      *)
(***************************************************************************)

AskFields == {"op", "value", "asked", "sent", "by"}

\* A command or a question about neither page.
Plain(w) ==
  /\ DOMAIN w = AskFields /\ w.op \notin {"status", "store"}
  /\ w.op = "permission" /\ w.value = Danger => w.by = "permission-confirm"

\* A question about a page, or a choice for it.
OfPage(w, stored) ==
  /\ DOMAIN w \in {AskFields \cup {"about"}, AskFields \cup {"about", "last"}} /\ w.about \in ValuePages
  /\ w.op \in {"status", "store"}
  /\ w.op = "status" => "last" \in DOMAIN w /\ (w.last => w.value = stored[w.about])

WaitsKnown(ws, stored) == \A w \in ws : Plain(w) \/ OfPage(w, stored)

SettingsKnown(s) ==
  /\ DOMAIN s = {"area", "epoch", "cataloged", "chosen", "offered", "plan", "details", "stored", "held", "changes"}
  /\ DOMAIN s.stored = ValuePages /\ DOMAIN s.held = ValuePages
  /\ \A k \in ValuePages : DOMAIN s.held[k] = {"value", "last"} /\ (s.held[k].last => s.held[k].value = s.stored[k])

\* A surface; the menu shows the confirmation while its preset is pending.
Surface_(v) ==
  /\ "kind" \in DOMAIN v
  /\ v.kind = "config" =>
       /\ DOMAIN v = {"kind", "stage", "entry", "index", "pending"}
       /\ v.entry # "permission-confirm"
       /\ v.stage = "permission-confirm" <=> v.pending = Danger

StackKnown(s) == (\E S : s \in Seq(S)) /\ \A i \in 1 .. Len(s) : Surface_(s[i])

ConfigInv == SettingsKnown(settings) /\ WaitsKnown(waiting, settings.stored) /\ StackKnown(stack)

\* Lemma: a surface closes, opens, or is replaced.
LEMMA StackShape ==
  ASSUME NEW S, NEW s \in Seq(S), NEW v
  PROVE  /\ Len(s) \in Nat /\ (s # <<>> => Len(s) \in 1 .. Len(s) /\ 1 \in 1 .. Len(s))
         /\ s # <<>> => /\ Front(s) \in Seq(S) /\ Len(Front(s)) = Len(s) - 1
                        /\ \A i \in 1 .. Len(s) - 1 : Front(s)[i] = s[i]
         /\ Append(s, v) \in Seq(S \cup {v}) /\ Len(Append(s, v)) = Len(s) + 1
         /\ \A i \in 1 .. Len(s) + 1 : Append(s, v)[i] = IF i = Len(s) + 1 THEN v ELSE s[i]
         /\ <<v>> \in Seq({v}) /\ Len(<<v>>) = 1 /\ <<v>>[1] = v
         /\ \A i \in 1 .. Len(s) :
              /\ [s EXCEPT ![i] = v] \in Seq(S \cup {v}) /\ Len([s EXCEPT ![i] = v]) = Len(s)
              /\ \A j \in 1 .. Len(s) : [s EXCEPT ![i] = v][j] = IF j = i THEN v ELSE s[j]
<1>1. Len(s) \in Nat /\ (s # <<>> => Len(s) \in 1 .. Len(s) /\ 1 \in 1 .. Len(s))
  OBVIOUS
<1>2. s \in Seq(S \cup {v}) /\ v \in S \cup {v}
  OBVIOUS
<1>3. /\ Append(s, v) \in Seq(S \cup {v}) /\ Len(Append(s, v)) = Len(s) + 1
      /\ \A i \in 1 .. Len(s) + 1 : Append(s, v)[i] = IF i = Len(s) + 1 THEN v ELSE s[i]
  BY <1>2
<1>4. <<v>> \in Seq({v}) /\ Len(<<v>>) = 1 /\ <<v>>[1] = v
  OBVIOUS
<1>5. ASSUME NEW i \in 1 .. Len(s)
      PROVE  /\ [s EXCEPT ![i] = v] \in Seq(S \cup {v}) /\ Len([s EXCEPT ![i] = v]) = Len(s)
             /\ \A j \in 1 .. Len(s) : [s EXCEPT ![i] = v][j] = IF j = i THEN v ELSE s[j]
  BY <1>2
<1>6. ASSUME s # <<>>
      PROVE  /\ Front(s) \in Seq(S) /\ Len(Front(s)) = Len(s) - 1
             /\ \A i \in 1 .. Len(s) - 1 : Front(s)[i] = s[i]
  <2>1. PICK n : n = Len(s) - 1
    OBVIOUS
  <2>2. n \in Nat /\ \A i \in 1 .. n : s[i] \in S /\ i \in 1 .. Len(s)
    BY <1>1, <1>6, <2>1
  <2>3. /\ SubSeq(s, 1, n) \in Seq(S)
        /\ Len(SubSeq(s, 1, n)) = IF 1 <= n THEN n - 1 + 1 ELSE 0
        /\ \A i \in 1 .. n - 1 + 1 : SubSeq(s, 1, n)[i] = s[1 + i - 1]
    BY <2>2, 1 \in Int, n \in Int, SubSeqProperties
  <2>4. Front(s) = SubSeq(s, 1, n)
    BY <2>1 DEF Front
  <2>5. Len(SubSeq(s, 1, n)) = n /\ \A i \in 1 .. n : SubSeq(s, 1, n)[i] = s[i]
    BY <2>2, <2>3
  <2> QED  BY <2>1, <2>3, <2>4, <2>5
<1> QED  BY <1>1, <1>3, <1>4, <1>5, <1>6

\* Lemma: what the stack becomes.
LEMMA StackMoves ==
  ASSUME NEW s, StackKnown(s)
  PROVE  /\ s # <<>> => /\ Len(s) \in 1 .. Len(s) /\ Surface_(Last(s)) /\ StackKnown(Front(s))
                        /\ \A v : Surface_(v) => StackKnown([s EXCEPT ![Len(s)] = v])
         /\ \A v : Surface_(v) => StackKnown(Append(s, v)) /\ StackKnown(<<v>>)
         /\ s # <<>> => \A v : Surface_(v) => StackKnown([s EXCEPT ![1] = v])
<1>1. PICK S : s \in Seq(S)
  BY DEF StackKnown
<1>2. Len(s) \in Nat /\ (s # <<>> => Len(s) \in 1 .. Len(s) /\ 1 \in 1 .. Len(s))
  BY <1>1, StackShape
<1>3. ASSUME NEW v, Surface_(v), NEW i \in 1 .. Len(s)  PROVE StackKnown([s EXCEPT ![i] = v])
  <2>1. PICK r : r = [s EXCEPT ![i] = v]
    OBVIOUS
  <2>2. r \in Seq(S \cup {v}) /\ Len(r) = Len(s) /\ \A j \in 1 .. Len(s) : r[j] = IF j = i THEN v ELSE s[j]
    BY <1>1, <2>1, StackShape
  <2>3. StackKnown(r)
    BY <1>3, <2>2 DEF StackKnown
  <2> QED  BY <2>1, <2>3
<1>4. ASSUME NEW v, Surface_(v)  PROVE StackKnown(Append(s, v)) /\ StackKnown(<<v>>)
  <2>1. PICK r : r = <<v>>
    OBVIOUS
  <2>2. r \in Seq({v}) /\ Len(r) = 1 /\ r[1] = v
    BY <1>1, <2>1, StackShape
  <2>3. StackKnown(r)
    BY <1>4, <2>2 DEF StackKnown
  <2>4. /\ Append(s, v) \in Seq(S \cup {v}) /\ Len(Append(s, v)) = Len(s) + 1
        /\ \A i \in 1 .. Len(s) + 1 : Append(s, v)[i] = IF i = Len(s) + 1 THEN v ELSE s[i]
    BY <1>1, StackShape
  <2>5. StackKnown(Append(s, v))
    BY <1>2, <1>4, <2>4 DEF StackKnown
  <2> QED  BY <2>1, <2>3, <2>5
<1>5. ASSUME s # <<>>  PROVE StackKnown(Front(s)) /\ Surface_(Last(s))
  <2>1. Front(s) \in Seq(S) /\ Len(Front(s)) = Len(s) - 1 /\ \A i \in 1 .. Len(s) - 1 : Front(s)[i] = s[i]
    BY <1>1, <1>5, StackShape
  <2>2. StackKnown(Front(s))
    BY <1>2, <2>1 DEF StackKnown
  <2> QED  BY <1>2, <1>5, <2>2 DEF StackKnown, Last
<1> QED  BY <1>2, <1>3, <1>4, <1>5

\* Lemma: a publication only moves the cursor of the menu.
LEMMA MenuRepublished ==
  ASSUME NEW s, StackKnown(s), Republished(s)
  PROVE  StackKnown(stack')
<1>1. CASE s # <<>> /\ s[1].kind = "config"
  <2>1. PICK index : stack' = [s EXCEPT ![1].index = index]
    BY <1>1 DEF Republished
  <2>2. PICK v : v = [s[1] EXCEPT !.index = index]
    OBVIOUS
  <2>3. stack' = [s EXCEPT ![1] = v]
    BY <2>1, <2>2
  <2>4. Surface_(s[1])
    BY <1>1 DEF StackKnown
  <2>5. Surface_(v)
    BY <1>1, <2>2, <2>4 DEF Surface_
  <2> QED  BY <1>1, <2>3, <2>5, StackMoves
<1>2. CASE ~(s # <<>> /\ s[1].kind = "config")
  BY <1>2 DEF Republished
<1> QED  BY <1>1, <1>2

\* Lemma: what is asked beside the pages.
LEMMA Asked ==
  ASSUME NEW op, NEW value, op \notin {"status", "store"}
  PROVE  LET w == Ask(op, value) IN
         /\ DOMAIN w = AskFields /\ w.op = op /\ w.value = value
         /\ op # "permission" => Plain(w)
BY DEF Ask, AskFields, Plain

\* Lemma: a step that leaves the pages alone.
LEMMA PagesLeft ==
  ASSUME ConfigInv, DOMAIN settings' = DOMAIN settings, settings'.stored = settings.stored, settings'.held = settings.held,
         \A w \in waiting' : w \in waiting \/ Plain(w), StackKnown(stack')
  PROVE  ConfigInv'
BY DEF ConfigInv, SettingsKnown, WaitsKnown

\* Lemma: a page is asked about, and older answers count no more.
LEMMA PageAsked ==
  ASSUME ConfigInv, NEW kind \in ValuePages, settings' = Awaiting(kind), NEW by, NEW plain, \A w \in plain : Plain(w),
         waiting' = Withdrawn(kind) \cup plain \cup {Status(kind, by)}, StackKnown(stack')
  PROVE  ConfigInv'
<1>1. ASSUME NEW w \in Withdrawn(kind)  PROVE Plain(w) \/ OfPage(w, settings.stored)
  <2>1. PICK u \in waiting : w = IF u.op = "status" /\ u.about = kind THEN [u EXCEPT !.last = FALSE] ELSE u
    BY <1>1 DEF Withdrawn
  <2>2. Plain(u) \/ OfPage(u, settings.stored)
    BY DEF ConfigInv, WaitsKnown
  <2>3. CASE u.op = "status" /\ u.about = kind
    <3>1. w = [u EXCEPT !.last = FALSE] /\ OfPage(u, settings.stored)
      BY <2>1, <2>2, <2>3 DEF Plain
    <3>2. DOMAIN w = DOMAIN u /\ "last" \in DOMAIN u /\ "op" \in DOMAIN u /\ "about" \in DOMAIN u
      BY <2>3, <3>1 DEF OfPage, AskFields
    <3>3. w.last = FALSE /\ w.op = u.op /\ w.about = u.about
      BY <3>1, <3>2
    <3> QED  BY <3>1, <3>2, <3>3 DEF OfPage
  <2>4. CASE ~(u.op = "status" /\ u.about = kind)
    BY <2>1, <2>2, <2>4
  <2> QED  BY <2>3, <2>4
<1>2. OfPage(Status(kind, by), settings.stored)
  BY DEF OfPage, Status, AskFields
<1>3. PICK h : h = [settings.held[kind] EXCEPT !.last = FALSE]
  OBVIOUS
<1>4. PICK held : held = [settings.held EXCEPT ![kind] = h]
  OBVIOUS
<1>5. settings' = [settings EXCEPT !.held = held]
  BY <1>3, <1>4 DEF Awaiting
<1>6. DOMAIN settings' = DOMAIN settings /\ settings'.stored = settings.stored /\ settings'.held = held
  BY <1>5 DEF ConfigInv, SettingsKnown
<1>7. DOMAIN held = ValuePages /\ DOMAIN h = {"value", "last"} /\ h.last = FALSE
      /\ \A k \in ValuePages : held[k] = IF k = kind THEN h ELSE settings.held[k]
  BY <1>3, <1>4 DEF ConfigInv, SettingsKnown
<1>8. SettingsKnown(settings')
  BY <1>6, <1>7 DEF ConfigInv, SettingsKnown
<1>9. WaitsKnown(waiting', settings'.stored)
  BY <1>1, <1>2, <1>6 DEF WaitsKnown
<1> QED  BY <1>8, <1>9 DEF ConfigInv

\* Lemma: a surface changes without leaving its stage, or for another one.
LEMMA MenuGoes ==
  ASSUME NEW v, Surface_(v)
  PROVE  /\ \A index : Surface_([v EXCEPT !.index = index])
         /\ v.kind = "config" /\ v.stage # "permission-confirm" =>
              \A stage : stage # "permission-confirm" =>
                 Surface_([v EXCEPT !.stage = stage, !.index = 1])
<1>1. ASSUME NEW index  PROVE Surface_([v EXCEPT !.index = index])
  <2>1. PICK w : w = [v EXCEPT !.index = index]
    OBVIOUS
  <2>2. DOMAIN w = DOMAIN v /\ \A f \in DOMAIN v : f # "index" => w[f] = v[f]
    BY <2>1
  <2>3. w.kind = v.kind
    BY <2>2 DEF Surface_
  <2>4. v.kind = "config" => w.entry = v.entry /\ w.stage = v.stage /\ w.pending = v.pending
    BY <2>2 DEF Surface_
  <2> QED  BY <2>1, <2>2, <2>3, <2>4 DEF Surface_
<1>2. ASSUME v.kind = "config", v.stage # "permission-confirm", NEW stage, stage # "permission-confirm"
      PROVE  Surface_([v EXCEPT !.stage = stage, !.index = 1])
  <2>1. PICK w : w = [v EXCEPT !.stage = stage, !.index = 1]
    OBVIOUS
  <2>2. DOMAIN w = DOMAIN v /\ w.kind = v.kind /\ w.entry = v.entry /\ w.stage = stage /\ w.pending = v.pending
    BY <1>2, <2>1 DEF Surface_
  <2> QED  BY <1>2, <2>1, <2>2 DEF Surface_
<1> QED  BY <1>1, <1>2

\* Lemma: a selection is sent for, or held by the draft; no preset is.
LEMMA SelectionSent ==
  ASSUME SettingsKnown(settings), NEW selection, NEW ask, DOMAIN ask = AskFields, ask.op \notin {"status", "store"},
         SelectModel(selection, ask)
  PROVE  /\ DOMAIN settings' = DOMAIN settings /\ settings'.stored = settings.stored /\ settings'.held = settings.held
         /\ \A w \in waiting' : w \in waiting \/ Plain(w)
<1>1. PICK new : new = [ask EXCEPT !.op = "select", !.value = selection, !.sent = settings.epoch]
  OBVIOUS
<1>2. Plain(new)
  BY <1>1 DEF Plain, AskFields
<1>3. PICK s : s = [settings EXCEPT !.chosen = selection]
  OBVIOUS
<1>4. DOMAIN s = DOMAIN settings /\ s.stored = settings.stored /\ s.held = settings.held
  BY <1>3 DEF SettingsKnown
<1>5. /\ settings' \in {settings, s}
      /\ waiting' \in {waiting \ {ask}, (waiting \ {ask}) \cup {new}}
  BY <1>1, <1>3 DEF SelectModel
<1> QED  BY <1>2, <1>4, <1>5

\* Lemma: a surface is asked for.
LEMMA OpeningAsked ==
  ASSUME ConfigInv, NEW kind \in {"models"} \cup ValuePages, NEW rest, StackKnown(rest), AskToOpen(kind, rest)
  PROVE  ConfigInv'
<1>1. CASE kind = "models"
  <2>1. Plain(Ask("models", Default))
    BY Asked
  <2>2. waiting' = waiting \cup {Ask("models", Default)} /\ settings' = settings /\ stack' = rest
    BY <1>1 DEF AskToOpen
  <2> QED  BY <2>1, <2>2, PagesLeft
<1>2. CASE kind # "models"
  <2>1. waiting' = Withdrawn(kind) \cup {Status(kind, "open")} /\ settings' = Awaiting(kind) /\ stack' = rest
    BY <1>2 DEF AskToOpen
  <2>2. PICK plain : plain = {}
    OBVIOUS
  <2>3. waiting' = Withdrawn(kind) \cup plain \cup {Status(kind, "open")} /\ \A w \in plain : Plain(w)
    BY <2>1, <2>2
  <2>4. kind \in ValuePages
    BY <1>2
  <2> QED  BY <2>1, <2>3, <2>4, PageAsked
<1> QED  BY <1>1, <1>2

\* Lemma: a preset is asked for where the menu lets it.
LEMMA PresetAsked ==
  ASSUME ConfigInv, Showing("config"), NEW preset, AskPermission(preset), preset = Danger => OnTop.stage = "permission-confirm"
  PROVE  ConfigInv'
<1>1. PICK w : w = [Ask("permission", preset) EXCEPT !.by = OnTop.stage]
  OBVIOUS
<1>2. Plain(w)
  BY <1>1 DEF Ask, Plain, AskFields
<1>3. waiting' = waiting \cup {w} /\ settings' = settings
  BY <1>1 DEF AskPermission
<1>4. PICK kept : kept = IF OnTop.stage = "permission-confirm"
                  THEN [OnTop EXCEPT !.pending = NoPreset, !.stage = OnTop.entry, !.index = 1] ELSE OnTop
  OBVIOUS
<1>5. stack' = Front(stack) \/ Put(kept)
  BY <1>4 DEF AskPermission
<1>6. stack # <<>> /\ OnTop.kind = "config" /\ Surface_(OnTop)
  BY StackMoves DEF Showing, ConfigInv, OnTop
<1>7. Surface_(kept)
  BY <1>4, <1>6, ConfigurationAssumption DEF Surface_, NoPreset
<1>8. StackKnown(stack')
  BY <1>5, <1>6, <1>7, StackMoves DEF Put, ConfigInv
<1> QED  BY <1>2, <1>3, <1>8, PagesLeft

\* Lemma: a page that is opened alone, or on top, is a surface.
LEMMA PageOpens == \A kind \in ValuePages : \A index : Surface_([kind |-> kind, index |-> index])
  BY DEF Surface_, ValuePages

\* Lemma: keys in the menu.
LEMMA MenuStep ==
  ASSUME ConfigInv,
         \/ \E stage \in {"root", "reasoning", "permissions", "plan"} : OpenMenu(stage)
         \/ \E key \in {"previous", "next", "first", "last"} : MenuMoves(key)
         \/ MenuBack \/ MenuConfirms
  PROVE  ConfigInv'
<1>1. ASSUME NEW v, Surface_(v), Put(v), stack # <<>>, settings' = settings, waiting' = waiting  PROVE ConfigInv'
  <2>1. StackKnown(stack')
    BY <1>1, StackMoves DEF ConfigInv, Put
  <2> QED  BY <1>1, <2>1, PagesLeft
<1>2. ASSUME stack # <<>>, OnTop.kind = "config"
      PROVE  /\ Surface_(OnTop) /\ StackKnown(Front(stack)) /\ DOMAIN OnTop = {"kind", "stage", "entry", "index", "pending"}
             /\ OnTop.entry # "permission-confirm" /\ (OnTop.stage = "permission-confirm" <=> OnTop.pending = Danger)
  <2>1. Surface_(OnTop) /\ StackKnown(Front(stack))
    BY <1>2, StackMoves DEF ConfigInv, OnTop
  <2> QED  BY <1>2, <2>1 DEF Surface_
<1>3. ASSUME NEW stage \in {"root", "reasoning", "permissions", "plan"}, OpenMenu(stage)  PROVE ConfigInv'
  <2>1. Surface_(ConfigMenu(stage))
    BY ConfigurationAssumption DEF ConfigMenu, Surface_, NoPreset
  <2>2. StackKnown(stack')
    BY <1>3, <2>1, StackMoves DEF OpenMenu, ConfigInv
  <2>3. \A w \in CatalogWanted(stage) : Plain(w)
    BY Asked DEF CatalogWanted
  <2>4. CASE stage = "root" /\ "web" \in settings.area /\ settings.held["web"].value = "none"
    <3>1. PICK plain : plain = CatalogWanted(stage)
      OBVIOUS
    <3>2. waiting' = Withdrawn("web") \cup plain \cup {Status("web", "refresh")} /\ settings' = Awaiting("web")
      BY <1>3, <2>4, <3>1 DEF OpenMenu
    <3>3. "web" \in ValuePages /\ \A w \in plain : Plain(w)
      BY <2>3, <3>1 DEF ValuePages
    <3> QED  BY <2>2, <3>2, <3>3, PageAsked
  <2>5. CASE ~(stage = "root" /\ "web" \in settings.area /\ settings.held["web"].value = "none")
    <3>1. waiting' = waiting \cup CatalogWanted(stage) /\ settings' = settings
      BY <1>3, <2>5 DEF OpenMenu
    <3> QED  BY <2>2, <2>3, <3>1, PagesLeft
  <2> QED  BY <2>4, <2>5
<1>4. ASSUME NEW key, MenuMoves(key)  PROVE ConfigInv'
  <2>1. PICK index : Put([OnTop EXCEPT !.index = index]) /\ settings' = settings /\ waiting' = waiting
    BY <1>4 DEF MenuMoves
  <2>2. stack # <<>> /\ OnTop.kind = "config"
    BY <1>4 DEF MenuMoves, Showing
  <2>3. Surface_([OnTop EXCEPT !.index = index])
    BY <1>2, <2>2, MenuGoes
  <2> QED  BY <1>1, <2>1, <2>2, <2>3
<1>5. CASE MenuBack
  <2>1. stack # <<>> /\ OnTop.kind = "config" /\ settings' = settings /\ waiting' = waiting
    BY <1>5 DEF MenuBack, Showing
  <2>2. CASE OnTop.stage = OnTop.entry
    BY <1>2, <1>5, <2>1, <2>2, PagesLeft DEF MenuBack
  <2>3. CASE OnTop.stage = "permission-confirm"
    <3>1. PICK v : v = [OnTop EXCEPT !.stage = "permissions", !.pending = NoPreset]
      OBVIOUS
    <3>2. Surface_(v)
      BY <1>2, <2>1, <3>1, ConfigurationAssumption DEF Surface_, NoPreset
    <3>3. Put(v)
      BY <1>2, <1>5, <2>1, <2>3, <3>1 DEF MenuBack
    <3> QED  BY <1>1, <2>1, <3>2, <3>3
  <2>4. CASE OnTop.stage # OnTop.entry /\ OnTop.stage # "permission-confirm"
    <3>1. Put([OnTop EXCEPT !.stage = "root", !.index = 1])
      BY <1>5, <2>4 DEF MenuBack
    <3>2. Surface_([OnTop EXCEPT !.stage = "root", !.index = 1])
      BY <1>2, <2>1, <2>4, MenuGoes
    <3> QED  BY <1>1, <2>1, <3>1, <3>2
  <2> QED  BY <2>2, <2>3, <2>4
<1>6. CASE MenuConfirms
  <2>1. stack # <<>> /\ OnTop.kind = "config" /\ Showing("config")
    BY <1>6 DEF MenuConfirms, Showing
  <2>2. CASE OnTop.stage = "permission-confirm"
    BY <1>6, <2>1, <2>2, PresetAsked DEF MenuConfirms
  <2>3. CASE OnTop.stage # "permission-confirm"
    <3>1. PICK value : /\ EnterRow(value) \/ EnterEffort(value) \/ EnterPreset(value) \/ EnterPlan(value)
                       /\ OnTop.index \in DOMAIN RowsOffered(OnTop.stage, settings)
                       /\ value = RowsOffered(OnTop.stage, settings)[OnTop.index]
      BY <1>6, <2>3 DEF MenuConfirms
    <3>2. OnTop.stage = "root" => value # "permission-confirm"
      BY <3>1 DEF RowsOffered, Rows_
    <3>3. CASE EnterRow(value)
      <4>1. CASE value \in {"model"} \cup ValuePages
        <5>1. \E kind \in {"models"} \cup ValuePages : AskToOpen(kind, Front(stack))
          BY <3>3, <4>1 DEF EnterRow, ValuePages
        <5> QED  BY <1>2, <2>1, <5>1, OpeningAsked
      <4>2. CASE value = "details"
        <5>1. PICK s : s = [settings EXCEPT !.details = ~@]
          OBVIOUS
        <5>2. DOMAIN s = DOMAIN settings /\ s.stored = settings.stored /\ s.held = settings.held
          BY <5>1 DEF ConfigInv, SettingsKnown
        <5>3. settings' = s /\ stack' = stack /\ waiting' = waiting
          BY <3>3, <4>2, <5>1 DEF EnterRow, ValuePages
        <5> QED  BY <5>2, <5>3, PagesLeft DEF ConfigInv
      <4>3. CASE value \notin {"model", "details"} \cup ValuePages
        <5>1. Put([OnTop EXCEPT !.stage = value, !.index = 1]) /\ settings' = settings /\ waiting' = waiting
          BY <3>3, <4>3 DEF EnterRow
        <5>2. Surface_([OnTop EXCEPT !.stage = value, !.index = 1])
          <6>1. value # "permission-confirm"
            BY <3>2, <3>3 DEF EnterRow
          <6> QED  BY <1>2, <2>1, <2>3, <6>1, MenuGoes
        <5> QED  BY <1>1, <2>1, <5>1, <5>2
      <4> QED  BY <4>1, <4>2, <4>3
    <3>4. CASE EnterEffort(value)
      <4>1. /\ SelectModel(Selected_(Current.model, value), Ask("effort", value))
            /\ Republished(stack)
        BY <3>4 DEF EnterEffort
      <4>2. DOMAIN Ask("effort", value) = AskFields /\ Ask("effort", value).op = "effort"
        BY Asked
      <4>3. StackKnown(stack')
        BY <4>1, MenuRepublished DEF ConfigInv
      <4>4. /\ DOMAIN settings' = DOMAIN settings /\ settings'.stored = settings.stored /\ settings'.held = settings.held
            /\ \A w \in waiting' : w \in waiting \/ Plain(w)
        BY <4>1, <4>2, SelectionSent DEF ConfigInv
      <4> QED  BY <4>3, <4>4, PagesLeft
    <3>5. CASE EnterPreset(value)
      <4>1. CASE Dangerous(value)
        <5>1. PICK v : v = [OnTop EXCEPT !.pending = value, !.stage = "permission-confirm"]
          OBVIOUS
        <5>2. Surface_(v)
          BY <1>2, <2>1, <4>1, <5>1 DEF Surface_, Dangerous
        <5>3. Put(v) /\ settings' = settings /\ waiting' = waiting
          BY <3>5, <4>1, <5>1 DEF EnterPreset
        <5> QED  BY <1>1, <2>1, <5>2, <5>3
      <4>2. CASE ~Dangerous(value)
        BY <2>1, <3>5, <4>2, PresetAsked DEF EnterPreset, Dangerous
      <4> QED  BY <4>1, <4>2
    <3>6. CASE EnterPlan(value)
      <4>1. Plain(Ask("plan", value))
        BY Asked
      <4>2. waiting' = waiting \cup {Ask("plan", value)} /\ settings' = settings /\ stack' = stack
        BY <3>6 DEF EnterPlan
      <4> QED  BY <4>1, <4>2, PagesLeft DEF ConfigInv
    <3> QED  BY <3>1, <3>3, <3>4, <3>5, <3>6
  <2> QED  BY <2>2, <2>3
<1> QED  BY <1>3, <1>4, <1>5, <1>6

\* Lemma: keys in the selector of models, and the commands for it.
LEMMA SelectorStep ==
  ASSUME ConfigInv,
         \/ \E key \in {"previous", "next", "first", "last"} : SelectorMoves(key)
         \/ SelectorBack \/ SelectorConfirms \/ Named \/ Cycle
  PROVE  ConfigInv'
<1>1. ASSUME stack # <<>>, OnTop.kind = "models"
      PROVE  Surface_(OnTop) /\ StackKnown(Front(stack)) /\ StackKnown(stack)
  BY <1>1, StackMoves DEF ConfigInv, OnTop
<1>2. ASSUME NEW v, DOMAIN v = DOMAIN OnTop, v.kind = "models", Put(v), Showing("models"),
             settings' = settings, waiting' = waiting
      PROVE  ConfigInv'
  <2>1. Surface_(v)
    BY <1>1, <1>2 DEF Surface_, Showing
  <2>2. StackKnown(stack')
    BY <1>2, <2>1, StackMoves DEF ConfigInv, Put, Showing
  <2> QED  BY <1>2, <2>2, PagesLeft
<1>3. Showing("models") => "kind" \in DOMAIN OnTop
  BY <1>1 DEF Surface_, Showing
<1>4. ASSUME NEW key, SelectorMoves(key)  PROVE ConfigInv'
  <2>1. PICK v : /\ Put(v) /\ \/ \E index : v = [OnTop EXCEPT !.index = index]
                              \/ \E effort : v = [OnTop EXCEPT !.effort = effort]
    BY <1>4 DEF SelectorMoves
  <2>2. DOMAIN v = DOMAIN OnTop /\ v.kind = "models"
    BY <1>3, <1>4, <2>1 DEF SelectorMoves, Showing
  <2> QED  BY <1>2, <1>4, <2>1, <2>2 DEF SelectorMoves
<1>5. CASE SelectorBack
  <2>1. CASE OnTop.stage = "effort"
    <3>1. PICK v : v = [OnTop EXCEPT !.stage = "model"]
      OBVIOUS
    <3>2. DOMAIN v = DOMAIN OnTop /\ v.kind = "models"
      BY <1>3, <1>5, <3>1 DEF SelectorBack, Showing
    <3> QED  BY <1>2, <1>5, <2>1, <3>1, <3>2 DEF SelectorBack
  <2>2. CASE OnTop.stage # "effort"
    BY <1>1, <1>5, <2>2, PagesLeft DEF SelectorBack, Showing
  <2> QED  BY <2>1, <2>2
<1>6. ASSUME NEW selection, NEW ask, DOMAIN ask = AskFields, ask.op \notin {"status", "store"},
             SelectModel(selection, ask), NEW s, StackKnown(s), Republished(s)
      PROVE  ConfigInv'
  <2>1. StackKnown(stack')
    BY <1>6, MenuRepublished
  <2>2. /\ DOMAIN settings' = DOMAIN settings /\ settings'.stored = settings.stored /\ settings'.held = settings.held
        /\ \A w \in waiting' : w \in waiting \/ Plain(w)
    BY <1>6, SelectionSent DEF ConfigInv
  <2> QED  BY <2>1, <2>2, PagesLeft
<1>7. CASE SelectorConfirms
  <2>1. Showing("models")
    BY <1>7 DEF SelectorConfirms
  <2>2. PICK m : IF OnTop.stage = "model" /\ Len(EffortChoices(m)) > 1
                 THEN /\ \E effort : Put([OnTop EXCEPT !.stage = "effort", !.effort = effort])
                      /\ settings' = settings /\ waiting' = waiting
                 ELSE /\ \E selection : SelectModel(selection, [Ask("pick", Default) EXCEPT !.asked = OnTop.asked])
                      /\ Republished(Front(stack))
    BY <1>7 DEF SelectorConfirms
  <2>3. CASE OnTop.stage = "model" /\ Len(EffortChoices(m)) > 1
    <3>1. PICK effort : Put([OnTop EXCEPT !.stage = "effort", !.effort = effort])
      BY <2>2, <2>3
    <3>2. PICK v : v = [OnTop EXCEPT !.stage = "effort", !.effort = effort]
      OBVIOUS
    <3>3. DOMAIN v = DOMAIN OnTop /\ v.kind = "models"
      BY <1>3, <2>1, <3>2 DEF Showing
    <3> QED  BY <1>2, <2>1, <2>2, <2>3, <3>1, <3>2, <3>3
  <2>4. CASE ~(OnTop.stage = "model" /\ Len(EffortChoices(m)) > 1)
    <3>1. PICK ask : ask = [Ask("pick", Default) EXCEPT !.asked = OnTop.asked]
      OBVIOUS
    <3>2. DOMAIN ask = AskFields /\ ask.op = "pick"
      BY <3>1 DEF Ask, AskFields
    <3>3. \E selection : SelectModel(selection, ask) /\ Republished(Front(stack))
      BY <2>2, <2>4, <3>1
    <3>4. StackKnown(Front(stack))
      BY <1>1, <2>1 DEF Showing
    <3> QED  BY <1>6, <3>2, <3>3, <3>4
  <2> QED  BY <2>3, <2>4
<1>8. CASE Named
  <2>1. PICK m : waiting' = waiting \cup {Ask("named", m)} /\ settings' = settings /\ stack' = stack
    BY <1>8 DEF Named
  <2>2. Plain(Ask("named", m))
    BY Asked
  <2> QED  BY <2>1, <2>2, PagesLeft DEF ConfigInv
<1>9. CASE Cycle
  <2>1. Republished(stack) /\ StackKnown(stack)
    BY <1>9 DEF Cycle, ConfigInv
  <2>2. Plain(Ask("cycle", Default)) /\ DOMAIN Ask("cycle", Default) = AskFields /\ Ask("cycle", Default).op = "cycle"
    BY Asked
  <2>3. CASE ~Cataloged
    <3>1. waiting' = waiting \cup {Ask("cycle", Default)} /\ settings' = settings
      BY <1>9, <2>3 DEF Cycle
    <3>2. StackKnown(stack')
      BY <2>1, MenuRepublished
    <3> QED  BY <2>2, <3>1, <3>2, PagesLeft
  <2>4. CASE Cataloged
    <3>1. SelectModel(Selected_(Current.model, NextEffort(Current)), Ask("cycle", Default))
      BY <1>9, <2>4 DEF Cycle
    <3> QED  BY <1>6, <2>1, <2>2, <3>1
  <2> QED  BY <2>3, <2>4
<1> QED  BY <1>4, <1>5, <1>7, <1>8, <1>9

\* Lemma: keys on the pages of Vision and Web.
LEMMA PageStep ==
  ASSUME ConfigInv,
         \/ \E key \in {"previous", "next", "first", "last"} : PageMoves(key)
         \/ PageBack \/ PageConfirms \/ PageRefreshes
         \/ \E kind \in {"models"} \cup ValuePages : OpenRoute(kind)
  PROVE  ConfigInv'
<1>1. ASSUME stack # <<>>  PROVE Surface_(OnTop) /\ StackKnown(Front(stack))
  BY <1>1, StackMoves DEF ConfigInv, OnTop
<1>2. ASSUME NEW key, PageMoves(key)  PROVE ConfigInv'
  <2>1. PICK index : Put([OnTop EXCEPT !.index = index]) /\ stack # <<>> /\ settings' = settings /\ waiting' = waiting
    BY <1>2 DEF PageMoves
  <2>2. Surface_([OnTop EXCEPT !.index = index])
    BY <1>1, <2>1, MenuGoes
  <2>3. StackKnown(stack')
    BY <2>1, <2>2, StackMoves DEF ConfigInv, Put
  <2> QED  BY <2>1, <2>3, PagesLeft
<1>3. CASE PageBack
  BY <1>1, <1>3, PagesLeft DEF PageBack
<1>4. CASE PageConfirms
  <2>1. PICK w : w = Store(OnTop.kind, PageValues[OnTop.index])
    OBVIOUS
  <2>2. OnTop.kind \in ValuePages /\ waiting' = waiting \cup {w} /\ settings' = settings /\ stack' = stack
    BY <1>4, <2>1 DEF PageConfirms
  <2>3. OfPage(w, settings.stored)
    BY <2>1, <2>2 DEF OfPage, Store, AskFields
  <2> QED  BY <2>2, <2>3 DEF ConfigInv, SettingsKnown, WaitsKnown
<1>5. CASE PageRefreshes
  <2>1. PICK plain : plain = {}
    OBVIOUS
  <2>2. waiting' = Withdrawn("web") \cup plain \cup {Status("web", "refresh")} /\ settings' = Awaiting("web") /\ stack' = stack
    BY <1>5, <2>1 DEF PageRefreshes
  <2>3. "web" \in ValuePages /\ \A w \in plain : Plain(w)
    BY <2>1 DEF ValuePages
  <2> QED  BY <2>2, <2>3, PageAsked DEF ConfigInv
<1>6. ASSUME NEW kind \in {"models"} \cup ValuePages, OpenRoute(kind)  PROVE ConfigInv'
  <2>1. AskToOpen(kind, stack) /\ StackKnown(stack)
    BY <1>6 DEF OpenRoute, ConfigInv
  <2> QED  BY <2>1, OpeningAsked
<1> QED  BY <1>2, <1>3, <1>4, <1>5, <1>6

\* Lemma: what the answers of models and commands do.
LEMMA ModelStep ==
  ASSUME ConfigInv, NEW w \in waiting,
         \/ CatalogAnswered(w) \/ SelectorAnswered(w) \/ ModelAnswered(w) \/ SelectAnswered(w)
         \/ PermissionAnswered(w) \/ PlanAnswered(w) \/ Fails(w)
  PROVE  ConfigInv'
<1> DEFINE Same(s) == DOMAIN s = DOMAIN settings /\ s.stored = settings.stored /\ s.held = settings.held
<1>1. Same(Committed(w)) /\ Same(settings)
  BY DEF Committed, ConfigInv, SettingsKnown
<1>2. ASSUME NEW s, Same(s)
      PROVE  /\ \A x : Same([s EXCEPT !.chosen = x]) /\ Same([s EXCEPT !.plan.pending = x])
                      /\ Same([s EXCEPT !.plan.active = x]) /\ Same([s EXCEPT !.changes = x])
  BY <1>2 DEF ConfigInv, SettingsKnown
<1>3. StackKnown(stack)
  BY DEF ConfigInv
<1>4. ASSUME Same(settings'), \A u \in waiting' : u \in waiting \/ Plain(u), Republished(stack) \/ stack' = stack
      PROVE  ConfigInv'
  <2>1. StackKnown(stack')
    BY <1>3, <1>4, MenuRepublished
  <2> QED  BY <1>4, <2>1, PagesLeft
<1>5. CASE CatalogAnswered(w)
  BY <1>1, <1>4, <1>5 DEF CatalogAnswered
<1>6. CASE SelectorAnswered(w)
  <2>1. Same(settings') /\ waiting' = waiting \ {w}
    BY <1>1, <1>6 DEF SelectorAnswered
  <2>2. Surface_(Selector(Current))
    BY DEF Selector, Surface_
  <2>3. stack' = Append(stack, Selector(Current)) \/ Republished(stack)
    BY <1>6 DEF SelectorAnswered
  <2>4. StackKnown(stack')
    BY <1>3, <2>2, <2>3, StackMoves, MenuRepublished
  <2> QED  BY <2>1, <2>4, PagesLeft
<1>7. CASE ModelAnswered(w)
  <2>1. w.op \in {"named", "effort", "cycle"} /\ Republished(stack)
    BY <1>7 DEF ModelAnswered
  <2>2. DOMAIN w = AskFields
    <3>1. Plain(w) \/ OfPage(w, settings.stored)
      BY DEF ConfigInv, WaitsKnown
    <3> QED  BY <2>1, <3>1 DEF Plain, OfPage
  <2>3. ASSUME NEW value  PROVE Plain([Ask("effort", value) EXCEPT !.by = "cycle"])
    <3>1. PICK new : new = [Ask("effort", value) EXCEPT !.by = "cycle"]
      OBVIOUS
    <3>2. Plain(new)
      BY <3>1 DEF Ask, Plain, AskFields
    <3> QED  BY <3>1, <3>2
  <2>4. ASSUME NEW asked, NEW value, NEW sent, NEW ask \in {w, [w EXCEPT !.asked = asked]}
        PROVE  Plain([ask EXCEPT !.op = "select", !.value = value, !.sent = sent])
    <3>1. DOMAIN ask = AskFields
      BY <2>2, <2>4
    <3>2. PICK new : new = [ask EXCEPT !.op = "select", !.value = value, !.sent = sent]
      OBVIOUS
    <3>3. DOMAIN new = AskFields /\ new.op = "select"
      BY <3>1, <3>2 DEF AskFields
    <3> QED  BY <3>2, <3>3 DEF Plain
  <2>5. CASE w.op = "cycle" /\ settings.epoch \notin Committed(w).cataloged
    <3>1. settings' = Committed(w)
      BY <1>7, <2>5 DEF ModelAnswered
    <3>2. \A u \in waiting' : u \in waiting \/ Plain(u)
      BY <1>7, <2>3, <2>5 DEF ModelAnswered
    <3> QED  BY <1>1, <1>4, <2>1, <3>1, <3>2
  <2>6. CASE ~(w.op = "cycle" /\ settings.epoch \notin Committed(w).cataloged)
    <3>1. PICK ask \in {w, [w EXCEPT !.asked = settings.epoch]} :
            \/ settings' = [Committed(w) EXCEPT !.chosen = SelectionOf(w)] /\ waiting' = waiting \ {w}
            \/ /\ waiting' = (waiting \ {w}) \cup {[ask EXCEPT !.op = "select", !.value = SelectionOf(w), !.sent = settings.epoch]}
               /\ settings' = Committed(w)
            \/ waiting' = waiting \ {w} /\ settings' = Committed(w)
      BY <1>7, <2>6 DEF ModelAnswered
    <3>2. Same(settings')
      <4>1. Same([Committed(w) EXCEPT !.chosen = SelectionOf(w)])
        BY <1>1, <1>2
      <4> QED  BY <1>1, <3>1, <4>1
    <3>3. Plain([ask EXCEPT !.op = "select", !.value = SelectionOf(w), !.sent = settings.epoch])
      BY <2>4
    <3>4. \A u \in waiting' : u \in waiting \/ Plain(u)
      BY <3>1, <3>3
    <3> QED  BY <1>4, <2>1, <3>2, <3>4
  <2> QED  BY <2>5, <2>6
<1>8. CASE SelectAnswered(w)
  <2>1. settings' = settings \/ settings' = [settings EXCEPT !.chosen = w.value]
    BY <1>8 DEF SelectAnswered
  <2>2. Same([settings EXCEPT !.chosen = w.value])
    BY <1>1, <1>2
  <2>3. Same(settings')
    BY <1>1, <2>1, <2>2
  <2> QED  BY <1>4, <1>8, <2>3 DEF SelectAnswered
<1>9. CASE PermissionAnswered(w)
  BY <1>1, <1>4, <1>9 DEF PermissionAnswered
<1>10. CASE PlanAnswered(w)
  <2>1. \/ settings' = settings
        \/ settings' = [settings EXCEPT !.plan.pending = TRUE]
        \/ settings' = [settings EXCEPT !.plan.active = w.value = "on"]
    BY <1>10 DEF PlanAnswered
  <2>2. Same([settings EXCEPT !.plan.pending = TRUE]) /\ Same([settings EXCEPT !.plan.active = w.value = "on"])
    BY <1>1, <1>2
  <2>3. Same(settings')
    BY <1>1, <2>1, <2>2
  <2> QED  BY <1>4, <1>10, <2>3 DEF PlanAnswered
<1>11. CASE Fails(w)
  <2>1. settings' = [settings EXCEPT !.changes = settings.changes + 1]
    BY <1>11 DEF Fails, Counted
  <2>2. Same(settings')
    BY <1>1, <1>2, <2>1
  <2> QED  BY <1>4, <1>11, <2>2 DEF Fails
<1> QED  BY <1>5, <1>6, <1>7, <1>8, <1>9, <1>10, <1>11

\* Lemma: the answers about a page, those that count and those that do not.
LEMMA PageAnswered ==
  ASSUME ConfigInv, NEW w \in waiting, StatusAnswered(w) \/ StoreAnswered(w)
  PROVE  ConfigInv'
<1>1. OfPage(w, settings.stored)
  BY DEF ConfigInv, WaitsKnown, StatusAnswered, StoreAnswered, Plain
<1>2. PICK kind \in ValuePages : kind = w.about
  BY <1>1 DEF OfPage
<1>3. CASE StatusAnswered(w)
  <2>1. PICK h : h = [value |-> w.value, last |-> w.last]
    OBVIOUS
  <2>2. PICK held : held = [settings.held EXCEPT ![kind] = h]
    OBVIOUS
  <2>3. settings' = [settings EXCEPT !.held = held] /\ waiting' = waiting \ {w}
    BY <1>2, <1>3, <2>1, <2>2 DEF StatusAnswered
  <2>4. DOMAIN settings' = DOMAIN settings /\ settings'.stored = settings.stored /\ settings'.held = held
    BY <2>3 DEF ConfigInv, SettingsKnown
  <2>5. h.last => h.value = settings.stored[kind]
    BY <1>1, <1>2, <1>3, <2>1 DEF OfPage, StatusAnswered
  <2>6. DOMAIN held = ValuePages /\ \A k \in ValuePages : held[k] = IF k = kind THEN h ELSE settings.held[k]
    BY <2>2 DEF ConfigInv, SettingsKnown
  <2>7. SettingsKnown(settings')
    BY <2>1, <2>4, <2>5, <2>6 DEF ConfigInv, SettingsKnown
  <2>8. \/ stack' = stack
        \/ \E index : stack' = Append(stack, [kind |-> kind, index |-> index])
    BY <1>2, <1>3 DEF StatusAnswered
  <2>9. StackKnown(stack')
    BY <2>8, PageOpens, StackMoves DEF ConfigInv
  <2> QED  BY <2>3, <2>4, <2>7, <2>9 DEF ConfigInv, WaitsKnown
<1>4. CASE StoreAnswered(w)
  <2>1. PICK h : h = [settings.held[kind] EXCEPT !.last = FALSE]
    OBVIOUS
  <2>2. PICK held : held = [settings.held EXCEPT ![kind] = h]
    OBVIOUS
  <2>3. PICK stored : stored = [settings.stored EXCEPT ![kind] = w.value]
    OBVIOUS
  <2>4. settings' = [settings EXCEPT !.held = held, !.stored = stored]
    <3>1. PICK s : s = [settings EXCEPT !.held = held]
      OBVIOUS
    <3>2. Awaiting(kind) = s
      BY <2>1, <2>2, <3>1 DEF Awaiting
    <3>3. settings' = [s EXCEPT !.stored[kind] = w.value]
      BY <1>2, <1>4, <3>2 DEF StoreAnswered
    <3>4. s.stored = settings.stored
      BY <3>1 DEF ConfigInv, SettingsKnown
    <3> QED  BY <2>3, <3>1, <3>3, <3>4
  <2>5. DOMAIN settings' = DOMAIN settings /\ settings'.stored = stored /\ settings'.held = held
    BY <2>4 DEF ConfigInv, SettingsKnown
  <2>6. /\ DOMAIN held = ValuePages /\ \A k \in ValuePages : held[k] = IF k = kind THEN h ELSE settings.held[k]
        /\ DOMAIN stored = ValuePages /\ \A k \in ValuePages : stored[k] = IF k = kind THEN w.value ELSE settings.stored[k]
        /\ DOMAIN h = {"value", "last"} /\ h.last = FALSE
    BY <2>1, <2>2, <2>3 DEF ConfigInv, SettingsKnown
  <2>7. SettingsKnown(settings')
    BY <2>5, <2>6 DEF ConfigInv, SettingsKnown
  <2>8. PICK new : new = [Status(kind, "refresh") EXCEPT !.value = w.value]
    OBVIOUS
  <2>9. OfPage(new, stored)
    BY <2>6, <2>8 DEF OfPage, Status, AskFields
  <2>10. waiting' = (Withdrawn(kind) \ {w}) \cup {new} /\ stack' = stack
    BY <1>2, <1>4, <2>8 DEF StoreAnswered
  <2>11. ASSUME NEW v \in Withdrawn(kind)  PROVE Plain(v) \/ OfPage(v, stored)
    <3>1. PICK u \in waiting : v = IF u.op = "status" /\ u.about = kind THEN [u EXCEPT !.last = FALSE] ELSE u
      BY <2>11 DEF Withdrawn
    <3>2. Plain(u) \/ OfPage(u, settings.stored)
      BY DEF ConfigInv, WaitsKnown
    <3>3. CASE u.op = "status" /\ u.about = kind
      <4>1. v = [u EXCEPT !.last = FALSE] /\ OfPage(u, settings.stored)
        BY <3>1, <3>2, <3>3 DEF Plain
      <4>2. DOMAIN v = DOMAIN u /\ "last" \in DOMAIN u /\ "op" \in DOMAIN u /\ "about" \in DOMAIN u
        BY <3>3, <4>1 DEF OfPage, AskFields
      <4>3. v.last = FALSE /\ v.op = u.op /\ v.about = u.about
        BY <4>1, <4>2
      <4> QED  BY <4>1, <4>2, <4>3 DEF OfPage
    <3>4. CASE ~(u.op = "status" /\ u.about = kind)
      BY <2>6, <3>1, <3>2, <3>4 DEF OfPage
    <3> QED  BY <3>3, <3>4
  <2>12. WaitsKnown(waiting', settings'.stored)
    BY <2>5, <2>9, <2>10, <2>11 DEF WaitsKnown
  <2> QED  BY <2>7, <2>10, <2>12 DEF ConfigInv
<1> QED  BY <1>3, <1>4

\* Lemma: what happens elsewhere, and an approval over what is in front.
LEMMA ElsewhereStep ==
  ASSUME ConfigInv, BindSession \/ Elsewhere \/ Approval
  PROVE  ConfigInv'
<1>1. StackKnown(stack)
  BY DEF ConfigInv
<1> DEFINE Same(s) == DOMAIN s = DOMAIN settings /\ s.stored = settings.stored /\ s.held = settings.held
<1>2. Same(settings) /\ Same(Counted(settings))
  BY DEF Counted, ConfigInv, SettingsKnown
<1>3. ASSUME NEW s, Same(s)
      PROVE  \A a : Same([s EXCEPT !.chosen = a]) /\ Same([s EXCEPT !.offered = a]) /\ Same([s EXCEPT !.plan = a])
  BY <1>3 DEF ConfigInv, SettingsKnown
<1>4. ASSUME Same(settings'), waiting' = waiting, Republished(stack)  PROVE ConfigInv'
  <2>1. StackKnown(stack')
    BY <1>1, <1>4, MenuRepublished
  <2> QED  BY <1>4, <2>1, PagesLeft
<1>5. CASE BindSession
  <2>1. Same(settings')
    BY <1>2, <1>5 DEF BindSession, ConfigInv, SettingsKnown
  <2> QED  BY <1>4, <1>5, <2>1 DEF BindSession
<1>6. CASE Elsewhere
  <2>1. \E a : \/ settings' = [Counted(settings) EXCEPT !.chosen = a]
               \/ settings' = [Counted(settings) EXCEPT !.offered = a]
               \/ settings' = [Counted(settings) EXCEPT !.plan = a]
    BY <1>6 DEF Elsewhere
  <2>2. ASSUME NEW a
        PROVE  /\ Same([Counted(settings) EXCEPT !.chosen = a]) /\ Same([Counted(settings) EXCEPT !.offered = a])
               /\ Same([Counted(settings) EXCEPT !.plan = a])
    BY <1>2, <1>3
  <2>3. Same(settings')
    BY <2>1, <2>2
  <2> QED  BY <1>4, <1>6, <2>3 DEF Elsewhere
<1>7. CASE Approval
  <2>1. Surface_([kind |-> "approval"])
    BY DEF Surface_
  <2>2. /\ waiting' = waiting /\ settings' \in {settings, Counted(settings)}
        /\ stack' = Append(stack, [kind |-> "approval"]) \/ (stack # <<>> /\ stack' = Front(stack))
    BY <1>7 DEF Approval, Showing
  <2>3. StackKnown(stack')
    BY <1>1, <2>1, <2>2, StackMoves
  <2> QED  BY <1>2, <2>2, <2>3, PagesLeft
<1> QED  BY <1>5, <1>6, <1>7

\* Lemma: every key, every answer and every change elsewhere keeps it.
LEMMA ConfigStep == ConfigInv /\ [ConfigurationNext]_configurationVars => ConfigInv'
<1> SUFFICES ASSUME ConfigInv, [ConfigurationNext]_configurationVars  PROVE ConfigInv'
  OBVIOUS
<1>1. CASE UNCHANGED configurationVars
  BY <1>1, PagesLeft DEF configurationVars, ConfigInv
<1>2. ASSUME NEW key \in {"previous", "next", "first", "last"}, MenuMoves(key) \/ SelectorMoves(key) \/ PageMoves(key)
      PROVE  ConfigInv'
  BY <1>2, MenuStep, SelectorStep, PageStep
<1>3. ASSUME NEW w \in waiting,
             \/ CatalogAnswered(w) \/ SelectorAnswered(w) \/ ModelAnswered(w) \/ SelectAnswered(w)
             \/ PermissionAnswered(w) \/ PlanAnswered(w) \/ StatusAnswered(w) \/ StoreAnswered(w) \/ Fails(w)
      PROVE  ConfigInv'
  BY <1>3, ModelStep, PageAnswered
<1>4. CASE (\E stage \in {"root", "reasoning", "permissions", "plan"} : OpenMenu(stage)) \/ MenuBack \/ MenuConfirms
  BY <1>4, MenuStep
<1>5. CASE SelectorBack \/ SelectorConfirms \/ Named \/ Cycle
  BY <1>5, SelectorStep
<1>6. CASE (\E kind \in {"models"} \cup ValuePages : OpenRoute(kind)) \/ PageBack \/ PageConfirms \/ PageRefreshes
  BY <1>6, PageStep
<1>7. CASE BindSession \/ Elsewhere \/ Approval
  BY <1>7, ElsewhereStep
<1> QED  BY <1>1, <1>2, <1>3, <1>4, <1>5, <1>6, <1>7 DEF ConfigurationNext

\* Lemma: it holds while nothing is open or asked.
LEMMA ConfigInitial == ConfigurationInit => ConfigInv
<1> SUFFICES ASSUME ConfigurationInit  PROVE ConfigInv
  OBVIOUS
<1>1. waiting = {} /\ stack = <<>>
  BY DEF ConfigurationInit
<1>2. StackKnown(stack)
  <2>1. stack \in Seq({}) /\ Len(stack) = 0
    BY <1>1
  <2> QED  BY <2>1 DEF StackKnown
<1>3. SettingsKnown(settings)
  BY DEF ConfigurationInit, SettingsKnown, ValuePages
<1> QED  BY <1>1, <1>2, <1>3 DEF ConfigInv, WaitsKnown

-----------------------------------------------------------------------------
(* The rows of the menu, and the models and efforts that are chosen         *)

Selectable(m, effort) == effort \in {Default} \cup {EffortsOf[m][i] : i \in DOMAIN EffortsOf[m]}

\* What a command or a question about models carries.
SelectionKnown(w) ==
  /\ w.op = "named" => w.value \in Model
  /\ w.op \in {"effort", "cycle"} => w.by = "cycle"
  /\ w.op = "select" => /\ w.asked = w.sent /\ w.value.model \in Model
                        /\ w.by # "cycle" => Selectable(w.value.model, w.value.effort)

Held(s) == s.chosen.model \in Model /\ s.offered \in {<<"ask", Danger>>, <<Danger>>}

\* The rows the cursor is on, or goes back to from the confirmation.
RowsHere(stage, s) == Len(RowsOffered(IF stage = "permission-confirm" THEN "permissions" ELSE stage, s))

OnItsRow(v, s) == v.index \in Nat \ {0} /\ (v.index = 1 \/ v.index <= RowsHere(v.stage, s))

InSelector(v) ==
  /\ DOMAIN v = {"kind", "asked", "current", "stage", "index", "effort"}
  /\ v.index \in 1 .. Cardinality(Model) /\ v.stage \in {"model", "effort"}
  /\ v.stage = "effort" => v.effort \in 1 .. Len(EffortChoices(ModelAt(v.index)))

Placed(v, s) == (v.kind = "config" => OnItsRow(v, s)) /\ (v.kind = "models" => InSelector(v))

StackPlaced(st, s) == \A i \in 1 .. Len(st) : Placed(st[i], s) /\ (st[i].kind \in Own => i = 1)

RowsInv ==
  /\ Held(settings) /\ StackPlaced(stack, settings)
  /\ \A w \in waiting : SelectionKnown(w)

\* Lemma: the models in a sequence.
LEMMA ModelsListed ==
  /\ Cardinality(Model) \in Nat \ {0} /\ SetToSeq(Model) \in Seq(Model)
  /\ Len(SetToSeq(Model)) = Cardinality(Model)
  /\ \A i \in 1 .. Cardinality(Model) : ModelAt(i) \in Model
<1>1. IsFiniteSet(Model) /\ Model # {}
  BY ConfigurationAssumption DEF Model
<1>2. Cardinality(Model) \in Nat /\ Cardinality(Model) # 0
  BY <1>1, FS_CardinalityType, FS_EmptySet
<1>3. ExistsBijection(1 .. Cardinality(Model), Model)
  BY <1>1, FS_CardinalityType
<1>4. \E f \in [1 .. Cardinality(Model) -> Model] : IsInjective(f)
  BY <1>3 DEF ExistsBijection, Bijection, Injection, IsInjective
<1>5. SetToSeq(Model) \in [1 .. Cardinality(Model) -> Model]
  BY <1>4 DEF SetToSeq
<1>6. SetToSeq(Model) \in Seq(Model) /\ Len(SetToSeq(Model)) = Cardinality(Model)
  BY <1>2, <1>5
<1> QED  BY <1>2, <1>5, <1>6 DEF ModelAt

\* Lemma: a place among values is one of them.
LEMMA Placing ==
  ASSUME NEW S, NEW values \in Seq(S), values # <<>>, NEW value
  PROVE  PlaceOf(value, values) \in 1 .. Len(values)
<1>1. Len(values) \in Nat \ {0}
  OBVIOUS
<1>2. CASE \E i \in DOMAIN values : values[i] = value
  <2> DEFINE I == {i \in 1 .. Len(values) : values[i] = value}
  <2>1. I \subseteq Nat /\ I # {} /\ I \subseteq 1 .. Len(values)
    BY <1>2
  <2>2. PlaceOf(value, values) = Min(I)
    BY <1>2, <2>1 DEF PlaceOf, SelectInSeq
  <2>3. \E x \in I : \A y \in I : x <= y
    BY <2>1, LeastElement
  <2> HIDE DEF I
  <2>4. Min(I) \in I
    BY <2>3 DEF Min
  <2> QED  BY <2>1, <2>2, <2>4
<1>3. CASE ~ \E i \in DOMAIN values : values[i] = value
  BY <1>1, <1>3 DEF PlaceOf
<1> QED  BY <1>2, <1>3

\* Names of efforts, and of none.
EffortName == STRING \cup {Default}

\* Lemma: the efforts of a model.
LEMMA EffortsListed ==
  ASSUME NEW m \in Model
  PROVE  /\ EffortsOf[m] \in Seq(EffortName)
         /\ <<Default>> \o EffortsOf[m] \in Seq(EffortName)
         /\ EffortChoices(m) \in Seq(EffortName) /\ Len(EffortChoices(m)) # 1
         /\ \A i \in 1 .. Len(EffortChoices(m)) : Selectable(m, EffortChoices(m)[i])
         /\ \A i \in 1 .. Len(<<Default>> \o EffortsOf[m]) : Selectable(m, (<<Default>> \o EffortsOf[m])[i])
<1>1. EffortsOf[m] \in Seq(EffortName) /\ Default \in EffortName
  <2>1. PICK S : S = STRING
    OBVIOUS
  <2>2. EffortsOf[m] \in Seq(S)
    BY <2>1, ConfigurationAssumption DEF Model
  <2>3. EffortsOf[m] \in Seq(S \cup {Default})
    BY <2>2
  <2> QED  BY <2>1, <2>3 DEF EffortName
<1>2. PICK all : all = <<Default>> \o EffortsOf[m]
  OBVIOUS
<1>3. PICK one : one = <<Default>>
  OBVIOUS
<1>4. one \in Seq(EffortName) /\ Len(one) = 1 /\ one[1] = Default
  BY <1>1, <1>3
<1>5. all \in Seq(EffortName) /\ Len(all) = 1 + Len(EffortsOf[m])
      /\ \A i \in 1 .. Len(all) : all[i] = IF i <= 1 THEN one[i] ELSE EffortsOf[m][i - 1]
  BY <1>1, <1>2, <1>3, <1>4, ConcatProperties
<1>6. Len(EffortsOf[m]) \in Nat /\ (Len(EffortsOf[m]) = 0 <=> EffortsOf[m] = <<>>)
  BY <1>1
<1>7. ASSUME NEW i \in 1 .. Len(all)  PROVE Selectable(m, all[i])
  <2>1. CASE i = 1
    BY <1>4, <1>5, <2>1 DEF Selectable
  <2>2. CASE i # 1
    <3>1. i - 1 \in DOMAIN EffortsOf[m] /\ all[i] = EffortsOf[m][i - 1]
      BY <1>1, <1>5, <1>6, <1>7, <2>2
    <3> QED  BY <3>1 DEF Selectable
  <2> QED  BY <2>1, <2>2
<1>8. all # <<>> /\ (EffortsOf[m] # <<>> => Len(all) # 1)
  BY <1>5, <1>6
<1>9. EffortChoices(m) = IF EffortsOf[m] = <<>> THEN <<>> ELSE all
  BY <1>2 DEF EffortChoices
<1> QED  BY <1>1, <1>2, <1>5, <1>7, <1>8, <1>9

\* Lemma: rows are counted, and those that are offered for efforts are efforts.
LEMMA RowsCountedIn ==
  ASSUME NEW s, Held(s), NEW stage
  PROVE  /\ Len(RowsOffered(stage, s)) \in Nat
         /\ \A i \in DOMAIN RowsOffered("reasoning", s) :
              s.epoch \in s.cataloged => Selectable(s.chosen.model, RowsOffered("reasoning", s)[i])
<1>1. s.chosen.model \in Model
  BY DEF Held
<1>2. /\ EffortsOf[s.chosen.model] \in Seq(EffortName) /\ <<Default>> \o EffortsOf[s.chosen.model] \in Seq(EffortName)
      /\ \A i \in 1 .. Len(<<Default>> \o EffortsOf[s.chosen.model]) :
           Selectable(s.chosen.model, (<<Default>> \o EffortsOf[s.chosen.model])[i])
  BY <1>1, EffortsListed
<1>3. EffortsIn(s) \in Seq(EffortName) /\ (s.epoch \in s.cataloged => EffortsIn(s) = EffortsOf[s.chosen.model])
  BY <1>2 DEF EffortsIn
<1>4. Len(<<Default>> \o EffortsIn(s)) \in Nat /\ DOMAIN (<<Default>> \o EffortsIn(s)) = 1 .. Len(<<Default>> \o EffortsIn(s))
  <2>1. <<Default>> \in Seq(EffortName)
    BY DEF EffortName
  <2>2. <<Default>> \o EffortsIn(s) \in Seq(EffortName)
    BY <1>3, <2>1, ConcatProperties
  <2> QED  BY <2>2
<1>5. Len(RowsOffered(stage, s)) \in Nat
  <2>1. stage = "root" => Len(RowsOffered(stage, s)) = 7
    BY DEF RowsOffered, Rows_
  <2>2. stage = "reasoning" => Len(RowsOffered(stage, s)) = Len(<<Default>> \o EffortsIn(s))
    BY DEF RowsOffered
  <2>3. stage = "permissions" => Len(RowsOffered(stage, s)) \in {0, 1, 2}
    BY DEF RowsOffered, Held
  <2>4. stage \notin {"root", "reasoning", "permissions"} => Len(RowsOffered(stage, s)) \in {1, 2}
    BY DEF RowsOffered
  <2> QED  BY <1>4, <2>1, <2>2, <2>3, <2>4
<1>6. RowsOffered("reasoning", s) = <<Default>> \o EffortsIn(s)
  BY DEF RowsOffered
<1> QED  BY <1>2, <1>3, <1>4, <1>5, <1>6

\* Lemma: the rows are those of the choice, the Session and what is offered.
LEMMA SameRows ==
  ASSUME NEW s, NEW t, t.area = s.area, t.epoch = s.epoch, t.cataloged = s.cataloged, t.chosen = s.chosen,
         t.offered = s.offered
  PROVE  /\ \A stage : RowsOffered(stage, t) = RowsOffered(stage, s)
         /\ Held(s) => Held(t)
         /\ \A st : StackPlaced(st, s) => StackPlaced(st, t)
<1>1. ASSUME NEW stage  PROVE RowsOffered(stage, t) = RowsOffered(stage, s)
  BY DEF RowsOffered, EffortsIn
<1>2. Held(s) => Held(t)
  BY DEF Held
<1>3. ASSUME NEW stage  PROVE RowsHere(stage, t) = RowsHere(stage, s)
  BY <1>1 DEF RowsHere
<1>4. ASSUME NEW st, StackPlaced(st, s)  PROVE StackPlaced(st, t)
  BY <1>3, <1>4 DEF StackPlaced, Placed, OnItsRow
<1> QED  BY <1>1, <1>2, <1>4

\* Lemma: surfaces close, open and are replaced.
LEMMA PlacesMove ==
  ASSUME NEW s, StackKnown(s), NEW t, StackPlaced(s, t)
  PROVE  /\ s # <<>> => /\ Placed(Last(s), t) /\ StackPlaced(Front(s), t)
                        /\ \A v : Placed(v, t) /\ v.kind = Last(s).kind => StackPlaced([s EXCEPT ![Len(s)] = v], t)
         /\ StackPlaced(Append(s, [kind |-> "approval"]), t)
         /\ \A v : Placed(v, t) => StackPlaced(<<v>>, t) /\ (s = <<>> => StackPlaced(Append(s, v), t))
<1>1. PICK S : s \in Seq(S)
  BY DEF StackKnown
<1>2. Len(s) \in Nat /\ (s # <<>> => Len(s) \in 1 .. Len(s)) /\ (s = <<>> => Len(s) = 0)
  BY <1>1
<1>3. ASSUME s # <<>>  PROVE Placed(Last(s), t) /\ StackPlaced(Front(s), t)
  <2>1. Len(Front(s)) = Len(s) - 1 /\ \A i \in 1 .. Len(s) - 1 : Front(s)[i] = s[i]
    BY <1>1, <1>3, StackShape
  <2>2. StackPlaced(Front(s), t)
    BY <1>2, <2>1 DEF StackPlaced
  <2> QED  BY <1>2, <1>3, <2>2 DEF StackPlaced, Last
<1>4. ASSUME s # <<>>, NEW v, Placed(v, t), v.kind = Last(s).kind  PROVE StackPlaced([s EXCEPT ![Len(s)] = v], t)
  <2>1. PICK r : r = [s EXCEPT ![Len(s)] = v]
    OBVIOUS
  <2>2. Len(r) = Len(s) /\ \A j \in 1 .. Len(s) : r[j] = IF j = Len(s) THEN v ELSE s[j]
    BY <1>1, <1>2, <1>4, <2>1, StackShape
  <2>3. StackPlaced(r, t)
    BY <1>2, <1>4, <2>2 DEF StackPlaced, Last
  <2> QED  BY <2>1, <2>3
<1>5. ASSUME NEW v, Placed(v, t), s = <<>> \/ v.kind \notin Own  PROVE StackPlaced(Append(s, v), t)
  <2>1. /\ Len(Append(s, v)) = Len(s) + 1
        /\ \A i \in 1 .. Len(s) + 1 : Append(s, v)[i] = IF i = Len(s) + 1 THEN v ELSE s[i]
    BY <1>1, StackShape
  <2> QED  BY <1>2, <1>5, <2>1 DEF StackPlaced
<1>6. Placed([kind |-> "approval"], t) /\ [kind |-> "approval"].kind \notin Own
  BY DEF Placed, Own
<1>7. ASSUME NEW v, Placed(v, t)  PROVE StackPlaced(<<v>>, t)
  <2>1. PICK r : r = <<v>>
    OBVIOUS
  <2>2. Len(r) = 1 /\ r[1] = v
    BY <2>1
  <2>3. StackPlaced(r, t)
    BY <1>7, <2>2 DEF StackPlaced
  <2> QED  BY <2>1, <2>3
<1> QED  BY <1>3, <1>4, <1>5, <1>6, <1>7

\* Lemma: a publication leaves the cursor of the menu on a row.
LEMMA RowsRepublished ==
  ASSUME NEW s, StackKnown(s), NEW t, StackPlaced(s, t), Republished(s), Held(settings')
  PROVE  StackPlaced(stack', settings')
<1>1. PICK S : s \in Seq(S)
  BY DEF StackKnown
<1>2. Len(s) \in Nat /\ (s # <<>> => 1 \in 1 .. Len(s))
  BY <1>1
<1>3. \A i \in 1 .. Len(s) : s[i].kind = "config" => i = 1
  BY DEF StackPlaced, Own
<1>4. CASE s # <<>> /\ s[1].kind = "config"
  <2>1. PICK count : /\ count = Len(RowsOffered(s[1].stage, settings'))
                     /\ stack' = [s EXCEPT ![1].index = IF @ <= count THEN @ ELSE IF count = 0 THEN 1 ELSE count]
    BY <1>4 DEF Republished
  <2>2. PICK v : v = [s[1] EXCEPT !.index = IF @ <= count THEN @ ELSE IF count = 0 THEN 1 ELSE count]
    OBVIOUS
  <2>3. stack' = [s EXCEPT ![1] = v]
    BY <2>1, <2>2
  <2>4. Surface_(s[1]) /\ Placed(s[1], t)
    BY <1>2, <1>4 DEF StackKnown, StackPlaced
  <2>5. v.kind = "config" /\ v.stage = s[1].stage /\ s[1].index \in Nat \ {0}
        /\ v.index = IF s[1].index <= count THEN s[1].index ELSE IF count = 0 THEN 1 ELSE count
    BY <1>4, <2>2, <2>4 DEF Surface_, Placed, OnItsRow
  <2>6. count \in Nat
    BY <2>1, RowsCountedIn
  <2>7. v.stage = "permission-confirm" => count = 1
    <3>1. RowsOffered("permission-confirm", settings') = <<"confirm">>
      BY DEF RowsOffered
    <3> QED  BY <2>1, <2>5, <3>1
  <2>8. v.stage # "permission-confirm" => RowsHere(v.stage, settings') = count
    BY <2>1, <2>5 DEF RowsHere
  <2>9. Placed(v, settings')
    BY <2>5, <2>6, <2>7, <2>8 DEF Placed, OnItsRow
  <2>10. PICK r : r = stack'
    OBVIOUS
  <2>11. Len(r) = Len(s) /\ \A j \in 1 .. Len(s) : r[j] = IF j = 1 THEN v ELSE s[j]
    BY <1>1, <1>2, <1>4, <2>3, <2>10, StackShape
  <2>12. StackPlaced(r, settings')
    BY <1>3, <2>9, <2>11 DEF StackPlaced, Placed
  <2> QED  BY <2>10, <2>12
<1>5. CASE ~(s # <<>> /\ s[1].kind = "config")
  <2>1. stack' = s
    BY <1>5 DEF Republished
  <2>2. \A i \in 1 .. Len(s) : s[i].kind # "config"
    BY <1>1, <1>3, <1>5
  <2> QED  BY <2>1, <2>2 DEF StackPlaced, Placed
<1> QED  BY <1>4, <1>5

\* Lemma: a step that leaves the rows alone.
LEMMA RowsLeft ==
  ASSUME RowsInv, settings'.area = settings.area, settings'.epoch = settings.epoch, settings'.cataloged = settings.cataloged,
         settings'.chosen = settings.chosen, settings'.offered = settings.offered,
         \A w \in waiting' : w \in waiting \/ SelectionKnown(w), StackPlaced(stack', settings)
  PROVE  RowsInv'
<1>1. Held(settings') /\ StackPlaced(stack', settings')
  BY SameRows DEF RowsInv
<1>2. \A w \in waiting' : SelectionKnown(w)
  BY DEF RowsInv
<1> QED  BY <1>1, <1>2 DEF RowsInv

\* Lemma: a step that publishes others.
LEMMA RowsMoved ==
  ASSUME RowsInv, NEW s, StackKnown(s), StackPlaced(s, settings), Republished(s), Held(settings'),
         \A w \in waiting' : w \in waiting \/ SelectionKnown(w)
  PROVE  RowsInv'
<1>1. StackPlaced(stack', settings')
  BY RowsRepublished
<1>2. \A w \in waiting' : SelectionKnown(w)
  BY DEF RowsInv
<1> QED  BY <1>1, <1>2 DEF RowsInv

\* Lemma: what is asked of no model, and what is withdrawn.
LEMMA OthersKnown ==
  /\ \A w : w.op \notin {"named", "effort", "cycle", "select"} => SelectionKnown(w)
  /\ \A kind, by : SelectionKnown(Status(kind, by))
  /\ ConfigInv /\ RowsInv => \A kind : \A w \in Withdrawn(kind) : SelectionKnown(w)
<1>1. \A w : w.op \notin {"named", "effort", "cycle", "select"} => SelectionKnown(w)
  BY DEF SelectionKnown
<1>2. \A kind, by : Status(kind, by).op = "status"
  BY DEF Status
<1>3. ASSUME ConfigInv, RowsInv, NEW kind, NEW w \in Withdrawn(kind)  PROVE SelectionKnown(w)
  <2>1. PICK u \in waiting : w = IF u.op = "status" /\ u.about = kind THEN [u EXCEPT !.last = FALSE] ELSE u
    BY <1>3 DEF Withdrawn
  <2>2. SelectionKnown(u) /\ (Plain(u) \/ OfPage(u, settings.stored))
    BY <1>3 DEF RowsInv, ConfigInv, WaitsKnown
  <2>3. CASE u.op = "status" /\ u.about = kind
    <3>1. "op" \in DOMAIN u
      BY <2>2 DEF Plain, OfPage, AskFields
    <3>2. w.op = "status"
      BY <2>1, <2>3, <3>1
    <3> QED  BY <1>1, <3>2
  <2>4. CASE ~(u.op = "status" /\ u.about = kind)
    BY <2>1, <2>2, <2>4
  <2> QED  BY <2>3, <2>4
<1> QED  BY <1>1, <1>2, <1>3

\* Lemma: a page is asked about.
LEMMA PageAskedBeside ==
  ASSUME ConfigInv, RowsInv, NEW kind, settings' = Awaiting(kind),
         \A w \in waiting' : w \in Withdrawn(kind) \/ SelectionKnown(w), StackPlaced(stack', settings)
  PROVE  RowsInv'
<1>1. settings'.area = settings.area /\ settings'.epoch = settings.epoch /\ settings'.cataloged = settings.cataloged
      /\ settings'.chosen = settings.chosen /\ settings'.offered = settings.offered
  BY DEF Awaiting, ConfigInv, SettingsKnown
<1>2. \A w \in waiting' : w \in waiting \/ SelectionKnown(w)
  BY OthersKnown
<1> QED  BY <1>1, <1>2, RowsLeft

\* Lemma: a selection is sent for the Session it was made in, or held by the draft.
LEMMA SelectionGoes ==
  ASSUME ConfigInv, RowsInv, NEW m \in Model, NEW effort, NEW ask, DOMAIN ask = AskFields,
         ask.by # "cycle" => Selectable(m, effort), SelectModel(Selected_(m, effort), ask)
  PROVE  Held(settings') /\ \A w \in waiting' : w \in waiting \/ SelectionKnown(w)
<1>1. PICK selection : selection = Selected_(m, effort)
  OBVIOUS
<1>2. selection.model = m /\ selection.effort = effort
  BY <1>1 DEF Selected_
<1>3. PICK new : new = [ask EXCEPT !.op = "select", !.value = selection, !.sent = settings.epoch]
  OBVIOUS
<1>4. new.op = "select" /\ new.value = selection /\ new.sent = settings.epoch /\ new.asked = ask.asked /\ new.by = ask.by
  BY <1>3 DEF AskFields
<1>5. ask.asked = settings.epoch => SelectionKnown(new)
  BY <1>2, <1>4 DEF SelectionKnown
<1>6. PICK s : s = [settings EXCEPT !.chosen = selection]
  OBVIOUS
<1>7. Held(s)
  BY <1>2, <1>6 DEF Held, RowsInv, ConfigInv, SettingsKnown
<1>8. /\ settings' \in {settings, s}
      /\ \/ waiting' = waiting \ {ask}
         \/ waiting' = (waiting \ {ask}) \cup {new} /\ ask.asked = settings.epoch
  BY <1>1, <1>3, <1>6 DEF SelectModel
<1> QED  BY <1>5, <1>7, <1>8 DEF RowsInv

\* Lemma: a surface is asked for; nothing is chosen by it.
LEMMA OpeningBeside ==
  ASSUME ConfigInv, RowsInv, NEW kind \in {"models"} \cup ValuePages, NEW rest, StackPlaced(rest, settings),
         AskToOpen(kind, rest)
  PROVE  RowsInv'
<1>1. CASE kind = "models"
  <2>1. Ask("models", Default).op = "models"
    BY DEF Ask
  <2>2. waiting' = waiting \cup {Ask("models", Default)} /\ settings' = settings /\ stack' = rest
    BY <1>1 DEF AskToOpen
  <2> QED  BY <2>1, <2>2, OthersKnown, RowsLeft
<1>2. CASE kind # "models"
  <2>1. waiting' = Withdrawn(kind) \cup {Status(kind, "open")} /\ settings' = Awaiting(kind) /\ stack' = rest
    BY <1>2 DEF AskToOpen
  <2>2. \A w \in waiting' : w \in Withdrawn(kind) \/ SelectionKnown(w)
    BY <2>1, OthersKnown
  <2> QED  BY <2>1, <2>2, PageAskedBeside
<1> QED  BY <1>1, <1>2

\* Lemma: keys in the menu leave its cursor on a row, and choose what is there.
LEMMA MenuRows ==
  ASSUME ConfigInv, RowsInv,
         \/ \E stage \in {"root", "reasoning", "permissions", "plan"} : OpenMenu(stage)
         \/ \E key \in {"previous", "next", "first", "last"} : MenuMoves(key)
         \/ MenuBack \/ MenuConfirms
  PROVE  RowsInv'
<1>1. ASSUME NEW v, OnItsRow(v, settings), v.kind = "config", Showing("config"), Put(v), settings' = settings,
             \A w \in waiting' : w \in waiting \/ SelectionKnown(w)
      PROVE  RowsInv'
  <2>1. stack # <<>> /\ Last(stack).kind = "config" /\ StackKnown(stack) /\ StackPlaced(stack, settings)
    BY <1>1 DEF Showing, OnTop, ConfigInv, RowsInv
  <2>2. Placed(v, settings)
    BY <1>1 DEF Placed
  <2>3. StackPlaced(stack', settings)
    BY <1>1, <2>1, <2>2, PlacesMove DEF Put
  <2> QED  BY <1>1, <2>3, RowsLeft
<1>2. ASSUME Showing("config")
      PROVE  /\ OnItsRow(OnTop, settings) /\ StackPlaced(Front(stack), settings) /\ OnTop.kind = "config"
             /\ DOMAIN OnTop = {"kind", "stage", "entry", "index", "pending"} /\ StackKnown(Front(stack))
  <2>1. Placed(OnTop, settings) /\ StackPlaced(Front(stack), settings)
    BY <1>2, PlacesMove DEF Showing, OnTop, ConfigInv, RowsInv
  <2>2. Surface_(OnTop) /\ StackKnown(Front(stack))
    BY <1>2, StackMoves DEF Showing, OnTop, ConfigInv
  <2> QED  BY <1>2, <2>1, <2>2 DEF Showing, Placed, Surface_
<1>3. StackKnown(stack) /\ StackPlaced(stack, settings)
  BY DEF ConfigInv, RowsInv
<1>4. ASSUME NEW preset, Showing("config"), AskPermission(preset)  PROVE RowsInv'
  <2>1. PICK w : w = [Ask("permission", preset) EXCEPT !.by = OnTop.stage]
    OBVIOUS
  <2>2. w.op = "permission"
    BY <2>1 DEF Ask
  <2>3. waiting' = waiting \cup {w} /\ settings' = settings
    BY <1>4, <2>1 DEF AskPermission
  <2>4. SelectionKnown(w)
    BY <2>2, OthersKnown
  <2>5. PICK kept : kept = IF OnTop.stage = "permission-confirm"
                    THEN [OnTop EXCEPT !.pending = NoPreset, !.stage = OnTop.entry, !.index = 1] ELSE OnTop
    OBVIOUS
  <2>6. stack' = Front(stack) \/ Put(kept)
    BY <1>4, <2>5 DEF AskPermission
  <2>7. OnItsRow(kept, settings) /\ kept.kind = "config"
    BY <1>2, <1>4, <2>5 DEF OnItsRow
  <2>8. CASE stack' = Front(stack)
    BY <1>2, <1>4, <2>3, <2>4, <2>8, RowsLeft
  <2>9. CASE Put(kept)
    BY <1>1, <1>4, <2>3, <2>4, <2>7, <2>9
  <2> QED  BY <2>6, <2>8, <2>9
<1>5. ASSUME NEW stage \in {"root", "reasoning", "permissions", "plan"}, OpenMenu(stage)  PROVE RowsInv'
  <2>1. PICK v : v = ConfigMenu(stage)
    OBVIOUS
  <2>2. Placed(v, settings)
    BY <2>1 DEF ConfigMenu, Placed, OnItsRow
  <2>3. StackPlaced(stack', settings)
    BY <1>3, <1>5, <2>1, <2>2, PlacesMove DEF OpenMenu
  <2>4. \A w \in CatalogWanted(stage) : SelectionKnown(w)
    <3>1. Ask("catalog", Default).op = "catalog"
      BY DEF Ask
    <3> QED  BY <3>1, OthersKnown DEF CatalogWanted
  <2>5. \/ waiting' = Withdrawn("web") \cup CatalogWanted(stage) \cup {Status("web", "refresh")} /\ settings' = Awaiting("web")
        \/ waiting' = waiting \cup CatalogWanted(stage) /\ settings' = settings
    BY <1>5 DEF OpenMenu
  <2>6. CASE waiting' = Withdrawn("web") \cup CatalogWanted(stage) \cup {Status("web", "refresh")} /\ settings' = Awaiting("web")
    <3>1. \A w \in waiting' : w \in Withdrawn("web") \/ SelectionKnown(w)
      BY <2>4, <2>6, OthersKnown
    <3> QED  BY <2>3, <2>6, <3>1, PageAskedBeside
  <2>7. CASE waiting' = waiting \cup CatalogWanted(stage) /\ settings' = settings
    BY <2>3, <2>4, <2>7, RowsLeft
  <2> QED  BY <2>5, <2>6, <2>7
<1>6. ASSUME NEW key, MenuMoves(key)  PROVE RowsInv'
  <2>1. PICK count : count = Len(RowsOffered(OnTop.stage, settings))
    OBVIOUS
  <2>2. PICK v : v = [OnTop EXCEPT !.index = Moved_(OnTop.index, key, count)]
    OBVIOUS
  <2>3. Put(v) /\ settings' = settings /\ waiting' = waiting /\ Showing("config")
    BY <1>6, <2>1, <2>2 DEF MenuMoves
  <2>4. v.kind = "config" /\ v.stage = OnTop.stage /\ v.index = Moved_(OnTop.index, key, count)
    BY <1>2, <2>2, <2>3
  <2>5. count \in Nat /\ (OnTop.stage = "permission-confirm" => count = 1)
        /\ (OnTop.stage # "permission-confirm" => count = RowsHere(OnTop.stage, settings))
    <3>1. count \in Nat
      BY <2>1, RowsCountedIn DEF RowsInv
    <3>2. RowsOffered("permission-confirm", settings) = <<"confirm">>
      BY DEF RowsOffered
    <3> QED  BY <2>1, <3>1, <3>2 DEF RowsHere
  <2>6. OnTop.index \in Nat \ {0} /\ (OnTop.index = 1 \/ OnTop.index <= RowsHere(OnTop.stage, settings))
    BY <1>2, <2>3 DEF OnItsRow
  <2>7. RowsHere(OnTop.stage, settings) \in Nat
    BY RowsCountedIn DEF RowsInv, RowsHere
  <2>8. v.index \in Nat \ {0} /\ (v.index = 1 \/ v.index <= RowsHere(OnTop.stage, settings))
    BY <2>4, <2>5, <2>6, <2>7 DEF Moved_
  <2> QED  BY <1>1, <2>3, <2>4, <2>8 DEF OnItsRow
<1>7. CASE MenuBack
  <2>1. Showing("config") /\ settings' = settings /\ waiting' = waiting
    BY <1>7 DEF MenuBack
  <2>2. CASE stack' = Front(stack)
    BY <1>2, <2>1, <2>2, RowsLeft
  <2>3. CASE OnTop.stage = "permission-confirm" /\ OnTop.stage # OnTop.entry
    <3>1. PICK v : v = [OnTop EXCEPT !.stage = "permissions", !.pending = NoPreset]
      OBVIOUS
    <3>2. v.stage = "permissions" /\ v.index = OnTop.index /\ v.kind = "config"
      BY <1>2, <2>1, <3>1
    <3>3. OnItsRow(v, settings)
      BY <1>2, <2>1, <2>3, <3>2 DEF OnItsRow, RowsHere
    <3>4. Put(v)
      BY <1>7, <2>3, <3>1 DEF MenuBack
    <3> QED  BY <1>1, <2>1, <3>2, <3>3, <3>4
  <2>4. CASE OnTop.stage # OnTop.entry /\ OnTop.stage # "permission-confirm"
    <3>1. PICK v : v = [OnTop EXCEPT !.stage = "root", !.index = 1]
      OBVIOUS
    <3>2. v.index = 1 /\ v.kind = "config"
      BY <1>2, <2>1, <3>1
    <3>3. Put(v)
      BY <1>7, <2>4, <3>1 DEF MenuBack
    <3> QED  BY <1>1, <2>1, <3>2, <3>3 DEF OnItsRow
  <2>5. CASE OnTop.stage = OnTop.entry
    <3>1. OnTop.stage # "permission-confirm"
      BY <2>1, <2>5, StackMoves DEF ConfigInv, Showing, OnTop, Surface_
    <3>2. stack' = Front(stack)
      BY <1>7, <2>5, <3>1 DEF MenuBack
    <3> QED  BY <2>2, <3>2
  <2> QED  BY <2>3, <2>4, <2>5
<1>8. CASE MenuConfirms
  <2>1. Showing("config")
    BY <1>8 DEF MenuConfirms
  <2>2. CASE OnTop.stage = "permission-confirm"
    BY <1>4, <1>8, <2>1, <2>2 DEF MenuConfirms
  <2>3. CASE OnTop.stage # "permission-confirm"
    <3>1. PICK value : /\ EnterRow(value) \/ EnterEffort(value) \/ EnterPreset(value) \/ EnterPlan(value)
                       /\ OnTop.index \in DOMAIN RowsOffered(OnTop.stage, settings)
                       /\ value = RowsOffered(OnTop.stage, settings)[OnTop.index]
      BY <1>8, <2>3 DEF MenuConfirms
    <3>2. CASE EnterRow(value)
      <4>1. CASE value \in {"model"} \cup ValuePages
        <5>1. \E kind \in {"models"} \cup ValuePages : AskToOpen(kind, Front(stack))
          BY <3>2, <4>1 DEF EnterRow, ValuePages
        <5> QED  BY <1>2, <2>1, <5>1, OpeningBeside
      <4>2. CASE value = "details"
        <5>1. PICK s : s = [settings EXCEPT !.details = ~@]
          OBVIOUS
        <5>2. s.area = settings.area /\ s.epoch = settings.epoch /\ s.cataloged = settings.cataloged
              /\ s.chosen = settings.chosen /\ s.offered = settings.offered
          BY <5>1 DEF ConfigInv, SettingsKnown
        <5>3. settings' = s /\ stack' = stack /\ waiting' = waiting
          BY <3>2, <4>2, <5>1 DEF EnterRow, ValuePages
        <5> QED  BY <1>3, <5>2, <5>3, RowsLeft
      <4>3. CASE value \notin {"model", "details"} \cup ValuePages
        <5>1. PICK v : v = [OnTop EXCEPT !.stage = value, !.index = 1]
          OBVIOUS
        <5>2. Put(v) /\ settings' = settings /\ waiting' = waiting
          BY <3>2, <4>3, <5>1 DEF EnterRow
        <5>3. v.index = 1 /\ v.kind = "config"
          BY <1>2, <2>1, <5>1
        <5> QED  BY <1>1, <2>1, <5>2, <5>3 DEF OnItsRow
      <4> QED  BY <4>1, <4>2, <4>3
    <3>3. CASE EnterEffort(value)
      <4>1. /\ SelectModel(Selected_(settings.chosen.model, value), Ask("effort", value))
            /\ Republished(stack) /\ settings.epoch \in settings.cataloged /\ OnTop.stage = "reasoning"
        BY <3>3 DEF EnterEffort, Current, Cataloged
      <4>2. settings.chosen.model \in Model /\ Selectable(settings.chosen.model, value)
        BY <3>1, <4>1, RowsCountedIn DEF RowsInv, Held
      <4>3. DOMAIN Ask("effort", value) = AskFields
        BY Asked
      <4>4. Held(settings') /\ \A w \in waiting' : w \in waiting \/ SelectionKnown(w)
        BY <4>1, <4>2, <4>3, SelectionGoes
      <4> QED  BY <1>3, <4>1, <4>4, RowsMoved
    <3>4. CASE EnterPreset(value)
      <4>1. CASE Dangerous(value)
        <5>1. PICK v : v = [OnTop EXCEPT !.pending = value, !.stage = "permission-confirm"]
          OBVIOUS
        <5>2. v.index = OnTop.index /\ v.stage = "permission-confirm" /\ v.kind = "config"
          BY <1>2, <2>1, <5>1
        <5>3. OnItsRow(v, settings)
          BY <1>2, <2>1, <3>4, <5>2 DEF OnItsRow, RowsHere, EnterPreset
        <5>4. Put(v) /\ settings' = settings /\ waiting' = waiting
          BY <3>4, <4>1, <5>1 DEF EnterPreset
        <5> QED  BY <1>1, <2>1, <5>2, <5>3, <5>4
      <4>2. CASE ~Dangerous(value)
        BY <1>4, <2>1, <3>4, <4>2 DEF EnterPreset
      <4> QED  BY <4>1, <4>2
    <3>5. CASE EnterPlan(value)
      <4>1. Ask("plan", value).op = "plan"
        BY DEF Ask
      <4>2. waiting' = waiting \cup {Ask("plan", value)} /\ settings' = settings /\ stack' = stack
        BY <3>5 DEF EnterPlan
      <4> QED  BY <1>3, <4>1, <4>2, OthersKnown, RowsLeft
    <3> QED  BY <3>1, <3>2, <3>3, <3>4, <3>5
  <2> QED  BY <2>2, <2>3
<1> QED  BY <1>5, <1>6, <1>7, <1>8

\* Lemma: keys in the selector leave its cursors on a model and an effort, and choose those.
LEMMA SelectorRows ==
  ASSUME ConfigInv, RowsInv,
         \/ \E key \in {"previous", "next", "first", "last"} : SelectorMoves(key)
         \/ SelectorBack \/ SelectorConfirms \/ Named \/ Cycle
  PROVE  RowsInv'
<1>1. StackKnown(stack) /\ StackPlaced(stack, settings)
  BY DEF ConfigInv, RowsInv
<1>2. ASSUME Showing("models")
      PROVE  /\ InSelector(OnTop) /\ OnTop.kind = "models"
             /\ StackPlaced(Front(stack), settings) /\ StackKnown(Front(stack))
  BY <1>1, <1>2, PlacesMove, StackMoves DEF Showing, OnTop, Placed
<1>3. ASSUME NEW v, InSelector(v), v.kind = "models", Put(v), Showing("models"),
             settings' = settings, waiting' = waiting
      PROVE  RowsInv'
  <2>1. Placed(v, settings) /\ v.kind = Last(stack).kind /\ stack # <<>>
    BY <1>3 DEF Placed, Showing, OnTop
  <2>2. StackPlaced(stack', settings)
    BY <1>1, <1>3, <2>1, PlacesMove DEF Put
  <2> QED  BY <1>3, <2>2, RowsLeft
<1>4. ASSUME NEW key, SelectorMoves(key)  PROVE RowsInv'
  <2>1. /\ Showing("models") /\ key \in {"previous", "next"} /\ settings' = settings /\ waiting' = waiting
        /\ IF OnTop.stage = "model" THEN Put([OnTop EXCEPT !.index = Moved_(@, key, Cardinality(Model))])
           ELSE Put([OnTop EXCEPT !.effort = Moved_(@, key, Len(EffortChoices(ModelAt(OnTop.index))))])
    BY <1>4 DEF SelectorMoves
  <2>2. InSelector(OnTop) /\ OnTop.kind = "models" /\ Cardinality(Model) \in Nat \ {0}
    BY <1>2, <2>1, ModelsListed
  <2>3. CASE OnTop.stage = "model"
    <3>1. PICK v : v = [OnTop EXCEPT !.index = Moved_(@, key, Cardinality(Model))]
      OBVIOUS
    <3>2. /\ DOMAIN v = DOMAIN OnTop /\ v.kind = "models" /\ v.stage = "model"
          /\ v.index = Moved_(OnTop.index, key, Cardinality(Model))
      BY <2>2, <2>3, <3>1 DEF InSelector
    <3>3. v.index \in 1 .. Cardinality(Model)
      BY <2>1, <2>2, <3>2 DEF InSelector, Moved_
    <3>4. InSelector(v)
      BY <2>2, <3>2, <3>3 DEF InSelector
    <3> QED  BY <1>3, <2>1, <2>3, <3>1, <3>2, <3>4
  <2>4. CASE OnTop.stage # "model"
    <3>1. PICK count : count = Len(EffortChoices(ModelAt(OnTop.index)))
      OBVIOUS
    <3>2. PICK v : v = [OnTop EXCEPT !.effort = Moved_(@, key, count)]
      OBVIOUS
    <3>3. /\ DOMAIN v = DOMAIN OnTop /\ v.kind = "models" /\ v.stage = OnTop.stage /\ v.index = OnTop.index
          /\ v.effort = Moved_(OnTop.effort, key, count)
      BY <2>2, <3>2 DEF InSelector
    <3>4. OnTop.effort \in 1 .. count /\ count \in Nat
      <4>1. ModelAt(OnTop.index) \in Model
        BY <2>2, ModelsListed DEF InSelector
      <4>2. EffortChoices(ModelAt(OnTop.index)) \in Seq(EffortName)
        BY <4>1, EffortsListed
      <4> QED  BY <2>2, <2>4, <3>1, <4>2 DEF InSelector
    <3>5. v.effort \in 1 .. count
      BY <2>1, <3>3, <3>4 DEF Moved_
    <3>6. InSelector(v)
      BY <2>2, <3>1, <3>3, <3>5 DEF InSelector
    <3> QED  BY <1>3, <2>1, <2>4, <3>1, <3>2, <3>3, <3>6
  <2> QED  BY <2>3, <2>4
<1>5. CASE SelectorBack
  <2>1. Showing("models") /\ settings' = settings /\ waiting' = waiting
    BY <1>5 DEF SelectorBack
  <2>2. CASE OnTop.stage = "effort"
    <3>1. PICK v : v = [OnTop EXCEPT !.stage = "model"]
      OBVIOUS
    <3>2. InSelector(v) /\ v.kind = "models"
      BY <1>2, <2>1, <3>1 DEF InSelector
    <3>3. Put(v)
      BY <1>5, <2>2, <3>1 DEF SelectorBack
    <3> QED  BY <1>3, <2>1, <3>2, <3>3
  <2>3. CASE OnTop.stage # "effort"
    <3>1. stack' = Front(stack)
      BY <1>5, <2>3 DEF SelectorBack
    <3> QED  BY <1>2, <2>1, <3>1, RowsLeft
  <2> QED  BY <2>2, <2>3
<1>6. CASE SelectorConfirms
  <2>1. Showing("models")
    BY <1>6 DEF SelectorConfirms
  <2>2. PICK m : m = ModelAt(OnTop.index)
    OBVIOUS
  <2>3. m \in Model /\ InSelector(OnTop) /\ OnTop.kind = "models"
    BY <1>2, <2>1, <2>2, ModelsListed DEF InSelector
  <2>4. /\ EffortChoices(m) \in Seq(EffortName) /\ Len(EffortChoices(m)) # 1
        /\ \A i \in 1 .. Len(EffortChoices(m)) : Selectable(m, EffortChoices(m)[i])
    BY <2>3, EffortsListed
  <2>5. CASE OnTop.stage = "model" /\ Len(EffortChoices(m)) > 1
    <3>1. PICK now : /\ Put([OnTop EXCEPT !.stage = "effort", !.effort = PlaceOf(now, EffortChoices(m))])
                     /\ settings' = settings /\ waiting' = waiting
      BY <1>6, <2>2, <2>5 DEF SelectorConfirms
    <3>2. PICK v : v = [OnTop EXCEPT !.stage = "effort", !.effort = PlaceOf(now, EffortChoices(m))]
      OBVIOUS
    <3>3. EffortChoices(m) # <<>>
      BY <2>4, <2>5
    <3>4. PlaceOf(now, EffortChoices(m)) \in 1 .. Len(EffortChoices(m))
      BY <2>4, <3>3, Placing
    <3>5. InSelector(v) /\ v.kind = "models"
      BY <2>2, <2>3, <3>2, <3>4 DEF InSelector
    <3> QED  BY <1>3, <2>1, <3>1, <3>2, <3>5
  <2>6. CASE ~(OnTop.stage = "model" /\ Len(EffortChoices(m)) > 1)
    <3>1. PICK ask : ask = [Ask("pick", Default) EXCEPT !.asked = OnTop.asked]
      OBVIOUS
    <3>2. PICK effort : effort = IF EffortChoices(m) = <<>> THEN Default ELSE EffortChoices(m)[OnTop.effort]
      OBVIOUS
    <3>3. SelectModel(Selected_(m, effort), ask) /\ Republished(Front(stack))
      BY <1>6, <2>2, <2>6, <3>1, <3>2 DEF SelectorConfirms
    <3>4. DOMAIN ask = AskFields
      BY <3>1, Asked DEF AskFields
    <3>5. EffortChoices(m) # <<>> => OnTop.effort \in 1 .. Len(EffortChoices(m))
      <4>1. EffortChoices(m) # <<>> => Len(EffortChoices(m)) > 1
        <5>1. PICK c : c = EffortChoices(m)
          OBVIOUS
        <5>2. c \in Seq(EffortName) /\ Len(c) # 1
          BY <2>4, <5>1
        <5>3. c # <<>> => Len(c) \in Nat \ {0}
          BY <5>2, EmptySeq
        <5>4. c # <<>> => Len(c) > 1
          BY <5>2, <5>3
        <5> QED  BY <5>1, <5>4
      <4>2. EffortChoices(m) # <<>> => OnTop.stage = "effort"
        BY <2>3, <2>6, <4>1 DEF InSelector
      <4> QED  BY <2>2, <2>3, <4>2 DEF InSelector
    <3>6. Selectable(m, effort)
      BY <2>4, <3>2, <3>5 DEF Selectable
    <3>7. Held(settings') /\ \A w \in waiting' : w \in waiting \/ SelectionKnown(w)
      BY <2>3, <3>3, <3>4, <3>6, SelectionGoes
    <3> QED  BY <1>2, <2>1, <3>3, <3>7, RowsMoved
  <2> QED  BY <2>5, <2>6
<1>7. CASE Named
  <2>1. PICK m \in Model : waiting' = waiting \cup {Ask("named", m)} /\ settings' = settings /\ stack' = stack
    BY <1>7 DEF Named
  <2>2. Ask("named", m).op = "named" /\ Ask("named", m).value = m
    BY DEF Ask
  <2>3. SelectionKnown(Ask("named", m))
    BY <2>2 DEF SelectionKnown
  <2> QED  BY <1>1, <2>1, <2>3, RowsLeft
<1>8. CASE Cycle
  <2>1. Ask("cycle", Default).op = "cycle" /\ Ask("cycle", Default).by = "cycle" /\ DOMAIN Ask("cycle", Default) = AskFields
    BY DEF Ask, AskFields
  <2>2. CASE ~Cataloged
    <3>1. waiting' = waiting \cup {Ask("cycle", Default)} /\ settings' = settings /\ Republished(stack)
      BY <1>8, <2>2 DEF Cycle
    <3>2. SelectionKnown(Ask("cycle", Default)) /\ Held(settings')
      BY <2>1, <3>1 DEF SelectionKnown, RowsInv
    <3> QED  BY <1>1, <3>1, <3>2, RowsMoved
  <2>3. CASE Cataloged
    <3>1. SelectModel(Selected_(settings.chosen.model, NextEffort(Current)), Ask("cycle", Default)) /\ Republished(stack)
      BY <1>8, <2>3 DEF Cycle, Current
    <3>2. settings.chosen.model \in Model
      BY DEF RowsInv, Held
    <3>3. Held(settings') /\ \A w \in waiting' : w \in waiting \/ SelectionKnown(w)
      BY <2>1, <3>1, <3>2, SelectionGoes
    <3> QED  BY <1>1, <3>1, <3>3, RowsMoved
  <2> QED  BY <2>2, <2>3
<1> QED  BY <1>4, <1>5, <1>6, <1>7, <1>8

\* Lemma: keys on the pages, and surfaces that are asked for.
LEMMA PageRows ==
  ASSUME ConfigInv, RowsInv,
         \/ \E key \in {"previous", "next", "first", "last"} : PageMoves(key)
         \/ PageBack \/ PageConfirms \/ PageRefreshes
         \/ \E kind \in {"models"} \cup ValuePages : OpenRoute(kind)
  PROVE  RowsInv'
<1>1. StackKnown(stack) /\ StackPlaced(stack, settings)
  BY DEF ConfigInv, RowsInv
<1>2. stack # <<>> => StackPlaced(Front(stack), settings)
  BY <1>1, PlacesMove
<1>3. ASSUME NEW key, PageMoves(key)  PROVE RowsInv'
  <2>1. PICK index : /\ Put([OnTop EXCEPT !.index = index]) /\ stack # <<>> /\ OnTop.kind \in ValuePages
                     /\ settings' = settings /\ waiting' = waiting
    BY <1>3 DEF PageMoves
  <2>2. PICK v : v = [OnTop EXCEPT !.index = index]
    OBVIOUS
  <2>3. Surface_(OnTop)
    BY <1>1, <2>1, StackMoves DEF OnTop
  <2>4. v.kind = OnTop.kind
    BY <2>2, <2>3 DEF Surface_
  <2>5. Placed(v, settings)
    BY <2>1, <2>4 DEF Placed, ValuePages
  <2>6. StackPlaced(stack', settings)
    BY <1>1, <2>1, <2>2, <2>4, <2>5, PlacesMove DEF Put, OnTop
  <2> QED  BY <2>1, <2>6, RowsLeft
<1>4. CASE PageBack
  BY <1>2, <1>4, RowsLeft DEF PageBack
<1>5. CASE PageConfirms
  <2>1. PICK w : w = Store(OnTop.kind, PageValues[OnTop.index])
    OBVIOUS
  <2>2. w.op = "store"
    BY <2>1 DEF Store
  <2>3. waiting' = waiting \cup {w} /\ settings' = settings /\ stack' = stack
    BY <1>5, <2>1 DEF PageConfirms
  <2> QED  BY <1>1, <2>2, <2>3, OthersKnown, RowsLeft
<1>6. CASE PageRefreshes
  <2>1. waiting' = Withdrawn("web") \cup {Status("web", "refresh")} /\ settings' = Awaiting("web") /\ stack' = stack
    BY <1>6 DEF PageRefreshes
  <2>2. \A w \in waiting' : w \in Withdrawn("web") \/ SelectionKnown(w)
    BY <2>1, OthersKnown
  <2> QED  BY <1>1, <2>1, <2>2, PageAskedBeside
<1>7. ASSUME NEW kind \in {"models"} \cup ValuePages, OpenRoute(kind)  PROVE RowsInv'
  <2>1. AskToOpen(kind, stack)
    BY <1>7 DEF OpenRoute
  <2> QED  BY <1>1, <2>1, OpeningBeside
<1> QED  BY <1>3, <1>4, <1>5, <1>6, <1>7

\* Lemma: answers about models carry choices of a model, each for the Session it is sent for.
LEMMA ModelRows ==
  ASSUME ConfigInv, RowsInv, NEW w \in waiting,
         \/ CatalogAnswered(w) \/ SelectorAnswered(w) \/ ModelAnswered(w) \/ SelectAnswered(w)
         \/ PermissionAnswered(w) \/ PlanAnswered(w) \/ Fails(w)
  PROVE  RowsInv'
<1>1. StackKnown(stack) /\ StackPlaced(stack, settings) /\ SelectionKnown(w) /\ settings.chosen.model \in Model
  BY DEF ConfigInv, RowsInv, Held
<1>2. PICK held : held = Committed(w)
  OBVIOUS
<1>3. /\ DOMAIN held = DOMAIN settings /\ held.chosen = settings.chosen /\ held.offered = settings.offered
      /\ held.epoch = settings.epoch /\ Held(held)
  <2>1. held.chosen = settings.chosen /\ held.offered = settings.offered /\ held.epoch = settings.epoch
        /\ DOMAIN held = DOMAIN settings
    BY <1>2 DEF Committed, ConfigInv, SettingsKnown
  <2> QED  BY <2>1 DEF Held, RowsInv
<1>4. CASE CatalogAnswered(w)
  BY <1>1, <1>2, <1>3, <1>4, RowsMoved DEF CatalogAnswered
<1>5. CASE SelectorAnswered(w)
  <2>1. settings' = held /\ waiting' = waiting \ {w}
    BY <1>2, <1>5 DEF SelectorAnswered
  <2>2. CASE OpensFor(stack) /\ w.asked = settings.epoch
    <3>1. PICK v : v = Selector(Current)
      OBVIOUS
    <3>2. /\ DOMAIN v = {"kind", "asked", "current", "stage", "index", "effort"}
          /\ v.kind = "models" /\ v.stage = "model" /\ v.index = RowOf(Current.model)
      BY <3>1 DEF Selector
    <3>3. RowOf(Current.model) \in 1 .. Cardinality(Model)
      <4>1. SetToSeq(Model) # <<>>
        BY ModelsListed
      <4> QED  BY <4>1, ModelsListed, Placing DEF RowOf
    <3>4. Placed(v, held)
      BY <3>2, <3>3 DEF Placed, InSelector
    <3>5. stack' = Append(stack, v) /\ stack = <<>>
      BY <1>5, <2>2, <3>1 DEF SelectorAnswered, OpensFor
    <3>6. StackPlaced(stack, held)
      <4>1. Len(stack) = 0
        BY <3>5
      <4> QED  BY <4>1 DEF StackPlaced
    <3>7. StackPlaced(stack', held)
      BY <1>1, <3>4, <3>5, <3>6, PlacesMove
    <3> QED  BY <1>3, <2>1, <3>7 DEF RowsInv
  <2>3. CASE ~(OpensFor(stack) /\ w.asked = settings.epoch)
    BY <1>1, <1>3, <1>5, <2>1, <2>3, RowsMoved DEF SelectorAnswered
  <2> QED  BY <2>2, <2>3
<1>6. CASE ModelAnswered(w)
  <2>1. /\ w.op \in {"named", "effort", "cycle"} /\ Republished(stack)
        /\ IF w.op = "cycle" /\ settings.epoch \notin held.cataloged
           THEN /\ waiting' = (waiting \ {w}) \cup
                     (IF EffortsOf[Current.model] = <<>> THEN {} ELSE {[Ask("effort", NextEffort(Current)) EXCEPT !.by = "cycle"]})
                /\ settings' = held
           ELSE \E busy \in BOOLEAN, ask \in {IF w.op = "cycle" THEN [w EXCEPT !.asked = settings.epoch] ELSE w} :
                  IF ask.asked = settings.epoch /\ ~busy /\ (w.op = "cycle" => EffortsOf[Current.model] # <<>>)
                  THEN IF settings.epoch = DraftEpoch
                       THEN settings' = [held EXCEPT !.chosen = SelectionOf(w)] /\ waiting' = waiting \ {w}
                       ELSE /\ waiting' = (waiting \ {w}) \cup
                                 {[ask EXCEPT !.op = "select", !.value = SelectionOf(w), !.sent = settings.epoch]}
                            /\ settings' = held
                  ELSE waiting' = waiting \ {w} /\ settings' = held
    BY <1>2, <1>6 DEF ModelAnswered
  <2>2. CASE w.op = "cycle" /\ settings.epoch \notin held.cataloged
    <3>1. PICK n : n = [Ask("effort", NextEffort(Current)) EXCEPT !.by = "cycle"]
      OBVIOUS
    <3>2. n.op = "effort" /\ n.by = "cycle"
      BY <3>1 DEF Ask
    <3>3. SelectionKnown(n)
      BY <3>2 DEF SelectionKnown
    <3>4. \A u \in waiting' : u \in waiting \/ SelectionKnown(u)
      BY <2>1, <2>2, <3>1, <3>3
    <3>5. settings' = held
      BY <2>1, <2>2
    <3> QED  BY <1>1, <1>3, <2>1, <3>4, <3>5, RowsMoved
  <2>3. CASE ~(w.op = "cycle" /\ settings.epoch \notin held.cataloged)
    <3>1. PICK ask : ask = IF w.op = "cycle" THEN [w EXCEPT !.asked = settings.epoch] ELSE w
      OBVIOUS
    <3>2. PICK selection : selection = SelectionOf(w)
      OBVIOUS
    <3>3. PICK n : n = [ask EXCEPT !.op = "select", !.value = selection, !.sent = settings.epoch]
      OBVIOUS
    <3>4. \/ settings' = held /\ waiting' = waiting \ {w}
          \/ settings' = [held EXCEPT !.chosen = selection] /\ waiting' = waiting \ {w}
          \/ settings' = held /\ waiting' = (waiting \ {w}) \cup {n} /\ ask.asked = settings.epoch
      BY <2>1, <2>3, <3>1, <3>2, <3>3
    <3>5. DOMAIN w = AskFields
      BY <2>1 DEF ConfigInv, WaitsKnown, Plain, OfPage
    <3>6. selection.model \in Model /\ (w.op = "named" => selection.effort = Default)
      <4>1. CASE w.op = "named"
        BY <1>1, <3>2, <4>1 DEF SelectionOf, Selected_, SelectionKnown
      <4>2. CASE w.op = "effort"
        BY <1>1, <3>2, <4>2 DEF SelectionOf, Selected_, Current
      <4>3. CASE w.op = "cycle"
        BY <1>1, <3>2, <4>3 DEF SelectionOf, Selected_, Current
      <4> QED  BY <2>1, <4>1, <4>2, <4>3
    <3>7. DOMAIN ask = AskFields /\ ask.op = w.op /\ ask.by = w.by
      BY <3>1, <3>5 DEF AskFields
    <3>8. n.op = "select" /\ n.value = selection /\ n.sent = settings.epoch /\ n.asked = ask.asked /\ n.by = w.by
      BY <3>3, <3>7 DEF AskFields
    <3>9. w.op # "named" => w.by = "cycle"
      BY <1>1, <2>1 DEF SelectionKnown
    <3>10. ask.asked = settings.epoch => SelectionKnown(n)
      BY <3>6, <3>8, <3>9 DEF SelectionKnown, Selectable
    <3>11. \A u \in waiting' : u \in waiting \/ SelectionKnown(u)
      BY <3>4, <3>10
    <3>12. PICK s : s = [held EXCEPT !.chosen = selection]
      OBVIOUS
    <3>13. Held(s)
      <4>1. s.chosen = selection /\ s.offered = held.offered
        BY <1>3, <3>12 DEF ConfigInv, SettingsKnown
      <4> QED  BY <1>3, <3>6, <4>1 DEF Held
    <3>14. Held(settings')
      BY <1>3, <3>4, <3>12, <3>13
    <3> QED  BY <1>1, <2>1, <3>11, <3>14, RowsMoved
  <2> QED  BY <2>2, <2>3
<1>7. CASE SelectAnswered(w)
  <2>1. PICK s : s = [settings EXCEPT !.chosen = w.value]
    OBVIOUS
  <2>2. w.op = "select" /\ settings' \in {s, settings} /\ Republished(stack) /\ waiting' = waiting \ {w}
    BY <1>7, <2>1 DEF SelectAnswered
  <2>3. w.value.model \in Model
    BY <1>1, <2>2 DEF SelectionKnown
  <2>4. s.chosen = w.value /\ s.offered = settings.offered
    BY <2>1 DEF ConfigInv, SettingsKnown
  <2>5. Held(settings')
    BY <2>2, <2>3, <2>4 DEF Held, RowsInv
  <2> QED  BY <1>1, <2>2, <2>5, RowsMoved
<1>8. CASE PermissionAnswered(w)
  BY <1>1, <1>8, RowsLeft DEF PermissionAnswered
<1>9. CASE PlanAnswered(w)
  <2>1. \E a : settings' = settings \/ settings' = [settings EXCEPT !.plan = a]
    <3>1. \A a : [settings EXCEPT !.plan.pending = a] = [settings EXCEPT !.plan = [settings.plan EXCEPT !.pending = a]]
      OBVIOUS
    <3>2. \A a : [settings EXCEPT !.plan.active = a] = [settings EXCEPT !.plan = [settings.plan EXCEPT !.active = a]]
      OBVIOUS
    <3>3. \/ settings' = settings
          \/ \E a : settings' = [settings EXCEPT !.plan.pending = a]
          \/ \E a : settings' = [settings EXCEPT !.plan.active = a]
      BY <1>9 DEF PlanAnswered
    <3> QED  BY <3>1, <3>2, <3>3
  <2>2. settings'.area = settings.area /\ settings'.epoch = settings.epoch /\ settings'.cataloged = settings.cataloged
        /\ settings'.chosen = settings.chosen /\ settings'.offered = settings.offered
    BY <2>1 DEF ConfigInv, SettingsKnown
  <2> QED  BY <1>1, <1>9, <2>2, RowsLeft DEF PlanAnswered
<1>10. CASE Fails(w)
  <2>1. PICK s : s = Counted(settings)
    OBVIOUS
  <2>2. s.area = settings.area /\ s.epoch = settings.epoch /\ s.cataloged = settings.cataloged
        /\ s.chosen = settings.chosen /\ s.offered = settings.offered
    BY <2>1 DEF Counted, ConfigInv, SettingsKnown
  <2>3. settings' = s /\ waiting' = waiting \ {w} /\ stack' = stack
    BY <1>10, <2>1 DEF Fails
  <2> QED  BY <1>1, <2>2, <2>3, RowsLeft
<1> QED  BY <1>4, <1>5, <1>6, <1>7, <1>8, <1>9, <1>10

\* Lemma: answers about the pages open one only where nothing is shown.
LEMMA PageAnsweredRows ==
  ASSUME ConfigInv, RowsInv, NEW w \in waiting, StatusAnswered(w) \/ StoreAnswered(w)
  PROVE  RowsInv'
<1>1. StackKnown(stack) /\ StackPlaced(stack, settings)
  BY DEF ConfigInv, RowsInv
<1>2. w.op \in {"status", "store"} => OfPage(w, settings.stored)
  BY DEF ConfigInv, WaitsKnown, Plain
<1>3. CASE StatusAnswered(w)
  <2>1. PICK index : stack' = stack \/ (stack = <<>> /\ stack' = Append(stack, [kind |-> w.about, index |-> index]))
    BY <1>3 DEF StatusAnswered, OpensFor
  <2>2. w.about \in ValuePages
    BY <1>2, <1>3 DEF StatusAnswered, OfPage
  <2>3. Placed([kind |-> w.about, index |-> index], settings)
    BY <2>2 DEF Placed, ValuePages
  <2>4. StackPlaced(stack', settings)
    BY <1>1, <2>1, <2>3, PlacesMove
  <2>5. PICK h : settings' = [settings EXCEPT !.held = h]
    BY <1>3 DEF StatusAnswered
  <2>6. settings'.area = settings.area /\ settings'.epoch = settings.epoch /\ settings'.cataloged = settings.cataloged
        /\ settings'.chosen = settings.chosen /\ settings'.offered = settings.offered
    BY <2>5 DEF ConfigInv, SettingsKnown
  <2> QED  BY <1>3, <2>4, <2>6, RowsLeft DEF StatusAnswered
<1>4. CASE StoreAnswered(w)
  <2>1. PICK a, b : settings' = [[settings EXCEPT !.held = a] EXCEPT !.stored = b]
    BY <1>4 DEF StoreAnswered, Awaiting
  <2>2. settings'.area = settings.area /\ settings'.epoch = settings.epoch /\ settings'.cataloged = settings.cataloged
        /\ settings'.chosen = settings.chosen /\ settings'.offered = settings.offered
    BY <2>1 DEF ConfigInv, SettingsKnown
  <2>3. PICK n : n = [Status(w.about, "refresh") EXCEPT !.value = w.value]
    OBVIOUS
  <2>4. n.op = "status"
    BY <2>3 DEF Status
  <2>5. waiting' = (Withdrawn(w.about) \ {w}) \cup {n} /\ stack' = stack
    BY <1>4, <2>3 DEF StoreAnswered
  <2>6. \A u \in waiting' : u \in waiting \/ SelectionKnown(u)
    BY <2>4, <2>5, OthersKnown
  <2> QED  BY <1>1, <2>2, <2>5, <2>6, RowsLeft
<1> QED  BY <1>3, <1>4

\* Lemma: another Session, changes elsewhere and approvals.
LEMMA ElsewhereRows == ConfigInv /\ RowsInv /\ (BindSession \/ Elsewhere \/ Approval) => RowsInv'
<1> SUFFICES ASSUME ConfigInv, RowsInv, BindSession \/ Elsewhere \/ Approval  PROVE RowsInv'
  OBVIOUS
<1>1. StackKnown(stack) /\ StackPlaced(stack, settings) /\ Held(settings)
  BY DEF ConfigInv, RowsInv
<1>2. DOMAIN settings = {"area", "epoch", "cataloged", "chosen", "offered", "plan", "details", "stored", "held", "changes"}
  BY DEF ConfigInv, SettingsKnown
<1>3. /\ Counted(settings).area = settings.area /\ Counted(settings).epoch = settings.epoch
      /\ Counted(settings).cataloged = settings.cataloged /\ Counted(settings).chosen = settings.chosen
      /\ Counted(settings).offered = settings.offered /\ DOMAIN Counted(settings) = DOMAIN settings
  BY <1>2 DEF Counted
<1>4. CASE BindSession
  <2>1. PICK a, b, c : settings' = [Counted(settings) EXCEPT !.epoch = a, !.chosen = Selected_(AnyModel, Default),
                                                             !.plan = b, !.cataloged = c]
    BY <1>4 DEF BindSession
  <2>2. settings'.chosen = Selected_(AnyModel, Default) /\ settings'.offered = settings.offered
    BY <1>2, <1>3, <2>1
  <2>3. AnyModel \in Model
    BY ConfigurationAssumption DEF AnyModel, Model
  <2>4. Held(settings')
    BY <1>1, <2>2, <2>3 DEF Held, Selected_
  <2> QED  BY <1>1, <1>4, <2>4, RowsMoved DEF BindSession
<1>5. CASE Elsewhere
  <2>1. \/ \E m \in Model : settings' = [Counted(settings) EXCEPT !.chosen = Selected_(m, Default)]
        \/ settings' = [Counted(settings) EXCEPT !.offered = IF Len(@) = 1 THEN <<"ask", Danger>> ELSE <<Danger>>]
        \/ \E a : settings' = [Counted(settings) EXCEPT !.plan = a]
    BY <1>5 DEF Elsewhere
  <2>2. CASE \E m \in Model : settings' = [Counted(settings) EXCEPT !.chosen = Selected_(m, Default)]
    <3>1. PICK m \in Model : settings' = [Counted(settings) EXCEPT !.chosen = Selected_(m, Default)]
      BY <2>2
    <3>2. settings'.chosen = Selected_(m, Default) /\ settings'.offered = settings.offered
      BY <1>2, <1>3, <3>1
    <3>3. Held(settings')
      BY <1>1, <3>2 DEF Held, Selected_
    <3> QED  BY <1>1, <1>5, <3>3, RowsMoved DEF Elsewhere
  <2>3. CASE settings' = [Counted(settings) EXCEPT !.offered = IF Len(@) = 1 THEN <<"ask", Danger>> ELSE <<Danger>>]
    <3>1. settings'.chosen = settings.chosen /\ settings'.offered \in {<<"ask", Danger>>, <<Danger>>}
      BY <1>2, <1>3, <2>3
    <3>2. Held(settings')
      BY <1>1, <3>1 DEF Held
    <3> QED  BY <1>1, <1>5, <3>2, RowsMoved DEF Elsewhere
  <2>4. CASE \E a : settings' = [Counted(settings) EXCEPT !.plan = a]
    <3>1. settings'.chosen = settings.chosen /\ settings'.offered = settings.offered
      BY <1>2, <1>3, <2>4
    <3>2. Held(settings')
      BY <1>1, <3>1 DEF Held
    <3> QED  BY <1>1, <1>5, <3>2, RowsMoved DEF Elsewhere
  <2> QED  BY <2>1, <2>2, <2>3, <2>4
<1>6. CASE Approval
  <2>1. /\ waiting' = waiting /\ settings' \in {settings, Counted(settings)}
        /\ stack' = Append(stack, [kind |-> "approval"]) \/ (stack # <<>> /\ stack' = Front(stack))
    BY <1>6 DEF Approval, Showing
  <2>2. StackPlaced(stack', settings)
    BY <1>1, <2>1, PlacesMove
  <2>3. settings'.area = settings.area /\ settings'.epoch = settings.epoch /\ settings'.cataloged = settings.cataloged
        /\ settings'.chosen = settings.chosen /\ settings'.offered = settings.offered
    BY <1>3, <2>1
  <2> QED  BY <2>1, <2>2, <2>3, RowsLeft
<1> QED  BY <1>4, <1>5, <1>6

\* Lemma: every key, every answer and every change elsewhere keeps the rows.
LEMMA RowsStep == ConfigInv /\ RowsInv /\ [ConfigurationNext]_configurationVars => RowsInv'
<1> SUFFICES ASSUME ConfigInv, RowsInv, [ConfigurationNext]_configurationVars  PROVE RowsInv'
  OBVIOUS
<1>1. CASE UNCHANGED configurationVars
  <2>1. settings' = settings /\ stack' = stack /\ waiting' = waiting
    BY <1>1 DEF configurationVars
  <2> QED  BY <2>1 DEF RowsInv
<1>2. ASSUME NEW key \in {"previous", "next", "first", "last"}, MenuMoves(key) \/ SelectorMoves(key) \/ PageMoves(key)
      PROVE  RowsInv'
  BY <1>2, MenuRows, SelectorRows, PageRows
<1>3. ASSUME NEW w \in waiting,
             \/ CatalogAnswered(w) \/ SelectorAnswered(w) \/ ModelAnswered(w) \/ SelectAnswered(w)
             \/ PermissionAnswered(w) \/ PlanAnswered(w) \/ StatusAnswered(w) \/ StoreAnswered(w) \/ Fails(w)
      PROVE  RowsInv'
  BY <1>3, ModelRows, PageAnsweredRows
<1>4. CASE (\E stage \in {"root", "reasoning", "permissions", "plan"} : OpenMenu(stage)) \/ MenuBack \/ MenuConfirms
  BY <1>4, MenuRows
<1>5. CASE SelectorBack \/ SelectorConfirms \/ Named \/ Cycle
  BY <1>5, SelectorRows
<1>6. CASE (\E kind \in {"models"} \cup ValuePages : OpenRoute(kind)) \/ PageBack \/ PageConfirms \/ PageRefreshes
  BY <1>6, PageRows
<1>7. CASE BindSession \/ Elsewhere \/ Approval
  BY <1>7, ElsewhereRows
<1> QED  BY <1>1, <1>2, <1>3, <1>4, <1>5, <1>6, <1>7 DEF ConfigurationNext

\* Lemma: nothing is open or asked at first, and a model that has efforts is chosen.
LEMMA RowsInitial == ConfigurationInit => RowsInv
<1> SUFFICES ASSUME ConfigurationInit  PROVE RowsInv
  OBVIOUS
<1>1. waiting = {} /\ stack = <<>> /\ settings.chosen = Selected_(AnyModel, Default) /\ settings.offered = <<"ask", Danger>>
  BY DEF ConfigurationInit
<1>2. AnyModel \in Model
  BY ConfigurationAssumption DEF AnyModel, Model
<1>3. Held(settings)
  BY <1>1, <1>2 DEF Held, Selected_
<1>4. StackPlaced(stack, settings)
  <2>1. Len(stack) = 0
    BY <1>1
  <2> QED  BY <2>1 DEF StackPlaced
<1> QED  BY <1>1, <1>3, <1>4 DEF RowsInv

\* Theorem: a model is asked of the Host for the Session in which it was chosen,
\* with an effort that it has; unrestricted access only from its confirmation,
\* shown exactly while it is pending; no late answer opens a surface over
\* another one or leaves a cursor of the menu beyond its rows; and the status
\* that was asked for last shows, once it is answered, what is stored.
THEOREM SettingsStayCurrent ==
  ConfigurationInit /\ [][ConfigurationNext]_configurationVars => []ConfigurationCurrent
<1>1. ASSUME ConfigInv, RowsInv  PROVE ConfigurationCurrent
  <2>1. StatusCurrent
    BY <1>1 DEF ConfigInv, SettingsKnown, StatusCurrent
  <2>2. \A w \in waiting : w.op = "permission" /\ w.value = Danger => w.by = "permission-confirm"
    BY <1>1 DEF ConfigInv, WaitsKnown, Plain, OfPage
  <2>3. DOMAIN stack = 1 .. Len(stack)
    BY <1>1 DEF ConfigInv, StackKnown
  <2>4. \A i \in 1 .. Len(stack) : Surface_(stack[i]) /\ Placed(stack[i], settings) /\ (stack[i].kind \in Own => i = 1)
    BY <1>1 DEF ConfigInv, StackKnown, RowsInv, StackPlaced
  <2>5. DangerConfirmed
    BY <2>2, <2>3, <2>4 DEF DangerConfirmed, Surface_
  <2>6. ASSUME NEW i \in DOMAIN stack, stack[i].kind = "config", stack[i].stage # "permission-confirm"
        PROVE  stack[i].index = 1 \/ stack[i].index <= Len(RowsOffered(stack[i].stage, settings))
    BY <2>3, <2>4, <2>6 DEF Placed, OnItsRow, RowsHere
  <2>7. OpensAlone
    BY <2>3, <2>4, <2>6 DEF OpensAlone
  <2>8. ModelForItsSession
    BY <1>1 DEF RowsInv, SelectionKnown, Selectable, ModelForItsSession
  <2> QED  BY <2>1, <2>5, <2>7, <2>8 DEF ConfigurationCurrent
<1> QED  BY <1>1, ConfigInitial, ConfigStep, RowsInitial, RowsStep, PTL
=============================================================================
