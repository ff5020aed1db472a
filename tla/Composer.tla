------------------------------ MODULE Composer ------------------------------
(* The Composer: the editor's text, the images attached to it and the        *)
(* submissions on their way to the Session manager                           *)
(* (packages/tui/src/modules/composer, application/create-session-features). *)
(*                                                                           *)
(* A text is a sequence of tokens: a word, the slash of a command, or the    *)
(* number N of a reference "[Image #N]".  An attached image is a draft with  *)
(* the number of its reference.  The composer is replaced as a whole when    *)
(* the Session or the local draft changes; what is still running of an older *)
(* one acts on that older one only, which nobody reads any more.             *)
EXTENDS Naturals, Sequences, FiniteSets, Folds, FiniteSetsExt

CONSTANTS
  Word, Command, \* tokens of a text that are not references
  MaxMarker,     \* bound: largest reference number
  MaxLength,     \* bound: tokens of a text
  Typed,         \* bound: the texts that Edit leaves
  MaxTokens,     \* bound: tokens of the text and the submissions on their way
  MaxImage,      \* bound: images ever attached
  MaxCall,       \* bound: submissions ever made
  MaxEpoch,      \* bound: replacements of the feature set
  NoDraft        \* "no draft to recover"

ASSUME ComposerBounds ==
  /\ {MaxMarker, MaxLength, MaxImage, MaxCall, MaxEpoch} \subseteq Nat
  /\ {Word, Command} \cap Nat = {}

Marker == 1 .. MaxMarker
Epoch == 0 .. MaxEpoch
Call == 1 .. MaxCall
Text == UNION {[1 .. n -> {Word, Command} \cup Marker] : n \in 0 .. MaxLength}

ASSUME TypedIsText == Typed \subseteq Text

Draft == [image : 1 .. MaxImage, marker : Marker, home : Epoch]

VARIABLES
  epoch,     \* number of the installed feature set
  identity,  \* it belongs to a Session, not to the local draft
  opening,   \* creation of a Session: "none", "creating", "following" (visible)
  composer,  \* the installed composer
  paste,     \* reference of the clipboard image being loaded, or 0
  calls,     \* submissions
  made,      \* history: images attached so far
  since      \* history: first feature set whose input this composer may hold

vars == <<epoch, identity, opening, composer, paste, calls, made, since>>

-----------------------------------------------------------------------------
(* Texts                                                                     *)

Shown(marker, text) == \E i \in DOMAIN text : text[i] = marker

InsertedAt(text, i, token) == SubSeq(text, 1, i) \o <<token>> \o SubSeq(text, i + 1, Len(text))

\* removeImageMarker().
WithoutMarkers(text, markers) == SelectSeq(text, LAMBDA token : token \notin markers)

IsCommand(text) == text # <<>> /\ text[1] = Command

\* The images of a prompt, in the order of their references.
ImagesOf(text, drafts) ==
  LET bound == SelectSeq(text, LAMBDA token : \E d \in drafts : d.marker = token)
  IN  [i \in DOMAIN bound |-> (CHOOSE d \in drafts : d.marker = bound[i]).image]

\* compilePromptDocument(): exactly one reference for each draft.
Compiles(text, drafts) ==
  /\ \A d, e \in drafts : d.marker = e.marker => d = e
  /\ \A d \in drafts : Cardinality({i \in DOMAIN text : text[i] = d.marker}) = 1

-----------------------------------------------------------------------------
(* One composer: its operators take it to the next value                     *)

EmptyComposer ==
  [text |-> <<>>, active |-> {}, detached |-> {}, reserved |-> 0, next |-> 1,
   recover |-> NoDraft]

\* The input controller forgets the recoverable draft when the text or the
\* attachments are no longer what it left there.
ObserveText(c) ==
  IF c.recover # NoDraft /\ c.text # (IF c.recover.visible THEN c.recover.text ELSE <<>>)
  THEN [c EXCEPT !.recover = NoDraft] ELSE c

ObserveAttachments(c) ==
  IF c.recover # NoDraft /\ c.active # (IF c.recover.visible THEN c.recover.active ELSE {})
  THEN [c EXCEPT !.recover = NoDraft] ELSE c

\* The drafts that a text refers to.
Bound(c, text) == {d \in c.active \cup c.detached : Shown(d.marker, text)}

\* Mutant: detached drafts are forgotten instead of kept for their reference.
ReconciledForgetting(c, text) ==
  LET bound == {d \in c.active : Shown(d.marker, text)}
  IN  IF bound = c.active THEN c
      ELSE ObserveAttachments([c EXCEPT !.active = bound, !.detached = {}])

\* reconcileText(): the drafts whose reference occurs in text, whichever text
\* that is, are active, the others detached.
Reconciled(c, text) ==
  LET bound == Bound(c, text)
  IN  IF bound = c.active THEN c
      ELSE ObserveAttachments([c EXCEPT !.active = bound,
                                        !.detached = (c.active \cup c.detached) \ bound])

\* Mutant: a programmatic change of the text is not observed.
SetTextUnobserved(c, text) == Reconciled([c EXCEPT !.text = text], text)

\* The editor's onChange, on typing as on setText() and insertTextAtCursor().
SetText(c, text) == ObserveText(Reconciled([c EXCEPT !.text = text], text))

\* advanceMarkerCounter().
Beyond(next, drafts) ==
  CHOOSE n \in next .. next + MaxMarker :
    /\ \A d \in drafts : d.marker < n
    /\ n = next \/ \E d \in drafts : d.marker = n - 1

ReplacedAll(c, drafts) ==
  IF c.detached = {} /\ c.reserved = 0 /\ drafts = c.active THEN c
  ELSE ObserveAttachments([c EXCEPT !.active = drafts, !.detached = {}, !.reserved = 0,
                                    !.next = Beyond(1, drafts)])

Clear(c) ==
  LET cleared == [c EXCEPT !.active = {}, !.detached = {}, !.reserved = 0, !.next = 1]
  IN  IF c.active = {} /\ c.detached = {} /\ c.reserved = 0
      THEN cleared ELSE ObserveAttachments(cleared)

\* Mutant: a failed submission keeps its drafts.
RestoreNothing(c, drafts) == c

\* restore(): the drafts of a failed submission come back.
Restore(c, drafts) ==
  LET missing == drafts \ (c.active \cup c.detached)
      active == missing \cup c.active
  IN  IF missing = {} THEN c
      ELSE ObserveAttachments([c EXCEPT !.active = active, !.next = Beyond(@, active)])

DiscardDetached(c) ==
  IF c.detached = {} THEN c
  ELSE ObserveAttachments([c EXCEPT !.detached = {},
                             !.next = IF c.active = {} /\ c.reserved = 0 THEN 1 ELSE @])

\* The reference numbers reserve() may take; it takes the least one.
Free(c) ==
  {m \in Marker : /\ m >= c.next
                  /\ ~Shown(m, c.text)
                  /\ m # c.reserved
                  /\ \A d \in c.active : d.marker # m}

\* The numbers that stand for an image, or for one being loaded.
Placeholders(c) == {d.marker : d \in c.active \cup c.detached} \cup ({c.reserved} \ {0})

LeastFree(c) == CHOOSE m \in Free(c) : \A n \in Free(c) : m <= n

\* reserveImageMarker(): the reference is put at the cursor, before token i + 1.
Marked(c, i, m) == SetText([c EXCEPT !.next = m + 1], InsertedAt(c.text, i, m))

Complete(c, draft) ==
  ObserveAttachments([c EXCEPT !.reserved = 0, !.active = @ \cup {draft}])

RemoveMarker(c, marker) ==
  IF Shown(marker, c.text) THEN SetText(c, WithoutMarkers(c.text, {marker})) ELSE c

\* Mutant: a reservation whose reference went away is not released.
DiscardNothing(c) == c

Discard(c) == IF c.reserved = 0 THEN c ELSE ObserveAttachments([c EXCEPT !.reserved = 0])

ResetInput(c) == [c EXCEPT !.recover = NoDraft]

RestoreDraft(c, text, drafts) == ReplacedAll(SetText(ResetInput(c), text), drafts)

\* A failed submission gives its text back unless something newer was typed.
PutBack(c, text) == IF c.text = <<>> THEN SetText(c, text) ELSE c

\* rememberDraft() and the clear-draft action.
RememberAndClear(c) ==
  IF c.text = <<>> /\ c.active = {} THEN c
  ELSE Clear(SetText([c EXCEPT !.recover =
         [text |-> c.text, active |-> c.active, visible |-> FALSE]], <<>>))

-----------------------------------------------------------------------------
(* Submissions.  A state here is the pair of the composer and the calls.     *)

NoCall ==
  [phase |-> "idle", text |-> <<>>, fromEditor |-> FALSE, epoch |-> 0, drafts |-> {},
   want |-> <<>>, touched |-> FALSE, aborted |-> FALSE]

\* What is left of a call that ended.
Ended(phase) == [NoCall EXCEPT !.phase = phase]

\* The coordinator of the installed composer prepares or sends a submission.
Busy(cs) ==
  \E k \in Call : /\ cs[k].phase \in {"held", "preparing", "sending"}
                  /\ cs[k].drafts # {}
                  /\ cs[k].epoch = epoch

\* A submission that fails before anything was taken from the composer.
Refused(s, k, text) ==
  [c |-> PutBack(s.c, text),
   calls |-> [s.calls EXCEPT ![k] = Ended("failed")]]

\* The end of ComposerProcess.submit(): a prompt of text only, or of images.
\* Preparation takes the drafts at once, unless the manager still awaits the
\* first frame of the Session (hold).
Prompted(s, k, text, ready, hold) ==
  LET call == [s.calls[k] EXCEPT !.text = text, !.epoch = epoch, !.drafts = s.c.active,
                                 !.want = <<>>, !.touched = FALSE, !.fromEditor = FALSE]
  IN  IF s.c.active = {}
      THEN [s EXCEPT !.calls[k] = [call EXCEPT !.phase = "sending"]]
      ELSE IF ~ready \/ Busy(s.calls) \/ ~Compiles(text, s.c.active)
      THEN Refused(s, k, text)
      ELSE [c |-> IF hold THEN s.c ELSE Clear(s.c),
            calls |-> [s.calls EXCEPT ![k] =
                        [call EXCEPT !.phase = IF hold THEN "held" ELSE "preparing"]]]

\* ComposerProcess.submit(): prepareInput() first binds the drafts the text
\* refers to.
Submitted(s, k, text, ready, hold) ==
  LET bound == [s EXCEPT !.c = Reconciled(@, text)]
  IN  IF text = <<>> /\ bound.c.active = {}
      THEN [bound EXCEPT !.calls[k] = Ended("done")]
      ELSE IF IsCommand(text)
      THEN [bound EXCEPT !.calls[k] = [@ EXCEPT !.phase = "command", !.text = text,
                                         !.epoch = epoch, !.drafts = bound.c.active]]
      ELSE Prompted(bound, k, text, ready, hold)

\* submitEditor(): what the editor holds now is submitted.
EditorSubmitted(s, k, ready, hold) ==
  LET text == s.c.text
      call == [s.calls[k] EXCEPT !.want = ImagesOf(text, Bound(s.c, text)), !.touched = FALSE]
  IN  IF text = <<>> /\ s.c.active = {}
      THEN [s EXCEPT !.calls[k] = Ended("done")]
      ELSE Submitted([c |-> SetText(ResetInput(s.c), <<>>), calls |-> [s.calls EXCEPT ![k] = call]],
                     k, text, ready, hold)

Admitted(s, k, ready) ==
  IF s.calls[k].fromEditor THEN EditorSubmitted(s, k, ready, FALSE)
  ELSE Submitted(s, k, s.calls[k].text, ready, FALSE)

\* The admission failed: the input is kept for a retry.
AdmissionFailed(s, k) ==
  [c |-> PutBack(s.c, s.calls[k].text), calls |-> [s.calls EXCEPT ![k] = Ended("failed")]]

\* The creation succeeded or failed: so it goes for the waiting calls, in the
\* order they were made.
ForWaiting(s, created, ready) ==
  LET after[i \in 0 .. MaxCall] ==
        IF i = 0 THEN s
        ELSE IF s.calls[i].phase # "waiting" THEN after[i - 1]
        ELSE IF created THEN Admitted(after[i - 1], i, ready)
        ELSE AdmissionFailed(after[i - 1], i)
  IN  after[MaxCall]

Pending == {"waiting", "superseded", "command"}

\* History: a call that was pending and still is saw the composer change.
Touched(cs) ==
  [k \in Call |-> IF {calls[k].phase, cs[k].phase} \subseteq Pending
                 THEN [cs[k] EXCEPT !.touched = TRUE] ELSE cs[k]]

\* The composer and the calls after a step.
Become(s) ==
  /\ composer' = s.c
  /\ calls' = IF s.c = composer THEN s.calls ELSE Touched(s.calls)

With(c) == [c |-> c, calls |-> calls]

\* The bound on the text: every submission on its way counts.
InFlight == {k \in Call : calls[k].phase \notin {"idle", "done", "failed"}}
Roomy(n) == n + FoldSet(LAMBDA k, sum : sum + Len(calls[k].text), 0, InFlight) <= MaxTokens

Fresh(k) == calls[k].phase = "idle" /\ \A j \in 1 .. k - 1 : calls[j].phase # "idle"

-----------------------------------------------------------------------------
(* Actions                                                                   *)

\* The bootstrap draft, or the Session resumed at the start, nothing typed yet.
Init ==
  /\ epoch = 0 /\ identity \in BOOLEAN /\ opening = "none"
  /\ composer = EmptyComposer
  /\ paste = 0
  /\ calls = [k \in Call |-> NoCall]
  /\ made = 0 /\ since = 0

\* Typing, deleting, pasting text, undo and history: any text may come next.
\* A reference number that stands for no image is a word like any other.
Edit ==
  \E text \in Typed :
    /\ text # composer.text
    /\ Roomy(Len(text))
    /\ \A m \in Marker : Shown(m, text) => m \in Placeholders(composer)
    /\ Become(With(SetText(composer, text)))
    /\ UNCHANGED <<epoch, identity, opening, paste, made, since>>

\* A submission of a text: the images it refers to, beside what waits already.
MadeOf(text) ==
  [NoCall EXCEPT !.want = ImagesOf(text, Bound(composer, text)), !.text = text,
                 !.touched = \E j \in Call : calls[j].phase = "waiting"]

\* Enter: the editor clears itself, then hands its text to ComposerHost.submit.
\* A draft first needs a Session, except for a local command; while that
\* Session awaits its first frame the manager may hold a prompt back.
Enter ==
  \E k \in Call, local, ready, hold \in BOOLEAN :
    LET text == composer.text
        cleared == ResetInput(SetText(composer, <<>>))
        s == [c |-> Reconciled(cleared, text), calls |-> [calls EXCEPT ![k] = MadeOf(text)]]
    IN  /\ Fresh(k)
        /\ text # <<>>
        /\ local => IsCommand(text)
        /\ hold => opening = "following"
        /\ IF identity \/ local
           THEN Become(Submitted(s, k, text, ready, hold)) /\ UNCHANGED opening
           ELSE /\ Become([s EXCEPT !.calls[k].phase = "waiting"])
                /\ opening' = "creating"
        /\ UNCHANGED <<epoch, identity, paste, made, since>>

\* Alt+Enter: the text stays in the editor until the Session is there.
SubmitEditor ==
  \E k \in Call, ready, hold \in BOOLEAN :
    /\ Fresh(k)
    /\ composer.text # <<>> \/ composer.active # {}
    /\ hold => opening = "following"
    /\ IF identity \/ IsCommand(composer.text)
       THEN /\ Become(EditorSubmitted(With(composer), k, ready, hold))
            /\ UNCHANGED opening
       ELSE /\ calls' = [calls EXCEPT ![k] =
                  [@ EXCEPT !.phase = "waiting", !.text = composer.text, !.fromEditor = TRUE,
                            !.touched = \E j \in Call : calls[j].phase = "waiting"]]
            /\ opening' = "creating"
            /\ UNCHANGED composer
    /\ UNCHANGED <<epoch, identity, paste, made, since>>

-----------------------------------------------------------------------------
(* Replacement of the whole composer                                         *)

\* composerDraftForSession() and the end of createSessionFeatureSet(): the
\* local draft hands its images on, a Session does not.
Transferred(c, preserve) ==
  LET text == IF preserve THEN c.text
              ELSE WithoutMarkers(c.text, {d.marker : d \in c.active})
      drafts == IF preserve THEN c.active ELSE {}
  IN  IF text = <<>> /\ drafts = {} THEN EmptyComposer
      ELSE RestoreDraft(EmptyComposer, text, drafts)

\* The scope of the old composer aborts its submission.
Aborted(cs) ==
  [k \in Call |-> IF cs[k].phase \in {"held", "preparing", "sending"} /\ cs[k].drafts # {}
                 THEN [cs[k] EXCEPT !.aborted = TRUE] ELSE cs[k]]

Install(toSession) ==
  /\ epoch < MaxEpoch
  /\ epoch' = epoch + 1
  /\ identity' = toSession
  /\ composer' = Transferred(composer, ~identity)
  /\ since' = IF identity THEN epoch + 1 ELSE since
  /\ paste' = 0
  /\ UNCHANGED made

\* The created Session becomes visible and takes the draft over.
CreationCommitted ==
  /\ opening = "creating"
  /\ opening' = "following"
  /\ Install(TRUE)
  /\ calls' = Aborted(calls)

\* Its first frame is there: the submissions that waited for it go on.
CreationSettled ==
  \E ready \in BOOLEAN :
    /\ opening = "following"
    /\ opening' = "none"
    /\ Become(ForWaiting(With(composer), TRUE, ready))
    /\ UNCHANGED <<epoch, identity, paste, made, since>>

CreationFailed ==
  /\ opening # "none"
  /\ opening' = "none"
  /\ Become(ForWaiting(With(composer), FALSE, FALSE))
  /\ UNCHANGED <<epoch, identity, paste, made, since>>

Superseded(cs) ==
  [k \in Call |-> IF cs[k].phase = "waiting" THEN [cs[k] EXCEPT !.phase = "superseded"] ELSE cs[k]]

\* Another Session is being opened: a creation not committed yet is outdated.
OpeningOther ==
  /\ opening = "creating"
  /\ opening' = "none"
  /\ calls' = Superseded(calls)
  /\ UNCHANGED <<epoch, identity, composer, paste, made, since>>

\* resume, rewind, /new and /clear replace the composer.
SwitchSession ==
  \E toSession \in BOOLEAN :
    /\ Install(toSession)
    /\ opening' = "none"
    /\ calls' = LET cs == Superseded(Aborted(calls))
                IN  IF identity THEN Touched(cs) ELSE cs

SupersededRejected ==
  \E k \in Call :
    /\ calls[k].phase = "superseded"
    /\ Become(AdmissionFailed(With(composer), k))
    /\ UNCHANGED <<epoch, identity, opening, paste, made, since>>

\* The draft a rewind puts into the Session it opened, here of one image.
RewindDraft ==
  \E m \in Marker :
    /\ identity /\ made < MaxImage
    /\ made' = made + 1
    /\ Become(With(RestoreDraft(composer, <<m>>, {[image |-> made + 1, marker |-> m, home |-> epoch]})))
    /\ UNCHANGED <<epoch, identity, opening, paste, since>>

-----------------------------------------------------------------------------
(* A submission on its way                                                   *)

\* A command that was handled consumes the attachments it was given, in the
\* composer it was given to.
CommandDone ==
  \E k \in Call :
    /\ calls[k].phase = "command"
    /\ LET c == IF calls[k].epoch # epoch THEN composer
                ELSE ReplacedAll(composer, {d \in composer.active :
                       \A e \in calls[k].drafts : e.image # d.image})
       IN  Become([c |-> c, calls |-> [calls EXCEPT ![k] = Ended("done")]])
    /\ UNCHANGED <<epoch, identity, opening, paste, made, since>>

\* It needs a Session that a draft does not have.
CommandOpens ==
  /\ opening = "none" /\ ~identity
  /\ \E k \in Call : calls[k].phase = "command" /\ calls[k].epoch = epoch
  /\ opening' = "creating"
  /\ UNCHANGED <<epoch, identity, composer, paste, calls, made, since>>

\* promptWithPreparation() goes on once the Session has its first frame.
HeldReleased ==
  \E k \in Call :
    /\ calls[k].phase = "held" /\ calls[k].epoch = epoch /\ opening # "following"
    /\ Become([c |-> Clear(composer), calls |-> [calls EXCEPT ![k].phase = "preparing"]])
    /\ UNCHANGED <<epoch, identity, opening, paste, made, since>>

\* The images are ready and the manager still sees the same Session.
Prepared ==
  \E k \in Call :
    /\ calls[k].phase = "preparing" /\ ~calls[k].aborted
    /\ calls[k].epoch = epoch
    /\ calls' = [calls EXCEPT ![k].phase = "sending"]
    /\ UNCHANGED <<epoch, identity, opening, composer, paste, made, since>>

\* Interrupt: the preparation in flight is cancelled.
CancelPreparation ==
  \E k \in Call :
    /\ calls[k].phase \in {"held", "preparing", "sending"}
    /\ calls[k].drafts # {} /\ calls[k].epoch = epoch /\ ~calls[k].aborted
    /\ calls' = [calls EXCEPT ![k].aborted = TRUE]
    /\ UNCHANGED <<epoch, identity, opening, composer, paste, made, since>>

\* The Host accepted the prompt.
Sent ==
  \E k \in Call :
    /\ calls[k].phase = "sending"
    /\ LET c == IF calls[k].epoch = epoch /\ calls[k].drafts = {}
                THEN DiscardDetached(composer) ELSE composer
       IN  Become([c |-> c, calls |-> [calls EXCEPT ![k] = Ended("done")]])
    /\ UNCHANGED <<epoch, identity, opening, paste, made, since>>

\* A command, a preparation or the Host failed: drafts first, then the text.
CallFailed ==
  \E k \in Call :
    /\ calls[k].phase \in {"command", "held", "preparing", "sending"}
    /\ LET c == IF calls[k].epoch # epoch THEN composer
                ELSE PutBack(IF calls[k].phase = "command" THEN composer
                             ELSE Restore(composer, calls[k].drafts), calls[k].text)
       IN  Become([c |-> c, calls |-> [calls EXCEPT ![k] = Ended("failed")]])
    /\ UNCHANGED <<epoch, identity, opening, paste, made, since>>

-----------------------------------------------------------------------------
(* Attachments                                                               *)

NewDraft(m) == [image |-> made + 1, marker |-> m, home |-> epoch]

\* pasteImage(): one at a time, its reference is there before its bytes.
PasteStarted ==
  \E i \in 0 .. Len(composer.text) :
    LET m == LeastFree(composer)
    IN  /\ paste = 0 /\ ~Busy(calls)
        /\ Free(composer) # {} /\ Len(composer.text) < MaxLength /\ Roomy(Len(composer.text) + 1)
        /\ Become(With(Marked(ObserveAttachments([composer EXCEPT !.reserved = m]), i, m)))
        /\ paste' = m
        /\ UNCHANGED <<epoch, identity, opening, made, since>>

\* Mutant: the text is not looked at again.
PasteLandedBlindly(c, m) ==
  IF c.reserved = 0 THEN RemoveMarker(c, m) ELSE Complete(c, NewDraft(m))

\* The bytes are there; the image is attached only if its reference still is,
\* and was reserved all the time.
PasteLanded(c, m) ==
  IF ~Shown(m, c.text) THEN Discard(c)
  ELSE IF c.reserved = 0 THEN RemoveMarker(c, m)
  ELSE Complete(c, NewDraft(m))

PasteLoaded ==
  /\ paste # 0 /\ made < MaxImage
  /\ made' = made + 1
  /\ paste' = 0
  /\ Become(With(PasteLanded(composer, paste)))
  /\ UNCHANGED <<epoch, identity, opening, since>>

PasteFailed ==
  /\ paste # 0
  /\ paste' = 0
  /\ Become(With(Discard(RemoveMarker(composer, paste))))
  /\ UNCHANGED <<epoch, identity, opening, made, since>>

\* attachPath() and loadImagePaths(), once the file is read.  attachPath()
\* refuses a busy composer, but looks before it reads; so a file may land at
\* any time.
FileLoaded ==
  \E i \in 0 .. Len(composer.text) :
    LET m == LeastFree(composer)
        c == Marked(ObserveAttachments(composer), i, m)
    IN  /\ made < MaxImage
        /\ made' = made + 1
        /\ Free(composer) # {} /\ Len(composer.text) < MaxLength /\ Roomy(Len(composer.text) + 1)
        /\ Become(With(ObserveAttachments([c EXCEPT !.active = @ \cup {NewDraft(m)}])))
        /\ UNCHANGED <<epoch, identity, opening, paste, since>>

\* Backspace in the rail or on the latest attachment.
RemoveAttachment ==
  \E d \in composer.active :
    LET c == RemoveMarker(composer, d.marker)
    IN  /\ Become(With(Reconciled(c, c.text)))
        /\ UNCHANGED <<epoch, identity, opening, paste, made, since>>

-----------------------------------------------------------------------------
(* Draft recovery and the Escape key                                         *)

\* pressEscape() and clearDraft().  A second Escape within the window opens
\* Rewind instead; when it is armed tells nothing about the draft.
ClearDraft ==
  /\ composer.text # <<>> \/ composer.active # {}
  /\ Become(With(RememberAndClear(composer)))
  /\ UNCHANGED <<epoch, identity, opening, paste, made, since>>

\* Up in an empty composer brings the cleared draft back.
PreviousDraft ==
  /\ composer.recover # NoDraft /\ ~composer.recover.visible
  /\ composer.text = <<>> /\ composer.active = {}
  /\ LET c == SetText([composer EXCEPT !.recover.visible = TRUE], composer.recover.text)
     IN  Become(With(ReplacedAll(c, composer.recover.active)))
  /\ UNCHANGED <<epoch, identity, opening, paste, made, since>>

\* Down hides it again, as long as it was not changed.
NextDraft ==
  /\ composer.recover # NoDraft /\ composer.recover.visible
  /\ composer.text = composer.recover.text /\ composer.active = composer.recover.active
  /\ Become(With(Clear(SetText([composer EXCEPT !.recover.visible = FALSE], <<>>))))
  /\ UNCHANGED <<epoch, identity, opening, paste, made, since>>

Next ==
  \/ Edit \/ Enter \/ SubmitEditor
  \/ CreationCommitted \/ CreationSettled \/ CreationFailed
  \/ OpeningOther \/ SwitchSession \/ SupersededRejected \/ RewindDraft
  \/ CommandDone \/ CommandOpens \/ HeldReleased \/ Prepared
  \/ CancelPreparation \/ Sent \/ CallFailed
  \/ PasteStarted \/ PasteLoaded \/ PasteFailed
  \/ FileLoaded \/ RemoveAttachment
  \/ ClearDraft \/ PreviousDraft \/ NextDraft

Spec == Init /\ [][Next]_vars

-----------------------------------------------------------------------------
(* Properties                                                                *)

Images == UNION {[1 .. n -> 1 .. MaxImage] : n \in 0 .. MaxLength}

\* The types; a reserved reference is that of the clipboard load under way, so
\* none is left behind when the load ends (attachments/drafts.ts).
TypeOK ==
  /\ epoch \in Epoch
  /\ identity \in BOOLEAN
  /\ opening \in {"none", "creating", "following"}
  /\ composer \in
       [text : Text, active : SUBSET Draft, detached : SUBSET Draft,
        reserved : 0 .. MaxMarker, next : 1 .. MaxMarker + 1,
        recover : {NoDraft} \cup [text : Text, active : SUBSET Draft, visible : BOOLEAN]]
  /\ paste \in 0 .. MaxMarker
  /\ calls \in [Call ->
       [phase : {"idle", "waiting", "superseded", "command", "held", "preparing",
                 "sending", "done", "failed"},
        text : Text, fromEditor : BOOLEAN, epoch : Epoch, drafts : SUBSET Draft,
        want : Images, touched : BOOLEAN, aborted : BOOLEAN]]
  /\ composer.reserved \in {0, paste}
  /\ made \in 0 .. MaxImage
  /\ since \in Epoch

\* What Escape cleared is what Up brings back: while a draft is recoverable,
\* the composer holds exactly that draft, or nothing (composer/input.ts).
RecoveryExact ==
  composer.recover # NoDraft =>
    IF composer.recover.visible
    THEN composer.text = composer.recover.text /\ composer.active = composer.recover.active
    ELSE composer.text = <<>> /\ composer.active = {}

\* An image whose loading ended is attached only where its reference is: not
\* beside a text from which it was removed, submitted or cleared meanwhile.
LandsInText ==
  [][made' # made => \A d \in composer'.active :
       d.image = made' => Shown(d.marker, composer'.text)]_vars

Taken == {"held", "preparing", "sending"}

\* The images that the text of a submission refers to when it is made.
Meant(k) ==
  IF calls[k].phase = "idle" \/ calls[k].fromEditor
  THEN ImagesOf(composer.text, Bound(composer, composer.text))
  ELSE IF calls[k].phase \in Taken THEN ImagesOf(calls[k].text, calls[k].drafts)
  ELSE calls[k].want

\* A prompt takes all images its text referred to when it was submitted, none
\* of them from another Session, unless the attachments were changed while it
\* waited for its Session (README, divergences).  It is handed to the Host
\* only while that Session is visible, and never after it was cancelled.
AdmittedAsSubmitted ==
  [][\A k \in Call :
       /\ calls'[k].phase \in Taken /\ calls[k].phase \notin Taken =>
            /\ calls[k].touched \/ ImagesOf(calls'[k].text, calls'[k].drafts) = Meant(k)
            /\ \A d \in calls'[k].drafts : d.home >= since
       /\ calls'[k].phase = "sending" /\ calls[k].phase # "sending" =>
            calls'[k].epoch = epoch' /\ ~calls'[k].aborted]_vars

\* A submission that fails is given back: the editor has its text with its
\* images bound to it or, when the editor was not empty, the newer text
\* stays and the images taken for the prompt are attached again.
FailureGivesBack ==
  [][\A k \in InFlight :
       calls'[k].phase = "failed" /\ ~calls[k].touched
       /\ (calls[k].phase \in {"waiting", "superseded"} \/ calls[k].epoch = epoch) =>
         \/ /\ composer'.text = calls[k].text
            /\ \A i \in DOMAIN Meant(k) :
                 \E d \in composer'.active : d.image = Meant(k)[i]
         \/ /\ composer'.text # <<>>
            /\ \/ composer'.text = composer.text
               \/ \E j \in InFlight \ {k} : calls'[j].phase = "failed"
            /\ calls[k].drafts \subseteq composer'.active \cup composer'.detached]_vars
=============================================================================
