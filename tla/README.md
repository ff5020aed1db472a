# A formal model of the terminal client of DeepSeek Harness Community

TLA+ modules, TLC instances and TLAPS proofs about the program in this
repository: a terminal client (`packages/tui`) for the DeepSeek Harness, with
the project memory (`packages/memory`), vision, web and Bailian packages that
are shipped with it, and a Chrome extension (`extensions/browser`).

The paths below are relative to the repository; `manager.ts:284` is line 284 of
the file of that name which the section is about. Every definition that models
code has an entry in `PROJECT.json` under `map` with the lines it stands for.

Contents

 1. [The system](#1-the-system)
 2. [The modules](#2-the-modules)
 3. [What each module models](#3-what-each-module-models)
 4. [The runs](#4-the-runs)
 5. [Fairness](#5-fairness)
 6. [What is proved](#6-what-is-proved)
 7. [Where the code and its documents disagree, and other behaviour to know](#7-where-the-code-and-its-documents-disagree-and-other-behaviour-to-know)
 8. [What is not modelled](#8-what-is-not-modelled)
 9. [Plan](#9-plan)

To check a run: `tlc -config MCClient.cfg MCClient`. To check the proofs:
`tlapm SessionManagerProofs.tla`, and so for each of the `*Proofs` modules.

## 1. The system

Everything runs in one JavaScript process per terminal: the Harness Host, which
owns the durable facts (logs of Sessions, attachments, models), and the TUI,
which is another client of it. There is one thread; what interleaves are the
continuations after an `await`, callbacks and timers. Several terminals share
files: the Rewind histories and the memory documents.

| Component | State | Operations | Talks to |
|---|---|---|---|
| **Session replacement** `runtime/session/manager.ts`, `workspace.ts`, `runtime/lifecycle/*` | operation and epoch counters, the pending operation, the published binding; the visible runtime; the shared creation; requests of the Host awaiting an answer | open, resume, create on the first prompt, new draft, rewind, retire a Session, submit a prompt, answer, dispose | the Host (describe, list, admit, resume, send); installs and retires the feature set |
| **Followed read model** `runtime/session/runtime.ts`, `event-window.ts`, `history-page.ts` | the window of events shown, the follow cursor, the projections with the sequence number each was valid at | hydrate, append, prepend a page, merge a baseline, apply a patch | two streams and a paging call of the Host; read by transcript, trajectory, execution |
| **Submissions, assistant stream** `runtime/session/submission.ts`, `inbox.ts`, `assistant-stream.ts` | optimistic entries, the queue and steering of the Host, the partial answer | submit, withdraw, reconcile | manager, transcript |
| **Execution projection** `runtime/execution` | turns, steps, tools, tasks as a fold of the log | append, rebuild | transcript, trajectory, task dialog |
| **Composer** `modules/composer`, `application/create-session-features.ts` | text, attached and detached images, reserved reference, recoverable draft | edit, paste, attach, clear, recover, submit, restore, transfer | Session manager, attachments of the Host, clipboard |
| **Rewind history repository** `modules/rewind/adapters/file-repository.ts` | a lock file, manifests, content-addressed objects | load, save, remove, compact, quarantine | shared by all terminal processes |
| **Rewind journal, planner** `modules/rewind/domain` | the timeline: points with their edits, a cursor | record point, record edit, claim, select, plan, commit | Rewind service |
| **Rewind service, transaction** `modules/rewind/application`, `process.ts`, `adapters` | ingestion queues, plans, the transaction under way | list, plan, prepare, apply, roll back, compensate, commit | files, the Host's fork, the Session manager |
| **Project memory store** `packages/memory/src/store.ts` | an index and topic files, one queue per directory | write, correct, forget, read and write the policy | memory tools, background learning |
| **Background learning** `packages/memory/src/index.ts` | per Session: a queue of turns, a child agent, abort signals | turn end, drain, switch on and off, dispose | Host agents, the store |
| **Interactions** `modules/interaction` | first-in-first-out queue of approvals and questions, the dialog | open, respond, cancel, withdraw | Session manager, surfaces |
| **Surfaces and input** `presentation/shell`, `application/input-coordinator.ts` | a stack of surfaces, focus, key routing | open, close, route | all dialogs |
| **Transcript, trajectory** `modules/transcript`, `modules/trajectory` | blocks and records derived from the read model, selection, search | incremental update, navigate | read model, execution |
| **Dialog processes** `modules/configuration`, `skills`, `task`, `memory`, `usage`, `authentication`, `session-center` | a loading or saving request each, and the version of the view | load, save, refresh, close | Host ports |
| **Application shell** `application/*` | startup, commands, exit | acquire, release, dispatch | everything |
| **Browser bridge** `extensions/browser/bridge.js`, `infrastructure/browser` | owner of each tab, attached debuggers, pending closings | claim, attach, command, close, detach | Chrome, the relay of the terminals |
| **Vision, web, Bailian** `packages/*` | routes, per-request streams | analyse, search, extract, complete | network |

`PROJECT.json` lists all of them under `components`, down to the source paths,
with what is modelled of each.

### What is hard about it

- **Replacement of a Session** has up to six awaits. Any other replacement, a
  new draft, a prompt, a request of the Host or the disposal may run between two
  of them. Late results are dropped by comparing operation numbers, epochs and
  object identities; a forgotten comparison shows only in one order of two
  replies.
- **Reads of the log** come from a stream, a second stream and pages, which are
  not ordered with each other and are broken and re-established.
- **Composer**: loading an image, preparing an attachment, running a command and
  creating a Session are awaits during which the user goes on editing, and the
  whole feature set under the composer may be replaced.
- **Rewind** is a transaction over files, the conversation and the journal
  without a database, with agents and the user writing the same files.
- **Rewind storage** is shared by processes that crash and file operations that
  fail; its lock is a file.
- **Learning** must never disturb the foreground, must be stoppable at every
  await, and shares the documents with the foreground.

What makes each component correct:

- *Session replacement*: only the latest request commits; runtime, binding,
  features and pending requests always belong together; a failure restores what
  was found; nothing is left after disposal; prompts reach a Session that is
  visible and current; every call settles.
- *Read model*: the tail has neither holes nor repetitions; "no more history"
  is true; a projection never goes back; the model catches up after faults.
- *Composer*: an image is attached exactly where its reference is; a prompt
  takes the images it was submitted with; a failed submission is given back;
  what was cleared can be brought back exactly.
- *Repository*: one process at a time; no newer timeline is overwritten; a
  manifest always has its objects; every call ends.
- *Rewind*: the journal tells the truth about the files; the user's edits
  survive; a failed rewind is undone; a plan restores what was there.
- *Memory*: what was acknowledged stays; a correction never loses both
  versions; learning that is off is quiet and is not revived; learning yields.
- *Interactions, surfaces*: each request is answered at most once and by the
  dialog that shows it; exactly one surface has the keys.
- *Browser bridge*: a tab has one owner; whoever owned a tab hears when it goes.
- *Dialogs*: an answer to an older request never replaces a newer one.

## 2. The modules

| Module | Kind | Models |
|---|---|---|
| `SessionMachine` | operators on its variables, one per method | `runtime/lifecycle/session-machine.ts` |
| `SessionManager` | specification; EXTENDS SessionMachine | `manager.ts`, `workspace.ts` |
| `SessionBinding` | abstract specification | what replacement promises |
| `FollowStream` | specification | `runtime.ts` with the streams of `manager.ts` |
| `PromptPipeline` | specification | submissions, the Host's inbox, the rows that follow |
| `ExecutionProjection` | specification | `runtime/execution`, `transcript/model.ts` |
| `TranscriptView` | specification | `transcript/view.ts`, `composer-layout.ts`, pointer and scrolling |
| `Composer` | specification | the composer across feature sets |
| `Keymap` | operators | `keymap.ts`, `resolve-terminal-input.ts` |
| `Interaction` | specification; EXTENDS Keymap | `modules/interaction`, surfaces, `input-coordinator.ts` |
| `Trajectory` | specification | `trajectory/records.ts`, `view.ts`, `process.ts` |
| `RequestInspection`, `RequestDirectory`, `RequestSearch` | specifications | the Request browser of the trajectory |
| `TrajectoryMetrics`, `TextDocument` | specifications | `trajectory/model.ts`, `text-document.ts` |
| `ConfigurationProcess`, `SkillAuthoring`, `TaskProcess`, `MemoryDialog`, `Authentication`, `SessionCenter`, `ProviderUsage` | specifications | the dialogs, with the Host ports they call |
| `Commands` | specification | `application/commands` |
| `RewindRepository` | specification | `file-repository.ts` and the calls the service makes |
| `RewindJournal` | operators | `journal.ts`, `planner.ts` |
| `RewindTransaction` | specification; EXTENDS RewindJournal | process, service, transaction, local workspace |
| `MemoryStore` | variables and actions of the store | `store.ts` |
| `MemoryLearning` | specification; EXTENDS MemoryStore | `index.ts` of the memory package |
| `BrowserBridge` | specification | `extensions/browser/bridge.js` |
| `TabIndicator` | specification | `extensions/browser/tab-indicator.js` |
| `SessionManagerProofs` | theorems | types, ownership, latest wins, the refinement; binding, requests, disposal, prompts, creation |
| `FollowStreamProofs` | theorems | projections in order, the history |
| `RewindRepositoryProofs` | theorems | types, the lock, the storage, no lost update |
| `RewindTransactionProofs` | theorems | what the operators of the journal return; failures restore, the user's edits, the saved timeline |
| `MemoryProofs` | theorems | learning that is off, learning that yields, what the store was told stays |
| `BrowserBridgeProofs` | theorem | tabs and debuggers have owners |
| `ViewProofs` | theorems; EXTENDS TabIndicator, RequestInspection, Interaction, Trajectory | the icon given back, the hit shown, requests of the Host and the keys, the ledger and its selection |
| `ClientProofs` | theorems; EXTENDS Composer and six of the dialogs | the recoverable draft; what the dialogs send and show |
| `MC*` | instances | values of the constants, symmetry |

`SessionManager` composes the machine with its callers, `MemoryLearning` the
store with its two kinds of callers, `RewindTransaction` the journal with the
files, the Host and the dialog, `Interaction` the Host's requests with surfaces,
focus and keys. `SessionManager` implements `SessionBinding` under a refinement
mapping given by `INSTANCE ... WITH` (`Abstract`): the number of the request is
the operation number, what is shown is the visible runtime's Session, and the
operation that made it visible is read off the runtime.

No module uses RECURSIVE, so that each can be proved about: recursion is written
as recursive functions or with the folds of the community modules.

## 3. What each module models

A step of a model is what the code does between two awaits, with every call it
makes on the way. A gap of microtasks only, which nothing else can enter, is not
a step. A "history variable" records something for a property and is read by no
action.

### SessionMachine and SessionManager

`operationId`, `currentEpoch`, `pending`, `activeSessionId`, `binding` are the
fields of `SessionMachine`; each method is an operator (`MachineBegin`,
`MachineCommit`, `MachineRollback`, `MachineFail`, `MachineReset`, `MachineOwns`).

A `SessionRuntime` is named by its epoch. `rt[e]` is its Session, the state of
its scope, of its follow loop and of the promise its first frame settles;
`runtime` is `workspace.activeRuntime`; `features` the epoch of the installed
feature set; `open[o]` the call of `openSession()` with number `o`, `pc` being
the await it is suspended at; `opening` is `manager.opening`, the creation that
prompts share; `prompts`, `asks`, `rewinding` are the calls of `submitPrompt()`,
the requests of the Host and the call of `rewind()`.

| Actions | Code |
|---|---|
| `Resume`, `BeginOpen`, `NewSession`, `SubmitFirst`, `SubmitShared`, `SubmitToVisible`, `RewindStarted`, `Dispose` | the user's entries |
| `HostDescribed` ... `ModelSelected`, `Superseded`, `HostFailed`, `WorkspaceFail` | continuations before the commit |
| `Commit`, `CommitDisposed` | `workspace.replace` and the commit, with the retirement of the old runtime and its requests |
| `Retired`, `FollowSettled`, `ModelsRefreshed` | continuations after it |
| `FollowSnapshot`, `FollowBroken`, `FollowEnded`, `Online`, `Broken`, `ScopeReleased` | the follow loop and the scope of a runtime |
| `OpeningSettled`, `EnsureReturned`, `Prepared`, `PreparationFailed` | a prompt after its awaits |
| `Requested`, `AskSettled`, `RewindForked`, `RewindOpened`, ... | the Host's requests, the rewind |

Left out: the notices, the Session catalogue, run status, model selection and
tasks of the manager; the order in which scopes release their own resources.

Checked by the runs: `BindingTruthful`, `PendingAsksVisible`, `DisposedQuiet`,
`SharedCreation`, `PromptToOwned`, `EverythingSettles` and `ImplementsBinding`;
proved, and not run again: `TypeOK`, `VisibleIsOwned`, `PendingIsLatest` and
`LatestWins`.
`PendingAsksVisible`, `VisibleIsOwned` and `BindingTruthful` speak of the
running application: during disposal the scopes are torn down in an order in
which they do not hold, and nothing reads the state any more.

### FollowStream

One Session epoch: `events`, `cursor`, `hasMore`, `value`, `asOf` are the
snapshot of `SessionRuntime`; `follow` and `control` are the two loops with
their streams, and `page` the request of an earlier page. The log of the Host,
the alignment of a page to the start of a message and the loss of a frame are
external. A lost frame is the newest one before the stream goes on: the code
sees that a sequence number is not the next one and reconnects. A repeated frame
is skipped.

An event is a message or sets one projection; the value of a projection is the
number of the event that set it, so that one projection is enough to see a value
that is out of date (projections do not influence each other). `HistoryExact`
has two parts: history that claims to be complete begins with the first event
(`CompleteHistory`), and the events shown have no hole and no repetition from
the latest snapshot on (`TailContiguous`). The history variable `base` is the
first event of that snapshot; the stronger statement about the whole window is
false (section 7).

### Composer

A text is a sequence of tokens: a word, the slash of a command, or the number of
an image reference. `composer` is the record of the installed composer: text,
drafts attached (`active`) and set aside (`detached`) by the observer of the
text, the reserved reference, the next free number and the draft that Escape
cleared. `calls` are the submissions with their text, drafts and the feature set
they were made in; `epoch`, `identity`, `opening` describe the feature set.
`Become` installs the record an operator returns and marks the submissions that
are still waiting whose images it changed (`touched`, history). What still runs
of a replaced composer acts on that composer, which nobody reads any more.

External facts of the pi-tui editor, as the code relies on them: `setText` and
`insertTextAtCursor` fire `onChange`; submitting clears the editor, fires
`onChange("")`, then `onSubmit(text)`.

Left out: completion, which image of the rail is selected, the timer that arms the rewind shortcut, and the order of drafts in
the rail. A slash text that is not a command behaves like a word. A file is
loaded at any time; one clipboard load is under way at a time, as in the code.

### RewindRepository

One step per file operation another process can see. `lock`, `manifest`,
`objects` are the files; `call[p]` the repository call of process `p` (the
service queues its writes, so there is one per process); `status` and `revision`
are what the service of the process knows of each workspace; `versions` and
`refs` number the timelines and say which objects each needs. A later version
has a later `updatedAt`, the order of eviction.

A process may crash between any two steps and comes back with another process
id and an empty memory; a lock file ages; any file operation may fail: one that
does ends the call, the inspection of a lock is given up and tried again, a
directory that cannot be listed or a manifest that cannot be read makes the
sweep or the compaction end without a word, and a release that fails leaves the
lock of a live process behind. `seen` is the lock file a process has inspected
before it clears it; `raced` is a history variable: a process has cleared
another lock file than the stale one it had inspected (section 7). Temporary
files left by a crash are not modelled; objects are one byte each, and the
limits are numbers of objects.

### RewindJournal and RewindTransaction

The timeline is the journal's: nodes with a point and its edits, and a cursor.
A file's content gives each of its regions the number of the edit that wrote it
last, so a content says exactly which edits it holds. Regions are further apart
than the context of a patch (four lines): edits of different regions commute,
edits of one do not, which is what the patches of `planner.ts` decide between.
`IngestMutation` and `IngestPoint` record, in queue order, what the Host
observed earlier. `rw` is the rewind: listing, selecting, planning, preparing,
confirming, and the transaction, with one step per file that is replaced.

`working` are the Sessions whose last prompt was admitted in this process: their
agent may write. `edits` and `raced` are history variables; `raced` is set when
an edit fell between the comparison and the replacement of a file, when a commit
covered edits recorded while its plan was being made, or when a workspace could
not be put back (which the program reports).

The operators of the journal that sort and filter are recursive functions, about
which lemmas can be proved by the least-element principle (section 6). What is
saved with a manifest is the timeline; `Reloaded` is what the repository and the
journal make of it in the next process (`file-repository.ts:198`,
`journal.ts:198`), and `Restart` starts from that. `LineageReloads` says that
nothing is lost on the way.

Left out: path validation, file modes, and attachments of the restored prompt.

### MemoryStore and MemoryLearning

A document is a set of bullets (index) or lines (topic). A summary is a sequence
of parts, and a topic line the summary followed by the details: read back,
nothing tells where the summary ends (section 7). `ops` is the queue of
operations of one directory; an operation reads, is checked against the size
limit, and replaces one file per step, and may be cut short between two.

`learning` is the sequence of learning queues a Session has had; `pc` is the
await of its drain. A turn that starts cancels the attempt in flight; a change of
the policy, a disposal and the closing of the service abort the queue.
`remembered`, `rested`, `dropped`, `learned` are history variables. `remembered`
holds what was acknowledged: a summary in the index, or a summary in a topic; an
operation withdraws what it removes when its turn comes (`Withdrawn`), and a
write enters what it wrote when it ends (`Promised`). The limit of
a batch drops any number of the oldest turns. The texts of prompts and the
limits of a transcript are left out.

### PromptPipeline

A prompt is a local echo, a row of the Host's inbox, a handoff (consumed, its row
not yet seen) or an event of the log, and each of the four has a channel of its
own. The Host is external: it splices its inbox, opens turns that consume
messages, and logs all of it. The client sees the log event by event, or the
newest page and the inbox after a reconnection. `missed` is a history variable:
what happened while the client was away (section 7). `QueueExact`, `PreviewFair`
and `EchoesRetire` say that the folded queue is the inbox, that its preview fits
its rows fairly, and that no echo outlives its message.

### ExecutionProjection and TranscriptView

`ExecutionProjection` folds a log of the Host into nodes (turns, steps, tools,
tasks), kept event by event, extended at the front by pages and rebuilt after a
reconnection, with the overlays of the moment; and the conversation that is
built from it. It is compared with a replay of the window and with the whole log.

`TranscriptView` lays the items out in lines with what is folded (an item of an
open turn belongs to its prompt, supplements and context included), cuts the
window over the composer with the header of a prompt, and lets keys and pointer
act on the geometry of the *last* frame while content, surfaces and sizes change.
Wrapping, colours and the text of diffs are left out; the lookup of the places of
diffs is in.

### Keymap and Interaction

`Keymap` is the table of bindings with context and priority; two winners are an
exception, as in the code. `Interaction` follows a request of the Host from the
pending table of the manager through the queue of `InteractionProcess` and the
stack of surfaces to the key that answers or interrupts it. A cancellation is a
call that may fail after the Host has withdrawn the request, or return before
it does. Two history variables mark what section 7 tells: `released` holds the
requests whose cancellation has returned, and `strayed` says that the rail was
left while a surface was open, or that the Session changed with the rail
focused. A request has pages, and its name is not one of the places the focus can be
(`InteractionAssumption`).

### Trajectory, RequestInspection, RequestDirectory, RequestSearch, TrajectoryMetrics, TextDocument

`Trajectory` builds the ledger from the window of events and lets the view
select, fold, follow its tail and inspect while events arrive at one end and
pages at the other. `TrajectoryAssumption` is the Host's: a node is opened and
closed once, and what is neither opened nor closed is a node of its own.
`RequestInspection` has the jobs (prepare, search, select a
hit) each under a scope that a later operation disposes; a job that resumes finds
out whether its scope is still the one. `RequestDirectory` is the folding and
row-wise scrolling of the Request; `RequestSearch` the search in chunks against
the whole text; `TrajectoryMetrics` the timings refreshed for what runs against a
new measurement; `TextDocument` the sparse checkpoints and the buffer of folded
rows against the text folded at once. Left out: the composition of the Request's
text, painting, the pointer.

### The dialogs and Commands

One module each, because the guards differ. All of them send a request, may be
closed or superseded before the answer, and act on what they were opened for.

| Module | The answer races | Promises (in `DialogsCurrent`) |
|---|---|---|
| `ConfigurationProcess` | Session, selection, stored values, another page | a model is chosen for the Session it was offered for; a dangerous choice is confirmed; pages open alone; the last status answered is shown |
| `SkillAuthoring` | other readers of the catalogue, other writers of the disk | what was authored is effective or reported; no file of others is overwritten; the list tells its state |
| `TaskProcess` | revisions of the Goal by the Host, phases | a change goes to the Goal the dialog was opened for; clearing was asked for |
| `MemoryDialog` | an earlier save, another Session | the policy shown is the stored one; saving ends |
| `Authentication` | the user, the Host, the end of the process | one attempt at a time; an address is opened once |
| `SessionCenter` | other lists, a change of the Session | the phase is true; the lineage is symmetric; the current Session is not offered |
| `ProviderUsage` | a timer, other readers, another provider | the quota is of the provider observed and the newest read |
| `Commands` | a Session, a page, the Skills, other lines | a command runs for the Session on screen (section 7 has the exception) and never reaches the model as text; a reply is copied and a quota told where they were asked for |

Painting and the formats of what is shown are left out.

### BrowserBridge and TabIndicator

`owner` is `this.owners`, the tab's client; `target[c][t]` the entry of
`session.tabs` with the attachment, closing and ending that are in flight;
`chrome` and `reports` are Chrome: whether a tab exists and is debugged, and the
detachments it has yet to deliver; `connected` and `announced` the side of the
clients. Claims, closings, popups, the user's own detaching and the end of a
connection interleave between any two awaits. Commands that change no ownership
and the cursor are left out.

`TabIndicator` is the badge drawn over the icon of a page while the site changes
its own icons; an update decodes an image first and may be overtaken.

## 4. The runs

Distinct states are those of a complete search. Every passing run is complete:
no state of the instance is left out.

| Run | Instance | States | Shows |
|---|---|---|---|
| `session_replacement` | 2 Sessions, 1 of them stored, 1 request, 2 operations, 4 epochs | 856K | overlapping resumes, creations, drafts, a rewind, a request, broken streams, disposal: safety and refinement |
| `session_prompts` | 2 prompts (symmetric), 2 operations, 3 epochs | 1.5M | prompts share a creation and reach an owned runtime |
| `session_liveness` | 1 prompt, 2 operations, fair | 104K | every call settles |
| `prompt_misrouted` | 1 prompt | violation | section 7, 1 |
| `streams_and_browser` | 4 events, 1 projection, pages of 1 message, 2 faults; 2 clients on one tab, or 1 client with a tab that opens another; fair | complete | the read model, and that it catches up; tabs and their owners, and that control ends |
| `history_hole` | no projection | violation | section 7, 2 |
| `rewind_storage` | 2 processes, 1 workspace, 3 versions, 1 crash, 1 failure | 3.2M | the lock, no lost update |
| `rewind_budget` | 1 process, 2 workspaces, 3 objects, a budget of 2, 1 crash, 1 failure, fair | 601K | eviction and sweeping, every call ends |
| `services` | rewind: 2 files (3 regions; one is a link at times), 2 Sessions, 2 points, 2 edits, 1 fault; learning: 2 turns, 2 policy calls, 2 operations, 1 fault | 1.17M | rewind with every choice of the dialog; store and learning |
| `rewind_restart` | 1 file, 3 edits, 1 restart | violation | section 7, 3 |
| `views` | 11 parts | 302K | the ledger, the Request browser, the prompt pipeline, the execution projection, the transcript, the badge, requests of the Host and focus |
| `client` | 9 parts; the composer with 2 submissions, 2 images, 2 references, 1 replacement; 3 models, one without efforts | 1.09M | composer and submissions, the dialogs, the commands |

`MCStreams`, `MCServices`, `MCViews` and `MCClient` put components that share no
state side by side: a behaviour is one of a single part, chosen in the initial
state, while the others stand still in one state. That asks of each part exactly
what a run of its own would, and is one search instead of many. A property of
such a run is a conjunction of the promises of its parts (`ExactWhenAsked`,
`StaysInPlace`, `DialogsCurrent`, `WaitersProceed`), or of one part, which is trivially kept by
the others.

Why the bounds are enough:

- *Session replacement.* Every guard compares one operation with the latest one,
  or one epoch with the current one; two operations that overlap and the epochs
  they and two resets take are all the relations two of them can have. The
  guard of `NewSession` leaves an epoch for each operation: the bound never
  forbids a commit.
- *Read model.* A snapshot window, a page before it and an event after it are
  three events, the fourth makes a hole. Two faults break both streams, or one
  stream twice.
- *Repository.* A waiter, a holder and a lock left by a crashed process need two
  processes and one crash; a stale revision needs two versions, and the third
  lets the loser save again. Eviction concerns one process at a time, and needs
  two workspaces that share an object while the budget forces one of them out.
- *Rewind.* Two edits of one region must be reversed in order; one edit of each
  of two files makes the replacement stop half-way; two points and two Sessions
  are a rewind and a branch after it. `History` 2 and `MaxBytes` 2 make both
  limits of the journal bite.
- *Memory.* Two turns are a queue replaced while the older one is still
  draining; two policy calls are off and on, or off twice; two operations are
  one queued behind another. The summaries include one that is a prefix of
  another. (The store alone was searched with 4 operations of every kind too.)
- *Composer.* Two submissions are one waiting while another is restored; two
  references are one used and one free; one replacement takes a composer away
  under each await. `Typed` restricts the texts that an edit leaves, to those
  with a reference alone, in a command and beside another, without a reference,
  and empty; `MaxTokens` 2 forbids only that texts under way together are longer
  than two tokens. 3 tokens and a second replacement were searched too.
- *Browser.* A tab has an owner, someone who wants it, and a popup it opens: two
  clients on one tab, or one client with two tabs.
- *Views.* `LogBound`, `EventLog` and `Sessions` are logs in which a node begins
  and ends inside, before and after a page; `MaxScopes` 4 lets a job be
  superseded twice; `TextLength` 5 with chunks of 2 puts a hit and a surrogate
  pair across a border; `GestureBound` 2 is a gesture on the geometry that
  another one has changed; two requests are one shown and one queued.
- *Dialogs.* Each has two answers on their way and a change of what they are
  about in between (`WaitBound`, `SwitchBound`, `RevisionBound`, `EpochOfTasks`,
  `OpenBound`, `AttemptBound`, `ReadBound`, `LineBound`); faults and foreign
  writes are bounded by 1 (`SkillFaults`, `OthersWrite`, `SaveFaults`). Further
  bounds are in the modules' guards: the list of Skills is read while no Skill is
  written, the wizard is entered from the top of the whole list, and others write
  only while a Skill is being written; a provider asks one prompt at a time; a
  resume of `Commands` takes no time and does not fail (its own interleavings are
  those of `SessionManager`), the conversation goes on while a page is on its
  way, and lines that wait for one opening go on one after another.

`CHECK_DEADLOCK FALSE` stands where the program may really stop: a disposed
application, a closed service, a stream that has shown the whole log, or
bounds that are used up. Whether something is stuck is then a property:
`EverythingSettles`, `CallsEnd`, `StreamCatchesUp`, `ControlEnds` by fairness, and
`WaitersProceed` (`RewindProceeds` and `DrainProceeds`) by ENABLED.

Each property of a passing run has a mutant in `PROJECT.json`: a plausible slip
in one mapped definition (a dropped guard, a reset forgotten, the wrong
comparison) under which TLC finds the property violated. The mutants stand in
the modules before what they would replace, and are used by nothing.

`DrainProceeds` and `RewindProceeds` are invariants with ENABLED rather than
liveness properties: they say that whoever waits has a next step that needs
neither the user nor the foreground, which is the deadlock one would argue
about, and need no fairness.

## 5. Fairness

Fairness is stated for steps that the runtime takes by itself, never for the
user, for a crash or for a fault.

- `SessionManager`: weak fairness of the steps of each operation, runtime,
  prompt and of the settlement of the shared creation. A promise continuation
  always runs, and a call of the Host is answered or fails: the Host is in the
  same process, and its calls carry the runtime's abort signal. A follow stream
  gives a first frame or breaks. Not assumed: that the user answers a request,
  or that the Host's requests come.
- `FollowStream`: weak fairness of connecting, of the first frame and of the
  next event of each stream. Faults are bounded, as fairness of a stream that
  breaks for ever would be void. The user need not ask for pages.
- `BrowserBridge`: weak fairness of the end of a client's control and of each
  step that settles a target of it. Chrome answers a call or reports that the
  tab is gone, and the removal of the indicator has a timeout. Not assumed: that
  a client, the user or a page does anything.
- `MCStreams` states the fairness of both modules for the part that runs.
- `RewindRepository`: weak fairness of the next file operation of a call; strong
  fairness of `TimedOut`, which is enabled again and again while a call polls a
  lock and whose deadline is real time (`file-repository.ts:554`).

The other specifications are checked for safety only.

## 6. What is proved

The theorems hold for every value of the constants; TLAPS checks them from the
assumptions that the modules name (`MachineAssumption`, `ManagerAssumption`,
`FollowAssumption`, `RepositoryAssumption`, `JournalAssumption`,
`TransactionAssumption`, `StoreAssumption`, `LearningAssumption`,
`BridgeAssumption`, `IconAssumption`, `InteractionAssumption`,
`TrajectoryAssumption`, `ComposerBounds`, `TypedIsText`,
`ConfigurationAssumption`, `TaskAssumption`, `MemoryDialogAssumption`,
`UsageAssumption`), which TLC evaluates for each instance. They say that bounds
are numbers and that the values which stand for "nothing" are none of the others;
`IconAssumption` also says that the site has no badge of its own,
`StoreAssumption` that summaries and details are sequences,
`LearningAssumption` that a process finds bullets in the index and sequences in
the topics, not that the two agree, `InteractionAssumption` that a request has a
page, `TrajectoryAssumption` that a node is opened and closed once, and
`ConfigurationAssumption` that there are finitely many models, one of them with
efforts.

| Theorem | Says |
|---|---|
| `SessionManagerProofs!TypeCorrect` | `Spec => []TypeOK` |
| `SessionManagerProofs!VisibleOwned` | while the application runs the visible runtime is the one the epoch guard accepts |
| `SessionManagerProofs!PendingLatest` | what may still commit is the operation begun last, in the current epoch, falling back to the binding in place |
| `SessionManagerProofs!LatestCommits` | `Spec => LatestWins` |
| `SessionManagerProofs!Implements` | `Spec => ImplementsBinding`: the manager implements `SessionBinding` |
| `SessionManagerProofs!BindingTrue` | `Spec => []BindingTruthful` |
| `SessionManagerProofs!AsksVisible` | `Spec => []PendingAsksVisible` |
| `SessionManagerProofs!QuietAfterDisposal` | `Spec => []DisposedQuiet` |
| `SessionManagerProofs!PromptsOwned` | `Spec => PromptToOwned` |
| `SessionManagerProofs!CreationShared` | `Spec => SharedCreation` |
| `FollowStreamProofs!ProjectionsInOrder` | `Spec => ProjectionsOrdered` |
| `FollowStreamProofs!HistoryTruthful` | `Spec => []HistoryExact` |
| `RewindRepositoryProofs!TypeCorrect` | `Spec => []TypeOK` |
| `RewindRepositoryProofs!LockExcludes` | `Spec => []MutualExclusion` |
| `RewindRepositoryProofs!ManifestsComplete` | `Spec => []ManifestComplete` |
| `RewindRepositoryProofs!NothingOverwritten` | `Spec => NoLostUpdate` |
| `RewindTransactionProofs!FailuresRestore` | `Spec => FailureRestores` |
| `RewindTransactionProofs!PlansSound` | `Spec => []UserEditsInv`, the invariant behind the next one |
| `RewindTransactionProofs!UserEditsSpared` | `Spec => UserEditsKept` |
| `RewindTransactionProofs!LineageComesBack` | `Spec => []LineageReloads` |
| `MemoryProofs!OffForGood` | `LearningSpec => []OffStaysOff` |
| `MemoryProofs!ForegroundFirst` | `LearningSpec => YieldsToForeground` |
| `MemoryProofs!AcknowledgedStays` | `LearningSpec => []NothingLost` |
| `MemoryProofs!OldOrNew` | `LearningSpec => CorrectionKeepsOne` |
| `BrowserBridgeProofs!TabsDebuggedForOwner` | `BridgeSpec => []DebuggedForOwner` |
| `ViewProofs!IconComesBack` | `IndicatorSpec => []IconRestored` |
| `ViewProofs!WhatIsShown` | `InspectionSpec => []InspectionTruthful` |
| `ViewProofs!RequestsShown` | `InteractionSpec => []PendingShown` |
| `ViewProofs!FocusComesBack` | `InteractionSpec => []FocusOwned` |
| `ViewProofs!AnswersShown` | `InteractionSpec => AnswersWhatIsShown` |
| `ViewProofs!LedgerTrue` | `[]RecordsTruthful` of every behaviour of the trajectory |
| `ViewProofs!SelectionStays` | `SelectionKept`, a part of `StaysInPlace` |
| `ClientProofs!DraftRecovered` | `Spec => []RecoveryExact` |
| `ClientProofs!TasksStayCurrent` | `TasksCurrent`, like the following a part of `DialogsCurrent` |
| `ClientProofs!MemoriesShown` | `MemoriesCurrent` |
| `ClientProofs!UsageStaysCurrent` | `UsageCurrent` |
| `ClientProofs!SignInStaysCurrent` | `SignInCurrent` |
| `ClientProofs!TheirsAreKept` | `NothingOverwritten`, a part of `SkillsCurrent` |
| `ClientProofs!SettingsStayCurrent` | `ConfigurationCurrent` |

*Session replacement.* `VisibleIsOwned` is not inductive: an operation that
fails restores the Session it captured when it began, which is right only if
nothing was committed since. `IInv` adds `PendingIsLatest`, which says so:
only the latest operation may settle the machine, it was begun in the current
epoch, and it captured the active Session. The proof goes through the actions of
`Next`; the lemmas `Frame`, `ContinueFrame` and `BeginFrame` dispose of those
that leave the machine alone. `LatestCommits` is an action property: `Commit`
is the only step that shows a runtime (`VisibleByCommit`), its guard is
`IsCurrent`, and `IInv` turns that into "begun last, in this epoch".

*The refinement.* The mapping reads off the visible runtime the operation that
made it visible (`OpenedBy`), a CHOOSE that is good only if there is one.
`OpenedInv` adds to `IInv` that two operations never have the same runtime and
that the visible runtime has one (`OneOpener`), and that an operation past the
Host call that opens its Session has a Session (`Obtained`). The initial states
map to the abstract ones; `Commit` is `Serve`, the start of an operation
`Request`, a failure of the latest `Abandon`, a reset `Draft`, and every other
step a stutter.

*The binding.* An operation that fails publishes "active" or "draft" by what it
captured, so `BindingInv` adds that a visible runtime has a Session;
`PendingIsLatest` gives that what was captured is what is visible. That requests
that wait are those of the visible Session follows by the same split: every step
that changes the visible Session rejects them.

*Disposal.* `QuietInv` says that a runtime that waits for its first frame is
active, hence not released, and that after disposal each one is released or was
never born.

*Prompts.* The check before the Host call compares the runtime a prompt began
with and the visible one, which says nothing if both are "none": `PreparingBound`
says that a prompt under preparation began with a runtime. Two prompts can have
two creations only if a creation is displaced while it may still commit;
`PendingShared` says that a pending creation is the one whose promise is shared
(`opening`), hence the one a prompt of the same draft finds.

*The read model.* `ProjectionsOrdered` needs that a projection always shows the
value of the log at the number recorded for it (`ValuesExact`) and that no
number is beyond the log (`FromThePast`); the last event that set a projection
is found with the least-element principle. `HistoryExact` needs what is on its
way and where it fits: the page that was asked for ends before everything shown
(`PageBefore`), the latest snapshot begins where a page of the log begins
(`Aligned`), "more history" is said exactly when the first event shown is not the
Host's first (`FirstShown`), and nothing is shown before a snapshot (`Fresh`).

*The repository.* `MutualExclusion` follows from `LockInv`: unless `raced`,
whoever is inside owns the lock file, by process and process id. Its owner
removes a lock file when it leaves, and a creation that failed removes only its
own. A process that is about to clear the lock file it inspected has found its
process gone, and gone for good since process ids only grow (`Clears`), so
nobody inside can own that file; if the file is another one by then, `raced` is
set. That needs a stale lock, hence a crash, which is the other half of the
invariant (`raced => crashes > 0`). `StorageInv` adds what the one inside knows at
each file operation (`Knows`): at the publication that its revision is the
manifest and its objects are there, at a removal that no manifest needs what is
removed. Crashes and failures only take away from what must be known. `OthersOutside`
keeps the others out of it. Both theorems about the storage are read off it.

*The rewind.* `FilesInv` follows each planned file through the replacement, the
rollback and the compensation: it holds what the plan wants or what was there,
and `pc`, `done` and `undo` tell which (`Accounted`, `Phases`), unless somebody
wrote it meanwhile. `FailureRestores` is its last step. `UserEditsInv` adds that
nothing of the user's is recorded (`RecordsInv`), that a file holds only numbers
of edits that exist (`FilesSound`), and that what a plan takes away is the
agent's (`PlanSound`). The last needs what the planner computes from a sequence
of edits, a recursive function: the lemmas in the first part of the module
(sorting and filtering keep the elements, a reversal spares what it does not
name) are proved by contradiction from a least counterexample, since the
induction theorems of the library take an operator.

*The saved timeline.* A timeline reloads as it was if it has no more nodes than
the history keeps. Which edit stands under which Prompt is `Lineage(E, K, W)`: the
nodes are of different Prompts of `K`, and `W` tells which Prompt caused which
edit. `LineageInv` says that the timeline is such a lineage, of the turns that the
Sessions have, that no Prompt is in a Session twice (`NumbersInv`), and that what
waits to be recorded is of a turn of its Session (`Traced`).
The lemmas follow a timeline through recording, claiming, branching and
committing.

*Learning.* `LearningInv` has a part for each question. `OrderInv`: a drain waits
for the one before it, and a queue is replaced only when it has ended or was
cancelled, so one drain is at work. `TurnsInv`: a completed turn is in one queue
at most, or dropped, or learned, which is why nothing is learned again.
`AttemptInv`: an attempt that no turn has cancelled has seen none, and a child at
work during a turn is cancelled, which is why learning yields. `OwnersInv`: only
a child or one whose cleanup failed has operations. `CallsInv`: a call that
nobody contradicts leaves learning disabled, and once it waits or has been
acknowledged every queue would see that (`Quiet`) or is one of those it waits
for; which is why off is off. The steps split into those of the drain of a queue
(`Moved(q)`) and all others.

*The store.* `StoreInv` adds to `NothingLost` what the operation at work still
has to do (`WorkInv`): the files left are different documents, each with the
content computed from what that document holds *now* (`Planned`), although it was
computed when the turn came, because nobody else has written since; a write has
its summary in its documents or among the files left (`Entering`); and nothing it
removes is still promised. Then each file replaced keeps every promise (`Keeps`):
of two summaries that a removed line could remember one is a prefix of the other
(`PrefixesCompare`), so only an ambiguous one can lose its line; and when no file
is left the write has entered what is acknowledged. Only the operation at work
replaces documents (`DocsChange`), which gives `CorrectionKeepsOne` too.

*The bridge.* `DebuggedForOwner` speaks of the sides that meet in a tab: the
owner table, the owner's targets and Chrome. `BridgeInv` adds what each moment
of an attachment, a closing or an ending still holds of them, and that Chrome
reports a closed tab only once it is gone.

*The icon.* `IconRestored` speaks of what is left when control ends. While it
lasts, `IconKept` says that each element shows what the site wants or its badge,
whose record then remembers what the site wants, and that the element made for a
badge stays only if the site has given it an icon; an image decoded late draws
over either, and a record whose badge the site has replaced is not restored.

*The Request.* A job that resumes finds its scope or another one. `InspectionInv`
says of each job whose scope is still there what it was started for
(`JobsWanted`: the document, format, text and case searched now, the hit aimed
at now), that no two jobs have one scope (`ScopesOpened`), and that without an
index nothing is selected and an index is of what is searched now
(`SearchOfShown`). The lemma `OnlyMode` disposes of keys and jobs that leave the
search alone.

*Requests and keys.* The invariant relates the queue of the requests, the stack
of surfaces and the focus. Whatever the Host waits for is shown, queued or
released by a cancellation (`Awaited`): a step takes a request out of the queue
only to show it, or because it is over. At most one surface belongs to a request, the one that
is shown (`Presented`); a cancellation in flight is of that request, which is then
no longer open, or of one that is over; and the focus is in the editor, on the
rail or on the surface on top, and until `strayed` with the place it goes back
to in whatever order surfaces close (`Steady`). What a key does is told by its route: lemmas list, for each context, which
bindings of the table can win, so that an answer is sent only by the dialog that
is shown and only from its last page.

*The ledger.* It is a fold over the events of the window. `ReadUpTo` says what
has been built when an event is reached: one record for each node met so far, so
the end of a node finds its start or stands for it. Nodes stay when the window
grows at either end, which keeps a selection (`SelectionStays`). Every step ends
in syncing the Request browser; the lemma `Synced` says that it is then that of
the selected Step, if what it had prepared was of a window without missing
history, which `TrajectoryInv` adds.

*The composer.* Two observers look at a new text one after the other: the first
may end the recovery because of the text, the second because of the attachments.
So exactness is split into what the one and the other see (`TextExact`,
`ActiveExact`), and each operation of the composer has a lemma that says what it
leaves of both. A restored submission and calls that waited for the same Session
go on one after the other, each with the composer that the one before left; the
lemma about all of them is proved by the least call that would break it.

*The dialogs.* The invariant of each says of every answer on its way what it was
asked for, since it may come when the dialog is closed, another one is open and
the Session is another. A Goal's change names the Goal shown, and the cursor is
on a row of the list that the confirmation goes back to (`OnRow`). A memory
dialog has one save at most, exactly while it is saving, and nobody else saves for
its Session unless that was so when it opened (`SavesOfDialog`). A read of the
present observation is of its provider, and the newest one is shown or on its way
(`NewestComes`). What an attempt to sign in has named and what it has still to
open are apart (`Unopened`). A Skill of others is never absent or an empty
directory, which is where ours is written (`TheirsStay`). In the configuration,
a question about models carries a model and, unless it was reached by cycling,
an effort the model has (`SelectionKnown`); each menu has its cursor on a row, the
confirmation on the row of the menu it goes back to (`OnItsRow`), the selector on
a model and on an effort of that model (`InSelector`), and a surface of the
configuration is the first one (`StackPlaced`).

Only model-checked:

- liveness and ENABLED, which are beyond the prover: `EverythingSettles`,
  `CallsEnd`, `StreamCatchesUp`, `ControlEnds`, `WaitersProceed`;
- `CursorTruthful` and `PlanExact`: both speak of the chain of contents that a
  file has gone through, an induction over the edits of a node, and the second
  of the order in which edits of several nodes are sorted;
- `PromptShown` and `QueueExact`, whose operators select from sequences with
  `SelectSeq`, and `ExactWhenAsked`, which compares results of such folds with
  others: the provers know nothing of what these return;
- of `DialogsCurrent` the promises of the Session center and of the commands
  (`SelectSeq` again), and of the Skills the order of the list
  (`SetToSortSeq`) and `AuthoredIsEffective`;
- the other action properties of `client` (`LandsInText`, `AdmittedAsSubmitted`,
  `FailureGivesBack`) and the parts of `StaysInPlace` about the Request's
  directory, the transcript and the folded text (section 9).

## 7. Where the code and its documents disagree, and other behaviour to know

Three runs show a statement of the documents that the code does not keep; they
are listed under `findings` in `PROJECT.json`.

1. *A prompt may reach another Session than the one created for it*
   (`prompt_misrouted`). After `await ensureSession()` `submitPrompt` takes the
   runtime that is visible then (`manager.ts:284-285`). A resume that commits
   between the settlement of the creation and the continuation gets the prompt.
   `docs/tui-architecture.md:554` says that a stale result must not submit input.
2. *A permanent hole in the history* (`history_hole`). A page requested before a
   reconnect and returned after it is put in front of a newer window
   (`runtime.ts:213`); the events between are missing and nothing fetches them,
   since `historyHasMore` then speaks of the old page. `docs/tui-architecture.md:442`
   promises the same semantic state after a reconnect.
3. *Edits are numbered from 1 in each process* (`rewind_restart`):
   `adapters/host.ts:75` against `journal.ts:389-391`, which sorts edits of both
   processes by that number. A plan then reports a conflict although only the
   agent has written the file.

Met while modelling, and in the models as the code has it; the properties are
worded to hold beside it:

*Session replacement*
- When the first follow stream of a Session fails, the open operation is
  rejected but the Session stays visible, without a follow loop
  (`manager.ts:493-496`; `docs/tui-architecture.md:566`).
- A draft whose features cannot be constructed leaves the scope of the replaced
  runtime open (`workspace.ts:75`; `docs/tui-architecture.md:653`). Such a scope
  is `ScopeLeaked` in `EverythingSettles`.
- A request the Host makes between the rejection of the pending ones and the
  release of its connection at disposal is accepted (`manager.ts:95`). A rewind
  opens its fork whatever the user switched to meanwhile (`manager.ts:257`).
  Run state is written after an await without the guard that its siblings have
  (`manager.ts:328`, `:422`).

*Rewind storage*
- A stale lock is inspected and then removed by name (`file-repository.ts:572-576`).
  Another process may have removed it and created its own in between: two
  processes are then inside, against the "cross-process lock" of
  `docs/tui-architecture.md:1104`. `MutualExclusion` says that nothing else
  breaks the exclusion, and that this takes a crash; `ManifestComplete` and
  `NoLostUpdate` are stated until it happens (`raced`).
- A lock that cannot be released stays, with a warning, while its process lives
  (`file-repository.ts:561-566`): every later call times out, those of the same
  process too. The compaction ends silently when any manifest cannot be read,
  whatever the budget (`:493-502`).
- A save that fails after its manifest was published cannot be invalidated
  (`service.ts:352`; `docs/tui-architecture.md:1106`). A load that cannot read an
  object quarantines a valid history (`file-repository.ts:340`), and the
  compaction of one process may evict the timeline another is using (`:513`).
- Whether the budget is kept is not a property: a timeline that is alone over
  the budget stays.

*Rewind*
- A commit of the journal that fails after the conversation was switched
  restores the files but leaves the terminal in the fork.
- A rewind of the code alone while a turn is running loses the attribution of
  the edits that follow.
- Claiming an old point whose history was dropped appends it out of order
  (`journal.ts:358`, `:466`).

*Memory*
- A topic line joins summary and details, so the removal of a summary also
  removes the line of a summary that it is a prefix of (`store.ts:186`;
  `packages/memory/README.md:45`, `docs/tui-architecture.md:1193`). `Ambiguous`
  names these summaries; `NothingLost` does not promise their topic lines.
- That an index link leads to a topic that has the summary is not a property: a
  correction within one topic that is cut short after the topic file leaves the
  old bullet with its link, and a later write of the old summary with no topic, or
  another one, finds the bullet, keeps the link and is acknowledged
  (`store.ts:341`, `:346`, `:366`). The documents say that links may be out of
  step (`docs/tui-architecture.md:1193`). `NothingLost` promises the index entry and
  the entry in the topic the write named.
- Turns that ended while learning was disabled may be learned if it is enabled
  again before the policy is read.
- A correction within one topic breaks the link for a moment: the topic file and
  the index are two files.
- A second call that switches off after the cleanup of a child failed is
  acknowledged at once. `OffIsQuiet` excludes children whose cleanup failed.
- The queue of a directory is one process's: two terminals may overwrite each
  other's documents (`store.ts:427`). The model has one process.

*Composer*
- Editing while the first Session is being created sets images aside, and the
  transfer to the new feature set carries only the attached ones
  (`create-session-features.ts:167`): the prompt is sent with a reference and no
  image (`docs/tui-architecture.md:555-557`). `AdmittedAsSubmitted` leaves out
  the submissions whose attachments were changed meanwhile (`touched`).
- Attaching a path checks whether the composer is busy before its await only; a
  preparation that fails meanwhile may bring back the same reference number.
- A failed submission beside newer text attaches its images without references;
  the next edit sets them aside.
- Images given to `/new` on a draft stay in the rail without a reference.
- A prompt entered between the visibility of a Session and its first frame may
  overtake the one that waits for that frame.
- Attaching a path to a composer that was replaced reports success.
- Documented: a submission that races a clipboard load
  (`docs/tui-architecture.md:486-488`).

*Prompts on the screen*
- A local echo that is admitted and consumed entirely within a disconnection
  stays in the preview for good (`docs/tui-architecture.md:382` admits a gap
  only). A message consumed during a disconnection is hidden until its row, as
  documented. A handoff whose turn ended before the page of the reconnection
  stays until a later boundary. `missed` names them.

*Transcript*
- A reader whose place is past the end is clamped in one frame without a header;
  the next frame, with nothing changed, shows the header and moves the text by a
  row (`composer-layout.ts:129-152`; `docs/tui-architecture.md:741-743`).
  `ReadingKept` speaks of places that were not past the end.
- A page up from a frame without a header into one with a header keeps no line of
  context (`composer-layout.ts:201`). A change of the Session keeps a place that
  was chosen by hand. Who follows a running thought whose last chunk comes with
  its end is not left at its end.

*Interactions and focus*
- The request shown is taken off the screen when its cancellation returns
  (`modules/interaction/process.ts:116-128`). If the Host withdraws it only
  later, it still waits for a request that nothing shows; `released` marks it in
  `PendingShown`.
- A failed cancellation opens the request again but `interruptingTarget` stays,
  so that Escape does nothing more (`input-coordinator.ts:284`,
  `modules/interaction/process.ts:193`; `docs/tui-architecture.md:368`).
- With the rail focused and a request shown, Escape and Control-C match two modal
  bindings and throw "Conflicting terminal bindings"; so do h and l with the rail
  and a surface.
- Removing the last image under a surface moves the focus to the editor
  (`modules/composer/process.ts:172-174`); a change of the Session leaves it on
  the rail (`surface-host.ts:61` says otherwise). `strayed` marks both: from
  then on `FocusOwned` only says that the keys go to the composer or to the
  surface on top, until the rail is focused again.
- Escape with a menu over an approval cancels the request behind the menu.

*Trajectory*
- A click acts on the row drawn last, whose index may mean another record once a
  page or an event has come (`docs/tui-architecture.md:860`); the rows of the
  directory likewise. After folding the last step and following the tail, an
  event may select a hidden record, and the next key goes to the top. The note
  "Loading page…" stays when the availability changed meanwhile.

*Dialogs*
- Status answers are taken as they come, so an older one may stay until the next
  refresh (`configuration/process.ts:287-310`); `StatusCurrent` speaks of the
  status asked for last. `cycleReasoningEffort` captures no Session before its
  await (`:221-234`); it is excepted in `ModelForItsSession`.
- A write of a Skill that fails after the file was opened leaves a partial file;
  a retry then reports that the Skill exists. A forced refresh joins an older
  request, which the three attempts of the lookup make up for.
- Overlapping prompts of one sign-in clear each other's text, and its choice may
  open over a surface that came meanwhile.
- The memory dialog, opened again while a save is in flight, may show the policy
  of before. The Session center, opened again while a resume is in flight, offers
  the Session that becomes current. A read of the usage that the user aborts hides
  the quota until the next refresh. A dialog over the Task surface outlives its
  Session and then does nothing; pause and resume share a row, so a change of the
  phase under the cursor changes what Enter does.
- A Host command that waits for a Session runs for the one it opened
  (`directory.ts:133-144`). When another is resumed between the end of that
  opening and the line's next step, the command is looked up in the list of the
  Session on screen and runs for the other, which the change of Session came too
  early to abort; such lines are marked `late` and excepted in `CommandsCurrent`.
- A command of the Host that appears while the Skills are refreshed lets a text
  that names it go on as a prompt (`directory.ts`, `dispatch.ts:91-100`).

*Browser*
- A tab closed while its attachment is awaited is forgotten and then announced,
  with the interval that refreshes its indicator left running (`bridge.js:96-106`
  against `:30-35`). `closeTarget` deletes the owner whoever that is by now
  (`bridge.js:304-306`). `DebuggedForOwner` holds beside both.

## 8. What is not modelled

`PROJECT.json` names every part and why. In short: painting, wrapping, colours and
theme; parsing of arguments, input bytes and Markdown; startup, exit and the
command line; the selection of the text that the memory injects; the sockets
between terminals and extension; delivery to listeners and coalesced painting;
the views of the rewind dialogs; the network side of vision, web and Bailian; the
launcher; the Harness itself, which appears only as the environment that the code
relies on. Within the modelled parts: wording of notices and errors, the run
status and the model selection of the manager, completion, patches of text
(regions stand for them), path checks, and the text of prompts and memories.

One hazard of the list has no property: the run state that a failed cancellation
restores after an await (`manager.ts:328`), since run status is not modelled.

## 9. Plan

The modules of the plan are written. What is left is proof, most telling first;
each goes into the proof module of its component, or into a new one in place of
what it can be merged with.

1. `CursorTruthful` and `PlanExact`: an invariant that for each file links the
   `before` and `after` of its edits, in the order they were made, to one chain
   ending in the content; the reversal of a suffix of the chain is then its
   beginning. `Lineage` and the lemmas about the journal are the start of it.
2. `LandsInText`, `AdmittedAsSubmitted` and `FailureGivesBack`, from the lemmas
   about the composer and about calls that wait.
3. `PromptShown` and the lists of the dialogs, once their filters are written as
   recursive functions.
4. `DirectoryInPlace`, `PlaceKept` and `ReadingKept`.

A run state of the manager (`manager.ts:328`, `:422`) would close the last hazard.
