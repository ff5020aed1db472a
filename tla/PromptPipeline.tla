--------------------------- MODULE PromptPipeline ---------------------------
(* How a prompt stays on the screen from its submission to its row in the   *)
(* conversation: the local submission (runtime/session/submission.ts), the  *)
(* Host's inbox shown as a queue (inbox.ts), the consumed message that      *)
(* waits for its row, and the row (runtime.ts, transcript/model.ts).        *)
(*                                                                          *)
(* The Host is external: its inbox changes by splices, which it logs, and   *)
(* a turn consumes messages and says them.  The client sees the log event   *)
(* by event, or the newest page of it and the inbox when it reconnects.     *)
(* A message and the request that sent it are one identity.                 *)
EXTENDS Integers, SequencesExt

CONSTANTS
  Prompt,        \* what the user submits
  Remote,        \* a user message of another client
  ContextNote,   \* a message of a plugin, which is not displayed
  Merged,        \* the message that replaces interrupted steering
  PageRows,      \* user messages of a page
  LogBound,      \* bound: events of the Session
  OthersBound,   \* bound: splices by others than the user
  ReconnectBound \* bound: reconnections

ASSUME PipelineAssumption ==
  /\ PageRows \in Nat \ {0}
  /\ LogBound \in Nat
  /\ OthersBound \in Nat
  /\ ReconnectBound \in Nat

VARIABLES
  host,     \* [log, inbox, open (turn or 0), turns, claimed, others]
  client,   \* the read model: [online, cursor, from, queue, pending, turn]
  request,  \* what became of a prompt: "none", "preparing", "rejected" or "admitted"
  missed    \* what the client could not see happen (history variable)

pipelineVars == <<host, client, request, missed>>

User == Prompt \cup {Remote, Merged}
Target == {"next-turn", "next-step"}
NoTurn == 0

-----------------------------------------------------------------------------
(* SubmissionTracker, on the client's record                                *)

\* retireQueue() and what observeEvents() does for a user message.
SettleMessages(c, ids) == [c EXCEPT !.pending = SelectSeq(@, LAMBDA s : s.id \notin ids)]

Submission(c, id, intent, local, turn, at) ==
  [c EXCEPT !.pending = Append(@, [id |-> id, intent |-> intent, local |-> local,
                                   turn |-> turn, at |-> at])]

\* A consumed message waits for its row until its own turn is over.
Over(s, e, seq) ==
  /\ ~s.local /\ seq > s.at
  /\ \/ s.turn = NoTurn
     \/ e.type = "end" /\ e.turn >= s.turn
     \/ e.type = "start" /\ e.turn > s.turn

ObserveEvent(c, e, seq) ==
  CASE e.type = "user" -> SettleMessages(c, {e.id})
    [] e.type \in {"start", "end"} ->
         [c EXCEPT !.pending = SelectSeq(@, LAMBDA s : ~Over(s, e, seq)),
                   !.turn = IF e.type = "start" THEN e.turn
                            ELSE IF @ <= e.turn THEN NoTurn ELSE @]
    [] OTHER -> c

ObserveEvents(c, log, from, to) ==
  FoldLeft(LAMBDA d, seq : ObserveEvent(d, log[seq], seq), c, [i \in 1..(to - from + 1) |-> from + i - 1])

\* observeQueue(): a row keeps the place of the echo it replaces.
ObserveQueue(c, rows, previous) ==
  LET echoed(row) ==
        \/ \E s \in Range(c.pending) : s.intent = "working" /\ s.id = row.id
        \/ \E p \in Range(previous) : p.echo /\ p.id = row.id
  IN  [SettleMessages(c, {row.id : row \in Range(rows)}) EXCEPT
         !.queue = [i \in DOMAIN rows |-> [rows[i] EXCEPT !.echo = @ \/ echoed(rows[i])]]]

Handoff(c, rows, seq) ==
  FoldLeft(LAMBDA d, row :
      IF row.placement = "context" THEN d
      ELSE Submission(d, row.id,
                      IF row.echo THEN "working"
                      ELSE IF row.placement = "steering" THEN "steering" ELSE "queueing",
                      FALSE, c.turn, seq),
    SettleMessages(c, {row.id : row \in Range(rows)}), rows)

-----------------------------------------------------------------------------
(* The Host's inbox and its display                                         *)

QueueItem(id, target) ==
  [id |-> id, echo |-> FALSE,
   placement |-> IF target = "next-turn" THEN "queued"
                 ELSE IF id \in User THEN "steering" ELSE "context"]

QueueFromInbox(inbox) ==
  [i \in DOMAIN inbox["next-turn"] |-> QueueItem(inbox["next-turn"][i], "next-turn")]
  \o [i \in DOMAIN inbox["next-step"] |-> QueueItem(inbox["next-step"][i], "next-step")]

Splice(s, start, count, inserted) ==
  SubSeq(s, 1, start) \o inserted \o SubSeq(s, start + count + 1, Len(s))

Half(queue, target) ==
  SelectSeq(queue, LAMBDA row : (row.placement = "queued") = (target = "next-turn"))

SpliceQueue(queue, e) ==
  LET rows == [i \in DOMAIN e.inserted |-> QueueItem(e.inserted[i], e.target)]
  IN  IF e.target = "next-turn"
      THEN Splice(Half(queue, "next-turn"), e.start, e.count, rows) \o Half(queue, "next-step")
      ELSE Half(queue, "next-turn") \o Splice(Half(queue, "next-step"), e.start, e.count, rows)

\* What a splice takes away for good: not what it puts back.
RemovedRows(queue, e) ==
  SelectSeq(SubSeq(Half(queue, e.target), e.start + 1, e.start + e.count),
            LAMBDA row : row.id \notin Range(e.inserted))

-----------------------------------------------------------------------------
(* SessionRuntime                                                           *)

\* appendEvent(): the next event of the follow stream.
ObserveAppended(c, e, seq) ==
  LET removed == RemovedRows(c.queue, e)
      retired == IF e.canceled THEN SettleMessages(c, {row.id : row \in Range(removed)})
                 ELSE Handoff(c, removed, seq)
  IN  [ObserveEvent(IF e.type # "splice" THEN c
                    ELSE ObserveQueue(retired, SpliceQueue(c.queue, e), c.queue), e, seq)
       EXCEPT !.cursor = seq]

PageStartsAt(log) ==
  LET said == {i \in DOMAIN log : log[i].type = "user"}
      newest == {i \in said : Cardinality({j \in said : j >= i}) <= PageRows}
  IN  IF Cardinality(said) <= PageRows THEN 1 ELSE Min(newest)

\* Mutant: a reconnection forgets the echoes that the queue has replaced.
ObservePageForgets(c, log, inbox) ==
  LET from == PageStartsAt(log)
      seen == ObserveEvents(c, log, from, Len(log))
  IN  [ObserveQueue([seen EXCEPT !.pending = SelectSeq(@, LAMBDA s : s.local)],
                    QueueFromInbox(inbox), c.queue)
       EXCEPT !.cursor = Len(log), !.from = from]

\* hydrate(): the snapshot of a reconnection; what waits is kept.
ObservePage(c, log, inbox) ==
  LET from == PageStartsAt(log)
  IN  [ObserveQueue(ObserveEvents(c, log, from, Len(log)), QueueFromInbox(inbox), c.queue)
       EXCEPT !.cursor = Len(log), !.from = from]

-----------------------------------------------------------------------------
(* The Host                                                                 *)

Logged(h, events) == [h EXCEPT !.log = @ \o events]

Boundary(type, turn) == [type |-> type, turn |-> turn]
Said(id) == [type |-> "user", id |-> id]
SpliceEvent(target, start, count, inserted, canceled) ==
  [type |-> "splice", target |-> target, start |-> start, count |-> count,
   inserted |-> inserted, canceled |-> canceled]

\* A splice of the inbox and its event.
Spliced(h, target, start, count, inserted, canceled) ==
  Logged([h EXCEPT !.inbox[target] = Splice(@, start, count, inserted)],
         <<SpliceEvent(target, start, count, inserted, canceled)>>)

Arrived(h, target, id) == Spliced(h, target, Len(h.inbox[target]), 0, <<id>>, FALSE)

InInbox(h) == Range(h.inbox["next-turn"]) \cup Range(h.inbox["next-step"])

Others(h) == [h EXCEPT !.others = @ + 1]

HostInjects ==
  /\ host.others < OthersBound
  /\ \E id \in {Remote, ContextNote}, target \in Target, start \in {0, Len(host.inbox["next-step"])} :
       /\ \A i \in DOMAIN host.log : host.log[i].type = "splice" => id \notin Range(host.log[i].inserted)
       /\ start <= Len(host.inbox[target])
       /\ host' = Spliced(Others(host), target, start, 0, <<id>>, FALSE)
  /\ UNCHANGED <<client, request, missed>>

HostStarts ==
  /\ host.open = NoTurn /\ InInbox(host) # {}
  /\ host' = [Logged(host, <<Boundary("start", host.turns + 1)>>)
              EXCEPT !.open = host.turns + 1, !.turns = @ + 1]
  /\ UNCHANGED <<client, request, missed>>

\* A turn takes the first queued message, or a step all that waits for it.
HostConsumes ==
  /\ host.open # NoTurn /\ host.claimed = <<>>
  /\ \E target \in Target :
       LET taken == IF target = "next-step" THEN host.inbox[target]
                    ELSE SubSeq(host.inbox[target], 1, Min({1, Len(host.inbox[target])}))
       IN  /\ taken # <<>>
           /\ host' = [Spliced(host, target, 0, Len(taken), <<>>, FALSE)
                       EXCEPT !.claimed = SelectSeq(taken, LAMBDA id : id \in User)]
  /\ UNCHANGED <<client, request, missed>>

HostSays ==
  /\ host.claimed # <<>>
  /\ host' = [Logged(host, <<Said(Head(host.claimed))>>) EXCEPT !.claimed = Tail(@)]
  /\ UNCHANGED <<client, request, missed>>

\* The turn is complete, or it is interrupted before it says what it took.
HostEnds ==
  /\ host.open # NoTurn
  /\ host' = [Logged(host, <<Boundary("end", host.open)>>) EXCEPT !.open = NoTurn, !.claimed = <<>>]
  /\ UNCHANGED <<client, request, missed>>

\* A queued message is removed, or edited in its place.
HostUpdates ==
  /\ host.others < OthersBound
  /\ \E target \in Target : \E i \in DOMAIN host.inbox[target] :
       \/ host' = Spliced(Others(host), target, i - 1, 1, <<>>, TRUE)
       \/ host' = Spliced(Others(host), target, i - 1, 1, <<host.inbox[target][i]>>, FALSE)
  /\ UNCHANGED <<client, request, missed>>

\* HarnessSessionTransport.cancel(): the steering that waits is removed, one
\* message after the other, and submitted again as one.
Cancel ==
  LET steering == SelectSeq(host.inbox["next-step"], LAMBDA id : id \in User)
      removed == FoldLeft(LAMBDA h, id :
                     Spliced(h, "next-step", SelectInSeq(h.inbox["next-step"], LAMBDA m : m = id) - 1,
                             1, <<>>, TRUE),
                   host, steering)
  IN  /\ host.open # NoTurn /\ steering # <<>> /\ Merged \notin InInbox(host)
      /\ \A i \in DOMAIN host.log : host.log[i] # Said(Merged)
      /\ host' = Arrived(removed, "next-turn", Merged)
      /\ UNCHANGED <<client, request, missed>>

-----------------------------------------------------------------------------
(* The client                                                               *)

\* submitPrompt(): the run state comes by a stream of its own, so a prompt may
\* be shown as working or as queueing whatever the Host does.
SubmitPrompt(p, intent) ==
  /\ request[p] = "none"
  /\ request' = [request EXCEPT ![p] = "preparing"]
  /\ client' = Submission(client, p, intent, TRUE, NoTurn, 0)
  /\ UNCHANGED <<host, missed>>

\* The preparation or the request fails.
Reject(p) ==
  /\ request[p] = "preparing"
  /\ request' = [request EXCEPT ![p] = "rejected"]
  /\ client' = [client EXCEPT !.pending = SelectSeq(@, LAMBDA s : ~(s.local /\ s.id = p))]
  /\ UNCHANGED <<host, missed>>

Admit(p) ==
  /\ request[p] = "preparing"
  /\ request' = [request EXCEPT ![p] = "admitted"]
  /\ \E s \in Range(client.pending) :
       /\ s.id = p
       /\ host' = Arrived(host, IF s.intent = "steering" THEN "next-step" ELSE "next-turn", p)
  /\ UNCHANGED <<client, missed>>

Deliver ==
  /\ client.online /\ client.cursor < Len(host.log)
  /\ client' = ObserveAppended(client, host.log[client.cursor + 1], client.cursor + 1)
  /\ UNCHANGED <<host, request, missed>>

Disconnect ==
  /\ client.online /\ missed.reconnects < ReconnectBound
  /\ client' = [client EXCEPT !.online = FALSE]
  /\ UNCHANGED <<host, request, missed>>

\* The snapshot cannot tell what became of a message that was consumed since:
\* it hides one that still waits for its row, and an echo it says nothing of
\* stays.
Reconnect ==
  /\ ~client.online
  /\ client' = [ObservePage(client, host.log, host.inbox) EXCEPT !.online = TRUE]
  /\ missed' =
       [reconnects |-> missed.reconnects + 1,
        hidden |-> missed.hidden \cup
          {id \in Range(host.claimed) : \A s \in Range(client.pending) : s.local \/ s.id # id},
        stale |-> missed.stale \cup
          {s.id : s \in {r \in Range(client'.pending) :
             IF r.local THEN request[r.id] = "admitted" ELSE r.id \notin Range(host.claimed)}}]
  /\ UNCHANGED <<host, request>>

\* prependHistory(): the queue and the echoes are not touched.
PrependHistoryRows ==
  /\ client.from > 1
  /\ client' = [client EXCEPT !.from = 1]
  /\ UNCHANGED <<host, request, missed>>

PipelineInit ==
  /\ host = [log |-> <<>>, inbox |-> [t \in Target |-> <<>>], open |-> NoTurn, turns |-> 0,
             claimed |-> <<>>, others |-> 0]
  /\ client = [online |-> TRUE, cursor |-> 0, from |-> 1, queue |-> <<>>,
               pending |-> <<>>, turn |-> NoTurn]
  /\ request = [p \in Prompt |-> "none"]
  /\ missed = [reconnects |-> 0, hidden |-> {}, stale |-> {}]

\* What the Host does is seen event by event.  It does not depend on how far
\* the client is behind, so the client is at most one event behind while it is
\* connected.
HostActs ==
  /\ client.online => client.cursor = Len(host.log)
  /\ \/ HostInjects \/ HostStarts \/ HostConsumes \/ HostSays \/ HostEnds \/ HostUpdates \/ Cancel
     \/ \E p \in Prompt : Admit(p)
  /\ Len(host'.log) <= LogBound

PipelineNext ==
  \/ HostActs
  \/ \E p \in Prompt :
       \/ \E intent \in {"working", "queueing", "steering"} : SubmitPrompt(p, intent)
       \/ Reject(p)
  \/ Deliver \/ Disconnect \/ Reconnect \/ PrependHistoryRows

PipelineSpec == PipelineInit /\ [][PipelineNext]_pipelineVars

-----------------------------------------------------------------------------
(* The display                                                              *)

\* collectTranscriptSources(): every prompt is shown once.  A row of the
\* conversation wins over the queue, and the queue over what is pending; what was
\* consumed stays ahead of what waits.
RowsOf(c) == {host.log[i].id : i \in {j \in c.from..c.cursor : host.log[j].type = "user"}}

Waiting(c) ==
  LET queued == SelectSeq(c.queue, LAMBDA row : row.placement # "context" /\ row.id \notin RowsOf(c))
      owned == RowsOf(c) \cup {row.id : row \in Range(queued)}
      pending(local) == SelectSeq(c.pending, LAMBDA s : s.local = local /\ s.id \notin owned)
      shown(id, echo, kind) == [id |-> id, place |-> IF echo THEN "conversation" ELSE "preview", kind |-> kind]
      submission(s) == shown(s.id, s.intent = "working", IF s.intent = "steering" THEN "steering" ELSE "queued")
  IN  [i \in DOMAIN pending(FALSE) |-> submission(pending(FALSE)[i])]
      \o [i \in DOMAIN queued |-> shown(queued[i].id, queued[i].echo, queued[i].placement)]
      \o [i \in DOMAIN pending(TRUE) |-> submission(pending(TRUE)[i])]

PlaceOf(id) ==
  LET places == {item.place : item \in {w \in Range(Waiting(client)) : w.id = id}}
  IN  IF id \in RowsOf(client) THEN "row"
      ELSE IF places = {} THEN "nowhere"
      ELSE CHOOSE place \in places : TRUE

\* PendingInputPreview.render(): every group has a title, and the rows that are
\* left are dealt in turns; a group that needs no more gives its turn away.
Dealt(rows, need) ==
  FoldLeft(LAMBDA r, turn :
      LET deal(q, g) == IF q.left > 0 /\ q[g] < need[g] THEN [q EXCEPT ![g] = @ + 1, !.left = @ - 1] ELSE q
      IN  deal(deal(r, "steering"), "queued"),
    [steering |-> 0, queued |-> 0, left |-> rows], [i \in 1..rows |-> i])

PreviewRows(waiting, budget) ==
  LET need == [g \in {"steering", "queued"} |->
                 Len(SelectSeq(waiting, LAMBDA w : w.place = "preview" /\ w.kind = g))]
      titles == Cardinality({g \in DOMAIN need : need[g] > 0})
  IN  [need |-> need, shown |-> Dealt(budget - titles, need), titles |-> titles]

\* The inbox and the turn as the events up to the client's cursor leave them.
AsOfCursor ==
  FoldLeft(LAMBDA h, e :
      CASE e.type = "splice" ->
             [h EXCEPT !.inbox[e.target] = Splice(@, e.start, e.count, e.inserted),
                       !.entered = @ \cup Range(e.inserted),
                       !.claimed = IF e.canceled THEN @
                                   ELSE @ \cup (Range(SubSeq(h.inbox[e.target], e.start + 1, e.start + e.count))
                                                \ Range(e.inserted))]
        [] e.type = "user" -> [h EXCEPT !.claimed = @ \ {e.id}, !.said = @ \cup {e.id}]
        [] OTHER -> [h EXCEPT !.claimed = {}],
    [inbox |-> [t \in Target |-> <<>>], claimed |-> {}, said |-> {}, entered |-> {}],
    SubSeq(host.log, 1, client.cursor))

-----------------------------------------------------------------------------
(* Properties                                                               *)

\* A prompt is on the screen from its submission until it is withdrawn, and a
\* message as long as it is in the inbox, waits for its row, or has one: it
\* never blinks when one of these takes over from the other, and nothing else
\* is shown (runtime/session/submission.ts, transcript/model.ts).
PromptShown ==
  LET at == AsOfCursor IN
  \A id \in User :
    LET sent == id \in Prompt /\ request[id] \in {"preparing", "admitted"} /\ id \notin at.entered
        waits == id \in InInbox(at) \/ (id \in at.claimed \ missed.hidden)
        row == id \in RowsOf(client)
    IN  /\ sent \/ waits \/ row => PlaceOf(id) # "nowhere"
        /\ PlaceOf(id) # "nowhere" => sent \/ waits \/ row \/ id \in at.claimed \cup missed.stale

\* When the Host is quiet and the client has seen everything, nothing waits.
EchoesRetire ==
  (/\ client.cursor = Len(host.log) /\ host.open = NoTurn /\ InInbox(host) = {}
   /\ \A p \in Prompt : request[p] # "preparing") =>
  \A s \in Range(client.pending) : s.local /\ s.id \in missed.stale

\* The folded queue is the Host's inbox.
QueueExact ==
  [i \in DOMAIN client.queue |-> [client.queue[i] EXCEPT !.echo = FALSE]]
    = QueueFromInbox(AsOfCursor.inbox)

\* The preview shows no prompt twice, as many rows as it has, and no group more
\* than one row above another that has to hide some
\* (modules/transcript/pending-input.ts).
PreviewFair ==
  /\ \A i, j \in DOMAIN Waiting(client) : Waiting(client)[i].id = Waiting(client)[j].id => i = j
  /\ \A budget \in 2..4 :
       LET p == PreviewRows(Waiting(client), budget)
           hidden(g) == p.need[g] - p.shown[g]
           rows == p.titles + p.shown["steering"] + p.shown["queued"]
       IN  /\ rows <= budget
           /\ \A g, f \in DOMAIN p.need :
                hidden(g) > 0 => rows = budget /\ p.shown[f] <= p.shown[g] + 1

\* What is displayed in the conversation never moves back to the preview.
PlaceKept ==
  [][client' # client =>
       \A id \in User : PlaceOf(id) = "conversation" => PlaceOf(id)' # "preview"]_pipelineVars
=============================================================================
