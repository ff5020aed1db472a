---------------------------- MODULE MemoryStore ----------------------------
(***************************************************************************)
(* The documents of one memory scope and the queue of operations on them   *)
(* (packages/memory/src/store.ts).  A scope is one directory: a compact    *)
(* index, MEMORY.md, whose bullets may link to a topic, and the topic      *)
(* files.  Operations of one process on one directory run one at a time;   *)
(* an operation reads everything it needs first and then replaces file by  *)
(* file, so that a cancellation or a failure may leave it half done.       *)
(*                                                                         *)
(* A summary is a sequence of parts.  A topic line joins a summary and its *)
(* details with a dash; read back, nothing tells where the summary ends:   *)
(* the line is the concatenation of both.                                  *)
(***************************************************************************)
EXTENDS Naturals, Sequences, FiniteSets, SequencesExt

CONSTANTS
  Summary,      \* normalized summaries, each a sequence of parts
  Detail,       \* details, NoDetail among them
  Topic,        \* topic files
  NoTopic,      \* "undefined": the operation names no topic
  Index,        \* the index document
  Caller,       \* who submits operations
  Asked,        \* what they ask for
  MaxEntries,   \* bound of the code: maxDocumentBytes, in entries
  MaxOps        \* bound: operations submitted

NoDetail == <<>>
NoSummary == <<>>

VARIABLES
  docs,        \* content of the index and of every topic file
  ops,         \* queues: the operations submitted and not settled, in order
  submitted,   \* how many there were
  remembered   \* history: what was acknowledged as written and not removed since, as
               \* <<summary, NoTopic>> for the index, <<summary, topic>> for the topic

storeVars == <<docs, ops, submitted, remembered>>

-----------------------------------------------------------------------------
(* Documents                                                               *)

Doc == Topic \cup {Index}
Bullet == [key : Summary, link : Topic \cup {NoTopic}]
Line == {s \o d : s \in Summary, d \in Detail}

Keys(bullets) == {bullet.key : bullet \in bullets}

\* Does a topic line remember this summary, alone or followed by details?
Remembers(line, key) == IsPrefix(key, line)

\* removeBullet(), on the index and on a topic.
WithoutBullet(bullets, key) == {bullet \in bullets : bullet.key # key}
WithoutLine(lines, key) == {line \in lines : ~Remembers(line, key)}

\* appendUniqueBullet(), on the index and on a topic.
WithBullet(bullets, bullet) ==
  IF bullet.key \in Keys(bullets) THEN bullets ELSE bullets \cup {bullet}
WithLine(lines, key, detail) ==
  IF \E line \in lines : Remembers(line, key) THEN lines ELSE lines \cup {key \o detail}

-----------------------------------------------------------------------------
(* Operations                                                              *)

WriteInput ==
  {[kind |-> "write", key |-> key, detail |-> detail, topic |-> topic,
    old |-> old, oldTopic |-> oldTopic] :
     key \in Summary, detail \in Detail, topic \in Topic \cup {NoTopic},
     old \in Summary \cup {NoSummary}, oldTopic \in Topic \cup {NoTopic}}

\* Details need a topic, and an old topic an old summary, to have an effect.
Meaningful(input) ==
  /\ input.topic = NoTopic => input.detail = NoDetail
  /\ input.old = NoSummary => input.oldTopic = NoTopic

ForgetInput ==
  {[kind |-> "forget", key |-> key, detail |-> NoDetail, topic |-> topic,
    old |-> NoSummary, oldTopic |-> NoTopic] : key \in Summary, topic \in Topic \cup {NoTopic}}

Input == {input \in WriteInput : Meaningful(input)} \cup ForgetInput

ASSUME StoreAssumption ==
  /\ Index \notin Topic /\ NoTopic \notin Topic /\ NoTopic # Index
  /\ Summary \cup Detail \subseteq Seq(STRING) /\ NoSummary \notin Summary
  /\ Asked \subseteq Input
  /\ MaxEntries \in Nat /\ MaxOps \in Nat

Replaces(op) == op.old # NoSummary

\* Mutant: a correction removes the old bullet and leaves the new one to
\* a later write.
IndexAfterRemovalOnly(op, bullets) ==
  IF Replaces(op) /\ op.old \in Keys(bullets)
  THEN WithoutBullet(bullets, op.old)
  ELSE WithBullet(bullets, [key |-> op.key, link |-> op.topic])

\* The index after a write.
IndexAfter(op, bullets) ==
  LET kept == IF Replaces(op)
              THEN WithoutBullet(WithoutBullet(bullets, op.old), op.key) ELSE bullets
  IN WithBullet(kept, [key |-> op.key, link |-> op.topic])

\* The topic after a write; a correction within one topic drops the old line.
TopicAfter(op, lines) ==
  LET dropped == IF op.oldTopic = op.topic THEN WithoutLine(lines, op.old) ELSE lines
      kept == IF Replaces(op) THEN WithoutLine(dropped, op.key) ELSE lines
  IN WithLine(kept, op.key, op.detail)

\* Only documents that change are written.
Replacement(doc, after) == IF after = docs[doc] THEN <<>> ELSE <<[doc |-> doc, after |-> after]>>

\* write(): the topic, then the index, then the topic of the old entry.
FileWrites(op) ==
  (IF op.topic = NoTopic THEN <<>> ELSE Replacement(op.topic, TopicAfter(op, docs[op.topic])))
    \o Replacement(Index, IndexAfter(op, docs[Index]))
    \o (IF op.oldTopic \in {NoTopic, op.topic} THEN <<>>
        ELSE Replacement(op.oldTopic, WithoutLine(docs[op.oldTopic], op.old)))

\* forget(): the index, then the topic.
Removals(op) ==
  Replacement(Index, WithoutBullet(docs[Index], op.key))
    \o (IF op.topic = NoTopic THEN <<>> ELSE Replacement(op.topic, WithoutLine(docs[op.topic], op.key)))

PlannedWrites(op) == IF op.kind = "write" THEN FileWrites(op) ELSE Removals(op)

Fits(files) == \A i \in DOMAIN files : Cardinality(files[i].after) <= MaxEntries

\* What a write is acknowledged as: an entry of the index, and one of the topic.
Promised(op) == {op.key} \X {NoTopic, op.topic}

\* What an operation takes back when it begins: a forget the entries of its
\* summary, a correction those of the old one; a correction of the details keeps
\* the entry of the index.
Withdrawn(op) ==
  {entry \in remembered :
     \/ op.kind = "forget" /\ entry[1] = op.key
     \/ op.kind = "write" /\ entry[1] = op.old /\ (op.old = op.key => entry[2] # NoTopic)}

-----------------------------------------------------------------------------
(* The queue                                                               *)

StoreInit(stored) ==
  /\ docs = stored
  /\ ops = <<>>
  /\ submitted = 0
  /\ remembered = {entry \in Keys(stored[Index]) \X (Topic \cup {NoTopic}) :
                     entry[2] # NoTopic => \E line \in stored[entry[2]] : Remembers(line, entry[1])}

\* write() and forget() join the queue of the directory.
Submit(by, input) ==
  /\ submitted < MaxOps
  /\ submitted' = submitted + 1
  /\ ops' = Append(ops, [by |-> by, input |-> input, pc |-> "queued", left |-> <<>>])
  /\ UNCHANGED <<docs, remembered>>

Settle(i) == ops' = RemoveAt(ops, i)

Step(i, pc, left) == ops' = [ops EXCEPT ![i] = [@ EXCEPT !.pc = pc, !.left = left]]

\* Mutant: an operation does not wait for the one before it.
InTurnUnqueued(i) == i \in DOMAIN ops

InTurn(i) == i = 1 /\ ops # <<>>

\* A write checks for cancellation before every file, a forget only at first.
Resumes(op) == IF op.kind = "write" THEN "checking" ELSE "committing"

Acknowledge(i) ==
  /\ Settle(i)
  /\ remembered' = IF ops[i].input.kind = "write"
                   THEN (remembered \ Withdrawn(ops[i].input)) \cup Promised(ops[i].input)
                   ELSE remembered \ Withdrawn(ops[i].input)

\* The operation's turn comes: it reads, validates and plans every file.
BeginOp(i, cancelled) ==
  /\ InTurn(i) /\ ops[i].pc = "queued"
  /\ ops[i].by \notin cancelled
  /\ LET files == PlannedWrites(ops[i].input) IN
       /\ ops[i].input.kind = "write" => Fits(files)
       /\ IF files = <<>>
          THEN Acknowledge(i)
          ELSE /\ Step(i, Resumes(ops[i].input), files)
               /\ remembered' = remembered \ Withdrawn(ops[i].input)
  /\ UNCHANGED <<docs, submitted>>

\* The document would outgrow its limit: nothing is written.
Oversized(i, cancelled) ==
  /\ InTurn(i) /\ ops[i].pc = "queued"
  /\ ops[i].by \notin cancelled
  /\ ops[i].input.kind = "write" /\ ~Fits(PlannedWrites(ops[i].input))
  /\ Settle(i)
  /\ UNCHANGED <<docs, submitted, remembered>>

\* throwIfAborted(): what was written stays.
Abandoned(i, cancelled) ==
  /\ InTurn(i) /\ ops[i].pc \in {"queued", "checking"}
  /\ ops[i].by \in cancelled
  /\ Settle(i)
  /\ UNCHANGED <<docs, submitted, remembered>>

Checked(i, cancelled) ==
  /\ InTurn(i) /\ ops[i].pc = "checking"
  /\ ops[i].by \notin cancelled
  /\ Step(i, "committing", ops[i].left)
  /\ UNCHANGED <<docs, submitted, remembered>>

\* atomicWrite() of the next file.
CommitFile(i) ==
  /\ InTurn(i) /\ ops[i].pc = "committing"
  /\ LET file == Head(ops[i].left)
         rest == Tail(ops[i].left)
     IN /\ docs' = [docs EXCEPT ![file.doc] = file.after]
        /\ IF rest = <<>>
           THEN Acknowledge(i)
           ELSE Step(i, Resumes(ops[i].input), rest) /\ UNCHANGED remembered
  /\ UNCHANGED submitted

\* The file cannot be read or written: what was written stays.
FileFailed(i) ==
  /\ InTurn(i) /\ ops[i].pc \in {"queued", "committing"}
  /\ Settle(i)
  /\ UNCHANGED <<docs, submitted, remembered>>

StoreStep(cancelled) ==
  \E i \in DOMAIN ops :
    \/ BeginOp(i, cancelled) \/ Oversized(i, cancelled) \/ Abandoned(i, cancelled)
    \/ Checked(i, cancelled) \/ CommitFile(i)

StoreTypeOK ==
  /\ DOMAIN docs = Doc
  /\ docs[Index] \subseteq Bullet
  /\ \A t \in Topic : docs[t] \subseteq Line
  /\ \A i \in DOMAIN ops :
       /\ ops[i].by \in Caller
       /\ ops[i].input \in Asked
       /\ ops[i].pc \in {"queued", "checking", "committing"}
  /\ submitted \in 0 .. MaxOps
  /\ remembered \subseteq Summary \X (Topic \cup {NoTopic})

-----------------------------------------------------------------------------
(* Properties                                                              *)

\* Summaries the topic format cannot tell apart: one continues the other.
Ambiguous(key) == \E other \in Summary \ {key} : Remembers(other, key) \/ Remembers(key, other)

\* What a caller was told is remembered stays, in the index and in the topic it
\* named, until an operation asks to remove it, whoever else writes meanwhile and
\* wherever an operation is cut short.
NothingLost ==
  \A entry \in remembered :
    IF entry[2] = NoTopic THEN entry[1] \in Keys(docs[Index])
    ELSE Ambiguous(entry[1]) \/ \E line \in docs[entry[2]] : Remembers(line, entry[1])

\* A summary leaves the index only because an operation asks for it, and a
\* correction never leaves a moment with neither the old summary nor the new.
CorrectionKeepsOne ==
  [][ \A key \in Keys(docs[Index]) \ Keys(docs'[Index]) :
        LET op == ops[1].input
        IN  \/ op.kind = "forget" /\ key = op.key
            \/ op.kind = "write" /\ key = op.old /\ op.key \in Keys(docs'[Index]) ]_docs
=============================================================================
