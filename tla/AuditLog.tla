------------------------------ MODULE AuditLog ------------------------------
(***************************************************************************)
(* A hash-chained JSONL evidence log (stag/egress): the decision log of    *)
(* stag-proxy (JSONLSink, Verify) and the read and ingress logs, which     *)
(* follow the same rules (Chain, VerifyChain).  Processes verify the file  *)
(* when they start, resume the chain from what they read, and append one   *)
(* leaf per record; an append may fail half way, a process may die, and    *)
(* the file may be edited behind their back.  A checkpoint signed over     *)
(* (count, head) seals the log at one moment.                              *)
(*                                                                         *)
(* The file is its complete lines and what follows the last newline.  A    *)
(* line is a leaf or garbage: a proper prefix of a leaf, or two pieces run *)
(* together, never decodes.  A hash is identified with what it commits to, *)
(* the sequence of (seq, record) pairs up to its leaf: SHA-256 is taken to *)
(* be collision-free.                                                      *)
(***************************************************************************)
EXTENDS Naturals, Sequences, SequencesExt

CONSTANTS
  Writers,     \* the processes that may open the file
  Records,     \* what can be recorded
  Oversize,    \* the records whose line is longer than maxLeaf
  Garbage,     \* a line that is not one leaf
  MaxLeaves,   \* bound on the lines of the file
  MaxMishaps   \* bound on the failed reads and writes of the file, and on the
               \* edits made behind the writers' back, together

Hashes == Seq(Nat \X Records)
GenesisHash == <<>>

Leaf == [seq : Nat, prev : Hashes, record : Records, hash : Hashes]

ASSUME AuditAssumption ==
  /\ Oversize \subseteq Records
  /\ Garbage \notin Leaf
  /\ MaxLeaves \in Nat
  /\ MaxMishaps \in Nat

VARIABLES
  lines,       \* the lines of the file that end with a newline
  tail,        \* what follows the last newline: nothing or one line
  up,          \* the processes that hold the file open
  seq, head,   \* seq[w], head[w]: the writer's position in memory
  acked,       \* history: the records whose append reported success
  checkpoint,  \* the content of <log>.checkpoint
  sealed,      \* history: the records the checkpoint was signed over
  edits,       \* history: how many edits were made
  failures,    \* history: how many reads and writes failed
  disturbed    \* history: did a read or a write fail, was a line too long, or
               \* did two processes hold the file open?

fileVars    == <<lines, tail>>
memoryVars  == <<up, seq, head>>
sealVars    == <<checkpoint, sealed>>
historyVars == <<edits, failures, disturbed>>
vars == <<fileVars, memoryVars, acked, sealVars, historyVars>>

Line == Leaf \cup {Garbage}

NoCheckpoint == [kind |-> "none"]
Unreadable   == [kind |-> "unreadable"]
Signed(n, h) == [kind |-> "signed", count |-> n, head |-> h]

TypeOK ==
  /\ lines \in Seq(Line)
  /\ tail \in Seq(Line) /\ Len(tail) <= 1
  /\ up \subseteq Writers
  /\ seq \in [Writers -> Nat]
  /\ head \in [Writers -> Hashes]
  /\ acked \in Seq(Records)
  /\ checkpoint \in {NoCheckpoint, Unreadable} \cup [kind : {"signed"}, count : Nat, head : Hashes]
  /\ sealed \in Seq(Records)
  /\ edits \in Nat /\ failures \in Nat /\ disturbed \in BOOLEAN

-----------------------------------------------------------------------------

Content == lines \o tail

\* leafHash covers the position, the prior hash and the record.
LeafHash(n, prev, r) == Append(prev, <<n, r>>)

\* The hash of the n-th leaf of file f.
HeadOf(f, n) == IF n = 0 THEN GenesisHash ELSE f[n].hash

\* Deviation: the leaf's own hash is not recomputed.
LeafFits_Unhashed(f, i) ==
  /\ f[i].record \notin Oversize
  /\ f[i].seq = i - 1
  /\ f[i].prev = HeadOf(f, i - 1)

\* The checks Verify makes on the i-th line once it has decoded it.
LeafFits(f, i) ==
  /\ f[i].record \notin Oversize
  /\ f[i].seq = i - 1
  /\ f[i].prev = HeadOf(f, i - 1)
  /\ f[i].hash = LeafHash(f[i].seq, f[i].prev, f[i].record)

\* Verify reads the file to its end without an error.
Verifies(f) ==
  /\ \A i \in 1 .. Len(f) : f[i] # Garbage
  /\ \A i \in 1 .. Len(f) : LeafFits(f, i)

\* Deviation: only the number of leaves is compared.
SealHolds_CountOnly(f, cp) ==
  cp.kind = "signed" /\ Verifies(f) /\ cp.count = Len(f)

\* VerifySigned: the chain verifies and the checkpoint describes this log.
SealHolds(f, cp) ==
  /\ cp.kind = "signed"
  /\ Verifies(f)
  /\ cp.count = Len(f) /\ cp.head = HeadOf(f, Len(f))

RecordsOf(f) == [i \in 1 .. Len(f) |-> f[i].record]

Init ==
  /\ lines = <<>> /\ tail = <<>>
  /\ up = {}
  /\ seq = [w \in Writers |-> 0]
  /\ head = [w \in Writers |-> GenesisHash]
  /\ acked = <<>>
  /\ checkpoint = NoCheckpoint /\ sealed = <<>>
  /\ edits = 0 /\ failures = 0 /\ disturbed = FALSE

-----------------------------------------------------------------------------
(* Processes.                                                              *)

\* A read or a write of the file fails.
Failed ==
  /\ edits + failures < MaxMishaps /\ failures' = failures + 1
  /\ disturbed' = TRUE /\ UNCHANGED edits

\* Deviation: the restarted writer forgets the chain it has verified.
Resume_Afresh(w, n, h) ==
  /\ up' = up \cup {w}
  /\ seq' = [seq EXCEPT ![w] = n]
  /\ head' = [head EXCEPT ![w] = GenesisHash]

\* ResumeJSONLSink, ResumeChain.
Resume(w, n, h) ==
  /\ up' = up \cup {w}
  /\ seq' = [seq EXCEPT ![w] = n]
  /\ head' = [head EXCEPT ![w] = h]

\* A process starts: it resumes from a file that verifies and refuses any
\* other.  What it read is all it knows of the file, so opening the file for
\* appending is part of the step.
Start(w) ==
  /\ w \notin up
  /\ Verifies(Content)
  /\ Resume(w, Len(Content), HeadOf(Content, Len(Content)))
  /\ disturbed' = (disturbed \/ up # {})
  /\ UNCHANGED <<fileVars, acked, sealVars, edits, failures>>

\* An error of ReadFile is taken for an empty file.
StartUnread(w) ==
  /\ Failed
  /\ w \notin up
  /\ Resume(w, 0, GenesisHash)
  /\ UNCHANGED <<fileVars, acked, sealVars>>

\* The process exits or is killed between two appends.
Stop(w) ==
  /\ w \in up
  /\ up' = up \ {w}
  /\ UNCHANGED <<fileVars, seq, head, acked, sealVars, historyVars>>

NextLeaf(w, r) ==
  [seq |-> seq[w], prev |-> head[w], record |-> r, hash |-> LeafHash(seq[w], head[w], r)]

\* What a line becomes when it is written after the last newline.
Joined(line) == IF tail = <<>> THEN line ELSE Garbage

\* Record, Append: the leaf and its newline are written, then memory advances.
Record(w, r) ==
  /\ w \in up
  /\ Len(lines) < MaxLeaves
  /\ lines' = Append(lines, Joined(NextLeaf(w, r)))
  /\ tail' = <<>>
  /\ seq' = [seq EXCEPT ![w] = @ + 1]
  /\ head' = [head EXCEPT ![w] = NextLeaf(w, r).hash]
  /\ acked' = Append(acked, r)
  /\ disturbed' = (disturbed \/ r \in Oversize)
  /\ UNCHANGED <<up, sealVars, edits, failures>>

\* Deviation: the error of the write is dropped.
RecordFails_Acknowledged(w, r) ==
  /\ Failed
  /\ w \in up
  /\ Len(acked) < MaxLeaves
  /\ tail' \in {tail, <<Garbage>>, <<Joined(NextLeaf(w, r))>>}
  /\ acked' = Append(acked, r)
  /\ UNCHANGED <<lines, memoryVars, sealVars>>

\* The write fails: none, a part or all but the newline of the line is in the
\* file, and memory stays.
RecordFails(w, r) ==
  /\ Failed
  /\ w \in up
  /\ tail' \in {tail, <<Garbage>>, <<Joined(NextLeaf(w, r))>>}
  /\ UNCHANGED <<lines, memoryVars, acked, sealVars>>

-----------------------------------------------------------------------------
(* The checkpoint and the file system.                                     *)

\* An operator verifies the log and signs its count and head (Sign).
Seal ==
  /\ Verifies(Content)
  /\ checkpoint' = Signed(Len(Content), HeadOf(Content, Len(Content)))
  /\ sealed' = RecordsOf(Content)
  /\ UNCHANGED <<fileVars, memoryVars, acked, historyVars>>

Edited ==
  /\ edits + failures < MaxMishaps /\ edits' = edits + 1
  /\ UNCHANGED <<memoryVars, acked, sealed, failures, disturbed>>

\* Lines of a verified log are dropped, repeated, moved or mixed.
Edit ==
  /\ Edited
  /\ Verifies(Content) /\ tail = <<>>
  /\ \E i, j \in DOMAIN lines :
       \/ lines' = RemoveAt(lines, i)
       \/ Len(lines) < MaxLeaves /\ lines' = InsertAt(lines, i, lines[j])
       \/ lines' = [lines EXCEPT ![i] = lines[j], ![j] = lines[i]]
       \/ \E k, l, m \in DOMAIN lines :
            lines' = [lines EXCEPT ![i] = [seq |-> lines[j].seq, prev |-> lines[k].prev,
                                           record |-> lines[l].record, hash |-> lines[m].hash]]
  /\ UNCHANGED <<tail, checkpoint>>

\* The end of the file is lost, at any byte.
Truncate ==
  /\ Edited
  /\ \E n \in 0 .. Len(lines) - 1 :
       /\ lines' = SubSeq(lines, 1, n)
       /\ tail' \in {<<>>, <<Garbage>>, <<lines[n + 1]>>}
  /\ UNCHANGED checkpoint

\* The hash of the i-th leaf of a chain of the records rs.
Committed(rs, i) == [j \in 1 .. i |-> <<j - 1, rs[j]>>]

\* The log is replaced by another one, chained correctly.
Rewrite ==
  /\ Edited
  /\ \E n \in 0 .. MaxLeaves : \E rs \in [1 .. n -> Records] :
       lines' = [i \in 1 .. n |-> [seq |-> i - 1, prev |-> Committed(rs, i - 1),
                                   record |-> rs[i], hash |-> Committed(rs, i)]]
  /\ tail' = <<>>
  /\ UNCHANGED checkpoint

\* The checkpoint file is damaged.
SpoilCheckpoint ==
  /\ Edited
  /\ checkpoint.kind = "signed"
  /\ checkpoint' = Unreadable
  /\ UNCHANGED fileVars

Next ==
  \/ \E w \in Writers : Start(w) \/ StartUnread(w) \/ Stop(w)
  \/ \E w \in Writers, r \in Records : Record(w, r) \/ RecordFails(w, r)
  \/ Seal \/ Edit \/ Truncate \/ Rewrite \/ SpoilCheckpoint

Spec == Init /\ [][Next]_vars

-----------------------------------------------------------------------------
(* Properties.                                                             *)

\* One process at a time so far, no failed write or read, no line beyond
\* maxLeaf, and nobody has edited the file.
Undisturbed == ~disturbed /\ edits = 0

InSync(w) ==
  /\ Verifies(Content)
  /\ seq[w] = Len(Content)
  /\ head[w] = HeadOf(Content, Len(Content))

\* Until something disturbs it, the file verifies and the chain in the memory of
\* the process that holds it open is the chain in the file, across restarts and
\* from one process to the next (egress.go:103-104).
ChainKept == Undisturbed => Verifies(Content) /\ \A w \in up : InSync(w)

\* A log that verifies holds every record whose append succeeded, in order,
\* whatever the writers did: several at once, failed writes, failed reads,
\* lines that are too long and restarts make it fail to verify, never lie.
VerifiedIsComplete ==
  edits = 0 /\ Verifies(Content) => RecordsOf(lines) = acked

\* An edit that does not recompute the chain is caught by Verify, unless all
\* it did was to cut the end off (Verify, egress.go:137-189).
EditsDetected ==
  [][(Edit \/ Truncate) /\ Verifies(Content) /\ Verifies(Content')
       => IsPrefix(RecordsOf(Content'), RecordsOf(Content))]_vars

\* A log that passes VerifySigned holds exactly what was signed, even if the
\* whole chain was recomputed (sign.go:66-95).
SealedIsExact ==
  SealHolds(Content, checkpoint) => RecordsOf(Content) = sealed

-----------------------------------------------------------------------------
(* What comments say and the code does not keep.                           *)

\* cmd/stag-proxy/main.go:86: a process resumes the hash chain and refuses to
\* append to a log it has not verified.
ResumesTheChain ==
  [][\A w \in up' \ up : InSync(w)']_vars

\* What GET /api/log answers about the log (handleLog).
LogView ==
  [verified |-> /\ Verifies(Content) /\ Content # <<>>
                /\ checkpoint.kind = "signed" => SealHolds(Content, checkpoint),
   signed   |-> Verifies(Content) /\ Content # <<>> /\ checkpoint.kind # "none"]

\* serve/serve.go:293-294: a signature that fails demotes the log to unverified.
SignedMeansChecked ==
  LogView.signed /\ LogView.verified => SealHolds(Content, checkpoint)

=============================================================================
