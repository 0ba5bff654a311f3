---------------------------- MODULE AuditLogProofs ----------------------------
(***************************************************************************)
(* Proofs about AuditLog for every set of writers and records, every bound *)
(* and any failures.                                                       *)
(***************************************************************************)
EXTENDS AuditLog, SequenceTheorems, SetInduction, TLAPS

\* A single line is a sequence of lines.
LEMMA OneLine ==
  ASSUME NEW x \in Line
  PROVE  <<x>> \in Seq(Line) /\ Len(<<x>>) = 1
  OBVIOUS

\* So is nothing.
LEMMA AtMostOneLine ==
  ASSUME NEW t, t = <<>> \/ \E x \in Line : t = <<x>>
  PROVE  t \in Seq(Line) /\ Len(t) <= 1
<1>1. CASE t = <<>>
  BY <1>1
<1>2. ASSUME NEW x \in Line, t = <<x>>
      PROVE  t \in Seq(Line) /\ Len(t) <= 1
  BY <1>2, OneLine
<1> QED
  BY <1>1, <1>2

\* Nothing follows the last newline, or one line does.
LEMMA TailCases ==
  ASSUME TypeOK
  PROVE  \/ tail = <<>> /\ Content = lines
         \/ \E x \in Line : tail = <<x>> /\ Content = Append(lines, x)
<1>1. CASE Len(tail) = 0
  BY <1>1 DEF TypeOK, Content
<1>2. CASE Len(tail) = 1
  <2>1. tail[1] \in Line /\ tail = <<tail[1]>>
    <3> tail \in Seq(Line)
      BY DEF TypeOK
    <3>1. tail[1] \in Line
      BY <1>2, 1 \in 1 .. Len(tail), ElementOfSeq
    <3>2. \A i \in 1 .. 1 : tail[i] = <<tail[1]>>[i]
      OBVIOUS
    <3>3. <<tail[1]>> \in Seq(Line) /\ Len(<<tail[1]>>) = 1
      BY <3>1, OneLine
    <3> QED
      BY <1>2, <3>1, <3>2, <3>3, SeqEqual
  <2>2. lines \o <<tail[1]>> = Append(lines, tail[1])
    BY <2>1 DEF TypeOK
  <2> QED
    BY <2>1, <2>2 DEF Content
<1>3. Len(tail) \in Nat /\ Len(tail) <= 1
  BY DEF TypeOK
<1> QED
  BY <1>1, <1>2, <1>3

\* A line that is added to a file that verifies is looked at last.
LEMMA VerifiesPrefix ==
  ASSUME NEW f \in Seq(Line), NEW x \in Line, Verifies(Append(f, x))
  PROVE  Verifies(f) /\ x # Garbage
<1> DEFINE g == Append(f, x)
<1>1. Len(g) = Len(f) + 1 /\ g[Len(f) + 1] = x /\ \A i \in 1 .. Len(f) : g[i] = f[i]
  OBVIOUS
<1>2. x # Garbage
  BY <1>1 DEF Verifies
<1>3. ASSUME NEW i \in 1 .. Len(f)
      PROVE  f[i] # Garbage /\ LeafFits(f, i)
  <2>1. g[i] = f[i] /\ g[i] # Garbage /\ LeafFits(g, i)
    BY <1>1 DEF Verifies
  <2>2. HeadOf(g, i - 1) = HeadOf(f, i - 1)
    BY <1>1 DEF HeadOf
  <2> QED
    BY <2>1, <2>2 DEF LeafFits
<1> QED
  BY <1>2, <1>3 DEF Verifies

\* A leaf made for the end of a file that verifies keeps it verifying.
LEMMA VerifiesExtend ==
  ASSUME NEW f \in Seq(Line), Verifies(f), NEW x \in Leaf,
         x.record \notin Oversize, x.seq = Len(f), x.prev = HeadOf(f, Len(f)),
         x.hash = LeafHash(x.seq, x.prev, x.record)
  PROVE  Verifies(Append(f, x)) /\ HeadOf(Append(f, x), Len(f) + 1) = x.hash
<1> DEFINE g == Append(f, x)
<1>1. Len(g) = Len(f) + 1 /\ g[Len(f) + 1] = x /\ \A i \in 1 .. Len(f) : g[i] = f[i]
  BY DEF Line
<1>2. Len(f) \in Nat
  OBVIOUS
<1>3. x # Garbage
  BY AuditAssumption
<1>4. \A i \in 0 .. Len(f) : HeadOf(g, i) = HeadOf(f, i)
  BY <1>1 DEF HeadOf
<1>5. ASSUME NEW i \in 1 .. Len(f) + 1
      PROVE  g[i] # Garbage /\ LeafFits(g, i)
  <2>1. CASE i = Len(f) + 1
    BY <1>1, <1>2, <1>3, <1>4, <2>1 DEF LeafFits
  <2>2. CASE i \in 1 .. Len(f)
    <3>1. g[i] = f[i] /\ HeadOf(g, i - 1) = HeadOf(f, i - 1)
      BY <1>1, <1>2, <1>4, <2>2
    <3> QED
      BY <2>2, <3>1 DEF Verifies, LeafFits
  <2> QED
    BY <1>2, <2>1, <2>2
<1>6. HeadOf(g, Len(f) + 1) = x.hash
  BY <1>1, <1>2 DEF HeadOf
<1> QED
  BY <1>1, <1>5, <1>6 DEF Verifies

\* What a writer appends is a leaf.
LEMMA NextLeafType ==
  ASSUME TypeOK, NEW w \in Writers, NEW r \in Records
  PROVE  NextLeaf(w, r) \in Leaf /\ Joined(NextLeaf(w, r)) \in Line
<1>1. seq[w] \in Nat /\ head[w] \in Hashes
  BY DEF TypeOK
<1>2. <<seq[w], r>> \in Nat \X Records
  BY <1>1
<1>3. LeafHash(seq[w], head[w], r) \in Hashes
  BY <1>1, <1>2 DEF LeafHash, Hashes
<1> QED
  BY <1>1, <1>3 DEF NextLeaf, Leaf, Joined, Line

\* A file that was read to its end without an error has a typed head.
LEMMA HeadType ==
  ASSUME NEW f \in Seq(Line), Verifies(f)
  PROVE  Len(f) \in Nat /\ HeadOf(f, Len(f)) \in Hashes
<1>1. Len(f) \in Nat /\ GenesisHash \in Hashes
  BY DEF GenesisHash, Hashes
<1>2. CASE Len(f) = 0
  BY <1>1, <1>2 DEF HeadOf
<1>3. CASE Len(f) # 0
  <2>1. f[Len(f)] \in Line /\ f[Len(f)] # Garbage
    BY <1>1, <1>3 DEF Verifies
  <2>2. f[Len(f)].hash \in Hashes
    BY <2>1 DEF Line, Leaf
  <2> QED
    BY <1>1, <1>3, <2>2 DEF HeadOf
<1> QED
  BY <1>2, <1>3

LEMMA ContentType == TypeOK => Content \in Seq(Line)
  BY DEF TypeOK, Content

\* The records of a file that verifies.
LEMMA RecordsType ==
  ASSUME NEW f \in Seq(Line), Verifies(f)
  PROVE  RecordsOf(f) \in Seq(Records)
<1>1. \A i \in 1 .. Len(f) : f[i].record \in Records
  BY DEF Verifies, Line, Leaf
<1> QED
  BY <1>1 DEF RecordsOf

-----------------------------------------------------------------------------

\* An empty file, no process, no checkpoint.
LEMMA InitTypeOK == Init => TypeOK
<1> SUFFICES ASSUME Init PROVE TypeOK
  OBVIOUS
<1>1. edits \in Nat /\ failures \in Nat /\ disturbed \in BOOLEAN
  BY DEF Init
<1> QED
  BY <1>1 DEF Init, TypeOK, GenesisHash, Hashes, NoCheckpoint

\* An edit keeps the file a sequence of lines.
LEMMA EditType ==
  ASSUME TypeOK, Edit \/ Truncate \/ Rewrite
  PROVE  lines' \in Seq(Line) /\ tail' \in Seq(Line) /\ Len(tail') <= 1
<1> USE DEF TypeOK
<1>1. CASE Edit
  <2>1. tail' = tail /\ tail \in Seq(Line) /\ Len(tail) <= 1
    BY <1>1 DEF Edit
  <2>2. PICK i, j \in DOMAIN lines :
           \/ lines' = RemoveAt(lines, i)
           \/ Len(lines) < MaxLeaves /\ lines' = InsertAt(lines, i, lines[j])
           \/ lines' = [lines EXCEPT ![i] = lines[j], ![j] = lines[i]]
           \/ \E k, l, m \in DOMAIN lines :
                lines' = [lines EXCEPT ![i] = [seq |-> lines[j].seq, prev |-> lines[k].prev,
                                               record |-> lines[l].record, hash |-> lines[m].hash]]
    BY <1>1 DEF Edit
  <2>3. /\ DOMAIN lines = 1 .. Len(lines) /\ Len(lines) \in Nat
        /\ \A k \in DOMAIN lines : lines[k] \in Line
    OBVIOUS
  <2>4. CASE lines' = RemoveAt(lines, i)
    <3>1. /\ SubSeq(lines, 1, i - 1) \in Seq(Line)
          /\ SubSeq(lines, i + 1, Len(lines)) \in Seq(Line)
      BY <2>3
    <3>2. lines' = SubSeq(lines, 1, i - 1) \o SubSeq(lines, i + 1, Len(lines))
      BY <2>4 DEF RemoveAt
    <3>3. lines' \in Seq(Line)
      BY <3>1, <3>2
    <3> QED
      BY <2>1, <3>3
  <2>5. CASE lines' = InsertAt(lines, i, lines[j])
    <3>1. /\ SubSeq(lines, 1, i - 1) \in Seq(Line) /\ SubSeq(lines, i, Len(lines)) \in Seq(Line)
          /\ <<lines[j]>> \in Seq(Line)
      BY <2>3
    <3>2. lines' = SubSeq(lines, 1, i - 1) \o <<lines[j]>> \o SubSeq(lines, i, Len(lines))
      BY <2>5 DEF InsertAt
    <3>3. lines' \in Seq(Line)
      BY <3>1, <3>2
    <3> QED
      BY <2>1, <3>3
  <2>6. CASE lines' = [lines EXCEPT ![i] = lines[j], ![j] = lines[i]]
    BY <2>1, <2>3, <2>6
  <2>7. ASSUME NEW k \in DOMAIN lines, NEW l \in DOMAIN lines, NEW m \in DOMAIN lines,
               lines' = [lines EXCEPT ![i] = [seq |-> lines[j].seq, prev |-> lines[k].prev,
                                              record |-> lines[l].record, hash |-> lines[m].hash]]
        PROVE  lines' \in Seq(Line)
    <3>1. Verifies(lines)
      BY <1>1 DEF Edit, Content
    <3>2. \A n \in DOMAIN lines : lines[n] \in Leaf
      BY <2>3, <3>1 DEF Verifies, Line
    <3>3. [seq |-> lines[j].seq, prev |-> lines[k].prev,
           record |-> lines[l].record, hash |-> lines[m].hash] \in Line
      BY <3>2 DEF Leaf, Line
    <3> QED
      BY <2>3, <2>7, <3>3
  <2> QED
    BY <2>1, <2>2, <2>4, <2>5, <2>6, <2>7
<1>2. CASE Truncate
  <2>1. PICK n \in 0 .. Len(lines) - 1 :
           /\ lines' = SubSeq(lines, 1, n)
           /\ tail' \in {<<>>, <<Garbage>>, <<lines[n + 1]>>}
    BY <1>2 DEF Truncate
  <2>2. lines[n + 1] \in Line /\ Garbage \in Line
    BY DEF Line
  <2>3. lines' \in Seq(Line)
    BY <2>1
  <2>4. tail' = <<>> \/ \E x \in Line : tail' = <<x>>
    BY <2>1, <2>2
  <2> QED
    BY <2>3, <2>4, AtMostOneLine, Zenon
<1>3. CASE Rewrite
  <2>0. PICK n \in 0 .. MaxLeaves : \E rs \in [1 .. n -> Records] :
          lines' = [i \in 1 .. n |-> [seq |-> i - 1, prev |-> Committed(rs, i - 1),
                                      record |-> rs[i], hash |-> Committed(rs, i)]]
    BY <1>3, Zenon DEF Rewrite
  <2>1. PICK rs \in [1 .. n -> Records] :
          lines' = [i \in 1 .. n |-> [seq |-> i - 1, prev |-> Committed(rs, i - 1),
                                      record |-> rs[i], hash |-> Committed(rs, i)]]
    BY <2>0
  <2>2. n \in Nat
    BY AuditAssumption
  <2>3. ASSUME NEW i \in 0 .. n
        PROVE  Committed(rs, i) \in Hashes
    <3>1. \A j \in 1 .. i : <<j - 1, rs[j]>> \in Nat \X Records
      BY <2>2
    <3> QED
      BY <2>2, <3>1 DEF Hashes, Committed
  <2>4. ASSUME NEW i \in 1 .. n
        PROVE  [seq |-> i - 1, prev |-> Committed(rs, i - 1),
                record |-> rs[i], hash |-> Committed(rs, i)] \in Line
    <3>1. i \in 0 .. n /\ i - 1 \in 0 .. n /\ i - 1 \in Nat
      BY <2>2
    <3>2. Committed(rs, i) \in Hashes /\ Committed(rs, i - 1) \in Hashes /\ rs[i] \in Records
      BY <2>3, <3>1
    <3> QED
      BY <3>1, <3>2 DEF Leaf, Line
  <2>6. lines' \in Seq(Line)
    BY <2>1, <2>2, <2>4
  <2>7. tail' = <<>>
    BY <1>3 DEF Rewrite
  <2> QED
    BY <2>6, <2>7
<1> QED
  BY <1>1, <1>2, <1>3

\* What the histories hold keeps its type.
HistoryTypeOK == edits \in Nat /\ failures \in Nat /\ disturbed \in BOOLEAN

LEMMA HistoryType == HistoryTypeOK /\ [Next]_vars => HistoryTypeOK'
<1> SUFFICES ASSUME HistoryTypeOK, [Next]_vars
             PROVE  HistoryTypeOK'
  OBVIOUS
<1>1. CASE UNCHANGED historyVars
  BY <1>1 DEF historyVars, HistoryTypeOK
<1>2. CASE Failed
  BY <1>2 DEF Failed, HistoryTypeOK
<1>3. CASE Edited
  BY <1>3 DEF Edited, HistoryTypeOK
<1>4. ASSUME UNCHANGED <<edits, failures>>,
             \/ disturbed' = (disturbed \/ up # {})
             \/ \E r \in Records : disturbed' = (disturbed \/ r \in Oversize)
      PROVE  HistoryTypeOK'
  <2>1. disturbed' \in BOOLEAN
    BY <1>4, Zenon
  <2> QED
    BY <1>4, <2>1 DEF HistoryTypeOK
<1>5. \/ UNCHANGED historyVars \/ Failed \/ Edited
      \/ /\ UNCHANGED <<edits, failures>>
         /\ \/ disturbed' = (disturbed \/ up # {})
            \/ \E r \in Records : disturbed' = (disturbed \/ r \in Oversize)
  BY Zenon DEF Next, Start, StartUnread, Stop, Record, RecordFails, Seal, Edit, Truncate,
               Rewrite, SpoilCheckpoint, vars
<1> QED
  BY <1>1, <1>2, <1>3, <1>4, <1>5, Zenon

\* Every step keeps every variable in its type.
LEMMA NextTypeOK == TypeOK /\ [Next]_vars => TypeOK'
<1> SUFFICES ASSUME TypeOK, [Next]_vars
             PROVE  TypeOK'
  OBVIOUS
<1>0. edits' \in Nat /\ failures' \in Nat /\ disturbed' \in BOOLEAN
  BY HistoryType, Zenon DEF HistoryTypeOK, TypeOK
<1> USE <1>0 DEF TypeOK
<1>1. ASSUME NEW w \in Writers, Start(w) \/ StartUnread(w)
      PROVE  TypeOK'
  <2>1. GenesisHash \in Hashes
    BY DEF GenesisHash, Hashes
  <2>2. \E n \in Nat, h \in Hashes : Resume(w, n, h)
    BY <1>1, <2>1, ContentType, HeadType DEF Start, StartUnread
  <2>3. UNCHANGED <<lines, tail, acked, checkpoint, sealed>>
    BY <1>1 DEF Start, StartUnread, fileVars, sealVars
  <2> QED
    BY <2>2, <2>3 DEF Resume
<1>2. ASSUME NEW w \in Writers, Stop(w)
      PROVE  TypeOK'
  BY <1>2 DEF Stop, fileVars, sealVars
<1>3. ASSUME NEW w \in Writers, NEW r \in Records, Record(w, r)
      PROVE  TypeOK'
  <2>1. NextLeaf(w, r).hash \in Hashes
    BY NextLeafType DEF Leaf
  <2>2. lines' \in Seq(Line) /\ tail' = <<>>
    BY <1>3, NextLeafType DEF Record
  <2> QED
    BY <1>3, <2>1, <2>2 DEF Record, sealVars
<1>4. ASSUME NEW w \in Writers, NEW r \in Records, RecordFails(w, r)
      PROVE  TypeOK'
  <2>1. Garbage \in Line /\ Joined(NextLeaf(w, r)) \in Line
    BY NextLeafType DEF Line
  <2>2. tail' = tail \/ \E x \in Line : tail' = <<x>>
    BY <1>4, <2>1 DEF RecordFails
  <2>3. tail' \in Seq(Line) /\ Len(tail') <= 1
    <3>1. CASE tail' = tail
      BY <3>1
    <3>2. CASE \E x \in Line : tail' = <<x>>
      BY <3>2, AtMostOneLine, Zenon
    <3> QED
      BY <2>2, <3>1, <3>2
  <2> QED
    BY <1>4, <2>3 DEF RecordFails, memoryVars, sealVars
<1>5. CASE Seal
  <2>1. Content \in Seq(Line) /\ Verifies(Content)
    BY <1>5, ContentType DEF Seal
  <2>2. Len(Content) \in Nat /\ HeadOf(Content, Len(Content)) \in Hashes
        /\ RecordsOf(Content) \in Seq(Records)
    BY <2>1, HeadType, RecordsType
  <2> QED
    BY <1>5, <2>2 DEF Seal, Signed, fileVars, memoryVars
<1>6. CASE Edit \/ Truncate \/ Rewrite
  <2>1. lines' \in Seq(Line) /\ tail' \in Seq(Line) /\ Len(tail') <= 1
    BY <1>6, EditType
  <2>2. UNCHANGED <<up, seq, head, acked, sealed, checkpoint>>
    BY <1>6 DEF Edit, Truncate, Rewrite, Edited, memoryVars
  <2> QED
    BY <2>1, <2>2
<1>7. CASE SpoilCheckpoint
  BY <1>7 DEF SpoilCheckpoint, Edited, memoryVars, fileVars, Unreadable
<1>8. CASE UNCHANGED vars
  BY <1>8 DEF vars, fileVars, memoryVars, sealVars
<1> QED
  BY <1>1, <1>2, <1>3, <1>4, <1>5, <1>6, <1>7, <1>8 DEF Next

\* Every variable of the log stays in its type.
THEOREM TypeCorrect == Spec => []TypeOK
  BY InitTypeOK, NextTypeOK, PTL DEF Spec

-----------------------------------------------------------------------------

\* Every edit is counted, so none has happened before or in a step that ends
\* with no edit.
LEMMA NoEdit ==
  ASSUME TypeOK, edits' = 0, [Next]_vars
  PROVE  /\ ~Edit /\ ~Truncate /\ ~Rewrite /\ ~SpoilCheckpoint
         /\ edits = 0
<1>1. ~Edit /\ ~Truncate /\ ~Rewrite /\ ~SpoilCheckpoint
  BY DEF TypeOK, Edit, Truncate, Rewrite, SpoilCheckpoint, Edited
<1> QED
  BY <1>1 DEF Next, Start, StartUnread, Stop, Record, RecordFails, Failed, Seal, historyVars, vars

\* The records of a file with one line more.
LEMMA RecordsGrow ==
  ASSUME NEW f \in Seq(Line), NEW x \in Leaf, RecordsOf(f) \in Seq(Records)
  PROVE  RecordsOf(Append(f, x)) = Append(RecordsOf(f), x.record)
<1> DEFINE g == Append(f, x)
<1>1. /\ Len(g) = Len(f) + 1 /\ g[Len(f) + 1] = x /\ Len(f) \in Nat
      /\ \A i \in 1 .. Len(f) : g[i] = f[i]
  BY DEF Line
<1>2. x.record \in Records
  BY DEF Leaf
<1>3. Len(RecordsOf(f)) = Len(f) /\ \A i \in 1 .. Len(f) : RecordsOf(f)[i] = f[i].record
  BY <1>1 DEF RecordsOf
<1>4. \A i \in 1 .. Len(f) : f[i].record \in Records
  BY <1>1, <1>3, ElementOfSeq
<1>5. ASSUME NEW i \in 1 .. Len(f) + 1
      PROVE  g[i].record = Append(RecordsOf(f), x.record)[i] /\ g[i].record \in Records
  <2>1. CASE i = Len(f) + 1
    BY <1>1, <1>2, <1>3, <2>1
  <2>2. CASE i \in 1 .. Len(f)
    <3>1. Append(RecordsOf(f), x.record)[i] = RecordsOf(f)[i]
      BY <1>2, <1>3, <2>2
    <3>2. g[i] = f[i] /\ RecordsOf(f)[i] = f[i].record /\ f[i].record \in Records
      BY <1>1, <1>3, <1>4, <2>2
    <3> QED
      BY <3>1, <3>2
  <2>3. i = Len(f) + 1 \/ i \in 1 .. Len(f)
    BY <1>1
  <2> QED
    BY <2>1, <2>2, <2>3, Zenon
<1>6. RecordsOf(g) = [i \in 1 .. Len(f) + 1 |-> g[i].record]
  BY <1>1 DEF RecordsOf
<1>7. /\ Append(RecordsOf(f), x.record) \in Seq(Records)
      /\ Len(Append(RecordsOf(f), x.record)) = Len(f) + 1
  BY <1>2, <1>3
<1>8. /\ RecordsOf(g) \in Seq(Records)
      /\ Len(RecordsOf(g)) = Len(f) + 1
      /\ \A i \in 1 .. Len(f) + 1 : RecordsOf(g)[i] = g[i].record
  BY <1>1, <1>5, <1>6
<1> QED
  BY <1>5, <1>7, <1>8, SeqEqual

\* If a successful append leaves a file that verifies, the append joined
\* nothing, so the file verified before it.
LEMMA AppendComplete ==
  ASSUME TypeOK, VerifiedIsComplete, edits = 0,
         NEW w \in Writers, NEW r \in Records, Record(w, r), Verifies(Content')
  PROVE  RecordsOf(lines') = acked'
<1>1. lines \in Seq(Line) /\ acked \in Seq(Records)
  BY DEF TypeOK
<1>2. Joined(NextLeaf(w, r)) \in Line /\ NextLeaf(w, r) \in Leaf
  BY NextLeafType
<1>3. Content' = lines' /\ lines' = Append(lines, Joined(NextLeaf(w, r)))
  BY <1>1, <1>2, ConcatEmptySeq DEF Record, Content
<1>4. Verifies(lines) /\ Joined(NextLeaf(w, r)) # Garbage
  BY <1>1, <1>2, <1>3, VerifiesPrefix
<1>5. tail = <<>> /\ Content = lines
  <2>1. tail = <<>>
    BY <1>4 DEF Joined
  <2> QED
    BY <2>1, TailCases
<1>6. RecordsOf(lines) = acked
  BY <1>4, <1>5 DEF VerifiedIsComplete
<1>7. RecordsOf(Append(lines, NextLeaf(w, r))) = Append(RecordsOf(lines), NextLeaf(w, r).record)
  BY <1>1, <1>2, <1>6, RecordsGrow
<1>8. NextLeaf(w, r).record = r /\ Joined(NextLeaf(w, r)) = NextLeaf(w, r)
  BY <1>5 DEF NextLeaf, Joined
<1> QED
  BY <1>3, <1>6, <1>7, <1>8 DEF Record

\* A failed append leaves the complete lines as they are.
LEMMA FailureComplete ==
  ASSUME TypeOK, VerifiedIsComplete, edits = 0,
         NEW w \in Writers, NEW r \in Records, RecordFails(w, r), Verifies(Content')
  PROVE  RecordsOf(lines') = acked'
<1>1. lines \in Seq(Line) /\ lines' = lines /\ acked' = acked
  BY DEF TypeOK, RecordFails
<1>2. CASE tail' = tail
  BY <1>1, <1>2 DEF Content, VerifiedIsComplete
<1>3. CASE tail' # tail
  <2>1. PICK x \in Line : tail' = <<x>> /\ (x = Garbage \/ x = Joined(NextLeaf(w, r)))
    BY <1>3, NextLeafType DEF RecordFails, Line
  <2>2. Content' = Append(lines, x)
    BY <1>1, <2>1 DEF Content
  <2>3. Verifies(lines) /\ x # Garbage
    BY <1>1, <2>2, VerifiesPrefix
  <2>4. tail = <<>>
    BY <2>1, <2>3 DEF Joined
  <2>5. Content = lines
    BY <2>4, TailCases
  <2> QED
    BY <1>1, <2>3, <2>5 DEF VerifiedIsComplete
<1> QED
  BY <1>2, <1>3

\* Completeness is inductive.
LEMMA NextComplete == TypeOK /\ VerifiedIsComplete /\ [Next]_vars => VerifiedIsComplete'
<1> SUFFICES ASSUME TypeOK, VerifiedIsComplete, [Next]_vars, edits' = 0, Verifies(Content')
             PROVE  RecordsOf(lines') = acked'
  BY DEF VerifiedIsComplete, Verifies, LeafFits, HeadOf, LeafHash, RecordsOf
<1>0. edits = 0
  BY NoEdit
<1>1. ASSUME NEW w \in Writers, NEW r \in Records, Record(w, r) \/ RecordFails(w, r)
      PROVE  RecordsOf(lines') = acked'
  BY <1>0, <1>1, AppendComplete, FailureComplete
<1>2. ASSUME UNCHANGED <<lines, tail, acked>>
      PROVE  RecordsOf(lines') = acked'
  BY <1>0, <1>2 DEF VerifiedIsComplete, Content
<1>3. CASE \/ \E w \in Writers : Start(w) \/ StartUnread(w) \/ Stop(w)
           \/ Seal
           \/ UNCHANGED vars
  BY <1>2, <1>3 DEF Start, StartUnread, Stop, Seal, fileVars, vars
<1> QED
  BY <1>1, <1>3, NoEdit DEF Next

\* A log that verifies holds every acknowledged record in order, for any
\* number of writers and whatever appends and reads fail.
THEOREM VerifiedLogIsComplete == Spec => []VerifiedIsComplete
<1>1. Init => VerifiedIsComplete
  BY DEF Init, VerifiedIsComplete, RecordsOf
<1> QED
  BY <1>1, NextComplete, TypeCorrect, PTL DEF Spec

-----------------------------------------------------------------------------

\* There is at most one process, it and the file agree, and no line is left
\* open.
KeptInv ==
  Undisturbed =>
    /\ tail = <<>>
    /\ Verifies(lines)
    /\ \A v, w \in up : v = w
    /\ \A w \in up : seq[w] = Len(lines) /\ head[w] = HeadOf(lines, Len(lines))

\* A step that ends undisturbed was not the first disturbance.
LEMMA StillUndisturbed ==
  ASSUME TypeOK, [Next]_vars, Undisturbed'
  PROVE  /\ Undisturbed /\ ~Failed
         /\ \A w \in Writers : Start(w) => up = {}
         /\ \A w \in Writers, r \in Records : Record(w, r) => r \notin Oversize
<1>1. edits = 0 /\ ~Edit /\ ~Truncate /\ ~Rewrite /\ ~SpoilCheckpoint
  BY NoEdit DEF Undisturbed
<1>2. ~Failed
  BY DEF Failed, Undisturbed
<1>3. ~disturbed
  BY <1>1, <1>2, Zenon DEF Next, Start, StartUnread, Stop, Record, RecordFails, Seal, Undisturbed,
                           historyVars, vars
<1> QED
  BY <1>1, <1>2, <1>3, Zenon DEF Undisturbed, Start, Record

\* It is inductive.
LEMMA NextKept == TypeOK /\ KeptInv /\ [Next]_vars => KeptInv'
<1> SUFFICES ASSUME TypeOK, KeptInv, [Next]_vars, Undisturbed'
             PROVE  /\ tail' = <<>>
                    /\ Verifies(lines')
                    /\ \A v, w \in up' : v = w
                    /\ \A w \in up' : /\ seq'[w] = Len(lines')
                                      /\ head'[w] = HeadOf(lines', Len(lines'))
  BY DEF KeptInv, Verifies, LeafFits, HeadOf, LeafHash
<1>0. Undisturbed
  BY StillUndisturbed
<1>1. /\ tail = <<>> /\ Verifies(lines) /\ Content = lines /\ lines \in Seq(Line)
      /\ \A w \in up : seq[w] = Len(lines) /\ head[w] = HeadOf(lines, Len(lines))
  BY <1>0, TailCases DEF KeptInv, TypeOK
<1>2. \A v, w \in up : v = w
  BY <1>0 DEF KeptInv
<1>3. ASSUME NEW w \in Writers, Start(w)
      PROVE  /\ tail' = <<>> /\ lines' = lines
             /\ \A v, u \in up' : v = u
             /\ \A v \in up' : seq'[v] = Len(lines) /\ head'[v] = HeadOf(lines, Len(lines))
  <2>1. up = {}
    BY <1>3, StillUndisturbed
  <2> QED
    BY <1>1, <1>3, <2>1 DEF Start, Resume, fileVars, TypeOK
<1>4. ASSUME NEW w \in Writers, NEW r \in Records, Record(w, r)
      PROVE  /\ tail' = <<>> /\ Verifies(lines') /\ \A v, u \in up' : v = u
             /\ \A v \in up' : seq'[v] = Len(lines') /\ head'[v] = HeadOf(lines', Len(lines'))
  <2> DEFINE x == NextLeaf(w, r)
  <2>1. lines' = Append(lines, x) /\ x \in Leaf
    BY <1>1, <1>4, NextLeafType DEF Record, Joined
  <2>2. w \in up /\ seq[w] = Len(lines) /\ head[w] = HeadOf(lines, Len(lines))
    BY <1>1, <1>4 DEF Record
  <2>3. /\ x.record \notin Oversize /\ x.seq = Len(lines) /\ x.prev = HeadOf(lines, Len(lines))
        /\ x.hash = LeafHash(x.seq, x.prev, x.record)
    BY <1>4, <2>2, StillUndisturbed DEF NextLeaf
  <2>4. /\ Verifies(lines') /\ HeadOf(lines', Len(lines) + 1) = x.hash
        /\ Len(lines') = Len(lines) + 1
    <3>1. Verifies(Append(lines, x)) /\ HeadOf(Append(lines, x), Len(lines) + 1) = x.hash
      <4> HIDE DEF x
      <4> QED
        BY <1>1, <2>1, <2>3, VerifiesExtend
    <3>2. Len(Append(lines, x)) = Len(lines) + 1
      BY <1>1, <2>1 DEF Line
    <3> QED
      BY <2>1, <3>1, <3>2
  <2>5. up' = up /\ seq'[w] = seq[w] + 1 /\ head'[w] = x.hash /\ tail' = <<>>
    BY <1>4 DEF Record, TypeOK
  <2>6. \A v \in up' : v = w
    BY <1>2, <2>2, <2>5 DEF TypeOK
  <2> QED
    BY <2>2, <2>4, <2>5, <2>6
<1>5. ASSUME UNCHANGED fileVars, up' \subseteq up, UNCHANGED <<seq, head>>
      PROVE  /\ tail' = <<>> /\ lines' = lines /\ \A v, u \in up' : v = u
             /\ \A v \in up' : seq'[v] = Len(lines) /\ head'[v] = HeadOf(lines, Len(lines))
  BY <1>1, <1>2, <1>5 DEF fileVars
<1>6. CASE (\E w \in Writers : Stop(w)) \/ Seal \/ UNCHANGED vars
  BY <1>1, <1>5, <1>6 DEF Stop, Seal, vars, memoryVars, fileVars
<1>7. /\ \A w \in Writers : ~StartUnread(w)
      /\ \A w \in Writers, r \in Records : ~RecordFails(w, r)
      /\ ~Edit /\ ~Truncate /\ ~Rewrite /\ ~SpoilCheckpoint
  BY NoEdit, StillUndisturbed DEF Undisturbed, StartUnread, RecordFails
<1> QED
  BY <1>1, <1>3, <1>4, <1>6, <1>7 DEF Next

\* Until a read or a write fails, a line is too long, two processes hold the
\* file open or somebody edits it, it verifies at every moment, and the memory
\* of the process that holds it open is the end of the file, across any number
\* of restarts.
THEOREM ChainIsKept == Spec => []ChainKept
<1>1. Init => KeptInv
  BY DEF Init, KeptInv, Verifies
<1>2. TypeOK /\ KeptInv => ChainKept
  BY TailCases DEF KeptInv, ChainKept, InSync
<1> QED
  BY <1>1, <1>2, NextKept, TypeCorrect, PTL DEF Spec

-----------------------------------------------------------------------------
(* What a hash commits to.                                                 *)

\* The pairs a hash commits to are positions and records.
LEMMA CommittedType ==
  ASSUME NEW rs \in Seq(Records), NEW n \in 0 .. Len(rs)
  PROVE  /\ Committed(rs, n) \in Hashes
         /\ Len(Committed(rs, n)) = n
         /\ \A j \in 1 .. n : Committed(rs, n)[j] = <<j - 1, rs[j]>>
<1>1. \A j \in 1 .. n : <<j - 1, rs[j]>> \in Nat \X Records
  OBVIOUS
<1> QED
  BY <1>1 DEF Committed, Hashes

\* The hash of the next leaf commits to one more pair.
LEMMA CommittedGrows ==
  ASSUME NEW rs \in Seq(Records), NEW n \in 0 .. Len(rs) - 1
  PROVE  LeafHash(n, Committed(rs, n), rs[n + 1]) = Committed(rs, n + 1)
<1> DEFINE a == LeafHash(n, Committed(rs, n), rs[n + 1])
<1> DEFINE b == Committed(rs, n + 1)
<1>1. n \in 0 .. Len(rs) /\ n + 1 \in 0 .. Len(rs) /\ n + 1 \in 1 .. Len(rs)
  OBVIOUS
<1>2. /\ Committed(rs, n) \in Hashes /\ Len(Committed(rs, n)) = n
      /\ \A j \in 1 .. n : Committed(rs, n)[j] = <<j - 1, rs[j]>>
  BY <1>1, CommittedType
<1>3. b \in Hashes /\ Len(b) = n + 1 /\ \A j \in 1 .. n + 1 : b[j] = <<j - 1, rs[j]>>
  BY <1>1, CommittedType
<1>4. <<n, rs[n + 1]>> \in Nat \X Records
  BY <1>1
<1>5. /\ a \in Hashes /\ Len(a) = n + 1
      /\ \A j \in 1 .. n : a[j] = Committed(rs, n)[j]
      /\ a[n + 1] = <<n, rs[n + 1]>>
  BY <1>2, <1>4 DEF LeafHash, Hashes
<1> HIDE DEF a, b
<1>6. ASSUME NEW j \in 1 .. n + 1
      PROVE  a[j] = b[j]
  <2>1. CASE j \in 1 .. n
    BY <1>2, <1>3, <1>5, <2>1
  <2>2. CASE j = n + 1
    <3>1. j - 1 = n
      BY <2>2
    <3> QED
      BY <1>3, <1>5, <2>2, <3>1
  <2> QED
    BY <2>1, <2>2
<1>7. a = b
  BY <1>3, <1>5, <1>6, SeqEqual DEF Hashes
<1> QED
  BY <1>7 DEF a, b

\* In a file that verifies the hash of every leaf commits to all the records up
\* to it.
LEMMA ChainCommits ==
  ASSUME NEW f \in Seq(Line), Verifies(f)
  PROVE  \A n \in 0 .. Len(f) : HeadOf(f, n) = Committed(RecordsOf(f), n)
<1> DEFINE rs == RecordsOf(f)
           S == {n \in 0 .. Len(f) : HeadOf(f, n) = Committed(rs, n)}
<1>1. rs \in Seq(Records) /\ Len(rs) = Len(f) /\ \A i \in 1 .. Len(f) : rs[i] = f[i].record
  BY RecordsType DEF RecordsOf
<1>2. 0 \in S
  BY DEF HeadOf, GenesisHash, Committed
<1>3. ASSUME NEW n \in 0 .. Len(f) - 1, n \in S
      PROVE  n + 1 \in S
  <2>1. n + 1 \in 1 .. Len(f) /\ n + 1 # 0 /\ n + 1 - 1 = n
    OBVIOUS
  <2>2. LeafFits(f, n + 1)
    BY <2>1 DEF Verifies
  <2>3. f[n + 1].hash = LeafHash(n, HeadOf(f, n), rs[n + 1])
    BY <1>1, <2>1, <2>2 DEF LeafFits
  <2>4. HeadOf(f, n + 1) = LeafHash(n, Committed(rs, n), rs[n + 1])
    BY <1>3, <2>1, <2>3 DEF HeadOf
  <2>5. LeafHash(n, Committed(rs, n), rs[n + 1]) = Committed(rs, n + 1)
    BY <1>1, CommittedGrows
  <2> QED
    BY <2>1, <2>4, <2>5
<1> HIDE DEF S
<1>4. \A n \in 0 .. Len(f) : n \in S
  <2>1. 0 \in Nat /\ Len(f) \in Nat
    OBVIOUS
  <2> QED
    BY <1>2, <1>3, <2>1, IntervalInduction, Zenon
<1> QED
  BY <1>4 DEF S

\* Hashes that are equal commit to as many records, and to the same.
LEMMA CommittedOnce ==
  ASSUME NEW rs \in Seq(Records), NEW n \in 0 .. Len(rs),
         NEW qs \in Seq(Records), NEW m \in 0 .. Len(qs),
         Committed(rs, n) = Committed(qs, m)
  PROVE  n = m /\ \A j \in 1 .. n : rs[j] = qs[j]
<1>1. Len(Committed(rs, n)) = n /\ \A j \in 1 .. n : Committed(rs, n)[j] = <<j - 1, rs[j]>>
  BY CommittedType
<1>2. Len(Committed(qs, m)) = m /\ \A j \in 1 .. m : Committed(qs, m)[j] = <<j - 1, qs[j]>>
  BY CommittedType
<1>3. n = m
  BY <1>1, <1>2
<1>4. ASSUME NEW j \in 1 .. n
      PROVE  rs[j] = qs[j]
  <2>1. <<j - 1, rs[j]>> = <<j - 1, qs[j]>>
    BY <1>1, <1>2, <1>3
  <2> QED
    BY <2>1
<1> QED
  BY <1>3, <1>4

-----------------------------------------------------------------------------
(* The checkpoint.                                                         *)

\* A checkpoint that reads is the number of records it was signed over and the
\* hash that commits to them.
SealInv ==
  checkpoint.kind = "signed" =>
    /\ checkpoint.count = Len(sealed)
    /\ checkpoint.head = Committed(sealed, Len(sealed))

\* Only Seal writes a checkpoint that reads.
LEMMA NextSealed == TypeOK /\ SealInv /\ [Next]_vars => SealInv'
<1> SUFFICES ASSUME TypeOK, SealInv, [Next]_vars
             PROVE  SealInv'
  OBVIOUS
<1>1. CASE Seal
  <2>1. Content \in Seq(Line) /\ Verifies(Content)
    BY <1>1, ContentType DEF Seal
  <2>2. Len(RecordsOf(Content)) = Len(Content) /\ Len(Content) \in Nat
    BY <2>1 DEF RecordsOf
  <2>3. HeadOf(Content, Len(Content)) = Committed(RecordsOf(Content), Len(Content))
    BY <2>1, <2>2, ChainCommits
  <2>4. /\ checkpoint' = Signed(Len(Content), HeadOf(Content, Len(Content)))
        /\ sealed' = RecordsOf(Content)
    BY <1>1 DEF Seal
  <2>5. checkpoint'.count = Len(sealed')
    BY <2>2, <2>4 DEF Signed
  <2>6. checkpoint'.head = Committed(sealed', Len(sealed'))
    BY <2>2, <2>3, <2>4 DEF Signed
  <2> QED
    BY <2>5, <2>6 DEF SealInv, Committed
<1>2. CASE SpoilCheckpoint
  BY <1>2 DEF SpoilCheckpoint, SealInv, Unreadable
<1>3. CASE UNCHANGED <<checkpoint, sealed>>
  BY <1>3 DEF SealInv, Committed
<1>4. ~Seal /\ ~SpoilCheckpoint => UNCHANGED <<checkpoint, sealed>>
  BY DEF Next, Start, StartUnread, Stop, Record, RecordFails, Edit, Truncate, Rewrite,
         Edited, vars, sealVars
<1> QED
  BY <1>1, <1>2, <1>3, <1>4

\* A log that its checkpoint describes holds exactly the records that were
\* signed, for any number of writers, failures, edits and even rewrites.
THEOREM SealsAreExact == Spec => []SealedIsExact
<1>1. Init => SealInv
  BY DEF Init, SealInv, NoCheckpoint
<1>2. TypeOK /\ SealInv => SealedIsExact
  <2> SUFFICES ASSUME TypeOK, SealInv, SealHolds(Content, checkpoint)
               PROVE  RecordsOf(Content) = sealed
    BY DEF SealedIsExact
  <2> DEFINE rs == RecordsOf(Content)
  <2>1. Content \in Seq(Line) /\ Verifies(Content) /\ sealed \in Seq(Records)
    BY ContentType DEF SealHolds, TypeOK
  <2>2. rs \in Seq(Records) /\ Len(rs) = Len(Content) /\ Len(Content) \in Nat
    BY <2>1, RecordsType DEF RecordsOf
  <2>3. Len(Content) = Len(sealed) /\ HeadOf(Content, Len(Content)) = Committed(sealed, Len(sealed))
    BY DEF SealHolds, SealInv
  <2>4. Committed(rs, Len(rs)) = Committed(sealed, Len(sealed))
    BY <2>1, <2>2, <2>3, ChainCommits
  <2>5. Len(rs) \in 0 .. Len(rs) /\ Len(sealed) \in 0 .. Len(sealed)
    BY <2>1, <2>2
  <2> HIDE DEF rs
  <2>6. Len(rs) = Len(sealed) /\ \A j \in 1 .. Len(rs) : rs[j] = sealed[j]
    BY <2>1, <2>2, <2>4, <2>5, CommittedOnce
  <2>7. rs = sealed
    BY <2>1, <2>2, <2>6, SeqEqual
  <2> QED
    BY <2>7 DEF rs
<1> QED
  BY <1>1, <1>2, NextSealed, TypeCorrect, PTL DEF Spec

-----------------------------------------------------------------------------
(* Edits.                                                                  *)

\* If the last hash of a file is one of the hashes of another and both verify,
\* the one is a prefix of the other.
LEMMA HashGivesPrefix ==
  ASSUME NEW f \in Seq(Line), Verifies(f), NEW g \in Seq(Line), Verifies(g),
         g = <<>> \/ \E m \in 1 .. Len(f) : g[Len(g)].hash = f[m].hash
  PROVE  IsPrefix(RecordsOf(g), RecordsOf(f))
<1> DEFINE rs == RecordsOf(f)
           qs == RecordsOf(g)
           n  == Len(g)
<1>1. rs \in Seq(Records) /\ Len(rs) = Len(f) /\ Len(f) \in Nat
  BY RecordsType DEF RecordsOf
<1>2. qs \in Seq(Records) /\ Len(qs) = n /\ n \in Nat
  BY RecordsType DEF RecordsOf
<1>3. PICK m \in 0 .. Len(f) : Committed(qs, n) = Committed(rs, m)
  <2>1. CASE g = <<>>
    <3>1. n = 0 /\ 0 \in 0 .. Len(f)
      BY <1>1, <2>1
    <3>2. Committed(qs, 0) = Committed(rs, 0)
      BY DEF Committed
    <3> QED
      BY <3>1, <3>2
  <2>2. CASE g # <<>>
    <3>1. n \in 1 .. n /\ n # 0 /\ n \in 0 .. n
      BY <1>2, <2>2
    <3>2. PICK m \in 1 .. Len(f) : g[n].hash = f[m].hash
      BY <2>2
    <3>3. m # 0 /\ m \in 0 .. Len(f)
      BY <1>1
    <3>4. HeadOf(g, n) = HeadOf(f, m)
      BY <3>1, <3>2, <3>3 DEF HeadOf
    <3>5. HeadOf(g, n) = Committed(qs, n) /\ HeadOf(f, m) = Committed(rs, m)
      BY <3>1, <3>3, ChainCommits
    <3> QED
      BY <3>3, <3>4, <3>5
  <2> QED
    BY <2>1, <2>2
<1> HIDE DEF rs, qs, n
<1>4. n \in 0 .. Len(qs) /\ m \in 0 .. Len(rs)
  BY <1>1, <1>2
<1>5. n = m /\ \A j \in 1 .. n : qs[j] = rs[j]
  BY <1>1, <1>2, <1>3, <1>4, CommittedOnce
<1>6. Len(qs) <= Len(rs)
  BY <1>1, <1>2, <1>5
<1>7. SubSeq(qs, 1, Len(qs)) = SubSeq(rs, 1, Len(qs))
  BY <1>1, <1>2, <1>5, <1>6
<1> QED
  BY <1>6, <1>7 DEF IsPrefix, rs, qs

\* The last element of two sequences in a row is the last of the one that is
\* not empty.
LEMMA LastOfConcat ==
  ASSUME NEW T, NEW s \in Seq(T), NEW t \in Seq(T), Len(s \o t) # 0
  PROVE  \/ Len(t) # 0 /\ (s \o t)[Len(s \o t)] = t[Len(t)]
         \/ Len(t) = 0 /\ Len(s) # 0 /\ (s \o t)[Len(s \o t)] = s[Len(s)]
<1>1. Len(s \o t) = Len(s) + Len(t) /\ Len(s) \in Nat /\ Len(t) \in Nat
  OBVIOUS
<1>2. CASE Len(t) = 0
  BY <1>1, <1>2
<1>3. CASE Len(t) # 0
  BY <1>1, <1>3
<1> QED
  BY <1>2, <1>3

\* Removing an element leaves one of the others last.
LEMMA LastOfRemoveAt ==
  ASSUME NEW T, NEW s \in Seq(T), NEW i \in 1 .. Len(s), Len(RemoveAt(s, i)) # 0
  PROVE  \E m \in 1 .. Len(s) : RemoveAt(s, i)[Len(RemoveAt(s, i))] = s[m]
<1> DEFINE a == SubSeq(s, 1, i - 1)
           b == SubSeq(s, i + 1, Len(s))
<1>1. /\ a \in Seq(T) /\ Len(a) = i - 1
      /\ \A k \in 1 .. i - 1 : a[k] = s[k]
  OBVIOUS
<1>2. /\ b \in Seq(T) /\ Len(b) = Len(s) - i
      /\ \A k \in 1 .. Len(s) - i : b[k] = s[i + k]
  OBVIOUS
<1>3. RemoveAt(s, i) = a \o b
  BY DEF RemoveAt
<1> HIDE DEF a, b
<1>4. CASE Len(b) # 0 /\ (a \o b)[Len(a \o b)] = b[Len(b)]
  <2>1. Len(b) \in 1 .. Len(s) - i /\ i + Len(b) \in 1 .. Len(s)
    BY <1>2, <1>4
  <2> QED
    BY <1>2, <1>3, <1>4, <2>1
<1>5. CASE Len(a) # 0 /\ (a \o b)[Len(a \o b)] = a[Len(a)]
  <2>1. Len(a) \in 1 .. i - 1 /\ Len(a) \in 1 .. Len(s)
    BY <1>1, <1>5
  <2> QED
    BY <1>1, <1>3, <1>5, <2>1
<1>6. \/ Len(b) # 0 /\ (a \o b)[Len(a \o b)] = b[Len(b)]
      \/ Len(a) # 0 /\ (a \o b)[Len(a \o b)] = a[Len(a)]
  <2>1. a \in Seq(T) /\ b \in Seq(T) /\ Len(a \o b) # 0
    BY <1>1, <1>2, <1>3
  <2> QED
    BY <2>1, LastOfConcat
<1> QED
  BY <1>4, <1>5, <1>6

\* The last element of t is an element of s.
LastIsOf(t, s) == \E m \in 1 .. Len(s) : t[Len(t)] = s[m]

\* Repeating an element before another leaves the last one last.
LEMMA LastOfInsertAt ==
  ASSUME NEW T, NEW s \in Seq(T), NEW i \in 1 .. Len(s), NEW x \in T
  PROVE  LastIsOf(InsertAt(s, i, x), s)
<1> DEFINE a == SubSeq(s, 1, i - 1) \o <<x>>
           b == SubSeq(s, i, Len(s))
<1>1. a \in Seq(T)
  OBVIOUS
<1>2. /\ b \in Seq(T) /\ Len(b) = Len(s) - i + 1
      /\ \A k \in 1 .. Len(b) : b[k] = s[i + k - 1]
  OBVIOUS
<1>3. InsertAt(s, i, x) = a \o b
  BY DEF InsertAt
<1> HIDE DEF a, b
<1>4. Len(b) \in 1 .. Len(b) /\ Len(b) # 0
  BY <1>2
<1>5. Len(a \o b) # 0
  BY <1>1, <1>2, <1>4
<1>6. (a \o b)[Len(a \o b)] = b[Len(b)]
  BY <1>1, <1>2, <1>4, <1>5, LastOfConcat
<1>7. i + Len(b) - 1 \in 1 .. Len(s) /\ b[Len(b)] = s[i + Len(b) - 1]
  <2>1. Len(s) \in Nat /\ i \in Nat /\ 1 <= i /\ i <= Len(s) /\ Len(b) = Len(s) - i + 1
    BY <1>2
  <2>2. i + Len(b) - 1 \in 1 .. Len(s)
    BY <2>1
  <2>3. \A k \in 1 .. Len(b) : b[k] = s[i + k - 1]
    BY <1>2
  <2> QED
    BY <1>4, <2>2, <2>3, Zenon
<1> QED
  BY <1>3, <1>6, <1>7 DEF LastIsOf

\* After an edit, the last line has the hash of a line there was before.
LEMMA EditKeepsHashes ==
  ASSUME TypeOK, Edit \/ Truncate, Verifies(Content')
  PROVE  \/ Content' = <<>>
         \/ \E m \in 1 .. Len(Content) : Content'[Len(Content')].hash = Content[m].hash
<1> SUFFICES ASSUME Content' # <<>>
             PROVE  \E m \in 1 .. Len(Content) : Content'[Len(Content')].hash = Content[m].hash
  OBVIOUS
<1>0. /\ lines \in Seq(Line) /\ Content \in Seq(Line)
      /\ DOMAIN lines = 1 .. Len(lines) /\ Len(lines) \in Nat
  BY ContentType DEF TypeOK
<1>1. lines' \in Seq(Line) /\ tail' \in Seq(Line)
  BY EditType
<1>2. Content' \in Seq(Line) /\ Len(Content') \in 1 .. Len(Content')
  <2>1. Content' \in Seq(Line)
    BY <1>1 DEF Content
  <2> QED
    BY <2>1
<1>3. \A m \in 1 .. Len(lines) : m \in 1 .. Len(Content) /\ Content[m] = lines[m]
  BY DEF Content, TypeOK
<1>4. CASE Edit
  <2>1. tail = <<>> /\ tail' = <<>>
    BY <1>4 DEF Edit
  <2>2. Content' = lines'
    BY <1>1, <2>1, ConcatEmptySeq DEF Content
  <2>3. PICK i, j \in DOMAIN lines :
           \/ lines' = RemoveAt(lines, i)
           \/ Len(lines) < MaxLeaves /\ lines' = InsertAt(lines, i, lines[j])
           \/ lines' = [lines EXCEPT ![i] = lines[j], ![j] = lines[i]]
           \/ \E k, l, m \in DOMAIN lines :
                lines' = [lines EXCEPT ![i] = [seq |-> lines[j].seq, prev |-> lines[k].prev,
                                               record |-> lines[l].record, hash |-> lines[m].hash]]
    BY <1>4 DEF Edit
  <2> DEFINE n == Len(lines')
  <2>4. n \in 1 .. n
    BY <1>2, <2>2
  <2> SUFFICES \E m \in 1 .. Len(lines) : lines'[n].hash = lines[m].hash
    BY <1>3, <2>2
  <2>5. CASE lines' = RemoveAt(lines, i)
    <3>1. \E m \in 1 .. Len(lines) : lines'[n] = lines[m]
      BY <1>0, <2>4, <2>5, LastOfRemoveAt
    <3> QED
      BY <3>1
  <2>6. CASE lines' = InsertAt(lines, i, lines[j])
    <3>1. i \in 1 .. Len(lines) /\ lines[j] \in Line /\ lines \in Seq(Line)
      BY <1>0
    <3>2. LastIsOf(lines', lines)
      BY <2>6, <3>1, LastOfInsertAt
    <3> QED
      BY <3>2 DEF LastIsOf
  <2>7. CASE lines' = [lines EXCEPT ![i] = lines[j], ![j] = lines[i]]
    <3>1. \E m \in 1 .. Len(lines) : lines'[n] = lines[m]
      BY <1>0, <2>4, <2>7
    <3> QED
      BY <3>1
  <2>8. ASSUME NEW k \in DOMAIN lines, NEW l \in DOMAIN lines, NEW m \in DOMAIN lines,
               lines' = [lines EXCEPT ![i] = [seq |-> lines[j].seq, prev |-> lines[k].prev,
                                              record |-> lines[l].record, hash |-> lines[m].hash]]
        PROVE  \E o \in 1 .. Len(lines) : lines'[n].hash = lines[o].hash
    <3>1. CASE n = i
      <4>1. lines'[n].hash = lines[m].hash
        BY <1>0, <2>8, <3>1
      <4> QED
        BY <1>0, <4>1
    <3>2. CASE n # i
      <4>1. lines'[n] = lines[n] /\ n \in 1 .. Len(lines)
        BY <1>0, <2>4, <2>8, <3>2
      <4> QED
        BY <4>1
    <3> QED
      BY <3>1, <3>2
  <2> QED
    BY <2>3, <2>5, <2>6, <2>7, <2>8
<1>5. CASE Truncate
  <2>1. PICK n \in 0 .. Len(lines) - 1 :
           /\ lines' = SubSeq(lines, 1, n)
           /\ tail' \in {<<>>, <<Garbage>>, <<lines[n + 1]>>}
    BY <1>5 DEF Truncate
  <2>2. Len(lines') = n /\ \A m \in 1 .. n : lines'[m] = lines[m]
    BY <1>0, <2>1
  <2>3. CASE tail' = <<>>
    <3>1. Content' = lines'
      BY <1>1, <2>3, ConcatEmptySeq DEF Content
    <3>2. n \in 1 .. Len(lines) /\ Content'[Len(Content')] = lines[n]
      BY <1>0, <1>2, <2>2, <3>1
    <3> QED
      BY <1>3, <3>2
  <2>4. ASSUME NEW x \in Line, tail' = <<x>>
        PROVE  Content'[Len(Content')] = x
    BY <1>1, <2>4 DEF Content
  <2>5. CASE tail' = <<lines[n + 1]>>
    <3>1. n + 1 \in 1 .. Len(lines) /\ lines[n + 1] \in Line
      BY <1>0
    <3> QED
      BY <1>3, <2>4, <2>5, <3>1
  <2>6. CASE tail' = <<Garbage>>
    <3>1. Content'[Len(Content')] = Garbage
      BY <2>4, <2>6 DEF Line
    <3> QED
      BY <1>2, <3>1 DEF Verifies
  <2> QED
    BY <2>1, <2>3, <2>5, <2>6
<1> QED
  BY <1>4, <1>5

\* Whatever is dropped, repeated, moved or mixed, a file that still verifies is
\* a prefix of the one there was.
THEOREM EditsAreDetected == Spec => EditsDetected
<1>1. TypeOK /\ [Next]_vars =>
        [(Edit \/ Truncate) /\ Verifies(Content) /\ Verifies(Content')
           => IsPrefix(RecordsOf(Content'), RecordsOf(Content))]_vars
  <2> SUFFICES ASSUME TypeOK, Edit \/ Truncate, Verifies(Content), Verifies(Content')
               PROVE  IsPrefix(RecordsOf(Content'), RecordsOf(Content))
    OBVIOUS
  <2>1. Content \in Seq(Line) /\ Content' \in Seq(Line)
    <3>1. lines' \in Seq(Line) /\ tail' \in Seq(Line)
      BY EditType
    <3> QED
      BY <3>1, ContentType DEF Content
  <2> DEFINE f == Content
             g == Content'
  <2>2. g = <<>> \/ \E m \in 1 .. Len(f) : g[Len(g)].hash = f[m].hash
    BY EditKeepsHashes
  <2>3. Verifies(f) /\ Verifies(g) /\ f \in Seq(Line) /\ g \in Seq(Line)
    BY <2>1 DEF Verifies, LeafFits, HeadOf, LeafHash
  <2>4. IsPrefix(RecordsOf(g), RecordsOf(f))
    <3> HIDE DEF f, g
    <3> QED
      BY <2>2, <2>3, HashGivesPrefix
  <2> QED
    BY <2>4 DEF RecordsOf
<1> QED
  BY <1>1, TypeCorrect, PTL DEF Spec, EditsDetected

=============================================================================
