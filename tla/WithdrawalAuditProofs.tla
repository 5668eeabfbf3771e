------------------------ MODULE WithdrawalAuditProofs ------------------------
(***************************************************************************)
(* Theorems about the withdrawal audit log, for any number of processes,   *)
(* entries and flushes.                                                    *)
(***************************************************************************)
EXTENDS WithdrawalAudit, SequenceTheorems, FiniteSetTheorems, TLAPS

PartSet == {"start", "rest", "newline"}
Piece   == Entry \X PartSet
Items(s) == {s[i] : i \in 1..Len(s)}

\* What is loaded may be anything a file holds; only what was logged since is
\* known to be an entry of its own.
MemoryOK ==
  /\ flushed \in [Processes -> Nat]
  /\ entries = [p \in Processes |-> entries[p]]
  /\ \A p \in Processes :
      /\ entries[p] \in Seq(Items(entries[p]))
      /\ flushed[p] <= Len(entries[p])
      /\ PendingSet(p) \subseteq Entry

FileOK ==
  /\ file \in Seq(Piece)
  /\ durable \in 0..Len(file)
  /\ logged \in Nat
  /\ acked \subseteq Entry /\ failed \subseteq Entry

FlushOK ==
  /\ pc \in [Processes -> {"down", "idle", "writing", "syncing"}]
  /\ buf \in [Processes -> Seq(Piece)]
  /\ \A p \in Processes : buf[p] # <<>> <=> pc[p] = "writing"

\* During a flush each piece of each pending line is in the file or in the
\* part of the buffer still to be written.
NothingDropped ==
  \A p \in Processes : pc[p] \in {"writing", "syncing"} =>
    \A e \in PendingSet(p), k \in 1..3 : <<e, Parts[k]>> \in Items(file) \cup Items(buf[p])

Inv == MemoryOK /\ FileOK /\ FlushOK /\ NothingDropped /\ AckedDurable
-----------------------------------------------------------------------------
LEMMA PartsAreParts == \A k \in 1..3 : Parts[k] \in PartSet
  BY DEF Parts, PartSet

LEMMA Slice ==
  ASSUME NEW S, NEW s, NEW m \in Nat, NEW n \in Nat, m <= n, \A i \in (m + 1)..n : s[i] \in S
  PROVE  /\ SubSeq(s, m + 1, n) \in Seq(S) /\ Len(SubSeq(s, m + 1, n)) = n - m
         /\ \A i \in 1..(n - m) : SubSeq(s, m + 1, n)[i] = s[m + i]
<1> DEFINE a == m + 1
<1>1. a \in Int /\ n \in Int
  OBVIOUS
<1>2. \A i \in a..n : s[i] \in S
  OBVIOUS
<1> HIDE DEF a
<1>3. /\ SubSeq(s, a, n) \in Seq(S)
      /\ Len(SubSeq(s, a, n)) = IF a <= n THEN n - a + 1 ELSE 0
      /\ \A i \in 1..(n - a + 1) : SubSeq(s, a, n)[i] = s[a + i - 1]
  BY <1>1, <1>2, SubSeqProperties
<1>4. \A i \in 1..(n - m) : i \in 1..(n - a + 1) /\ a + i - 1 = m + i
  BY DEF a
<1>5. (IF a <= n THEN n - a + 1 ELSE 0) = n - m
  BY DEF a
<1>6. /\ SubSeq(s, a, n) \in Seq(S) /\ Len(SubSeq(s, a, n)) = n - m
      /\ \A i \in 1..(n - m) : SubSeq(s, a, n)[i] = s[m + i]
  BY <1>3, <1>4, <1>5
<1>7. QED
  BY <1>6 DEF a

LEMMA SplitItems ==
  ASSUME NEW S, NEW s \in Seq(S), NEW n \in 1..Len(s)
  PROVE  /\ SubSeq(s, 1, n) \in Seq(S) /\ Len(SubSeq(s, 1, n)) = n
         /\ SubSeq(s, n + 1, Len(s)) \in Seq(S)
         /\ Len(SubSeq(s, n + 1, Len(s))) = Len(s) - n
         /\ Items(s) \subseteq Items(SubSeq(s, 1, n)) \cup Items(SubSeq(s, n + 1, Len(s)))
<1> DEFINE a == SubSeq(s, 1, n)
           b == SubSeq(s, n + 1, Len(s))
<1>1. \A i \in 1..Len(s) : s[i] \in S
  BY ElementOfSeq
<1>2. Len(s) \in Nat
  BY LenProperties
<1>3. /\ a \in Seq(S) /\ Len(a) = n
      /\ \A i \in 1..n : a[i] = s[i]
  <2>1. \A i \in 1..n : s[i] \in S
    BY <1>1, <1>2
  <2>2. QED
    BY <1>2, <2>1, SubSeqProperties
<1>4. /\ b \in Seq(S) /\ Len(b) = Len(s) - n
      /\ \A i \in 1..(Len(s) - n) : b[i] = s[n + i]
  <2>1. n \in Nat /\ n <= Len(s) /\ \A i \in (n + 1)..Len(s) : s[i] \in S
    BY <1>1, <1>2
  <2>2. QED
    BY <1>2, <2>1, Slice
<1>5. ASSUME NEW i \in 1..Len(s) PROVE s[i] \in Items(a) \cup Items(b)
  <2>1. CASE i <= n
    BY <1>2, <1>3, <2>1 DEF Items
  <2>2. CASE i > n
    <3>1. i - n \in 1..(Len(s) - n) /\ n + (i - n) = i
      BY <1>2, <2>2
    <3>2. QED
      BY <1>4, <3>1 DEF Items
  <2>3. QED
    BY <1>2, <2>1, <2>2
<1>6. QED
  BY <1>3, <1>4, <1>5 DEF Items

LEMMA AppendedItems ==
  ASSUME NEW S, NEW s \in Seq(S), NEW t \in Seq(S)
  PROVE  /\ s \o t \in Seq(S) /\ Len(s \o t) = Len(s) + Len(t)
         /\ \A i \in 1..Len(s) : (s \o t)[i] = s[i]
         /\ Items(s) \cup Items(t) \subseteq Items(s \o t)
<1>1. Len(s) \in Nat /\ Len(t) \in Nat
  BY LenProperties
<1>2. /\ s \o t \in Seq(S) /\ Len(s \o t) = Len(s) + Len(t)
      /\ \A i \in 1..(Len(s) + Len(t)) :
            (s \o t)[i] = IF i <= Len(s) THEN s[i] ELSE t[i - Len(s)]
  BY ConcatProperties
<1>3. \A i \in 1..Len(s) : i \in 1..(Len(s) + Len(t)) /\ (s \o t)[i] = s[i]
  BY <1>1, <1>2
<1>4. \A i \in 1..Len(t) : /\ Len(s) + i \in 1..(Len(s) + Len(t))
                           /\ (s \o t)[Len(s) + i] = t[i]
  BY <1>1, <1>2
<1>5. Items(s) \subseteq Items(s \o t)
  BY <1>2, <1>3 DEF Items
<1>6. Items(t) \subseteq Items(s \o t)
  BY <1>2, <1>4 DEF Items
<1>7. QED
  BY <1>2, <1>3, <1>5, <1>6

\* The buffer holds the whole line of every entry, and nothing else.
LEMMA BufferItems ==
  ASSUME NEW es \in Seq(Entry)
  PROVE  /\ Buffer(es) \in Seq(Piece) /\ Len(Buffer(es)) = 3 * Len(es)
         /\ \A i \in 1..Len(es), k \in 1..3 : <<es[i], Parts[k]>> \in Items(Buffer(es))
<1>1. Len(es) \in Nat
  BY LenProperties
<1>2. ASSUME NEW j \in 1..(3 * Len(es))
      PROVE  (j + 2) \div 3 \in 1..Len(es) /\ ((j - 1) % 3) + 1 \in 1..3
  BY <1>1
<1>3. \A j \in 1..(3 * Len(es)) :
        <<es[(j + 2) \div 3], Parts[((j - 1) % 3) + 1]>> \in Piece
  BY <1>2, PartsAreParts, ElementOfSeq DEF Piece
<1>4. Buffer(es) \in [1..(3 * Len(es)) -> Piece] /\ 3 * Len(es) \in Nat
  BY <1>1, <1>3 DEF Buffer
<1>5. Buffer(es) \in Seq(Piece) /\ Len(Buffer(es)) = 3 * Len(es)
  BY <1>4
<1>6. ASSUME NEW i \in 1..Len(es), NEW k \in 1..3
      PROVE  <<es[i], Parts[k]>> \in Items(Buffer(es))
  <2> DEFINE j == 3 * (i - 1) + k
  <2>1. j \in 1..(3 * Len(es)) /\ (j + 2) \div 3 = i /\ ((j - 1) % 3) + 1 = k
    BY <1>1
  <2>2. Buffer(es)[j] = <<es[i], Parts[k]>>
    BY <2>1 DEF Buffer
  <2>3. QED
    BY <1>5, <2>1, <2>2 DEF Items
<1>7. QED
  BY <1>5, <1>6

LEMMA LoadedLength ==
  ASSUME NEW f \in Seq(Piece)
  PROVE  /\ Len(EntriesOf(f)) \in Nat
         /\ EntriesOf(f) \in Seq(Items(EntriesOf(f)))
<1> DEFINE n == Cardinality(Starts(f, Len(f)))
<1>1. n \in Nat
  <2>1. Len(f) \in Nat
    BY LenProperties
  <2>2. IsFiniteSet(1..Len(f)) /\ Starts(f, Len(f)) \in SUBSET (1..Len(f))
    BY <2>1, FS_Interval DEF Starts
  <2>3. QED
    BY <2>2, FS_Subset, FS_CardinalityType
<1> DEFINE g == EntriesOf(f)
<1>2. g = [k \in 1..n |-> g[k]]
  BY DEF EntriesOf
<1> HIDE DEF n, g
<1>3. g \in Seq({g[k] : k \in 1..n}) /\ Len(g) = n
  BY <1>1, <1>2
<1>4. QED
  BY <1>1, <1>3 DEF g, Items
-----------------------------------------------------------------------------
(* The inductive invariant, action by action *)

LEMMA InitInv == Init => Inv
<1> SUFFICES ASSUME Init PROVE Inv
  OBVIOUS
<1> USE DEF Init
<1>1. MemoryOK
  BY EmptySeq DEF MemoryOK, PendingSet, Items
<1>2. FileOK
  BY EmptySeq DEF FileOK
<1>3. FlushOK
  BY EmptySeq DEF FlushOK
<1>4. NothingDropped /\ AckedDurable
  BY DEF NothingDropped, AckedDurable
<1>5. QED
  BY <1>1, <1>2, <1>3, <1>4 DEF Inv

LEMMA LoadInv ==
  ASSUME Inv, NEW p \in Processes, Load(p)
  PROVE  Inv'
<1> USE DEF historyVars
<1> DEFINE es == EntriesOf(file)
<1>1. es \in Seq(Items(es)) /\ Len(es) \in Nat
  BY LoadedLength DEF Inv, FileOK
<1>2. entries' = [entries EXCEPT ![p] = es] /\ flushed' = [flushed EXCEPT ![p] = Len(es)]
  BY DEF Load, LoadedCursor
<1>3. UNCHANGED <<buf, file, durable, logged, acked, failed>>
  BY DEF Load
<1> HIDE DEF es
<1>4. DOMAIN entries = Processes /\ flushed \in [Processes -> Nat]
  BY DEF Inv, MemoryOK
<1>5. entries'[p] = es /\ flushed'[p] = Len(es) /\ PendingSet(p)' = {}
  <2>1. entries'[p] = es /\ flushed'[p] = Len(es)
    BY <1>2, <1>4
  <2>2. \A i : i \notin (Len(es) + 1)..Len(es)
    BY <1>1
  <2>3. QED
    BY <2>1, <2>2 DEF PendingSet
<1>6. ASSUME NEW q \in Processes, q # p
      PROVE  entries'[q] = entries[q] /\ flushed'[q] = flushed[q] /\ PendingSet(q)' = PendingSet(q)
  BY <1>2, <1>4, <1>6 DEF PendingSet
<1>7. MemoryOK'
  <2>1. flushed' \in [Processes -> Nat]
    BY <1>1, <1>2, <1>4
  <2>2. entries' = [q \in Processes |-> entries'[q]]
    BY <1>2, <1>4 DEF Inv, MemoryOK
  <2>3. ASSUME NEW q \in Processes
        PROVE  /\ entries'[q] \in Seq(Items(entries'[q])) /\ flushed'[q] <= Len(entries'[q])
               /\ PendingSet(q)' \subseteq Entry
    <3>1. CASE q = p
      BY <1>1, <1>5, <3>1
    <3>2. CASE q # p
      BY <1>6, <3>2 DEF Inv, MemoryOK
    <3>3. QED
      BY <3>1, <3>2
  <2>4. QED
    BY <2>1, <2>2, <2>3 DEF MemoryOK
<1>8. FileOK' /\ AckedDurable'
  BY <1>3 DEF Inv, FileOK, AckedDurable
<1>9. FlushOK' /\ NothingDropped'
  <2>1. /\ pc' \in [Processes -> {"down", "idle", "writing", "syncing"}]
        /\ pc[p] = "down" /\ pc'[p] = "idle" /\ \A q \in Processes : q # p => pc'[q] = pc[q]
    BY DEF Load, Inv, FlushOK
  <2>2. FlushOK'
    BY <1>3, <2>1 DEF Inv, FlushOK
  <2>3. QED
    BY <1>3, <1>6, <2>1, <2>2 DEF Inv, NothingDropped
<1>10. QED
  BY <1>7, <1>8, <1>9 DEF Inv

LEMMA LogInv ==
  ASSUME Inv, NEW p \in Processes, Log(p)
  PROVE  Inv'
<1> USE BoundsAssumption
<1> DEFINE e == <<p, logged + 1>>
           es == Append(entries[p], e)
           S == Items(entries[p]) \cup {e}
<1>1. e \in Entry /\ logged' = logged + 1 /\ logged' \in Nat
  BY DEF Log, Inv, FileOK, Entry
<1>2. /\ entries' = [entries EXCEPT ![p] = es] /\ pc[p] = "idle"
      /\ UNCHANGED <<flushed, pc, buf, file, durable, acked, failed>>
  BY DEF Log
<1>3. /\ es \in Seq(S) /\ Len(es) = Len(entries[p]) + 1 /\ Len(entries[p]) \in Nat
      /\ \A i \in 1..Len(entries[p]) : es[i] = entries[p][i]
      /\ es[Len(entries[p]) + 1] = e
  <2>1. entries[p] \in Seq(Items(entries[p]))
    BY DEF Inv, MemoryOK
  <2>2. entries[p] \in Seq(S) /\ e \in S
    BY <2>1, SeqMonotonic
  <2>3. QED
    BY <2>2, AppendProperties, LenProperties
<1> HIDE DEF e, es, S
<1>4. S \subseteq Items(es)
  <2>1. \A i \in 1..Len(entries[p]) : i \in 1..Len(es)
    BY <1>3
  <2>2. Len(entries[p]) + 1 \in 1..Len(es)
    BY <1>3
  <2>3. QED
    BY <1>3, <2>1, <2>2 DEF S, Items
<1>5. es \in Seq(Items(es))
  BY <1>3, <1>4, SeqMonotonic
<1>6. flushed \in [Processes -> Nat] /\ entries = [q \in Processes |-> entries[q]]
  BY DEF Inv, MemoryOK
<1>7. entries'[p] = es /\ \A q \in Processes : q # p => entries'[q] = entries[q]
  BY <1>2, <1>6
<1>8. PendingSet(p)' \subseteq PendingSet(p) \cup {e}
  <2> SUFFICES ASSUME NEW i \in (flushed[p] + 1)..Len(es)
               PROVE  es[i] \in PendingSet(p) \cup {e}
    BY <1>2, <1>7 DEF PendingSet
  <2>1. CASE i = Len(entries[p]) + 1
    BY <1>3, <2>1
  <2>2. CASE i # Len(entries[p]) + 1
    <3>1. i \in (flushed[p] + 1)..Len(entries[p]) /\ i \in 1..Len(entries[p])
      BY <1>3, <1>6, <2>2
    <3>2. QED
      BY <1>3, <3>1 DEF PendingSet
  <2>3. QED
    BY <2>1, <2>2
<1>9. \A q \in Processes : q # p => PendingSet(q)' = PendingSet(q)
  BY <1>2, <1>7 DEF PendingSet
<1>10. MemoryOK'
  <2>1. entries' = [q \in Processes |-> entries'[q]]
    BY <1>2, <1>6
  <2>2. PendingSet(p)' \subseteq Entry
    BY <1>1, <1>8 DEF Inv, MemoryOK, e
  <2>3. flushed[p] <= Len(es)
    <3>1. flushed[p] <= Len(entries[p]) /\ flushed[p] \in Nat
      BY DEF Inv, MemoryOK
    <3>2. QED
      BY <1>3, <3>1
  <2>4. QED
    BY <1>2, <1>5, <1>6, <1>7, <1>9, <2>1, <2>2, <2>3 DEF Inv, MemoryOK
<1>11. FileOK' /\ AckedDurable' /\ FlushOK'
  BY <1>1, <1>2 DEF Inv, FileOK, AckedDurable, FlushOK
<1>12. NothingDropped'
  BY <1>2, <1>9 DEF Inv, NothingDropped
<1>13. QED
  BY <1>10, <1>11, <1>12 DEF Inv

LEMMA FlushBeginInv ==
  ASSUME Inv, NEW p \in Processes, FlushBegin(p)
  PROVE  Inv'
<1> USE DEF logVars
<1> DEFINE pending == Pending(p)
<1>1. /\ flushed[p] \in Nat /\ Len(entries[p]) \in Nat /\ flushed[p] < Len(entries[p])
      /\ PendingSet(p) \subseteq Entry
  BY LenProperties DEF FlushBegin, Inv, MemoryOK
<1>2. /\ pending \in Seq(Entry) /\ Len(pending) = Len(entries[p]) - flushed[p]
      /\ \A i \in 1..Len(pending) : pending[i] = entries[p][flushed[p] + i]
  <2> DEFINE es == entries[p]
             m == flushed[p]
             n == Len(es)
  <2>1. m \in Nat /\ n \in Nat /\ m <= n
    BY <1>1
  <2>2. \A i \in (m + 1)..n : es[i] \in Entry
    BY <1>1 DEF PendingSet
  <2>3. pending = SubSeq(es, m + 1, n)
    BY DEF Pending
  <2> HIDE DEF es, m, n, pending
  <2>4. /\ SubSeq(es, m + 1, n) \in Seq(Entry) /\ Len(SubSeq(es, m + 1, n)) = n - m
        /\ \A i \in 1..(n - m) : SubSeq(es, m + 1, n)[i] = es[m + i]
    BY <2>1, <2>2, Slice
  <2>5. /\ pending \in Seq(Entry) /\ Len(pending) = n - m
        /\ \A i \in 1..Len(pending) : pending[i] = es[m + i]
    BY <2>3, <2>4
  <2>6. QED
    BY <2>5 DEF es, m, n
<1>3. ASSUME NEW x \in PendingSet(p) PROVE \E i \in 1..Len(pending) : x = pending[i]
  <2>1. PICK i \in (flushed[p] + 1)..Len(entries[p]) : x = entries[p][i]
    BY DEF PendingSet
  <2>2. i - flushed[p] \in 1..Len(pending) /\ flushed[p] + (i - flushed[p]) = i
    BY <1>1, <1>2
  <2>3. QED
    BY <1>2, <2>1, <2>2
<1> HIDE DEF pending
<1>4. /\ Buffer(pending) \in Seq(Piece) /\ Buffer(pending) # <<>>
      /\ \A x \in PendingSet(p), k \in 1..3 : <<x, Parts[k]>> \in Items(Buffer(pending))
  <2>1. Len(Buffer(pending)) > 0
    BY <1>1, <1>2, BufferItems
  <2>2. QED
    BY <1>2, <1>3, <2>1, BufferItems, EmptySeq
<1>5. /\ UNCHANGED <<entries, flushed, file, durable, logged, acked, failed>>
      /\ buf' = [buf EXCEPT ![p] = Buffer(pending)] /\ pc' = [pc EXCEPT ![p] = "writing"]
  BY DEF FlushBegin, pending
<1>6. MemoryOK' /\ FileOK' /\ AckedDurable'
  BY <1>5 DEF Inv, MemoryOK, FileOK, AckedDurable, PendingSet
<1>7. FlushOK'
  BY <1>4, <1>5 DEF Inv, FlushOK
<1>8. NothingDropped'
  <2>1. buf'[p] = Buffer(pending) /\ \A q \in Processes : q # p => buf'[q] = buf[q] /\ pc'[q] = pc[q]
    BY <1>5 DEF Inv, FlushOK
  <2>2. \A q \in Processes : PendingSet(q)' = PendingSet(q)
    BY <1>5 DEF PendingSet
  <2>3. QED
    BY <1>4, <1>5, <2>1, <2>2 DEF Inv, NothingDropped
<1>9. QED
  BY <1>6, <1>7, <1>8 DEF Inv

LEMMA WriteInv ==
  ASSUME Inv, NEW p \in Processes, Write(p)
  PROVE  Inv'
<1> USE DEF logVars
<1>1. PICK n \in 1..Len(buf[p]) :
        /\ file' = file \o SubSeq(buf[p], 1, n)
        /\ buf' = [buf EXCEPT ![p] = SubSeq(@, n + 1, Len(@))]
        /\ pc' = [pc EXCEPT ![p] = IF n = Len(buf[p]) THEN "syncing" ELSE "writing"]
  BY DEF Write
<1> DEFINE front == SubSeq(buf[p], 1, n)
           back == SubSeq(buf[p], n + 1, Len(buf[p]))
<1>2. buf[p] \in Seq(Piece) /\ file \in Seq(Piece) /\ pc[p] = "writing"
  BY DEF Inv, FlushOK, FileOK, Write
<1>3. /\ front \in Seq(Piece) /\ back \in Seq(Piece) /\ Len(back) = Len(buf[p]) - n
      /\ Items(buf[p]) \subseteq Items(front) \cup Items(back)
  BY <1>2, SplitItems
<1>4. buf' = [buf EXCEPT ![p] = back] /\ file' = file \o front
  BY <1>1
<1> HIDE DEF front, back
<1>5. /\ file' \in Seq(Piece) /\ Len(file') = Len(file) + Len(front)
      /\ \A i \in 1..Len(file) : file'[i] = file[i]
      /\ Items(file) \cup Items(front) \subseteq Items(file')
  BY <1>2, <1>3, <1>4, AppendedItems
<1>6. Len(front) \in Nat /\ Len(file) \in Nat /\ Len(buf[p]) \in Nat
  BY <1>2, <1>3, LenProperties
<1>7. UNCHANGED <<entries, flushed, durable, logged, acked, failed>>
  BY DEF Write
<1>8. MemoryOK' /\ FileOK'
  BY <1>5, <1>6, <1>7 DEF Inv, MemoryOK, FileOK, PendingSet
<1>9. FlushOK'
  <2>1. back # <<>> <=> n # Len(buf[p])
    BY <1>3, <1>6, EmptySeq
  <2>2. QED
    BY <1>1, <1>3, <1>4, <2>1 DEF Inv, FlushOK
<1>10. AckedDurable'
  <2>1. \A i \in 1..durable : i \in 1..Len(file)
    BY <1>6 DEF Inv, FileOK
  <2>2. QED
    BY <1>5, <1>7, <2>1 DEF Inv, AckedDurable
<1>11. NothingDropped'
  <2>1. buf'[p] = back /\ \A q \in Processes : q # p => buf'[q] = buf[q] /\ pc'[q] = pc[q]
    BY <1>1, <1>4 DEF Inv, FlushOK
  <2>2. \A q \in Processes : PendingSet(q)' = PendingSet(q)
    BY <1>7 DEF PendingSet
  <2>3. Items(file) \subseteq Items(file') /\ Items(buf[p]) \subseteq Items(file') \cup Items(back)
    BY <1>3, <1>5
  <2>4. QED
    BY <1>2, <2>1, <2>2, <2>3 DEF Inv, NothingDropped
<1>12. QED
  BY <1>8, <1>9, <1>10, <1>11 DEF Inv

LEMMA SyncInv ==
  ASSUME Inv, NEW p \in Processes, Sync(p)
  PROVE  Inv'
<1>1. /\ durable' = Len(file) /\ flushed' = [flushed EXCEPT ![p] = Len(entries[p])]
      /\ acked' = acked \cup PendingSet(p) /\ pc' = [pc EXCEPT ![p] = "idle"]
      /\ pc[p] = "syncing" /\ UNCHANGED <<entries, buf, file, logged, failed>>
  BY DEF Sync, Synced
<1>2. /\ Len(file) \in Nat /\ Len(entries[p]) \in Nat
      /\ flushed \in [Processes -> Nat] /\ PendingSet(p) \subseteq Entry
  BY LenProperties DEF Inv, FileOK, MemoryOK
<1>3. PendingSet(p)' = {}
  <2>1. \A i : i \notin (Len(entries[p]) + 1)..Len(entries[p])
    BY <1>2
  <2>2. QED
    BY <1>1, <1>2, <2>1 DEF PendingSet
<1>4. \A q \in Processes : q # p => PendingSet(q)' = PendingSet(q) /\ pc'[q] = pc[q]
                                    /\ flushed'[q] = flushed[q]
  BY <1>1, <1>2 DEF PendingSet, Inv, FlushOK
<1>5. MemoryOK'
  BY <1>1, <1>2, <1>3, <1>4 DEF Inv, MemoryOK
<1>6. FileOK'
  BY <1>1, <1>2 DEF Inv, FileOK
<1>7. FlushOK'
  BY <1>1 DEF Inv, FlushOK
<1>8. NothingDropped'
  BY <1>1, <1>3, <1>4 DEF Inv, NothingDropped
<1>9. AckedDurable'
  <2> SUFFICES ASSUME NEW e \in acked \cup PendingSet(p), NEW k \in 1..3
               PROVE  \E i \in 1..Len(file) : file[i] = <<e, Parts[k]>>
    BY <1>1 DEF AckedDurable
  <2>1. CASE e \in acked
    <3>1. \A i \in 1..durable : i \in 1..Len(file)
      BY <1>2 DEF Inv, FileOK
    <3>2. QED
      BY <2>1, <3>1 DEF Inv, AckedDurable
  <2>2. CASE e \in PendingSet(p)
    <3>1. buf[p] = <<>>
      BY <1>1 DEF Inv, FlushOK
    <3>2. Items(buf[p]) = {}
      BY <3>1, EmptySeq DEF Items
    <3>3. <<e, Parts[k]>> \in Items(file)
      BY <1>1, <2>2, <3>2 DEF Inv, NothingDropped
    <3>4. QED
      BY <3>3 DEF Items
  <2>3. QED
    BY <2>1, <2>2
<1>10. QED
  BY <1>5, <1>6, <1>7, <1>8, <1>9 DEF Inv

LEMMA FlushFailsInv ==
  ASSUME Inv, NEW p \in Processes, FlushFails(p)
  PROVE  Inv'
<1>1. /\ UNCHANGED <<entries, flushed, file, durable, logged, acked>>
      /\ failed' = failed \cup PendingSet(p)
      /\ buf' = [buf EXCEPT ![p] = <<>>] /\ pc' = [pc EXCEPT ![p] = "idle"]
  BY DEF FlushFails, logVars
<1>2. \A q \in Processes : PendingSet(q)' = PendingSet(q)
  BY <1>1 DEF PendingSet
<1>3. MemoryOK' /\ AckedDurable'
  BY <1>1, <1>2 DEF Inv, MemoryOK, AckedDurable
<1>4. FileOK'
  BY <1>1 DEF Inv, FileOK, MemoryOK
<1>5. FlushOK'
  BY <1>1, EmptySeq DEF Inv, FlushOK
<1>6. NothingDropped'
  BY <1>1, <1>2 DEF Inv, NothingDropped, FlushOK
<1>7. QED
  BY <1>3, <1>4, <1>5, <1>6 DEF Inv

LEMMA CrashInv ==
  ASSUME Inv, NEW p \in Processes, Crash(p)
  PROVE  Inv'
<1>1. /\ UNCHANGED <<file, durable, logged, acked, failed>>
      /\ pc' = [pc EXCEPT ![p] = "down"] /\ entries' = [entries EXCEPT ![p] = <<>>]
      /\ flushed' = [flushed EXCEPT ![p] = 0] /\ buf' = [buf EXCEPT ![p] = <<>>]
  BY DEF Crash, historyVars
<1>2. flushed \in [Processes -> Nat] /\ entries = [q \in Processes |-> entries[q]]
  BY DEF Inv, MemoryOK
<1>3. entries'[p] = <<>> /\ flushed'[p] = 0 /\ PendingSet(p)' = {}
  <2>1. entries'[p] = <<>> /\ flushed'[p] = 0
    BY <1>1, <1>2
  <2>2. \A i : i \notin (0 + 1)..0
    OBVIOUS
  <2>3. QED
    BY <2>1, <2>2, EmptySeq DEF PendingSet
<1>4. \A q \in Processes : q # p =>
        /\ entries'[q] = entries[q] /\ flushed'[q] = flushed[q]
        /\ PendingSet(q)' = PendingSet(q)
        /\ pc'[q] = pc[q] /\ buf'[q] = buf[q]
  BY <1>1, <1>2 DEF PendingSet, Inv, FlushOK
<1>5. MemoryOK'
  <2>1. flushed' \in [Processes -> Nat] /\ entries' = [q \in Processes |-> entries'[q]]
    BY <1>1, <1>2
  <2>2. <<>> \in Seq(Items(<<>>)) /\ 0 <= Len(<<>>)
    BY EmptySeq
  <2>3. QED
    BY <1>3, <1>4, <2>1, <2>2 DEF Inv, MemoryOK
<1>6. FileOK' /\ AckedDurable'
  BY <1>1 DEF Inv, FileOK, AckedDurable
<1>7. FlushOK'
  BY <1>1, EmptySeq DEF Inv, FlushOK
<1>8. NothingDropped'
  BY <1>1, <1>4 DEF Inv, NothingDropped, FlushOK
<1>9. QED
  BY <1>5, <1>6, <1>7, <1>8 DEF Inv

LEMMA PowerLossInv ==
  ASSUME Inv, PowerLoss
  PROVE  Inv'
<1>1. PICK n \in durable..Len(file) : file' = SubSeq(file, 1, n) /\ durable' = n
  BY DEF PowerLoss
<1>2. /\ pc' = [p \in Processes |-> "down"] /\ entries' = [p \in Processes |-> <<>>]
      /\ flushed' = [p \in Processes |-> 0] /\ buf' = [p \in Processes |-> <<>>]
      /\ UNCHANGED <<logged, acked, failed>>
  BY DEF PowerLoss
<1>3. file \in Seq(Piece) /\ durable \in Nat /\ Len(file) \in Nat /\ n \in Nat
  BY LenProperties DEF Inv, FileOK
<1>4. /\ file' \in Seq(Piece) /\ Len(file') = n
      /\ \A i \in 1..n : file'[i] = file[i]
  <2>1. \A i \in 1..n : file[i] \in Piece
    BY <1>1, <1>3, ElementOfSeq
  <2>2. /\ SubSeq(file, 1, n) \in Seq(Piece)
        /\ Len(SubSeq(file, 1, n)) = IF 1 <= n THEN n - 1 + 1 ELSE 0
        /\ \A i \in 1..(n - 1 + 1) : SubSeq(file, 1, n)[i] = file[1 + i - 1]
    BY <1>3, <2>1, SubSeqProperties
  <2>3. QED
    BY <1>1, <1>3, <2>2
<1>5. MemoryOK'
  <2>1. <<>> \in Seq(Items(<<>>)) /\ Len(<<>>) = 0
    BY EmptySeq
  <2>2. \A i : i \notin (0 + 1)..0
    OBVIOUS
  <2>3. QED
    BY <1>2, <2>1, <2>2 DEF MemoryOK, PendingSet
<1>6. FileOK'
  BY <1>1, <1>2, <1>3, <1>4 DEF Inv, FileOK
<1>7. FlushOK' /\ NothingDropped'
  BY <1>2, EmptySeq DEF FlushOK, NothingDropped
<1>8. AckedDurable'
  <2>1. \A i \in 1..durable : i \in 1..n
    BY <1>1, <1>3
  <2>2. ASSUME NEW e \in acked, NEW k \in 1..3
        PROVE  \E i \in 1..n : file'[i] = <<e, Parts[k]>>
    <3>1. PICK i \in 1..durable : file[i] = <<e, Parts[k]>>
      BY DEF Inv, AckedDurable
    <3>2. QED
      BY <1>4, <2>1, <3>1
  <2>3. QED
    BY <1>1, <1>2, <2>2 DEF AckedDurable
<1>9. QED
  BY <1>5, <1>6, <1>7, <1>8 DEF Inv

\* Inv is an inductive invariant of the withdrawal audit log.
THEOREM Invariant == Spec => []Inv
<1>1. Inv /\ [Next]_vars => Inv'
  <2> SUFFICES ASSUME Inv, [Next]_vars PROVE Inv'
    OBVIOUS
  <2>1. CASE UNCHANGED vars
    <3> USE <2>1 DEF vars, Inv
    <3>1. MemoryOK'
      BY DEF MemoryOK, PendingSet
    <3>2. FileOK' /\ FlushOK' /\ AckedDurable'
      BY DEF FileOK, FlushOK, AckedDurable
    <3>3. NothingDropped'
      BY DEF NothingDropped, PendingSet
    <3>4. QED
      BY <3>1, <3>2, <3>3
  <2>2. CASE PowerLoss
    BY <2>2, PowerLossInv
  <2>3. ASSUME NEW p \in Processes,
               \/ Load(p) \/ Log(p) \/ FlushBegin(p) \/ Write(p) \/ Sync(p)
               \/ FlushFails(p) \/ Crash(p)
        PROVE  Inv'
    BY <2>3, LoadInv, LogInv, FlushBeginInv, WriteInv, SyncInv, FlushFailsInv, CrashInv
  <2>4. QED
    BY <2>1, <2>2, <2>3 DEF Next
<1>2. QED
  BY <1>1, InitInv, PTL DEF Spec
-----------------------------------------------------------------------------
(* The theorems *)

\* The cursor, the buffers and the synced part of the file keep their ranges.
THEOREM TypeCorrectness == Spec => []TypeOK
<1>1. Inv => TypeOK
  <2> SUFFICES ASSUME Inv PROVE TypeOK
    OBVIOUS
  <2>1. \A p \in Processes : flushed[p] \in 0..Len(entries[p])
    BY LenProperties DEF Inv, MemoryOK
  <2>2. DOMAIN file = 1..Len(file) /\ \A i \in 1..Len(file) : file[i] \in Piece
    BY LenProperties, ElementOfSeq DEF Inv, FileOK
  <2>3. QED
    BY <2>1, <2>2 DEF Inv, FileOK, FlushOK, TypeOK, Piece, PartSet
<1>2. QED
  BY <1>1, Invariant, PTL

\* An entry whose flush returned Ok is on stable storage for good, whatever
\* processes, failures, crashes and power losses there are.
\* (flush_to_disk, load_from_disk)
THEOREM AckedEntriesSurvive == Spec => []AckedDurable
<1>1. Inv => AckedDurable
  BY DEF Inv
<1>2. QED
  BY <1>1, Invariant, PTL
-----------------------------------------------------------------------------
(* Order: each process's lines, in the order it logged them *)

\* Piece y may stand after piece x when the entries in F may be repeated.
MayFollow(x, y, F) ==
  x[2] = y[2] /\ x[1][1] = y[1][1] => x[1][2] < y[1][2] \/ y[1] \in F

OrderedFile ==
  /\ \A i, j \in 1..Len(file) : i < j => MayFollow(file[i], file[j], failed)
  /\ \A i \in 1..Len(file) : file[i][1][2] <= logged

\* What a flush still has to write is its own and goes on where the file stops.
OrderedBuffer(p) ==
  /\ \A i \in 1..Len(buf[p]) : buf[p][i][1][1] = p /\ buf[p][i][1][2] <= logged
  /\ \A i, j \in 1..Len(buf[p]) : i < j => MayFollow(buf[p][i], buf[p][j], failed)
  /\ \A i \in 1..Len(file), j \in 1..Len(buf[p]) : MayFollow(file[i], buf[p][j], failed)

\* What is pending is the process's own, ascending, and between two flushes it
\* either comes after all that the file has of the process or has failed before.
OrderedMemory(p) ==
  /\ \A e \in PendingSet(p) : e[1] = p /\ e[2] <= logged
  /\ \A i, j \in (flushed[p] + 1)..Len(entries[p]) : i < j => entries[p][i][2] < entries[p][j][2]
  /\ pc[p] = "idle" =>
      \A e \in PendingSet(p) \ failed, i \in 1..Len(file) :
        file[i][1][1] = p => file[i][1][2] < e[2]

Order == OrderedFile /\ \A p \in Processes : OrderedBuffer(p) /\ OrderedMemory(p)

OrderInv == Inv /\ Order

LEMMA EntryFields ==
  /\ \A x \in Piece : x[1] \in Entry /\ x[1][2] \in Nat /\ x[2] \in PartSet
  /\ \A e \in Entry : e[1] \in Processes /\ e[2] \in Nat
  BY BoundsAssumption DEF Piece, Entry

LEMMA InitOrder == Init => Order
<1> SUFFICES ASSUME Init PROVE Order
  OBVIOUS
<1>1. /\ file = <<>> /\ Len(<<>>) = 0
      /\ \A p \in Processes : buf[p] = <<>> /\ entries[p] = <<>> /\ flushed[p] = 0
  BY EmptySeq DEF Init
<1>2. \A i : i \notin 1..0 /\ i \notin (0 + 1)..0
  OBVIOUS
<1>3. OrderedFile
  BY <1>1, <1>2 DEF OrderedFile
<1>4. \A p \in Processes : OrderedBuffer(p)
  BY <1>1, <1>2 DEF OrderedBuffer
<1>5. \A p \in Processes : OrderedMemory(p)
  BY <1>1, <1>2 DEF OrderedMemory, PendingSet
<1>6. QED
  BY <1>3, <1>4, <1>5 DEF Order

LEMMA LoadOrder ==
  ASSUME OrderInv, NEW p \in Processes, Load(p)
  PROVE  Order'
<1> DEFINE es == EntriesOf(file)
<1>1. Len(es) \in Nat
  BY LoadedLength DEF OrderInv, Inv, FileOK
<1>2. entries' = [entries EXCEPT ![p] = es] /\ flushed' = [flushed EXCEPT ![p] = Len(es)]
  BY DEF Load, LoadedCursor
<1> HIDE DEF es
<1>3. DOMAIN entries = Processes /\ flushed \in [Processes -> Nat]
  BY DEF OrderInv, Inv, MemoryOK
<1>4. UNCHANGED <<buf, file, logged, failed>> /\ pc' = [pc EXCEPT ![p] = "idle"]
  BY DEF Load, historyVars
<1>5. \A i : i \notin (Len(es) + 1)..Len(es)
  BY <1>1
<1>6. entries'[p] = es /\ flushed'[p] = Len(es)
  BY <1>2, <1>3
<1>7. PendingSet(p)' = {}
  BY <1>5, <1>6 DEF PendingSet
<1>8. OrderedMemory(p)'
  BY <1>5, <1>6, <1>7 DEF OrderedMemory
<1>9. ASSUME NEW q \in Processes, q # p PROVE OrderedMemory(q)'
  <2>1. entries'[q] = entries[q] /\ flushed'[q] = flushed[q] /\ pc'[q] = pc[q]
    BY <1>2, <1>3, <1>4, <1>9 DEF OrderInv, Inv, FlushOK
  <2>2. QED
    BY <1>4, <2>1 DEF OrderInv, Order, OrderedMemory, PendingSet
<1>10. OrderedFile' /\ \A q \in Processes : OrderedBuffer(q)'
  BY <1>4 DEF OrderInv, Order, OrderedFile, OrderedBuffer
<1>11. QED
  BY <1>8, <1>9, <1>10 DEF Order

LEMMA LogOrder ==
  ASSUME OrderInv, NEW p \in Processes, Log(p)
  PROVE  Order'
<1> DEFINE e == <<p, logged + 1>>
           m == Len(entries[p])
<1>1. /\ entries' = [entries EXCEPT ![p] = Append(@, e)] /\ logged' = logged + 1
      /\ UNCHANGED <<flushed, pc, buf, file, failed>>
  BY DEF Log
<1>2. /\ entries = [q \in Processes |-> entries[q]]
      /\ entries[p] \in Seq(Items(entries[p])) /\ logged \in Nat /\ flushed[p] \in Nat
      /\ PendingSet(p) \subseteq Entry
  BY DEF OrderInv, Inv, MemoryOK, FileOK
<1>3. /\ m \in Nat /\ Len(entries'[p]) = m + 1
      /\ \A i \in 1..m : entries'[p][i] = entries[p][i]
      /\ entries'[p][m + 1] = e
  <2>1. entries'[p] = Append(entries[p], e)
    BY <1>1, <1>2
  <2>2. QED
    BY <1>2, <2>1, AppendProperties, LenProperties
<1> HIDE DEF m
<1>4. e[1] = p /\ e[2] = logged + 1
  OBVIOUS
<1> HIDE DEF e
<1>5. \A i \in (flushed[p] + 1)..(m + 1) :
        \/ i \in (flushed[p] + 1)..m /\ entries'[p][i] = entries[p][i] /\ entries[p][i] \in PendingSet(p)
        \/ i = m + 1 /\ entries'[p][i] = e
  <2> SUFFICES ASSUME NEW i \in (flushed[p] + 1)..(m + 1), i # m + 1
               PROVE  i \in (flushed[p] + 1)..m /\ entries'[p][i] = entries[p][i] /\ entries[p][i] \in PendingSet(p)
    BY <1>3
  <2>1. i \in (flushed[p] + 1)..m /\ i \in 1..m
    BY <1>2, <1>3
  <2>2. QED
    BY <1>3, <2>1 DEF PendingSet, m
<1>6. PendingSet(p)' \subseteq PendingSet(p) \cup {e}
  BY <1>1, <1>3, <1>5 DEF PendingSet
<1>7. /\ \A x \in PendingSet(p) : x[1] = p /\ x[2] <= logged /\ x[2] \in Nat
      /\ \A i \in 1..Len(file) : file[i][1][2] <= logged /\ file[i][1][2] \in Nat
  <2>1. \A i \in 1..Len(file) : file[i] \in Piece
    BY ElementOfSeq DEF OrderInv, Inv, FileOK
  <2>2. QED
    BY <1>2, <2>1, EntryFields DEF OrderInv, Order, OrderedMemory, OrderedFile
<1>8. OrderedMemory(p)'
  <2>1. \A x \in PendingSet(p)' : x[1] = p /\ x[2] <= logged'
    BY <1>1, <1>2, <1>4, <1>6, <1>7
  <2>2. ASSUME NEW i \in (flushed[p] + 1)..(m + 1), NEW j \in (flushed[p] + 1)..(m + 1), i < j
        PROVE  entries'[p][i][2] < entries'[p][j][2]
    <3>1. i \in (flushed[p] + 1)..m /\ entries'[p][i] = entries[p][i] /\ entries[p][i] \in PendingSet(p)
      BY <1>2, <1>3, <1>5, <2>2
    <3>2. CASE j = m + 1
      BY <1>2, <1>3, <1>4, <1>7, <3>1, <3>2
    <3>3. CASE j # m + 1
      <4>1. j \in (flushed[p] + 1)..m /\ entries'[p][j] = entries[p][j]
        BY <1>5, <3>3
      <4>2. QED
        BY <2>2, <3>1, <4>1 DEF OrderInv, Order, OrderedMemory, m
    <3>4. QED
      BY <3>2, <3>3
  <2>3. ASSUME pc[p] = "idle", NEW x \in PendingSet(p)' \ failed, NEW i \in 1..Len(file), file[i][1][1] = p
        PROVE  file[i][1][2] < x[2]
    <3>1. CASE x = e
      BY <1>2, <1>4, <1>7, <3>1
    <3>2. CASE x # e
      BY <1>6, <2>3, <3>2 DEF OrderInv, Order, OrderedMemory
    <3>3. QED
      BY <3>1, <3>2
  <2>4. QED
    BY <1>1, <1>3, <2>1, <2>2, <2>3 DEF OrderedMemory
<1>9. ASSUME NEW q \in Processes, q # p PROVE OrderedMemory(q)'
  <2>1. entries'[q] = entries[q] /\ PendingSet(q)' = PendingSet(q)
    BY <1>1, <1>2, <1>9 DEF PendingSet
  <2>2. \A x \in PendingSet(q) : x[2] <= logged'
    <3>1. \A x \in PendingSet(q) : x[2] <= logged /\ x[2] \in Nat
      BY EntryFields DEF OrderInv, Order, OrderedMemory, Inv, MemoryOK
    <3>2. QED
      BY <1>1, <1>2, <3>1
  <2>3. QED
    BY <1>1, <2>1, <2>2 DEF OrderInv, Order, OrderedMemory
<1>10. OrderedFile'
  BY <1>1, <1>2, <1>7 DEF OrderInv, Order, OrderedFile
<1>11. ASSUME NEW q \in Processes PROVE OrderedBuffer(q)'
  <2>1. \A i \in 1..Len(buf[q]) : buf[q][i][1][2] <= logged /\ buf[q][i][1][2] \in Nat
    <3>1. \A i \in 1..Len(buf[q]) : buf[q][i] \in Piece
      BY ElementOfSeq DEF OrderInv, Inv, FlushOK
    <3>2. QED
      BY <3>1, EntryFields DEF OrderInv, Order, OrderedBuffer
  <2>2. \A i \in 1..Len(buf[q]) : buf[q][i][1][2] <= logged'
    BY <1>1, <1>2, <2>1
  <2>3. QED
    BY <1>1, <2>2 DEF OrderInv, Order, OrderedBuffer
<1>12. QED
  BY <1>8, <1>9, <1>10, <1>11 DEF Order

\* The buffer of a flush is the pending entries' lines: position, part, entry.
LEMMA BufferOfPending ==
  ASSUME Inv, NEW p \in Processes, flushed[p] < Len(entries[p])
  PROVE  LET b == Buffer(Pending(p))
             k(i) == (i + 2) \div 3
         IN  \A i \in 1..Len(b) :
               /\ flushed[p] + k(i) \in (flushed[p] + 1)..Len(entries[p])
               /\ b[i] = <<entries[p][flushed[p] + k(i)], Parts[((i - 1) % 3) + 1]>>
<1> DEFINE es == entries[p]
           m == flushed[p]
           n == Len(es)
           s == SubSeq(es, m + 1, n)
<1>1. m \in Nat /\ n \in Nat /\ m <= n
  BY LenProperties DEF Inv, MemoryOK
<1>2. \A i \in (m + 1)..n : es[i] \in Entry
  BY DEF Inv, MemoryOK, PendingSet
<1>3. Pending(p) = s
  BY DEF Pending
<1> HIDE DEF es, m, n
<1>4. /\ s \in Seq(Entry) /\ Len(s) = n - m
      /\ \A i \in 1..(n - m) : s[i] = es[m + i]
  BY <1>1, <1>2, Slice
<1> HIDE DEF s
<1>5. Len(Buffer(s)) = 3 * (n - m)
  BY <1>4, BufferItems
<1>6. ASSUME NEW i \in 1..(3 * (n - m))
      PROVE  /\ m + ((i + 2) \div 3) \in (m + 1)..n
             /\ Buffer(s)[i] = <<es[m + ((i + 2) \div 3)], Parts[((i - 1) % 3) + 1]>>
  <2>1. (i + 2) \div 3 \in 1..(n - m)
    BY <1>1
  <2>2. Buffer(s)[i] = <<s[(i + 2) \div 3], Parts[((i - 1) % 3) + 1]>>
    BY <1>4 DEF Buffer
  <2>3. QED
    BY <1>1, <1>4, <2>1, <2>2
<1>7. QED
  BY <1>3, <1>5, <1>6 DEF es, m, n

LEMMA DifferentParts ==
  \A a, b \in 1..3 : Parts[a] = Parts[b] => a = b
  BY DEF Parts

LEMMA FlushBeginOrder ==
  ASSUME OrderInv, NEW p \in Processes, FlushBegin(p)
  PROVE  Order'
<1> DEFINE b == Buffer(Pending(p))
           k(i) == (i + 2) \div 3
           pos(i) == flushed[p] + k(i)
           entry(i) == entries[p][pos(i)]
<1>1. /\ buf' = [buf EXCEPT ![p] = b] /\ pc' = [pc EXCEPT ![p] = "writing"]
      /\ UNCHANGED <<entries, flushed, file, logged, failed>>
      /\ pc[p] = "idle" /\ flushed[p] < Len(entries[p])
  BY DEF FlushBegin, logVars
<1>2. \A i \in 1..Len(b) : /\ pos(i) \in (flushed[p] + 1)..Len(entries[p])
                           /\ b[i] = <<entry(i), Parts[((i - 1) % 3) + 1]>>
  BY <1>1, BufferOfPending DEF OrderInv
<1>3. Inv'
  BY FlushBeginInv DEF OrderInv
<1>4. buf \in [Processes -> Seq(Piece)] /\ pc \in [Processes -> {"down", "idle", "writing", "syncing"}]
  BY DEF OrderInv, Inv, FlushOK
<1>5. buf'[p] = b /\ pc'[p] = "writing" /\ \A q \in Processes : q # p => buf'[q] = buf[q] /\ pc'[q] = pc[q]
  BY <1>1, <1>4
<1>6. b \in Seq(Piece) /\ Len(b) \in Nat
  BY <1>3, <1>5, LenProperties DEF Inv, FlushOK
<1> HIDE DEF b
<1>7. \A i \in 1..Len(b) : /\ b[i][1] = entry(i) /\ entry(i) \in PendingSet(p)
                           /\ b[i][2] = Parts[((i - 1) % 3) + 1]
  BY <1>2 DEF PendingSet
<1>8. ASSUME NEW i \in 1..Len(b), NEW j \in 1..Len(b), i < j, b[i][2] = b[j][2]
      PROVE  b[i][1][2] < b[j][1][2]
  <2>1. ((i - 1) % 3) + 1 = ((j - 1) % 3) + 1
    <3>1. ((i - 1) % 3) + 1 \in 1..3 /\ ((j - 1) % 3) + 1 \in 1..3
      BY <1>6
    <3>2. QED
      BY <1>7, <1>8, <3>1, DifferentParts
  <2>2. k(i) < k(j)
    BY <1>6, <1>8, <2>1
  <2>3. pos(i) < pos(j)
    <3>1. flushed[p] \in Nat /\ k(i) \in Int /\ k(j) \in Int
      BY <1>6 DEF OrderInv, Inv, MemoryOK
    <3>2. QED
      BY <2>2, <3>1
  <2>4. pos(i) \in (flushed[p] + 1)..Len(entries[p]) /\ pos(j) \in (flushed[p] + 1)..Len(entries[p])
    BY <1>2
  <2>5. \A x, y \in (flushed[p] + 1)..Len(entries[p]) : x < y => entries[p][x][2] < entries[p][y][2]
    BY DEF OrderInv, Order, OrderedMemory
  <2> HIDE DEF pos
  <2>6. QED
    BY <1>7, <2>3, <2>4, <2>5
<1>9. OrderedBuffer(p)'
  <2>1. \A i \in 1..Len(b) : b[i][1][1] = p /\ b[i][1][2] <= logged
    BY <1>7 DEF OrderInv, Order, OrderedMemory
  <2>2. \A i, j \in 1..Len(b) : i < j => MayFollow(b[i], b[j], failed)
    BY <1>8 DEF MayFollow
  <2>3. ASSUME NEW i \in 1..Len(file), NEW j \in 1..Len(b) PROVE MayFollow(file[i], b[j], failed)
    <3>1. b[j][1] \in PendingSet(p) /\ b[j][1][1] = p
      BY <1>7, <2>1
    <3>2. QED
      BY <1>1, <3>1 DEF OrderInv, Order, OrderedMemory, MayFollow
  <2>4. QED
    BY <1>1, <1>5, <2>1, <2>2, <2>3 DEF OrderedBuffer
<1>10. ASSUME NEW q \in Processes, q # p PROVE OrderedBuffer(q)'
  BY <1>1, <1>5, <1>10 DEF OrderInv, Order, OrderedBuffer
<1>11. ASSUME NEW q \in Processes PROVE OrderedMemory(q)'
  <2>1. PendingSet(q)' = PendingSet(q) /\ (pc'[q] = "idle" => pc[q] = "idle")
    BY <1>1, <1>5 DEF PendingSet
  <2>2. QED
    BY <1>1, <2>1 DEF OrderInv, Order, OrderedMemory
<1>12. OrderedFile'
  BY <1>1 DEF OrderInv, Order, OrderedFile
<1>13. QED
  BY <1>9, <1>10, <1>11, <1>12 DEF Order

\* What one write does to the file and to the rest of the buffer, by position.
LEMMA WriteMoves ==
  ASSUME Inv, NEW p \in Processes, Write(p)
  PROVE  \E n \in 1..Len(buf[p]) :
           /\ Len(file') = Len(file) + n
           /\ \A i \in 1..Len(file) : file'[i] = file[i]
           /\ \A i \in 1..n : file'[Len(file) + i] = buf[p][i]
           /\ Len(buf'[p]) = Len(buf[p]) - n
           /\ \A i \in 1..(Len(buf[p]) - n) : buf'[p][i] = buf[p][n + i]
           /\ pc'[p] = IF n = Len(buf[p]) THEN "syncing" ELSE "writing"
           /\ whole' = (whole /\ n = Len(buf[p]))
           /\ \A q \in Processes : q # p => buf'[q] = buf[q] /\ pc'[q] = pc[q]
           /\ file' \in Seq(Piece)
<1>1. PICK n \in 1..Len(buf[p]) :
        /\ file' = file \o SubSeq(buf[p], 1, n)
        /\ buf' = [buf EXCEPT ![p] = SubSeq(@, n + 1, Len(@))]
        /\ pc' = [pc EXCEPT ![p] = IF n = Len(buf[p]) THEN "syncing" ELSE "writing"]
        /\ whole' = (whole /\ n = Len(buf[p]))
  BY DEF Write
<1> DEFINE b == buf[p]
           len == Len(b)
           front == SubSeq(b, 1, n)
           back == SubSeq(b, n + 1, len)
<1>2. /\ b \in Seq(Piece) /\ file \in Seq(Piece)
      /\ buf \in [Processes -> Seq(Piece)] /\ pc \in [Processes -> {"down", "idle", "writing", "syncing"}]
  BY DEF Inv, FlushOK, FileOK
<1>3. n \in Nat /\ len \in Nat /\ 1 <= n /\ n <= len /\ Len(file) \in Nat
  BY <1>2, LenProperties
<1>4. file' = file \o front /\ buf'[p] = back
  BY <1>1, <1>2
<1>5. /\ pc'[p] = IF n = len THEN "syncing" ELSE "writing"
      /\ whole' = (whole /\ n = len)
      /\ \A q \in Processes : q # p => buf'[q] = buf[q] /\ pc'[q] = pc[q]
  BY <1>1, <1>2
<1> HIDE DEF len
<1>6. \A i \in 1..len : b[i] \in Piece
  BY <1>2, ElementOfSeq DEF len
<1> HIDE DEF b
<1>7. front \in Seq(Piece) /\ Len(front) = n /\ \A i \in 1..n : front[i] = b[i]
  <2>1. \A i \in 1..n : b[i] \in Piece
    BY <1>3, <1>6
  <2>2. QED
    BY <1>3, <2>1, SubSeqProperties
<1>8. /\ back \in Seq(Piece) /\ Len(back) = len - n
      /\ \A i \in 1..(len - n) : back[i] = b[n + i]
  <2>1. \A i \in (n + 1)..len : b[i] \in Piece
    BY <1>3, <1>6
  <2>2. QED
    BY <1>3, <2>1, Slice
<1> HIDE DEF front, back
<1>9. /\ file' \in Seq(Piece) /\ Len(file') = Len(file) + n
      /\ \A i \in 1..(Len(file) + n) :
            file'[i] = IF i <= Len(file) THEN file[i] ELSE front[i - Len(file)]
  BY <1>2, <1>4, <1>7, ConcatProperties
<1>10. \A i \in 1..Len(file) : file'[i] = file[i]
  BY <1>3, <1>9
<1>11. \A i \in 1..n : file'[Len(file) + i] = b[i]
  BY <1>3, <1>7, <1>9
<1>12. QED
  BY <1>4, <1>5, <1>8, <1>9, <1>10, <1>11 DEF b, len

LEMMA WriteOrder ==
  ASSUME OrderInv, NEW p \in Processes, Write(p)
  PROVE  Order'
<1> DEFINE m == Len(file)
           b == buf[p]
           len == Len(b)
<1>1. PICK n \in 1..len :
           /\ Len(file') = m + n
           /\ \A i \in 1..m : file'[i] = file[i]
           /\ \A i \in 1..n : file'[m + i] = b[i]
           /\ Len(buf'[p]) = len - n
           /\ \A i \in 1..(len - n) : buf'[p][i] = b[n + i]
           /\ pc'[p] = IF n = len THEN "syncing" ELSE "writing"
           /\ \A q \in Processes : q # p => buf'[q] = buf[q] /\ pc'[q] = pc[q]
  BY WriteMoves DEF OrderInv
<1>2. m \in Nat /\ len \in Nat
  BY LenProperties DEF OrderInv, Inv, FileOK, FlushOK
<1>3. UNCHANGED <<entries, flushed, logged, failed>>
  BY DEF Write, logVars
<1>4. /\ \A i, j \in 1..m : i < j => MayFollow(file[i], file[j], failed)
      /\ \A i \in 1..m : file[i][1][2] <= logged
      /\ \A i \in 1..len : b[i][1][1] = p /\ b[i][1][2] <= logged
      /\ \A i, j \in 1..len : i < j => MayFollow(b[i], b[j], failed)
      /\ \A i \in 1..m, j \in 1..len : MayFollow(file[i], b[j], failed)
  BY DEF OrderInv, Order, OrderedFile, OrderedBuffer
<1> HIDE DEF m, b, len
<1>5. \A i \in 1..(m + n) : \/ i \in 1..m /\ file'[i] = file[i]
                            \/ i - m \in 1..n /\ i - m \in 1..len /\ file'[i] = b[i - m]
  <2> SUFFICES ASSUME NEW i \in 1..(m + n), i > m
               PROVE  i - m \in 1..n /\ i - m \in 1..len /\ file'[i] = b[i - m]
    BY <1>1, <1>2
  <2>1. i - m \in 1..n /\ i - m \in 1..len /\ m + (i - m) = i
    BY <1>2
  <2>2. QED
    BY <1>1, <2>1
<1>6. OrderedFile'
  <2>1. ASSUME NEW i \in 1..(m + n), NEW j \in 1..(m + n), i < j
        PROVE  MayFollow(file'[i], file'[j], failed)
    <3>1. CASE i > m /\ j > m
      <4>1. /\ i - m \in 1..len /\ file'[i] = b[i - m]
            /\ j - m \in 1..len /\ file'[j] = b[j - m] /\ i - m < j - m
        BY <1>2, <1>5, <2>1, <3>1
      <4>2. QED
        BY <1>4, <4>1
    <3>2. CASE i <= m /\ j > m
      <4>1. i \in 1..m /\ file'[i] = file[i] /\ j - m \in 1..len /\ file'[j] = b[j - m]
        BY <1>2, <1>5, <3>2
      <4>2. QED
        BY <1>4, <4>1
    <3>3. CASE i <= m /\ j <= m
      BY <1>2, <1>4, <1>5, <2>1, <3>3
    <3>4. QED
      BY <1>2, <2>1, <3>1, <3>2, <3>3
  <2>2. \A i \in 1..(m + n) : file'[i][1][2] <= logged
    BY <1>4, <1>5
  <2>3. QED
    BY <1>1, <1>3, <2>1, <2>2 DEF OrderedFile
<1>7. OrderedBuffer(p)'
  <2>1. \A i \in 1..(len - n) : n + i \in 1..len /\ buf'[p][i] = b[n + i]
    BY <1>1, <1>2
  <2>2. \A i \in 1..(len - n) : buf'[p][i][1][1] = p /\ buf'[p][i][1][2] <= logged
    BY <1>4, <2>1
  <2>3. ASSUME NEW i \in 1..(len - n), NEW j \in 1..(len - n), i < j
        PROVE  MayFollow(buf'[p][i], buf'[p][j], failed)
    <3>1. n + i < n + j
      BY <1>2, <2>3
    <3>2. QED
      BY <1>4, <2>1, <3>1
  <2>4. ASSUME NEW i \in 1..(m + n), NEW j \in 1..(len - n)
        PROVE  MayFollow(file'[i], buf'[p][j], failed)
    <3>1. CASE i \in 1..m /\ file'[i] = file[i]
      BY <1>4, <2>1, <3>1
    <3>2. CASE i - m \in 1..n /\ i - m \in 1..len /\ file'[i] = b[i - m]
      <4>1. i - m < n + j
        BY <1>2, <3>2
      <4>2. QED
        BY <1>4, <2>1, <3>2, <4>1
    <3>3. QED
      BY <1>5, <3>1, <3>2
  <2>5. QED
    BY <1>1, <1>3, <2>2, <2>3, <2>4 DEF OrderedBuffer
<1>8. ASSUME NEW q \in Processes, q # p PROVE OrderedBuffer(q)'
  <2>1. buf'[q] = buf[q]
    BY <1>1, <1>8
  <2>2. ASSUME NEW i \in 1..(m + n), NEW j \in 1..Len(buf[q])
        PROVE  MayFollow(file'[i], buf[q][j], failed)
    <3>1. CASE i \in 1..m /\ file'[i] = file[i]
      BY <3>1 DEF OrderInv, Order, OrderedBuffer, m
    <3>2. CASE i - m \in 1..len /\ file'[i] = b[i - m]
      <4>1. file'[i][1][1] = p /\ buf[q][j][1][1] = q
        BY <1>4, <3>2 DEF OrderInv, Order, OrderedBuffer
      <4>2. QED
        BY <1>8, <4>1 DEF MayFollow
    <3>3. QED
      BY <1>5, <3>1, <3>2
  <2>3. QED
    BY <1>1, <1>3, <2>1, <2>2 DEF OrderInv, Order, OrderedBuffer
<1>9. ASSUME NEW q \in Processes PROVE OrderedMemory(q)'
  <2>1. PendingSet(q)' = PendingSet(q)
    BY <1>3 DEF PendingSet
  <2>2. ASSUME pc'[q] = "idle", NEW e \in PendingSet(q) \ failed, NEW i \in 1..(m + n), file'[i][1][1] = q
        PROVE  file'[i][1][2] < e[2]
    <3>1. q # p /\ pc[q] = "idle"
      BY <1>1, <2>2
    <3>2. i \in 1..m /\ file'[i] = file[i]
      BY <1>4, <1>5, <2>2, <3>1
    <3>3. QED
      BY <2>2, <3>1, <3>2 DEF OrderInv, Order, OrderedMemory, m
  <2>3. QED
    BY <1>1, <1>3, <2>1, <2>2 DEF OrderInv, Order, OrderedMemory
<1>10. QED
  BY <1>6, <1>7, <1>8, <1>9 DEF Order

LEMMA SyncOrder ==
  ASSUME OrderInv, NEW p \in Processes, Sync(p)
  PROVE  Order'
<1>1. /\ flushed' = [flushed EXCEPT ![p] = Len(entries[p])] /\ pc' = [pc EXCEPT ![p] = "idle"]
      /\ UNCHANGED <<entries, buf, file, logged, failed>>
  BY DEF Sync
<1>2. /\ flushed \in [Processes -> Nat] /\ Len(entries[p]) \in Nat
      /\ pc \in [Processes -> {"down", "idle", "writing", "syncing"}]
  BY LenProperties DEF OrderInv, Inv, MemoryOK, FlushOK
<1>3. flushed'[p] = Len(entries[p]) /\ \A i : i \notin (Len(entries[p]) + 1)..Len(entries[p])
  BY <1>1, <1>2
<1>4. OrderedMemory(p)'
  BY <1>1, <1>3 DEF OrderedMemory, PendingSet
<1>5. ASSUME NEW q \in Processes, q # p PROVE OrderedMemory(q)'
  <2>1. flushed'[q] = flushed[q] /\ pc'[q] = pc[q]
    BY <1>1, <1>2, <1>5
  <2>2. QED
    BY <1>1, <2>1 DEF OrderInv, Order, OrderedMemory, PendingSet
<1>6. OrderedFile' /\ \A q \in Processes : OrderedBuffer(q)'
  BY <1>1 DEF OrderInv, Order, OrderedFile, OrderedBuffer
<1>7. QED
  BY <1>4, <1>5, <1>6 DEF Order

LEMMA FlushFailsOrder ==
  ASSUME OrderInv, NEW p \in Processes, FlushFails(p)
  PROVE  Order'
<1>1. /\ failed' = failed \cup PendingSet(p) /\ buf' = [buf EXCEPT ![p] = <<>>]
      /\ pc' = [pc EXCEPT ![p] = "idle"] /\ UNCHANGED <<entries, flushed, file, logged>>
  BY DEF FlushFails, logVars
<1>2. /\ buf \in [Processes -> Seq(Piece)]
      /\ pc \in [Processes -> {"down", "idle", "writing", "syncing"}]
  BY DEF OrderInv, Inv, FlushOK
<1>3. buf'[p] = <<>> /\ \A q \in Processes : q # p => buf'[q] = buf[q] /\ pc'[q] = pc[q]
  BY <1>1, <1>2
<1>4. \A x, y : MayFollow(x, y, failed) => MayFollow(x, y, failed')
  BY <1>1 DEF MayFollow
<1>5. OrderedFile'
  BY <1>1, <1>4 DEF OrderInv, Order, OrderedFile
<1>6. OrderedBuffer(p)'
  <2>1. Len(buf'[p]) = 0 /\ \A i : i \notin 1..0
    BY <1>3, EmptySeq
  <2>2. QED
    BY <2>1 DEF OrderedBuffer
<1>7. ASSUME NEW q \in Processes, q # p PROVE OrderedBuffer(q)'
  <2>1. UNCHANGED <<file, logged>> /\ buf'[q] = buf[q]
    BY <1>1, <1>3, <1>7
  <2>2. /\ \A i \in 1..Len(buf[q]) : buf[q][i][1][1] = q /\ buf[q][i][1][2] <= logged
        /\ \A i, j \in 1..Len(buf[q]) : i < j => MayFollow(buf[q][i], buf[q][j], failed)
        /\ \A i \in 1..Len(file), j \in 1..Len(buf[q]) : MayFollow(file[i], buf[q][j], failed)
    BY DEF OrderInv, Order, OrderedBuffer
  <2>3. /\ \A i, j \in 1..Len(buf[q]) : i < j => MayFollow(buf[q][i], buf[q][j], failed')
        /\ \A i \in 1..Len(file), j \in 1..Len(buf[q]) : MayFollow(file[i], buf[q][j], failed')
    BY <1>4, <2>2
  <2>4. QED
    BY <2>1, <2>2, <2>3 DEF OrderedBuffer
<1>8. ASSUME NEW q \in Processes PROVE OrderedMemory(q)'
  <2>1. PendingSet(q)' = PendingSet(q) /\ (q = p => PendingSet(q) \subseteq failed')
    BY <1>1 DEF PendingSet
  <2>2. QED
    BY <1>1, <1>3, <2>1 DEF OrderInv, Order, OrderedMemory
<1>9. QED
  BY <1>5, <1>6, <1>7, <1>8 DEF Order

LEMMA CrashOrder ==
  ASSUME OrderInv, NEW p \in Processes, Crash(p)
  PROVE  Order'
<1>1. /\ UNCHANGED <<file, logged, failed>>
      /\ pc' = [pc EXCEPT ![p] = "down"] /\ entries' = [entries EXCEPT ![p] = <<>>]
      /\ flushed' = [flushed EXCEPT ![p] = 0] /\ buf' = [buf EXCEPT ![p] = <<>>]
  BY DEF Crash, historyVars
<1>2. /\ flushed \in [Processes -> Nat] /\ entries = [q \in Processes |-> entries[q]]
      /\ buf \in [Processes -> Seq(Piece)]
      /\ pc \in [Processes -> {"down", "idle", "writing", "syncing"}]
  BY DEF OrderInv, Inv, MemoryOK, FlushOK
<1>3. /\ entries'[p] = <<>> /\ flushed'[p] = 0 /\ buf'[p] = <<>> /\ Len(<<>>) = 0
      /\ \A i : i \notin 1..0 /\ i \notin (0 + 1)..0
  BY <1>1, <1>2, EmptySeq
<1>4. \A q \in Processes : q # p => /\ entries'[q] = entries[q] /\ flushed'[q] = flushed[q]
                                    /\ buf'[q] = buf[q] /\ pc'[q] = pc[q]
  BY <1>1, <1>2
<1>5. OrderedMemory(p)' /\ OrderedBuffer(p)'
  BY <1>3 DEF OrderedMemory, OrderedBuffer, PendingSet
<1>6. ASSUME NEW q \in Processes, q # p PROVE OrderedMemory(q)' /\ OrderedBuffer(q)'
  BY <1>1, <1>4, <1>6 DEF OrderInv, Order, OrderedMemory, OrderedBuffer, PendingSet
<1>7. OrderedFile'
  BY <1>1 DEF OrderInv, Order, OrderedFile
<1>8. QED
  BY <1>5, <1>6, <1>7 DEF Order

\* What a power loss leaves of the file.
LEMMA PowerLossKeeps ==
  ASSUME Inv, PowerLoss
  PROVE  \E n \in durable..Len(file) :
           /\ file' \in Seq(Piece) /\ Len(file') = n /\ n \in 0..Len(file)
           /\ \A i \in 1..n : i \in 1..Len(file) /\ file'[i] = file[i]
           /\ whole' = (whole /\ (n = 0 \/ file[n][2] = "newline"))
<1>1. PICK n \in durable..Len(file) :
        file' = SubSeq(file, 1, n) /\ whole' = (whole /\ (n = 0 \/ file[n][2] = "newline"))
  BY DEF PowerLoss
<1>2. file \in Seq(Piece) /\ durable \in Nat /\ Len(file) \in Nat /\ n \in Nat /\ n <= Len(file)
  BY LenProperties DEF Inv, FileOK
<1>3. \A i \in 1..n : i \in 1..Len(file) /\ file[i] \in Piece
  BY <1>2, ElementOfSeq
<1>4. /\ SubSeq(file, 1, n) \in Seq(Piece)
      /\ Len(SubSeq(file, 1, n)) = IF 1 <= n THEN n - 1 + 1 ELSE 0
      /\ \A i \in 1..(n - 1 + 1) : SubSeq(file, 1, n)[i] = file[1 + i - 1]
  BY <1>2, <1>3, SubSeqProperties
<1>5. file' \in Seq(Piece) /\ Len(file') = n /\ \A i \in 1..n : file'[i] = file[i]
  BY <1>1, <1>2, <1>4
<1>6. QED
  BY <1>1, <1>2, <1>3, <1>5

LEMMA PowerLossOrder ==
  ASSUME OrderInv, PowerLoss
  PROVE  Order'
<1>1. PICK n \in 0..Len(file) :
        Len(file') = n /\ \A i \in 1..n : i \in 1..Len(file) /\ file'[i] = file[i]
  BY PowerLossKeeps DEF OrderInv
<1>2. /\ pc' = [p \in Processes |-> "down"] /\ entries' = [p \in Processes |-> <<>>]
      /\ flushed' = [p \in Processes |-> 0] /\ buf' = [p \in Processes |-> <<>>]
      /\ UNCHANGED <<logged, failed>>
  BY DEF PowerLoss
<1>3. Len(<<>>) = 0 /\ \A i : i \notin 1..0 /\ i \notin (0 + 1)..0
  BY EmptySeq
<1>4. OrderedFile'
  BY <1>1, <1>2 DEF OrderInv, Order, OrderedFile
<1>5. ASSUME NEW p \in Processes PROVE OrderedBuffer(p)' /\ OrderedMemory(p)'
  BY <1>2, <1>3 DEF OrderedMemory, OrderedBuffer, PendingSet
<1>6. QED
  BY <1>4, <1>5 DEF Order

LEMMA StepOrder == OrderInv /\ [Next]_vars => Order'
<1> SUFFICES ASSUME OrderInv, [Next]_vars PROVE Order'
  OBVIOUS
<1>1. CASE UNCHANGED vars
  <2> USE <1>1 DEF vars, OrderInv, Order
  <2>1. OrderedFile' /\ \A p \in Processes : OrderedBuffer(p)'
    BY DEF OrderedFile, OrderedBuffer
  <2>2. \A p \in Processes : OrderedMemory(p)'
    BY DEF OrderedMemory, PendingSet
  <2>3. QED
    BY <2>1, <2>2
<1>2. CASE PowerLoss
  BY <1>2, PowerLossOrder
<1>3. ASSUME NEW p \in Processes,
             \/ Load(p) \/ Log(p) \/ FlushBegin(p) \/ Write(p) \/ Sync(p)
             \/ FlushFails(p) \/ Crash(p)
      PROVE  Order'
  BY <1>3, LoadOrder, LogOrder, FlushBeginOrder, WriteOrder, SyncOrder, FlushFailsOrder, CrashOrder
<1>4. QED
  BY <1>1, <1>2, <1>3 DEF Next

\* A process's entries stand in the file in the order it logged them and each
\* once, whichever processes write in between and whatever crashes and is loaded
\* again; only what a failed flush left behind is repeated.
\* (log, flush_to_disk, load_from_disk)
THEOREM EntriesInOrder == Spec => []OrderedOnce
<1>1. Inv /\ Order => OrderedOnce
  <2> SUFFICES ASSUME Inv, Order, NEW i \in DOMAIN file, NEW j \in DOMAIN file, i < j,
                      file[i][2] = file[j][2], file[i][1][1] = file[j][1][1]
               PROVE  file[i][1][2] < file[j][1][2] \/ file[j][1] \in failed
    BY DEF OrderedOnce
  <2>1. DOMAIN file = 1..Len(file)
    BY LenProperties DEF Inv, FileOK
  <2>2. QED
    BY <2>1 DEF Order, OrderedFile, MayFollow
<1>2. Inv /\ Inv' /\ Order /\ [Next]_vars => Order'
  BY StepOrder DEF OrderInv
<1>3. QED
  BY <1>1, <1>2, InitOrder, Invariant, PTL DEF Spec
-----------------------------------------------------------------------------
(* Replay: as long as every write is whole, the file is lines *)

\* f is the lines of k entries, one after the other.
LinesOf(f, k) ==
  /\ Len(f) = 3 * k
  /\ \A l \in 1..k : \E e \in Entry :
        f[3 * l - 2] = <<e, "start">> /\ f[3 * l - 1] = <<e, "rest">> /\ f[3 * l] = <<e, "newline">>

Lines(f) == \E k \in Nat : LinesOf(f, k)

Whole ==
  whole => Lines(file) /\ \A p \in Processes : pc[p] = "writing" => Lines(buf[p])

\* A position in k lines is one of the three of its line.
LEMMA LinePosition ==
  ASSUME NEW k \in Nat, NEW i \in 1..(3 * k)
  PROVE  \E l \in 1..k : i = 3 * l - 2 \/ i = 3 * l - 1 \/ i = 3 * l
<1> DEFINE l == (i + 2) \div 3
<1>1. l \in 1..k /\ (i = 3 * l - 2 \/ i = 3 * l - 1 \/ i = 3 * l)
  OBVIOUS
<1>2. QED
  BY <1>1

LEMMA LinesParse ==
  ASSUME NEW f \in Seq(Piece), Lines(f)
  PROVE  Parses(f)
<1>1. PICK k \in Nat : LinesOf(f, k)
  BY DEF Lines
<1>2. DOMAIN f = 1..(3 * k) /\ Len(f) = 3 * k
  BY <1>1, LenProperties DEF LinesOf
<1>3. ASSUME NEW i \in 1..(3 * k)
      PROVE  /\ f[i][2] = "start" =>
                  /\ i > 1 => f[i - 1][2] = "newline"
                  /\ i < 3 * k /\ f[i + 1] = <<f[i][1], "rest">>
             /\ f[i][2] = "rest" =>
                  /\ i > 1 /\ f[i - 1] = <<f[i][1], "start">>
                  /\ i < 3 * k => f[i + 1][2] = "newline"
  <2>1. PICK l \in 1..k : i = 3 * l - 2 \/ i = 3 * l - 1 \/ i = 3 * l
    BY LinePosition
  <2>2. PICK e \in Entry :
          f[3 * l - 2] = <<e, "start">> /\ f[3 * l - 1] = <<e, "rest">> /\ f[3 * l] = <<e, "newline">>
    BY <1>1 DEF LinesOf
  <2>3. CASE i = 3 * l - 2
    <3>1. f[i] = <<e, "start">> /\ i + 1 = 3 * l - 1 /\ i < 3 * k
      BY <2>2, <2>3
    <3>2. f[i + 1] = <<f[i][1], "rest">> /\ f[i][2] = "start"
      BY <2>2, <3>1
    <3>3. ASSUME i > 1 PROVE f[i - 1][2] = "newline"
      <4>1. l - 1 \in 1..k /\ i - 1 = 3 * (l - 1)
        BY <2>3, <3>3
      <4>2. PICK d \in Entry : f[3 * (l - 1)] = <<d, "newline">>
        BY <1>1, <4>1 DEF LinesOf
      <4>3. QED
        BY <4>1, <4>2
    <3>4. QED
      BY <3>1, <3>2, <3>3
  <2>4. CASE i = 3 * l - 1
    <3>1. f[i] = <<e, "rest">> /\ i + 1 = 3 * l /\ i - 1 = 3 * l - 2 /\ i > 1
      BY <2>2, <2>4
    <3>2. f[i + 1][2] = "newline" /\ f[i - 1] = <<f[i][1], "start">> /\ f[i][2] = "rest"
      BY <2>2, <3>1
    <3>3. QED
      BY <3>1, <3>2
  <2>5. CASE i = 3 * l
    <3>1. f[i][2] = "newline"
      BY <2>2, <2>5
    <3>2. QED
      BY <3>1
  <2>6. QED
    BY <2>1, <2>3, <2>4, <2>5
<1>4. QED
  BY <1>2, <1>3 DEF Parses

LEMMA LinesConcat ==
  ASSUME NEW f, NEW g, NEW h, Lines(f), Lines(g), Len(h) = Len(f) + Len(g),
         \A i \in 1..Len(f) : h[i] = f[i], \A i \in 1..Len(g) : h[Len(f) + i] = g[i]
  PROVE  Lines(h)
<1>1. PICK a \in Nat : LinesOf(f, a)
  BY DEF Lines
<1>2. PICK b \in Nat : LinesOf(g, b)
  BY DEF Lines
<1>3. /\ Len(f) = 3 * a /\ Len(g) = 3 * b /\ Len(h) = 3 * (a + b) /\ a + b \in Nat
      /\ \A i \in 1..(3 * a) : h[i] = f[i] /\ \A j \in 1..(3 * b) : h[3 * a + j] = g[j]
  BY <1>1, <1>2 DEF LinesOf
<1>4. ASSUME NEW l \in 1..(a + b)
      PROVE  \E e \in Entry :
                h[3 * l - 2] = <<e, "start">> /\ h[3 * l - 1] = <<e, "rest">> /\ h[3 * l] = <<e, "newline">>
  <2>1. CASE l <= a
    <3>1. l \in 1..a /\ 3 * l - 2 \in 1..(3 * a) /\ 3 * l - 1 \in 1..(3 * a) /\ 3 * l \in 1..(3 * a)
      BY <2>1
    <3>2. QED
      BY <1>1, <1>3, <3>1 DEF LinesOf
  <2>2. CASE l > a
    <3> DEFINE m == l - a
    <3>1. /\ m \in 1..b
          /\ 3 * m - 2 \in 1..(3 * b) /\ 3 * m - 1 \in 1..(3 * b) /\ 3 * m \in 1..(3 * b)
          /\ 3 * l - 2 = 3 * a + (3 * m - 2) /\ 3 * l - 1 = 3 * a + (3 * m - 1) /\ 3 * l = 3 * a + 3 * m
      BY <2>2
    <3> HIDE DEF m
    <3>2. PICK e \in Entry :
            g[3 * m - 2] = <<e, "start">> /\ g[3 * m - 1] = <<e, "rest">> /\ g[3 * m] = <<e, "newline">>
      BY <1>2, <3>1 DEF LinesOf
    <3>3. h[3 * l - 2] = g[3 * m - 2] /\ h[3 * l - 1] = g[3 * m - 1] /\ h[3 * l] = g[3 * m]
      BY <1>3, <3>1
    <3>4. QED
      BY <3>2, <3>3
  <2>3. QED
    BY <2>1, <2>2
<1>5. QED
  BY <1>3, <1>4 DEF Lines, LinesOf

\* A cut at the end of a line leaves lines.
LEMMA LinesPrefix ==
  ASSUME NEW f, NEW h, Lines(f), NEW n \in 0..Len(f), n = 0 \/ f[n][2] = "newline",
         Len(h) = n, \A i \in 1..n : h[i] = f[i]
  PROVE  Lines(h)
<1>1. PICK k \in Nat : LinesOf(f, k)
  BY DEF Lines
<1>2. CASE n = 0
  <2>1. LinesOf(h, 0)
    BY <1>2 DEF LinesOf
  <2>2. QED
    BY <2>1 DEF Lines
<1>3. CASE n # 0
  <2>1. n \in 1..(3 * k)
    BY <1>1, <1>3 DEF LinesOf
  <2>2. PICK l \in 1..k : n = 3 * l - 2 \/ n = 3 * l - 1 \/ n = 3 * l
    BY <2>1, LinePosition
  <2>3. PICK e \in Entry :
          f[3 * l - 2] = <<e, "start">> /\ f[3 * l - 1] = <<e, "rest">> /\ f[3 * l] = <<e, "newline">>
    BY <1>1 DEF LinesOf
  <2>4. n = 3 * l /\ l \in Nat
    BY <1>3, <2>2, <2>3
  <2>5. ASSUME NEW m \in 1..l
        PROVE  \E d \in Entry :
                  h[3 * m - 2] = <<d, "start">> /\ h[3 * m - 1] = <<d, "rest">> /\ h[3 * m] = <<d, "newline">>
    <3>1. m \in 1..k /\ 3 * m - 2 \in 1..n /\ 3 * m - 1 \in 1..n /\ 3 * m \in 1..n
      BY <2>4
    <3>2. QED
      BY <1>1, <3>1 DEF LinesOf
  <2>6. QED
    BY <2>4, <2>5 DEF Lines, LinesOf
<1>4. QED
  BY <1>2, <1>3

LEMMA BufferIsLines ==
  ASSUME NEW es \in Seq(Entry)
  PROVE  Lines(Buffer(es))
<1> DEFINE k == Len(es)
<1>1. k \in Nat /\ Len(Buffer(es)) = 3 * k
  BY LenProperties, BufferItems
<1>2. \A i \in 1..(3 * k) : Buffer(es)[i] = <<es[(i + 2) \div 3], Parts[((i - 1) % 3) + 1]>>
  BY DEF Buffer
<1>3. \A i \in 1..k : es[i] \in Entry
  BY ElementOfSeq
<1> HIDE DEF k
<1>4. ASSUME NEW l \in 1..k
      PROVE  /\ Buffer(es)[3 * l - 2] = <<es[l], "start">>
             /\ Buffer(es)[3 * l - 1] = <<es[l], "rest">>
             /\ Buffer(es)[3 * l] = <<es[l], "newline">>
  <2>1. /\ 3 * l - 2 \in 1..(3 * k) /\ 3 * l - 1 \in 1..(3 * k) /\ 3 * l \in 1..(3 * k)
        /\ ((3 * l - 2) + 2) \div 3 = l /\ (((3 * l - 2) - 1) % 3) + 1 = 1
        /\ ((3 * l - 1) + 2) \div 3 = l /\ (((3 * l - 1) - 1) % 3) + 1 = 2
        /\ ((3 * l) + 2) \div 3 = l /\ (((3 * l) - 1) % 3) + 1 = 3
    BY <1>1
  <2>2. Parts[1] = "start" /\ Parts[2] = "rest" /\ Parts[3] = "newline"
    BY DEF Parts
  <2>3. QED
    BY <1>2, <2>1, <2>2
<1>5. LinesOf(Buffer(es), k)
  BY <1>1, <1>3, <1>4 DEF LinesOf
<1>6. QED
  BY <1>1, <1>5 DEF Lines

\* The replay of any file has the entry of every start in it.
LEMMA ReplayHasStarts ==
  ASSUME NEW f \in Seq(Piece), NEW i \in 1..Len(f), f[i][2] = "start"
  PROVE  \E k \in DOMAIN EntriesOf(f) : EntriesOf(f)[k] = f[i][1]
<1> DEFINE n == Len(f)
           S == Starts(f, n)
           rank(j) == Cardinality(Starts(f, j))
<1>1. n \in Nat
  BY LenProperties
<1>2. IsFiniteSet(S) /\ i \in S /\ \A j \in S : j \in 1..n
  <2>1. IsFiniteSet(1..n)
    BY <1>1, FS_Interval
  <2>2. i \in S /\ \A j \in S : j \in 1..n
    BY DEF Starts
  <2>3. S \subseteq 1..n
    BY <2>2
  <2>4. QED
    BY <2>1, <2>2, <2>3, FS_Subset
<1>3. ASSUME NEW j \in S
      PROVE  Starts(f, j) \subseteq S /\ j \in Starts(f, j) /\ rank(j) \in 1..Cardinality(S)
  <2>1. Starts(f, j) \subseteq S /\ j \in Starts(f, j)
    BY <1>1, <1>2 DEF Starts
  <2>2. IsFiniteSet(Starts(f, j)) /\ rank(j) <= Cardinality(S)
    BY <1>2, <2>1, FS_Subset
  <2>3. rank(j) \in Nat /\ rank(j) # 0 /\ Cardinality(S) \in Nat
    BY <1>2, <2>1, <2>2, FS_CardinalityType, FS_EmptySet
  <2>4. QED
    BY <2>1, <2>2, <2>3
<1>4. ASSUME NEW a \in S, NEW b \in S, a < b PROVE rank(a) # rank(b)
  <2>1. Starts(f, a) \subseteq Starts(f, b) /\ b \notin Starts(f, a) /\ b \in Starts(f, b)
    BY <1>1, <1>2, <1>3, <1>4 DEF Starts
  <2>2. IsFiniteSet(Starts(f, b))
    BY <1>2, <1>3, FS_Subset
  <2>3. QED
    BY <2>1, <2>2, FS_Subset
<1>5. \A a, b \in S : rank(a) = rank(b) => a = b
  <2>1. \A a, b \in S : a < b \/ b < a \/ a = b
    BY <1>1, <1>2
  <2>2. QED
    BY <1>4, <2>1
<1> DEFINE k == rank(i)
           c == CHOOSE j \in S : rank(j) = k
<1>6. c = i
  BY <1>2, <1>5
<1>7. k \in DOMAIN EntriesOf(f) /\ EntriesOf(f)[k] = f[c][1]
  BY <1>2, <1>3 DEF EntriesOf
<1>8. QED
  BY <1>6, <1>7

LEMMA StepWhole == Inv /\ Whole /\ [Next]_vars => Whole'
<1> SUFFICES ASSUME Inv, Whole, [Next]_vars, whole'
             PROVE  Lines(file') /\ \A q \in Processes : pc'[q] = "writing" => Lines(buf'[q])
  BY DEF Whole, Lines, LinesOf
<1>1. /\ pc \in [Processes -> {"down", "idle", "writing", "syncing"}]
      /\ buf \in [Processes -> Seq(Piece)]
  BY DEF Inv, FlushOK
<1>2. CASE UNCHANGED vars
  BY <1>2 DEF vars, Whole
<1>3. CASE PowerLoss
  <2>1. PICK n \in 0..Len(file) :
          /\ Len(file') = n /\ \A i \in 1..n : file'[i] = file[i]
          /\ whole' = (whole /\ (n = 0 \/ file[n][2] = "newline"))
    BY <1>3, PowerLossKeeps
  <2>2. Lines(file) /\ (n = 0 \/ file[n][2] = "newline")
    BY <2>1 DEF Whole
  <2>3. Lines(file')
    BY <2>1, <2>2, LinesPrefix
  <2>4. \A q \in Processes : pc'[q] = "down"
    BY <1>3 DEF PowerLoss
  <2>5. QED
    BY <2>3, <2>4
<1>4. ASSUME NEW p \in Processes,
             Load(p) \/ Log(p) \/ Sync(p) \/ FlushFails(p) \/ Crash(p)
      PROVE  Lines(file') /\ \A q \in Processes : pc'[q] = "writing" => Lines(buf'[q])
  <2>1. UNCHANGED <<file, whole>> /\ \A q \in Processes :
            pc'[q] = "writing" => pc[q] = "writing" /\ buf'[q] = buf[q]
    BY <1>1, <1>4 DEF Load, Log, Sync, FlushFails, Crash, historyVars
  <2>2. QED
    BY <2>1 DEF Whole
<1>5. ASSUME NEW p \in Processes, FlushBegin(p)
      PROVE  Lines(file') /\ \A q \in Processes : pc'[q] = "writing" => Lines(buf'[q])
  <2> DEFINE b == Buffer(Pending(p))
  <2>1. UNCHANGED <<file, whole>> /\ buf' = [buf EXCEPT ![p] = b]
        /\ pc' = [pc EXCEPT ![p] = "writing"] /\ flushed[p] < Len(entries[p])
    BY <1>5 DEF FlushBegin
  <2>2. Lines(b)
    <3>1. Pending(p) \in Seq(Entry)
      <4>1. /\ flushed[p] \in Nat /\ Len(entries[p]) \in Nat /\ flushed[p] <= Len(entries[p])
            /\ \A i \in (flushed[p] + 1)..Len(entries[p]) : entries[p][i] \in Entry
        BY LenProperties DEF Inv, MemoryOK, PendingSet
      <4>2. QED
        BY <4>1, Slice DEF Pending
    <3>2. QED
      BY <3>1, BufferIsLines
  <2> HIDE DEF b
  <2>3. buf'[p] = b /\ \A q \in Processes : q # p => buf'[q] = buf[q] /\ pc'[q] = pc[q]
    BY <1>1, <2>1
  <2>4. QED
    BY <2>1, <2>2, <2>3 DEF Whole
<1>6. ASSUME NEW p \in Processes, Write(p)
      PROVE  Lines(file') /\ \A q \in Processes : pc'[q] = "writing" => Lines(buf'[q])
  <2>1. PICK n \in 1..Len(buf[p]) :
           /\ Len(file') = Len(file) + n
           /\ \A i \in 1..Len(file) : file'[i] = file[i]
           /\ \A i \in 1..n : file'[Len(file) + i] = buf[p][i]
           /\ pc'[p] = IF n = Len(buf[p]) THEN "syncing" ELSE "writing"
           /\ whole' = (whole /\ n = Len(buf[p]))
           /\ \A q \in Processes : q # p => buf'[q] = buf[q] /\ pc'[q] = pc[q]
    BY <1>6, WriteMoves
  <2>2. whole /\ n = Len(buf[p]) /\ pc[p] = "writing" /\ pc'[p] = "syncing"
    BY <1>6, <2>1 DEF Write
  <2>3. Lines(file) /\ Lines(buf[p]) /\ \A q \in Processes : pc[q] = "writing" => Lines(buf[q])
    BY <2>2 DEF Whole
  <2>4. Lines(file')
    BY <2>1, <2>2, <2>3, LinesConcat
  <2>5. QED
    BY <2>1, <2>2, <2>3, <2>4
<1>7. QED
  BY <1>2, <1>3, <1>4, <1>5, <1>6 DEF Next

LEMMA InitWhole == Init => Whole
<1> SUFFICES ASSUME Init PROVE Whole
  OBVIOUS
<1>1. LinesOf(<<>>, 0)
  BY EmptySeq DEF LinesOf
<1>2. file = <<>> /\ \A p \in Processes : pc[p] = "down"
  BY DEF Init
<1>3. QED
  BY <1>1, <1>2 DEF Whole, Lines

\* As long as every write takes its whole buffer, the file can be replayed at any
\* time and the replay has every entry whose flush returned Ok, however the
\* processes interleave, fail, crash and lose power between two lines.
\* (flush_to_disk, load_from_disk)
THEOREM WholeWritesAreReplayed == Spec => []WholeWritesReplay
<1>1. Inv /\ Whole => WholeWritesReplay
  <2> SUFFICES ASSUME Inv, Whole, whole
               PROVE  /\ Parses(file)
                      /\ \A e \in acked : \E i \in DOMAIN EntriesOf(file) : EntriesOf(file)[i] = e
    BY DEF WholeWritesReplay
  <2>1. file \in Seq(Piece) /\ durable \in 0..Len(file) /\ Len(file) \in Nat
    BY LenProperties DEF Inv, FileOK
  <2>2. Parses(file)
    BY <2>1, LinesParse DEF Whole
  <2>3. ASSUME NEW e \in acked
        PROVE  \E i \in DOMAIN EntriesOf(file) : EntriesOf(file)[i] = e
    <3>1. PICK i \in 1..durable : file[i] = <<e, Parts[1]>>
      <4>1. 1 \in 1..3
        OBVIOUS
      <4>2. QED
        BY <4>1 DEF Inv, AckedDurable
    <3>2. i \in 1..Len(file) /\ file[i][2] = "start" /\ file[i][1] = e
      BY <2>1, <3>1 DEF Parts
    <3>3. QED
      BY <2>1, <3>2, ReplayHasStarts
  <2>4. QED
    BY <2>2, <2>3
<1>2. QED
  BY <1>1, InitWhole, StepWhole, Invariant, PTL DEF Spec
=============================================================================
