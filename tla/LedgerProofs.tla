---------------------------- MODULE LedgerProofs ----------------------------
(***************************************************************************)
(* The append-only ledger (Ledger) and the action gate that writes its     *)
(* mode changes there and is restored from it (AutonomyGate); for any      *)
(* keys, file cap, retention, cache, ring and clock, with writes that may  *)
(* fail, sweeps and compactions that interleave and processes that end.    *)
(***************************************************************************)
EXTENDS AutonomyGate, SequenceLemmas

-----------------------------------------------------------------------------
(* What a ledger reads.                                                      *)

\* A list of distinct values has as many values as positions.
LEMMA DistinctValues ==
  ASSUME NEW n \in Nat, NEW f, NEW S, \A x : x \in S <=> \E i \in 1 .. n : x = f[i],
         \A i, j \in 1 .. n : f[i] = f[j] => i = j
  PROVE  Cardinality(S) = n
<1> DEFINE g == [i \in 1 .. n |-> f[i]]
<1>1. g \in Surjection(1 .. n, S) /\ g \in Injection(1 .. n, S)
  BY DEF Surjection, Injection, IsInjective
<1>2. IsFiniteSet(1 .. n) /\ Cardinality(1 .. n) = n
  BY FS_Interval
<1> HIDE DEF g
<1> QED
  BY <1>1, <1>2, FS_Surjection

\* The newest n of a list: its end, in order.
LEMMA NewestIsTheEnd ==
  ASSUME NEW S, NEW s \in Seq(S), NEW n \in Nat
  PROVE  /\ Newest(s, n) \in Seq(S) /\ Len(Newest(s, n)) <= n /\ Len(Newest(s, n)) <= Len(s)
         /\ \A i \in 1 .. Len(Newest(s, n)) :
              /\ Len(s) - Len(Newest(s, n)) + i \in 1 .. Len(s)
              /\ Newest(s, n)[i] = s[Len(s) - Len(Newest(s, n)) + i]
<1> DEFINE m == IF Len(s) < n THEN Len(s) ELSE n
           back == [i \in 1 .. Len(s) |-> s[(Len(s) - i) + 1]]
           short == [i \in 1 .. m |-> back[i]]
<1>1. Len(s) \in Nat /\ m \in Nat /\ m <= n /\ m <= Len(s) /\ \A i \in 1 .. Len(s) : s[i] \in S
  OBVIOUS
<1>2. back \in Seq(S) /\ Len(back) = Len(s) /\ Reverse(s) = back
  <2>1. \A i \in 1 .. Len(s) : (Len(s) - i) + 1 \in 1 .. Len(s)
    BY <1>1
  <2> QED
    BY <1>1, <2>1 DEF Reverse
<1> HIDE DEF m, back
<1>3. First(back, n) = SubSeq(back, 1, m)
  BY <1>2 DEF First, m
<1>4. SubSeq(back, 1, m) = short /\ short \in Seq(S) /\ Len(short) = m
  <2>1. \A i \in 1 .. m : i \in 1 .. Len(back) /\ back[i] \in S
    BY <1>1, <1>2
  <2> QED
    BY <1>1, <1>2, <2>1
<1> HIDE DEF short
<1>5. Newest(s, n) = [i \in 1 .. m |-> short[(m - i) + 1]]
  BY <1>2, <1>3, <1>4 DEF Newest, Reverse
<1>6. \A i \in 1 .. m : /\ (m - i) + 1 \in 1 .. m /\ (m - i) + 1 \in 1 .. Len(s)
                        /\ (Len(s) - m) + i \in 1 .. Len(s)
                        /\ (Len(s) - ((m - i) + 1)) + 1 = (Len(s) - m) + i
  BY <1>1
<1>7. \A i \in 1 .. m : short[(m - i) + 1] = s[(Len(s) - m) + i]
  BY <1>6 DEF short, back
<1>8. Newest(s, n) \in Seq(S) /\ Len(Newest(s, n)) = m
  BY <1>1, <1>5, <1>6, <1>7
<1> QED
  BY <1>1, <1>5, <1>6, <1>7, <1>8

Place(f) == 1 .. Len(disk[f])

\* at says where each row of a day is: index of its file, and place in it.
ReadsDay(at, d) ==
  /\ at \in [1 .. Len(DayRows(d)) -> (0 .. MaxIndex) \X Nat]
  /\ \A p \in 1 .. Len(DayRows(d)) :
       at[p][2] \in Place(<<d, at[p][1]>>) /\ DayRows(d)[p] = disk[<<d, at[p][1]>>][at[p][2]]
  /\ \A p, q \in 1 .. Len(DayRows(d)) : p < q => (at[p][1] = at[q][1] => at[p][2] < at[q][2])
  /\ \A n \in 0 .. MaxIndex : \A i \in Place(<<d, n>>) :
       \E p \in 1 .. Len(DayRows(d)) : at[p] = <<n, i>>

\* The rows of a day come file by file, each file's in order.
LEMMA DayIsRead ==
  ASSUME disk \in [Files -> Seq(Row)], NEW d \in Days
  PROVE  DayRows(d) \in Seq(Row) /\ \E at : ReadsDay(at, d)
<1> DEFINE M == MaxIndex
           N(k) == k % (M + 1)
           files == [k \in 1 .. M + 1 |-> disk[<<d, N(k)>>]]
<1>1. M \in Nat /\ M \in 1 .. 9
  BY LedgerConstants DEF LedgerConstants
<1>2. \A k \in 1 .. M + 1 : N(k) = IF k = M + 1 THEN 0 ELSE k
  BY <1>1
<1> HIDE DEF M, N
<1>3. \A k \in 1 .. M + 1 : N(k) \in 0 .. M /\ <<d, N(k)>> \in Files
  BY <1>1, <1>2 DEF Files, M
<1>4. files \in Seq(Seq(Row)) /\ Len(files) = M + 1 /\ \A k \in 1 .. M + 1 : files[k] = disk[<<d, N(k)>>]
  BY <1>1, <1>3
<1>5. DayRows(d) = FlattenSeq(files)
  BY DEF DayRows, N, M
<1> HIDE DEF files
<1>6. DayRows(d) \in Seq(Row)
  BY <1>4, <1>5, FlattenEnumerates
<1> DEFINE r == DayRows(d)
<1>7. PICK e : Enumerates(e, r, files, M + 1)
  BY <1>4, <1>5, FlattenEnumerates
<1> HIDE DEF r
<1>8. /\ e \in [1 .. Len(r) -> (1 .. M + 1) \X Nat]
      /\ \A p \in 1 .. Len(r) : e[p][2] \in 1 .. Len(files[e[p][1]]) /\ r[p] = files[e[p][1]][e[p][2]]
      /\ \A p, q \in 1 .. Len(r) :
           p < q => e[p][1] < e[q][1] \/ (e[p][1] = e[q][1] /\ e[p][2] < e[q][2])
      /\ \A k \in 1 .. M + 1 : \A i \in 1 .. Len(files[k]) : \E p \in 1 .. Len(r) : e[p] = <<k, i>>
  BY <1>7 DEF Enumerates
<1> DEFINE at == [p \in 1 .. Len(r) |-> <<N(e[p][1]), e[p][2]>>]
<1>9. \A p \in 1 .. Len(r) : /\ e[p][1] \in 1 .. M + 1 /\ e[p][2] \in Nat
                             /\ at[p] = <<N(e[p][1]), e[p][2]>>
                             /\ at[p][1] = N(e[p][1]) /\ at[p][2] = e[p][2]
  BY <1>8
<1>10. at \in [1 .. Len(r) -> (0 .. M) \X Nat]
  BY <1>3, <1>9
<1> HIDE DEF at
<1>11. ASSUME NEW p \in 1 .. Len(r)
       PROVE  at[p][2] \in Place(<<d, at[p][1]>>) /\ r[p] = disk[<<d, at[p][1]>>][at[p][2]]
  <2> DEFINE k == e[p][1]
  <2>1. k \in 1 .. M + 1 /\ at[p][1] = N(k) /\ at[p][2] = e[p][2]
    BY <1>9
  <2>2. e[p][2] \in 1 .. Len(files[k]) /\ r[p] = files[k][e[p][2]]
    BY <1>8
  <2> HIDE DEF k
  <2>3. files[k] = disk[<<d, N(k)>>]
    BY <1>4, <2>1
  <2> QED
    BY <2>1, <2>2, <2>3 DEF Place
<1>12. ASSUME NEW p \in 1 .. Len(r), NEW q \in 1 .. Len(r), p < q, at[p][1] = at[q][1]
       PROVE  at[p][2] < at[q][2]
  <2>1. e[p][1] = e[q][1]
    BY <1>1, <1>2, <1>9, <1>12
  <2> QED
    BY <1>8, <1>9, <1>12, <2>1
<1>13. ASSUME NEW n \in 0 .. M, NEW i \in Place(<<d, n>>)
       PROVE  \E p \in 1 .. Len(r) : at[p] = <<n, i>>
  <2> DEFINE k == IF n = 0 THEN M + 1 ELSE n
  <2>1. k \in 1 .. M + 1 /\ N(k) = n
    BY <1>1, <1>2
  <2> HIDE DEF k
  <2>2. i \in 1 .. Len(files[k])
    BY <1>4, <2>1 DEF Place
  <2>3. PICK p \in 1 .. Len(r) : e[p] = <<k, i>>
    BY <1>8, <2>1, <2>2
  <2>4. e[p][1] = k /\ e[p][2] = i
    BY <2>3
  <2>5. at[p] = <<N(k), i>>
    BY <1>9, <2>4
  <2> QED
    BY <2>1, <2>5
<1>14. \A n \in 0 .. MaxIndex : \A i \in Place(<<d, n>>) : \E p \in 1 .. Len(r) : at[p] = <<n, i>>
  BY <1>13 DEF M
<1>15. at \in [1 .. Len(r) -> (0 .. MaxIndex) \X Nat]
  BY <1>10 DEF M
<1>16. r = DayRows(d)
  BY DEF r
<1> HIDE DEF r
<1>17. ReadsDay(at, d)
  BY <1>11, <1>12, <1>14, <1>15, <1>16 DEF ReadsDay
<1> QED
  BY <1>6, <1>16, <1>17

\* at says where each row is: its file, and its place in it.
Reads(at) ==
  /\ at \in [1 .. Len(Scan) -> Files \X Nat]
  /\ \A p \in 1 .. Len(Scan) :
       at[p][2] \in Place(at[p][1]) /\ Scan[p] = disk[at[p][1]][at[p][2]]
  /\ \A p, q \in 1 .. Len(Scan) :
       p < q => /\ at[p][1][1] <= at[q][1][1]
                /\ at[p][1] = at[q][1] => at[p][2] < at[q][2]
  /\ \A f \in Files : \A i \in Place(f) : \E p \in 1 .. Len(Scan) : at[p] = <<f, i>>

\* Every row is read, once, day after day and in the order of its file.
LEMMA ScanReads ==
  ASSUME disk \in [Files -> Seq(Row)]
  PROVE  Scan \in Seq(Row) /\ \E at : Reads(at)
<1> DEFINE days == [d \in Days |-> DayRows(d)]
           In(d) == CHOOSE at : ReadsDay(at, d)
<1>1. MaxDay \in Nat /\ Days = 1 .. MaxDay
  BY LedgerConstants DEF LedgerConstants, Days
<1>2. \A d \in Days : DayRows(d) \in Seq(Row) /\ ReadsDay(In(d), d)
  <2> TAKE d \in Days
  <2>1. \E at : ReadsDay(at, d)
    BY DayIsRead
  <2> QED
    BY <2>1, DayIsRead
<1> HIDE DEF In
<1>3. days \in Seq(Seq(Row)) /\ Len(days) = MaxDay /\ \A d \in Days : days[d] = DayRows(d)
  BY <1>1, <1>2
<1>4. Scan = FlattenSeq(days)
  BY DEF Scan
<1> HIDE DEF days
<1>5. Scan \in Seq(Row)
  BY <1>3, <1>4, FlattenEnumerates
<1> DEFINE r == Scan
<1>6. PICK e : Enumerates(e, r, days, MaxDay)
  BY <1>3, <1>4, FlattenEnumerates
<1> HIDE DEF r
<1>7. /\ e \in [1 .. Len(r) -> (1 .. MaxDay) \X Nat]
      /\ \A p \in 1 .. Len(r) : e[p][2] \in 1 .. Len(days[e[p][1]]) /\ r[p] = days[e[p][1]][e[p][2]]
      /\ \A p, q \in 1 .. Len(r) :
           p < q => e[p][1] < e[q][1] \/ (e[p][1] = e[q][1] /\ e[p][2] < e[q][2])
      /\ \A k \in 1 .. MaxDay : \A i \in 1 .. Len(days[k]) : \E p \in 1 .. Len(r) : e[p] = <<k, i>>
  BY <1>6 DEF Enumerates
<1> DEFINE D(p) == e[p][1]
           B(p) == In(D(p))[e[p][2]]
           at == [p \in 1 .. Len(r) |-> <<<<D(p), B(p)[1]>>, B(p)[2]>>]
<1>8. ASSUME NEW p \in 1 .. Len(r)
      PROVE  /\ D(p) \in Days /\ e[p][2] \in 1 .. Len(DayRows(D(p)))
             /\ r[p] = DayRows(D(p))[e[p][2]]
  BY <1>1, <1>3, <1>7
<1>9. ASSUME NEW p \in 1 .. Len(r)
      PROVE  /\ B(p) \in (0 .. MaxIndex) \X Nat
             /\ B(p)[2] \in Place(<<D(p), B(p)[1]>>)
             /\ r[p] = disk[<<D(p), B(p)[1]>>][B(p)[2]]
  <2>1. D(p) \in Days /\ e[p][2] \in 1 .. Len(DayRows(D(p))) /\ r[p] = DayRows(D(p))[e[p][2]]
    BY <1>8
  <2> DEFINE d == D(p)  b == e[p][2]
  <2>2. ReadsDay(In(d), d)
    BY <1>2, <2>1
  <2> HIDE DEF d, b
  <2>3. \A c \in 1 .. Len(DayRows(d)) : /\ In(d)[c] \in (0 .. MaxIndex) \X Nat
                                        /\ In(d)[c][2] \in Place(<<d, In(d)[c][1]>>)
                                        /\ DayRows(d)[c] = disk[<<d, In(d)[c][1]>>][In(d)[c][2]]
    BY <2>2 DEF ReadsDay
  <2> QED
    BY <2>1, <2>3 DEF d, b
<1>10. ASSUME NEW p \in 1 .. Len(r), NEW q \in 1 .. Len(r), p < q
       PROVE  /\ D(p) <= D(q)
              /\ D(p) = D(q) /\ B(p)[1] = B(q)[1] => B(p)[2] < B(q)[2]
  <2>1. D(p) \in Days /\ D(q) \in Days /\ (D(p) < D(q) \/ (D(p) = D(q) /\ e[p][2] < e[q][2]))
    BY <1>7, <1>8, <1>10
  <2>2. ASSUME D(p) = D(q), B(p)[1] = B(q)[1] PROVE B(p)[2] < B(q)[2]
    <3> DEFINE d == D(p)
    <3>1. e[p][2] < e[q][2] /\ e[p][2] \in 1 .. Len(DayRows(d)) /\ e[q][2] \in 1 .. Len(DayRows(d))
      BY <1>1, <1>8, <2>1, <2>2
    <3>2. \A b, c \in 1 .. Len(DayRows(d)) :
            b < c => (In(d)[b][1] = In(d)[c][1] => In(d)[b][2] < In(d)[c][2])
      BY <1>2, <2>1 DEF ReadsDay
    <3>3. In(d)[e[p][2]][1] = In(d)[e[q][2]][1]
      BY <2>2
    <3>4. In(d)[e[p][2]][2] < In(d)[e[q][2]][2]
      BY <3>1, <3>2, <3>3
    <3> QED
      BY <2>2, <3>4
  <2>3. D(p) <= D(q)
    BY <1>1, <2>1
  <2> QED
    BY <2>2, <2>3
<1>11. ASSUME NEW d \in Days, NEW n \in 0 .. MaxIndex, NEW i \in Place(<<d, n>>)
       PROVE  \E p \in 1 .. Len(r) : D(p) = d /\ B(p) = <<n, i>>
  <2>1. PICK b \in 1 .. Len(DayRows(d)) : In(d)[b] = <<n, i>>
    BY <1>2 DEF ReadsDay
  <2>2. PICK p \in 1 .. Len(r) : e[p] = <<d, b>>
    BY <1>1, <1>3, <1>7
  <2>3. e[p][1] = d /\ e[p][2] = b
    BY <2>2
  <2> QED
    BY <2>1, <2>3
<1> HIDE DEF D, B
<1>12. \A p \in 1 .. Len(r) : /\ at[p] = <<<<D(p), B(p)[1]>>, B(p)[2]>>
                              /\ at[p][1] = <<D(p), B(p)[1]>> /\ at[p][2] = B(p)[2]
                              /\ at[p][1][1] = D(p) /\ at[p][1] \in Files /\ at[p][2] \in Nat
  BY <1>8, <1>9 DEF Files
<1>13. at \in [1 .. Len(r) -> Files \X Nat]
  BY <1>12
<1> HIDE DEF at
<1>14. ASSUME NEW p \in 1 .. Len(r)
       PROVE  at[p][2] \in Place(at[p][1]) /\ r[p] = disk[at[p][1]][at[p][2]]
  BY <1>9, <1>12
<1>15. ASSUME NEW p \in 1 .. Len(r), NEW q \in 1 .. Len(r), p < q
       PROVE  /\ at[p][1][1] <= at[q][1][1]
              /\ at[p][1] = at[q][1] => at[p][2] < at[q][2]
  <2>1. at[p][1][1] <= at[q][1][1]
    BY <1>10, <1>12, <1>15
  <2>2. ASSUME at[p][1] = at[q][1] PROVE at[p][2] < at[q][2]
    <3>1. D(p) = D(q) /\ B(p)[1] = B(q)[1]
      BY <1>12, <2>2
    <3> QED
      BY <1>10, <1>12, <1>15, <3>1
  <2> QED
    BY <2>1, <2>2
<1>16. ASSUME NEW f \in Files, NEW i \in Place(f) PROVE \E p \in 1 .. Len(r) : at[p] = <<f, i>>
  <2>1. PICK d \in Days, n \in 0 .. MaxIndex : f = <<d, n>>
    BY DEF Files
  <2>2. PICK p \in 1 .. Len(r) : D(p) = d /\ B(p) = <<n, i>>
    BY <1>11, <2>1
  <2>3. at[p] = <<<<d, n>>, i>>
    BY <1>12, <2>2
  <2> QED
    BY <2>1, <2>3
<1>17. r = Scan
  BY DEF r
<1> HIDE DEF r
<1>18. Reads(at)
  BY <1>13, <1>14, <1>15, <1>16, <1>17 DEF Reads
<1> QED
  BY <1>5, <1>17, <1>18

-----------------------------------------------------------------------------
(* Ledger.                                                                   *)

WriterRecord == [day : 0 .. MaxDay, index : 0 .. MaxIndex, file : Files \cup {NoFile}, entries : Nat]

\* What is on disk was acknowledged, and is in one place.
DiskIsAcked == \A f \in Files : \A i \in Place(f) : disk[f][i] \in acked
OncePlaced ==
  \A f, g \in Files : \A i \in Place(f), j \in Place(g) : disk[f][i].id = disk[g][j].id => f = g /\ i = j

\* Unless somebody compacts, a file holds the rows of its day, and rows of later
\* days and later rows of a file were appended later.
DayByDay ==
  ~compacts => \A f, g \in Files : \A i \in Place(f), j \in Place(g) :
                 /\ disk[f][i].at = f[1]
                 /\ f[1] < g[1] \/ (f = g /\ i < j) => disk[f][i].id < disk[g][j].id

\* A compaction keeps each row once, and what it removed is nowhere else.
KeptOnce ==
  /\ compaction \in [pc : {"idle", "read", "removed"}, kept : Seq(Row)]
  /\ ~compacts => compaction.pc = "idle"
  /\ \A i, j \in 1 .. Len(compaction.kept) :
       compaction.kept[i] \in acked /\ (compaction.kept[i].id = compaction.kept[j].id => i = j)
  /\ compaction.pc = "removed" =>
       \A f \in Files : \A i \in Place(f) : \A j \in 1 .. Len(compaction.kept) :
         disk[f][i].id # compaction.kept[j].id

SweepsAreDue == \A c \in sweeps : c <= today - Retention
ClearedStaysGone == ~compacts => \A f \in Files : \A i \in Place(f) : disk[f][i].id \notin cleared

\* The inductive invariant.
LedgerInv ==
  /\ LedgerTypeOK /\ appended \in Nat /\ writer \in WriterRecord
  /\ DiskIsAcked /\ OncePlaced /\ DayByDay /\ KeptOnce /\ SweepsAreDue /\ ClearedStaysGone

\* The inductive invariant of the ledger: at the start, in every step, always.
LEMMA LedgerInvInit == LedgerInit => LedgerInv
<1> SUFFICES ASSUME LedgerInit PROVE LedgerInv
  OBVIOUS
<1>1. /\ compacts \in BOOLEAN /\ today = 1 /\ disk = [f \in Files |-> <<>>]
      /\ writer = NewWriter /\ hot = <<>> /\ sweeps = {} /\ compaction = NoCompaction
      /\ appended = 0 /\ acked = {} /\ cleared = {}
  BY DEF LedgerInit
<1>2. \A f \in Files : disk[f] = <<>> /\ Place(f) = {}
  BY <1>1 DEF Place
<1>3. DiskIsAcked /\ OncePlaced /\ DayByDay /\ ClearedStaysGone
  BY <1>2 DEF DiskIsAcked, OncePlaced, DayByDay, ClearedStaysGone
<1>4. KeptOnce /\ SweepsAreDue
  BY <1>1, <1>2 DEF KeptOnce, NoCompaction, SweepsAreDue
<1>5. writer \in WriterRecord
  BY <1>1, LedgerConstants DEF LedgerConstants, WriterRecord, NewWriter
<1>6. LedgerTypeOK
  <2>1. disk \in [Files -> Seq(Row)]
    BY <1>1
  <2>2. writer.day = 0 /\ writer.index = 0 /\ writer.file = NoFile /\ writer.entries = 0
    BY <1>1 DEF NewWriter
  <2>3. compaction.pc = "idle"
    BY <1>1 DEF NoCompaction
  <2>4. today \in Days
    BY <1>1, LedgerConstants DEF LedgerConstants, Days
  <2>5. hot \in Seq(Row) /\ Len(hot) = 0 /\ HotSize \in Nat /\ MaxAppends \in Nat /\ Cap \in Nat /\ MaxDay \in Nat
        /\ MaxIndex \in Nat
    BY <1>1, LedgerConstants DEF LedgerConstants
  <2> QED
    BY <1>1, <2>1, <2>2, <2>3, <2>4, <2>5 DEF LedgerTypeOK
<1> QED
  BY <1>1, <1>3, <1>4, <1>5, <1>6 DEF LedgerInv

\* Where the next row goes: to a file of today that is not full.
LEMMA PositionedIsOpen ==
  ASSUME writer \in WriterRecord, today \in Days, Positioned.index <= MaxIndex
  PROVE  /\ Positioned \in WriterRecord /\ Positioned.file \in Files
         /\ Positioned.file[1] = today /\ Positioned.entries < Cap
<1>1. /\ MaxDay \in Nat /\ MaxIndex \in Nat /\ Cap \in Nat /\ Cap > 0 /\ today \in 1 .. MaxDay
  BY LedgerConstants DEF LedgerConstants, Days
<1> DEFINE D == [day : 0 .. MaxDay, index : Nat, file : (Days \X Nat) \cup {NoFile}, entries : Nat]
<1>2. Dated \in D /\ Dated.day = today
  <2>1. writer \in D
    BY <1>1 DEF WriterRecord, Files
  <2>2. CASE writer.day = today
    BY <2>1, <2>2 DEF Dated
  <2>3. CASE writer.day # today
    <3>1. Dated = [writer EXCEPT !.day = today, !.index = 0]
      BY <2>3 DEF Dated
    <3>2. today \in 0 .. MaxDay
      BY <1>1
    <3> QED
      BY <2>1, <3>1, <3>2
  <2> QED
    BY <2>2, <2>3
<1>3. OpenedFile \in D /\ OpenedFile.day = today /\ OpenedFile.file = <<today, OpenedFile.index>>
  <2> DEFINE w == Dated  f == <<w.day, w.index>>
  <2>1. OpenedFile = IF w.file = f THEN w ELSE [w EXCEPT !.file = f, !.entries = 0]
    BY DEF OpenedFile
  <2>2. w \in D /\ w.day = today /\ f \in Days \X Nat /\ f = <<today, w.index>>
    BY <1>2
  <2> HIDE DEF w
  <2>3. CASE w.file = f
    BY <2>1, <2>2, <2>3
  <2>4. CASE w.file # f
    <3>1. OpenedFile = [w EXCEPT !.file = f, !.entries = 0]
      BY <2>1, <2>4
    <3> HIDE DEF f
    <3>2. OpenedFile \in D /\ OpenedFile.day = w.day /\ OpenedFile.file = f /\ OpenedFile.index = w.index
      BY <2>2, <3>1
    <3> QED
      BY <2>2, <3>2
  <2> QED
    BY <2>3, <2>4
<1> DEFINE w == OpenedFile
<1>4. Positioned = IF w.entries >= Cap
                   THEN [w EXCEPT !.index = @ + 1, !.file = <<w.day, w.index + 1>>, !.entries = 0] ELSE w
  BY DEF Positioned
<1>5. w \in D /\ w.day = today /\ w.file = <<today, w.index>> /\ w.index \in Nat /\ w.entries \in Nat
  BY <1>3
<1> HIDE DEF w
<1>6. Positioned \in D /\ Positioned.file = <<today, Positioned.index>> /\ Positioned.entries < Cap
  <2>1. CASE w.entries >= Cap
    <3> DEFINE g == <<w.day, w.index + 1>>
    <3>1. Positioned = [w EXCEPT !.index = @ + 1, !.file = g, !.entries = 0]
      BY <1>4, <2>1
    <3>2. g = <<today, w.index + 1>> /\ g \in Days \X Nat
      BY <1>5
    <3> HIDE DEF g
    <3>3. /\ Positioned \in D /\ Positioned.file = g /\ Positioned.index = w.index + 1
          /\ Positioned.entries = 0
      BY <1>5, <3>1, <3>2
    <3> QED
      BY <1>1, <3>2, <3>3
  <2>2. CASE ~(w.entries >= Cap)
    BY <1>1, <1>4, <1>5, <2>2
  <2> QED
    BY <2>1, <2>2
<1>7. Positioned.index \in 0 .. MaxIndex
  BY <1>1, <1>6
<1>8. <<today, Positioned.index>> \in Files
  BY <1>7 DEF Files
<1> QED
  BY <1>6, <1>7, <1>8 DEF WriterRecord

\* What stays on disk stays well ordered.
LEMMA DiskLosesRows ==
  ASSUME LedgerInv, acked \subseteq acked', compacts' = compacts,
         \A f \in Files : \A i \in Place(f)' : i \in Place(f) /\ disk'[f][i] = disk[f][i]
  PROVE  DiskIsAcked' /\ OncePlaced' /\ DayByDay'
<1>1. DiskIsAcked /\ OncePlaced /\ DayByDay
  BY DEF LedgerInv
<1>2. DiskIsAcked'
  BY <1>1 DEF DiskIsAcked
<1>3. OncePlaced'
  BY <1>1 DEF OncePlaced
<1>4. DayByDay'
  BY <1>1 DEF DayByDay
<1> QED
  BY <1>2, <1>3, <1>4

\* A row that is written is the newest, and nowhere else.
LEMMA AppendRowKeeps ==
  ASSUME LedgerInv, NEW k \in Keys, AppendRow(k)
  PROVE  /\ LedgerInv'
         /\ \A f \in Files : \A i \in Place(f)' :
              (i \in Place(f) /\ disk'[f][i] = disk[f][i]) \/ disk'[f][i] = NextRow(k)
<1> DEFINE row == NextRow(k)  at == Positioned.file
<1>1. /\ LedgerTypeOK /\ appended \in Nat /\ writer \in WriterRecord
      /\ DiskIsAcked /\ OncePlaced /\ DayByDay /\ KeptOnce /\ SweepsAreDue /\ ClearedStaysGone
      /\ MaxAppends \in Nat /\ MaxDay \in Nat /\ MaxIndex \in Nat /\ HotSize \in Nat /\ Retention \in Nat
      /\ Cap \in Nat
  BY LedgerConstants DEF LedgerInv, LedgerConstants
<1>2. /\ compacts \in BOOLEAN /\ today \in Days /\ disk \in [Files -> Seq(Row)]
      /\ hot \in Seq(Row) /\ Len(hot) <= HotSize
      /\ sweeps \subseteq Int /\ compaction.pc \in {"idle", "read", "removed"}
      /\ acked \subseteq [id : 1 .. appended, key : Keys, at : 1 .. today]
      /\ cleared \subseteq 1 .. appended /\ appended <= MaxAppends
  BY <1>1 DEF LedgerTypeOK
<1>3. /\ appended < MaxAppends /\ Positioned.index <= MaxIndex
      /\ appended' = appended + 1 /\ acked' = acked \cup {row}
      /\ hot' = Newest(Append(hot, row), HotSize)
      /\ disk' = [disk EXCEPT ![at] = Append(@, row)]
      /\ writer' = [Positioned EXCEPT !.entries = @ + 1]
      /\ sweeps' = SweepsStarted
      /\ compacts' = compacts /\ today' = today /\ compaction' = compaction /\ cleared' = cleared
  BY DEF AppendRow, Written
<1>4. /\ row \in Row /\ row.id = appended + 1 /\ row.at = today
      /\ row \in [id : 1 .. appended + 1, key : Keys, at : 1 .. today]
  BY <1>1, <1>2, <1>3 DEF NextRow, Row, Days
<1>5. /\ Positioned \in WriterRecord /\ at \in Files /\ at[1] = today /\ Positioned.entries < Cap
  BY <1>1, <1>2, <1>3, PositionedIsOpen
<1>6. \A r \in acked : r.id \in 1 .. appended /\ r.at \in 1 .. today
  BY <1>2
<1> HIDE DEF row, at
<1>7. /\ disk' \in [Files -> Seq(Row)]
      /\ \A f \in Files : f # at => disk'[f] = disk[f]
      /\ disk'[at] = Append(disk[at], row)
  BY <1>2, <1>3, <1>4, <1>5
<1> DEFINE n == Len(disk[at])
<1>8. /\ n \in Nat /\ Len(disk'[at]) = n + 1 /\ disk'[at][n + 1] = row
      /\ \A i \in 1 .. n : disk'[at][i] = disk[at][i]
  BY <1>2, <1>4, <1>5, <1>7
<1> HIDE DEF n
<1>9. \A f \in Files : \A i \in Place(f)' :
        \/ i \in Place(f) /\ disk'[f][i] = disk[f][i]
        \/ f = at /\ i = n + 1 /\ disk'[f][i] = row /\ \A j \in Place(f)' : j <= i
  <2> TAKE f \in Files
  <2>1. CASE f = at
    BY <1>8, <2>1 DEF Place, n
  <2>2. CASE f # at
    BY <1>7, <2>2 DEF Place
  <2> QED
    BY <2>1, <2>2
<1>10. \A f \in Files : \A i \in Place(f) :
         /\ i \in Nat /\ disk[f][i] \in acked /\ disk[f][i].id \in 1 .. appended /\ disk[f][i].at \in 1 .. today
  BY <1>1, <1>6 DEF DiskIsAcked, Place
<1>11. DiskIsAcked'
  <2> SUFFICES ASSUME NEW f \in Files, NEW i \in Place(f)' PROVE disk'[f][i] \in acked'
    BY DEF DiskIsAcked
  <2>1. acked' = acked \cup {row}
    BY <1>3
  <2>2. CASE i \in Place(f) /\ disk'[f][i] = disk[f][i]
    BY <1>10, <2>1, <2>2
  <2>3. CASE disk'[f][i] = row
    BY <2>1, <2>3
  <2> QED
    BY <1>9, <2>2, <2>3
<1>12. OncePlaced'
  <2> SUFFICES ASSUME NEW f \in Files, NEW g \in Files, NEW i \in Place(f)', NEW j \in Place(g)',
                      disk'[f][i].id = disk'[g][j].id
               PROVE  f = g /\ i = j
    BY DEF OncePlaced
  <2> QED
    BY <1>1, <1>4, <1>9, <1>10 DEF OncePlaced
<1>13. DayByDay'
  <2> SUFFICES ASSUME ~compacts', NEW f \in Files, NEW g \in Files, NEW i \in Place(f)', NEW j \in Place(g)'
               PROVE  /\ disk'[f][i].at = f[1]
                      /\ f[1] < g[1] \/ (f = g /\ i < j) => disk'[f][i].id < disk'[g][j].id
    BY DEF DayByDay
  <2>1. /\ \A e \in Files : \A h \in Place(e) : disk[e][h].at = e[1]
        /\ \A e, d \in Files : \A h \in Place(e), l \in Place(d) :
             e[1] < d[1] \/ (e = d /\ h < l) => disk[e][h].id < disk[d][l].id
    BY <1>1, <1>3 DEF DayByDay
  <2>2. disk'[f][i].at = f[1]
    BY <1>4, <1>5, <1>9, <2>1
  <2>3. ASSUME f[1] < g[1] \/ (f = g /\ i < j) PROVE disk'[f][i].id < disk'[g][j].id
    <3>1. f[1] \in Nat /\ g[1] \in Nat /\ i \in Nat /\ j \in Nat
      BY DEF Files, Days, Place
    <3>2. CASE i \in Place(f) /\ disk'[f][i] = disk[f][i]
      <4>1. CASE j \in Place(g) /\ disk'[g][j] = disk[g][j]
        BY <2>1, <2>3, <3>2, <4>1
      <4>2. CASE disk'[g][j] = row
        <5>1. disk[f][i].id < row.id
          BY <1>1, <1>4, <1>10, <3>2
        <5> QED
          BY <3>2, <4>2, <5>1
      <4> QED
        BY <1>9, <4>1, <4>2
    <3>3. CASE f = at /\ i = n + 1 /\ disk'[f][i] = row /\ \A h \in Place(f)' : h <= i
      <4>1. ~(f = g /\ i < j)
        BY <3>1, <3>3
      <4>2. g[1] > today /\ g # at
        BY <1>5, <2>3, <3>1, <3>3, <4>1
      <4>3. j \in Place(g)
        BY <1>9, <4>2
      <4>4. disk[g][j].at = g[1] /\ disk[g][j].at \in 1 .. today
        BY <1>10, <2>1, <4>3
      <4>5. today \in Nat
        BY <1>2 DEF Days
      <4> QED
        BY <3>1, <4>2, <4>4, <4>5
    <3> QED
      BY <1>9, <3>2, <3>3
  <2> QED
    BY <2>2, <2>3
<1>14. KeptOnce'
  <2>1. /\ compaction \in [pc : {"idle", "read", "removed"}, kept : Seq(Row)]
        /\ ~compacts => compaction.pc = "idle"
        /\ \A i, j \in 1 .. Len(compaction.kept) :
             compaction.kept[i] \in acked /\ (compaction.kept[i].id = compaction.kept[j].id => i = j)
        /\ compaction.pc = "removed" =>
             \A f \in Files : \A i \in Place(f) : \A j \in 1 .. Len(compaction.kept) :
               disk[f][i].id # compaction.kept[j].id
    BY <1>1 DEF KeptOnce
  <2>2. ASSUME compaction.pc = "removed", NEW f \in Files, NEW i \in Place(f)', NEW j \in 1 .. Len(compaction.kept)
        PROVE  disk'[f][i].id # compaction.kept[j].id
    <3>1. compaction.kept[j].id \in 1 .. appended
      BY <1>6, <2>1
    <3>2. compaction.kept[j].id # row.id
      BY <1>1, <1>4, <3>1
    <3> QED
      BY <1>9, <2>1, <2>2, <3>2
  <2>3. /\ compaction' \in [pc : {"idle", "read", "removed"}, kept : Seq(Row)]
        /\ ~compacts' => compaction'.pc = "idle"
    BY <1>3, <2>1
  <2>4. \A i, j \in 1 .. Len(compaction'.kept) :
          compaction'.kept[i] \in acked' /\ (compaction'.kept[i].id = compaction'.kept[j].id => i = j)
    BY <1>3, <2>1
  <2>5. compaction'.pc = "removed" =>
          \A f \in Files : \A i \in Place(f)' : \A j \in 1 .. Len(compaction'.kept) :
            disk'[f][i].id # compaction'.kept[j].id
    BY <1>3, <2>2
  <2> QED
    BY <2>3, <2>4, <2>5 DEF KeptOnce
<1>15. SweepsAreDue' /\ sweeps' \subseteq Int
  <2>1. today - Retention \in Int /\ sweeps' \subseteq sweeps \cup {today - Retention}
    BY <1>1, <1>2, <1>3 DEF Days, SweepsStarted
  <2>2. \A c \in sweeps' : c \in Int /\ c <= today - Retention
    BY <1>1, <1>2, <2>1 DEF SweepsAreDue
  <2> QED
    BY <1>3, <2>2 DEF SweepsAreDue
<1>16. ClearedStaysGone'
  <2> SUFFICES ASSUME ~compacts', NEW f \in Files, NEW i \in Place(f)' PROVE disk'[f][i].id \notin cleared
    BY <1>3 DEF ClearedStaysGone
  <2>1. \A e \in Files : \A h \in Place(e) : disk[e][h].id \notin cleared
    BY <1>1, <1>3 DEF ClearedStaysGone
  <2>2. row.id \notin cleared
    BY <1>1, <1>2, <1>4
  <2> QED
    BY <1>9, <2>1, <2>2
<1>17. /\ writer' \in WriterRecord /\ writer'.entries \in 0 .. Cap
  <2>1. Positioned.entries \in Nat /\ Positioned.entries + 1 \in Nat
    BY <1>5 DEF WriterRecord
  <2>2. writer' \in WriterRecord /\ writer'.entries = Positioned.entries + 1
    BY <1>3, <1>5, <2>1 DEF WriterRecord
  <2> QED
    BY <1>1, <1>5, <2>1, <2>2
<1>18. hot' \in Seq(Row) /\ Len(hot') <= HotSize
  BY <1>1, <1>2, <1>3, <1>4, AppendProperties, NewestIsTheEnd
<1>19. LedgerTypeOK'
  <2>1. acked' \subseteq [id : 1 .. appended', key : Keys, at : 1 .. today'] /\ cleared' \subseteq 1 .. appended'
    BY <1>1, <1>2, <1>3, <1>4
  <2>2. appended' <= MaxAppends
    BY <1>1, <1>3
  <2>3. writer'.day \in 0 .. MaxDay /\ writer'.index \in 0 .. MaxIndex /\ writer'.file \in Files \cup {NoFile}
    BY <1>17 DEF WriterRecord
  <2> QED
    BY <1>2, <1>3, <1>7, <1>15, <1>17, <1>18, <2>1, <2>2, <2>3 DEF LedgerTypeOK
<1>20. appended' \in Nat
  BY <1>1, <1>3
<1>21. LedgerInv'
  BY <1>11, <1>12, <1>13, <1>14, <1>15, <1>16, <1>17, <1>19, <1>20 DEF LedgerInv
<1>22. \A f \in Files : \A i \in Place(f)' :
         (i \in Place(f) /\ disk'[f][i] = disk[f][i]) \/ disk'[f][i] = row
  <2> TAKE f \in Files
  <2> TAKE i \in Place(f)'
  <2> QED
    BY <1>9
<1> QED
  BY <1>21, <1>22 DEF row

\* A write that throws leaves the files as they are.
LEMMA AppendThrowsKeeps ==
  ASSUME LedgerInv, NEW k \in Keys, AppendThrows(k)
  PROVE  LedgerInv'
<1> DEFINE row == NextRow(k)
<1>1. /\ LedgerTypeOK /\ appended \in Nat /\ writer \in WriterRecord /\ DiskIsAcked
      /\ KeptOnce /\ SweepsAreDue /\ ClearedStaysGone
      /\ MaxAppends \in Nat /\ HotSize \in Nat /\ Retention \in Nat /\ Cap \in Nat
  BY LedgerConstants DEF LedgerInv, LedgerConstants
<1>2. /\ compacts \in BOOLEAN /\ today \in Days /\ disk \in [Files -> Seq(Row)]
      /\ hot \in Seq(Row) /\ sweeps \subseteq Int /\ compaction.pc \in {"idle", "read", "removed"}
      /\ acked \subseteq [id : 1 .. appended, key : Keys, at : 1 .. today]
      /\ cleared \subseteq 1 .. appended /\ appended <= MaxAppends
  BY <1>1 DEF LedgerTypeOK
<1>3. /\ appended < MaxAppends /\ Positioned.index <= MaxIndex
      /\ appended' = appended + 1 /\ acked' = acked /\ disk' = disk
      /\ hot' = Newest(Append(hot, row), HotSize)
      /\ writer' = Positioned /\ sweeps' = SweepsStarted
      /\ compacts' = compacts /\ today' = today /\ compaction' = compaction /\ cleared' = cleared
  BY DEF AppendThrows
<1>4. row \in Row
  BY <1>1, <1>2, <1>3 DEF NextRow, Row, Days
<1> HIDE DEF row
<1>5. Positioned \in WriterRecord /\ Positioned.entries < Cap
  BY <1>1, <1>2, <1>3, PositionedIsOpen
<1>6. DiskIsAcked' /\ OncePlaced' /\ DayByDay'
  <2>1. \A f \in Files : Place(f)' = Place(f)
    BY <1>3 DEF Place
  <2> QED
    BY <1>3, <2>1, DiskLosesRows
<1>7. KeptOnce' /\ ClearedStaysGone'
  BY <1>1, <1>3 DEF KeptOnce, ClearedStaysGone, Place
<1>8. SweepsAreDue' /\ sweeps' \subseteq Int
  <2>1. today - Retention \in Int /\ sweeps' \subseteq sweeps \cup {today - Retention}
    BY <1>1, <1>2, <1>3 DEF Days, SweepsStarted
  <2>2. \A c \in sweeps' : c \in Int /\ c <= today - Retention
    BY <1>1, <1>2, <2>1 DEF SweepsAreDue
  <2> QED
    BY <1>3, <2>2 DEF SweepsAreDue
<1>9. hot' \in Seq(Row) /\ Len(hot') <= HotSize
  BY <1>1, <1>2, <1>3, <1>4, AppendProperties, NewestIsTheEnd
<1>10. LedgerTypeOK'
  <2>1. acked' \subseteq [id : 1 .. appended', key : Keys, at : 1 .. today'] /\ cleared' \subseteq 1 .. appended'
    BY <1>1, <1>2, <1>3
  <2>2. appended' <= MaxAppends
    BY <1>1, <1>3
  <2>3. /\ writer'.day \in 0 .. MaxDay /\ writer'.index \in 0 .. MaxIndex /\ writer'.file \in Files \cup {NoFile}
        /\ writer'.entries \in 0 .. Cap
    BY <1>1, <1>3, <1>5 DEF WriterRecord
  <2> QED
    BY <1>2, <1>3, <1>8, <1>9, <2>1, <2>2, <2>3 DEF LedgerTypeOK
<1>11. appended' \in Nat /\ writer' \in WriterRecord
  BY <1>1, <1>3, <1>5
<1> QED
  BY <1>6, <1>7, <1>8, <1>10, <1>11 DEF LedgerInv

\* A sweep that is due removes whole files.
LEMMA SweepKeeps ==
  ASSUME LedgerInv, NEW cutoff \in sweeps, Sweep(cutoff)
  PROVE  LedgerInv'
<1>1. /\ LedgerTypeOK /\ appended \in Nat /\ writer \in WriterRecord
      /\ KeptOnce /\ SweepsAreDue /\ ClearedStaysGone /\ disk \in [Files -> Seq(Row)]
  BY DEF LedgerInv, LedgerTypeOK
<1>2. /\ disk' = [f \in Files |-> IF f \in Swept(cutoff) THEN <<>> ELSE disk[f]]
      /\ sweeps' = sweeps \ {cutoff}
      /\ UNCHANGED <<compacts, today, writer, hot, compaction, appended, acked, cleared>>
  BY DEF Sweep
<1>3. disk' \in [Files -> Seq(Row)]
  BY <1>1, <1>2
<1>4. \A f \in Files : \A i \in Place(f)' : i \in Place(f) /\ disk'[f][i] = disk[f][i]
  BY <1>2 DEF Place
<1>5. DiskIsAcked' /\ OncePlaced' /\ DayByDay'
  BY <1>2, <1>4, DiskLosesRows
<1>6. KeptOnce'
  BY <1>1, <1>2, <1>4 DEF KeptOnce
<1>7. SweepsAreDue' /\ ClearedStaysGone'
  BY <1>1, <1>2, <1>4 DEF SweepsAreDue, ClearedStaysGone
<1>8. LedgerTypeOK'
  BY <1>1, <1>2, <1>3 DEF LedgerTypeOK
<1> QED
  BY <1>1, <1>2, <1>5, <1>6, <1>7, <1>8 DEF LedgerInv

\* Clearing leaves nothing that could come back.
LEMMA ClearKeeps == LedgerInv /\ ClearLedger => LedgerInv'
<1> SUFFICES ASSUME LedgerInv, ClearLedger PROVE LedgerInv'
  OBVIOUS
<1>1. /\ LedgerTypeOK /\ appended \in Nat /\ writer \in WriterRecord
      /\ KeptOnce /\ SweepsAreDue /\ disk \in [Files -> Seq(Row)]
      /\ acked \subseteq [id : 1 .. appended, key : Keys, at : 1 .. today]
  BY DEF LedgerInv, LedgerTypeOK
<1>2. /\ hot' = <<>> /\ disk' = [f \in Files |-> <<>>] /\ cleared' = {r.id : r \in acked}
      /\ UNCHANGED <<compacts, today, writer, sweeps, compaction, appended, acked>>
  BY DEF ClearLedger, Emptied
<1>3. disk' \in [Files -> Seq(Row)] /\ \A f \in Files : Place(f)' = {}
  BY <1>2 DEF Place
<1>4. DiskIsAcked' /\ OncePlaced' /\ DayByDay' /\ ClearedStaysGone'
  BY <1>3 DEF DiskIsAcked, OncePlaced, DayByDay, ClearedStaysGone
<1>5. KeptOnce'
  BY <1>1, <1>2, <1>3 DEF KeptOnce
<1>6. SweepsAreDue'
  BY <1>1, <1>2 DEF SweepsAreDue
<1>7. cleared' \subseteq 1 .. appended' /\ hot' \in Seq(Row) /\ Len(hot') <= HotSize
  BY <1>1, <1>2, LedgerConstants DEF LedgerConstants
<1>8. LedgerTypeOK'
  BY <1>1, <1>2, <1>3, <1>7 DEF LedgerTypeOK
<1> QED
  BY <1>1, <1>2, <1>4, <1>5, <1>6, <1>8 DEF LedgerInv

\* What was due to go is still due later.
LEMMA LaterIsStillDue ==
  ASSUME NEW c \in Int, NEW a \in Nat, NEW b \in Nat, NEW d \in Nat, c <= a - d, b >= a
  PROVE  c <= b - d
OBVIOUS

\* What only the caches, the writer or the clock do.
LEMMA DiskUntouched ==
  ASSUME LedgerInv,
         UNCHANGED <<compacts, disk, appended, acked, cleared>>,
         compaction' = compaction \/ compaction' = NoCompaction,
         today' \in Days, today' >= today, sweeps' \subseteq sweeps,
         writer' \in WriterRecord, compacts \/ writer'.entries \in 0 .. Cap,
         hot' \in Seq(Row), Len(hot') <= HotSize
  PROVE  LedgerInv'
<1>1. /\ LedgerTypeOK /\ appended \in Nat /\ KeptOnce /\ SweepsAreDue /\ ClearedStaysGone
      /\ compacts \in BOOLEAN /\ today \in Days /\ disk \in [Files -> Seq(Row)]
      /\ sweeps \subseteq Int /\ compaction.pc \in {"idle", "read", "removed"}
      /\ acked \subseteq [id : 1 .. appended, key : Keys, at : 1 .. today]
      /\ cleared \subseteq 1 .. appended /\ appended <= MaxAppends /\ Retention \in Nat
  BY LedgerConstants DEF LedgerInv, LedgerTypeOK, LedgerConstants
<1>2. \A f \in Files : Place(f)' = Place(f)
  BY DEF Place
<1>3. DiskIsAcked' /\ OncePlaced' /\ DayByDay'
  BY <1>2, DiskLosesRows
<1>4. KeptOnce' /\ compaction'.pc \in {"idle", "read", "removed"}
  <2>1. CASE compaction' = compaction
    <3>1. KeptOnce
      BY <1>1
    <3> QED
      BY <1>1, <1>2, <2>1, <3>1 DEF KeptOnce
  <2>2. CASE compaction' = NoCompaction
    <3>1. /\ compaction'.pc = "idle" /\ Len(compaction'.kept) = 0
          /\ compaction' \in [pc : {"idle", "read", "removed"}, kept : Seq(Row)]
      BY <2>2 DEF NoCompaction
    <3> QED
      BY <3>1 DEF KeptOnce
  <2> QED
    BY <2>1, <2>2
<1>5. ClearedStaysGone'
  BY <1>1, <1>2 DEF ClearedStaysGone
<1>6. SweepsAreDue'
  <2>1. today \in Nat /\ today' \in Nat
    BY <1>1 DEF Days
  <2>2. \A c \in sweeps' : c \in Int /\ c <= today - Retention
    BY <1>1 DEF SweepsAreDue
  <2>3. \A c \in sweeps' : c <= today' - Retention
    <3> TAKE c \in sweeps'
    <3>1. c \in Int /\ c <= today - Retention /\ Retention \in Nat
      BY <1>1, <2>2
    <3> QED
      BY <2>1, <3>1, LaterIsStillDue
  <2> QED
    BY <2>3 DEF SweepsAreDue
<1>7. acked' \subseteq [id : 1 .. appended', key : Keys, at : 1 .. today']
  <2>1. 1 .. today \subseteq 1 .. today'
    BY <1>1 DEF Days
  <2> QED
    BY <1>1, <2>1
<1>8. LedgerTypeOK'
  <2>1. writer'.day \in 0 .. MaxDay /\ writer'.index \in 0 .. MaxIndex /\ writer'.file \in Files \cup {NoFile}
    BY DEF WriterRecord
  <2> QED
    BY <1>1, <1>4, <1>7, <2>1 DEF LedgerTypeOK
<1> QED
  BY <1>1, <1>3, <1>4, <1>5, <1>6, <1>8 DEF LedgerInv

\* What a compaction keeps are rows, each once.
LEMMA LastByKeyIsOnce ==
  ASSUME NEW rows \in Seq(Row)
  PROVE  /\ LastByKey(rows) \in Seq(Row)
         /\ \E at \in [1 .. Len(LastByKey(rows)) -> 1 .. Len(rows)] :
              \A i, j \in 1 .. Len(LastByKey(rows)) :
                LastByKey(rows)[i] = rows[at[i]] /\ (at[i] = at[j] => i = j)
<1> DEFINE With(k) == {i \in DOMAIN rows : rows[i].key = k}
           K == {i \in DOMAIN rows : \A j \in 1 .. i - 1 : rows[j].key # rows[i].key}
           firsts == Selected(rows, K)
           NewestOf(k) == Max(With(k))
           kept == [j \in DOMAIN firsts |-> rows[NewestOf(firsts[j].key)]]
<1>1. LastByKey(rows) = kept
  BY DEF LastByKey
<1>2. DOMAIN rows = 1 .. Len(rows) /\ Len(rows) \in Nat /\ \A i \in 1 .. Len(rows) : rows[i] \in Row
  OBVIOUS
<1>3. firsts \in Seq(Row) /\ \E e : Embeds(e, firsts, rows, K, Len(rows))
  <2> HIDE DEF K
  <2> QED
    BY SelectedIsASubsequence
<1> DEFINE m == Len(firsts)
<1>4. PICK e : Embeds(e, firsts, rows, K, Len(rows))
  BY <1>3
<1>5. /\ m \in Nat /\ DOMAIN firsts = 1 .. m
      /\ \A j \in 1 .. m : e[j] \in 1 .. Len(rows) /\ e[j] \in K /\ firsts[j] = rows[e[j]]
      /\ \A i, j \in 1 .. m : i < j => e[i] < e[j]
  <2> HIDE DEF K, firsts
  <2>1. /\ e \in [1 .. Len(firsts) -> 1 .. Len(rows)]
        /\ \A i \in 1 .. Len(firsts) : e[i] \in K /\ firsts[i] = rows[e[i]]
        /\ \A i, j \in 1 .. Len(firsts) : i < j => e[i] < e[j]
    BY <1>4 DEF Embeds
  <2> QED
    BY <1>3, <2>1
<1> HIDE DEF firsts
<1>6. \A i, j \in 1 .. m : i # j => firsts[i].key # firsts[j].key
  <2>1. ASSUME NEW i \in 1 .. m, NEW j \in 1 .. m, i < j PROVE firsts[i].key # firsts[j].key
    <3>1. e[i] \in 1 .. e[j] - 1
      BY <1>2, <1>5, <2>1
    <3>2. rows[e[i]].key # rows[e[j]].key
      BY <1>5, <3>1
    <3> QED
      BY <1>5, <3>2
  <2>2. \A i, j \in 1 .. m : i # j => i < j \/ j < i
    BY <1>5
  <2> QED
    BY <2>1, <2>2
<1>7. ASSUME NEW j \in 1 .. m
      PROVE  NewestOf(firsts[j].key) \in 1 .. Len(rows) /\ rows[NewestOf(firsts[j].key)].key = firsts[j].key
  <2> DEFINE W == With(firsts[j].key)
  <2>1. W \in SUBSET (0 .. Len(rows)) /\ e[j] \in W
    BY <1>2, <1>5
  <2>2. \E i \in W : \A h \in W : h <= i
    <3> HIDE DEF W
    <3> QED
      BY <1>2, <2>1, FirstAndLast
  <2>3. \E i \in W : \A h \in W : i >= h
    BY <2>2
  <2>4. Max(W) \in W
    <3> HIDE DEF W
    <3> QED
      BY <2>3, Zenon DEF Max
  <2> QED
    BY <1>2, <2>4
<1> HIDE DEF NewestOf
<1>8. /\ DOMAIN kept = 1 .. m /\ kept \in Seq(Row) /\ Len(kept) = m
      /\ \A j \in 1 .. m : kept[j] = rows[NewestOf(firsts[j].key)]
  BY <1>2, <1>5, <1>7
<1> DEFINE at == [j \in 1 .. m |-> NewestOf(firsts[j].key)]
<1>9. at \in [1 .. m -> 1 .. Len(rows)] /\ \A j \in 1 .. m : at[j] = NewestOf(firsts[j].key)
  BY <1>7
<1> HIDE DEF at, kept
<1>10. \A i, j \in 1 .. m : kept[i] = rows[at[i]] /\ (at[i] = at[j] => i = j)
  BY <1>6, <1>7, <1>8, <1>9
<1> QED
  BY <1>1, <1>8, <1>9, <1>10

\* What is read are acknowledged rows, no two of an id.
LEMMA ReadsOnce ==
  ASSUME DiskIsAcked, OncePlaced, Scan \in Seq(Row), NEW at, Reads(at)
  PROVE  \A p, q \in 1 .. Len(Scan) : Scan[p] \in acked /\ (Scan[p].id = Scan[q].id => p = q)
<1>1. Len(Scan) \in Nat
  OBVIOUS
<1>2. ASSUME NEW p \in 1 .. Len(Scan)
      PROVE  /\ at[p][1] \in Files /\ at[p][2] \in Place(at[p][1]) /\ at[p][2] \in Nat
             /\ Scan[p] = disk[at[p][1]][at[p][2]] /\ Scan[p] \in acked
  BY DEF Reads, DiskIsAcked
<1>3. ASSUME NEW p \in 1 .. Len(Scan), NEW q \in 1 .. Len(Scan), p < q PROVE Scan[p].id # Scan[q].id
  <2>1. ~(at[p][1] = at[q][1] /\ at[p][2] = at[q][2])
    <3>1. at[p][1] = at[q][1] => at[p][2] < at[q][2]
      BY <1>3 DEF Reads
    <3> QED
      BY <1>2, <3>1
  <2> DEFINE f == at[p][1]  g == at[q][1]  i == at[p][2]  j == at[q][2]
  <2>2. f \in Files /\ g \in Files /\ i \in Place(f) /\ j \in Place(g)
    BY <1>2
  <2>3. disk[f][i].id = disk[g][j].id => f = g /\ i = j
    BY <2>2 DEF OncePlaced
  <2>4. Scan[p] = disk[f][i] /\ Scan[q] = disk[g][j]
    BY <1>2
  <2> HIDE DEF f, g, i, j
  <2> QED
    BY <2>1, <2>3, <2>4 DEF f, g, i, j
<1>4. \A p, q \in 1 .. Len(Scan) : p < q \/ q < p \/ p = q
  BY <1>1
<1> QED
  BY <1>2, <1>3, <1>4

\* A compaction reads what is there.
LEMMA CompactReadKeeps == LedgerInv /\ CompactRead => LedgerInv'
<1> SUFFICES ASSUME LedgerInv, CompactRead PROVE LedgerInv'
  OBVIOUS
<1>1. /\ LedgerTypeOK /\ appended \in Nat /\ writer \in WriterRecord /\ disk \in [Files -> Seq(Row)]
      /\ DiskIsAcked /\ OncePlaced /\ SweepsAreDue /\ ClearedStaysGone
  BY DEF LedgerInv, LedgerTypeOK
<1>2. /\ compacts /\ compaction' = [pc |-> "read", kept |-> Read]
      /\ UNCHANGED <<compacts, today, disk, writer, hot, sweeps, appended, acked, cleared>>
  BY DEF CompactRead
<1>3. Scan \in Seq(Row) /\ \E at : Reads(at)
  BY <1>1, ScanReads
<1>4. PICK at : Reads(at)
  BY <1>3
<1> DEFINE k == LastByKey(Scan)
<1>5. /\ k \in Seq(Row)
      /\ \E e \in [1 .. Len(k) -> 1 .. Len(Scan)] :
           \A i, j \in 1 .. Len(k) : k[i] = Scan[e[i]] /\ (e[i] = e[j] => i = j)
  BY <1>3, LastByKeyIsOnce
<1>6. Read = k
  BY DEF Read
<1> HIDE DEF k
<1>7. PICK e \in [1 .. Len(k) -> 1 .. Len(Scan)] :
        \A i, j \in 1 .. Len(k) : k[i] = Scan[e[i]] /\ (e[i] = e[j] => i = j)
  BY <1>5
<1>8. \A p, q \in 1 .. Len(Scan) : Scan[p] \in acked /\ (Scan[p].id = Scan[q].id => p = q)
  BY <1>1, <1>3, <1>4, ReadsOnce
<1>9. \A i, j \in 1 .. Len(k) : k[i] \in acked /\ (k[i].id = k[j].id => i = j)
  <2> TAKE i, j \in 1 .. Len(k)
  <2>1. e[i] \in 1 .. Len(Scan) /\ e[j] \in 1 .. Len(Scan) /\ k[i] = Scan[e[i]] /\ k[j] = Scan[e[j]]
    BY <1>7
  <2> QED
    BY <1>7, <1>8, <2>1
<1>10. KeptOnce'
  <2>1. compaction'.pc = "read" /\ compaction'.kept = k
    BY <1>2, <1>6
  <2>2. compaction' \in [pc : {"idle", "read", "removed"}, kept : Seq(Row)]
    BY <1>2, <1>5, <1>6
  <2>3. compacts'
    BY <1>2
  <2> QED
    BY <1>2, <1>9, <2>1, <2>2, <2>3 DEF KeptOnce
<1>11. DiskIsAcked' /\ OncePlaced' /\ DayByDay' /\ ClearedStaysGone' /\ SweepsAreDue'
  BY <1>1, <1>2 DEF DiskIsAcked, OncePlaced, DayByDay, ClearedStaysGone, SweepsAreDue, Place
<1>12. LedgerTypeOK'
  BY <1>1, <1>2 DEF LedgerTypeOK
<1> QED
  BY <1>1, <1>2, <1>10, <1>11, <1>12 DEF LedgerInv

\* It removes every file, and is the only one to hold what it kept.
LEMMA CompactRemoveKeeps == LedgerInv /\ CompactRemove => LedgerInv'
<1> SUFFICES ASSUME LedgerInv, CompactRemove PROVE LedgerInv'
  OBVIOUS
<1>1. /\ LedgerTypeOK /\ appended \in Nat /\ writer \in WriterRecord /\ KeptOnce /\ SweepsAreDue
  BY DEF LedgerInv
<1>2. /\ compaction.pc = "read" /\ disk' = [f \in Files |-> <<>>]
      /\ compaction' = [compaction EXCEPT !.pc = "removed"]
      /\ UNCHANGED <<compacts, today, writer, hot, sweeps, appended, acked, cleared>>
  BY DEF CompactRemove, Removed
<1>3. disk' \in [Files -> Seq(Row)] /\ \A f \in Files : Place(f)' = {}
  BY <1>2 DEF Place
<1>4. DiskIsAcked' /\ OncePlaced' /\ DayByDay' /\ ClearedStaysGone'
  BY <1>3 DEF DiskIsAcked, OncePlaced, DayByDay, ClearedStaysGone
<1>5. /\ compaction' \in [pc : {"idle", "read", "removed"}, kept : Seq(Row)]
      /\ compaction'.kept = compaction.kept /\ compaction'.pc = "removed"
  BY <1>1, <1>2 DEF KeptOnce
<1>6. KeptOnce'
  BY <1>1, <1>2, <1>3, <1>5 DEF KeptOnce
<1>7. SweepsAreDue'
  BY <1>1, <1>2 DEF SweepsAreDue
<1>8. LedgerTypeOK'
  BY <1>1, <1>2, <1>3, <1>5 DEF LedgerTypeOK
<1> QED
  BY <1>1, <1>2, <1>4, <1>6, <1>7, <1>8 DEF LedgerInv

\* It overwrites the first file of the day with what it kept.
LEMMA CompactWriteKeeps == LedgerInv /\ CompactWrite => LedgerInv'
<1> SUFFICES ASSUME LedgerInv, CompactWrite PROVE LedgerInv'
  OBVIOUS
<1> DEFINE file == <<today, 0>>  k == compaction.kept
<1>1. /\ LedgerTypeOK /\ appended \in Nat /\ DiskIsAcked /\ OncePlaced /\ KeptOnce /\ SweepsAreDue
      /\ disk \in [Files -> Seq(Row)] /\ compacts \in BOOLEAN /\ today \in Days /\ HotSize \in Nat
  BY LedgerConstants DEF LedgerInv, LedgerTypeOK, LedgerConstants
<1>2. /\ compaction.pc = "removed" /\ disk' = [disk EXCEPT ![file] = k]
      /\ hot' = Newest(k, HotSize)
      /\ writer' = [day |-> today, index |-> 0, file |-> file, entries |-> Len(k)]
      /\ compaction' = NoCompaction
      /\ UNCHANGED <<compacts, today, sweeps, appended, acked, cleared>>
  BY DEF CompactWrite
<1>3. /\ compacts /\ k \in Seq(Row)
      /\ \A i, j \in 1 .. Len(k) : k[i] \in acked /\ (k[i].id = k[j].id => i = j)
      /\ \A f \in Files : \A i \in Place(f) : \A j \in 1 .. Len(k) : disk[f][i].id # k[j].id
  BY <1>1, <1>2 DEF KeptOnce
<1>4. file \in Files
  BY <1>1, LedgerConstants DEF LedgerConstants, Files
<1> HIDE DEF file, k
<1>5. /\ disk' \in [Files -> Seq(Row)] /\ disk'[file] = k
      /\ \A f \in Files : f # file => disk'[f] = disk[f]
  BY <1>1, <1>2, <1>3, <1>4
<1>6. \A f \in Files : \A i \in Place(f)' :
        \/ f = file /\ i \in 1 .. Len(k) /\ disk'[f][i] = k[i]
        \/ f # file /\ i \in Place(f) /\ disk'[f][i] = disk[f][i]
  BY <1>5 DEF Place
<1>7. DiskIsAcked'
  <2> SUFFICES ASSUME NEW f \in Files, NEW i \in Place(f)' PROVE disk'[f][i] \in acked
    BY <1>2 DEF DiskIsAcked
  <2>1. CASE f = file /\ i \in 1 .. Len(k) /\ disk'[f][i] = k[i]
    BY <1>3, <2>1
  <2>2. CASE f # file /\ i \in Place(f) /\ disk'[f][i] = disk[f][i]
    BY <1>1, <2>2 DEF DiskIsAcked
  <2> QED
    BY <1>6, <2>1, <2>2
<1>8. OncePlaced'
  <2> SUFFICES ASSUME NEW f \in Files, NEW g \in Files, NEW i \in Place(f)', NEW j \in Place(g)',
                      disk'[f][i].id = disk'[g][j].id
               PROVE  f = g /\ i = j
    BY DEF OncePlaced
  <2>1. CASE f = file /\ g = file
    <3>1. i \in 1 .. Len(k) /\ j \in 1 .. Len(k) /\ disk'[f][i] = k[i] /\ disk'[g][j] = k[j]
      BY <1>6, <2>1
    <3> QED
      BY <1>3, <2>1, <3>1
  <2>2. CASE f = file /\ g # file
    <3>1. i \in 1 .. Len(k) /\ j \in Place(g) /\ disk'[f][i] = k[i] /\ disk'[g][j] = disk[g][j]
      BY <1>6, <2>2
    <3> QED
      BY <1>3, <3>1
  <2>3. CASE f # file /\ g = file
    <3>1. i \in Place(f) /\ j \in 1 .. Len(k) /\ disk'[f][i] = disk[f][i] /\ disk'[g][j] = k[j]
      BY <1>6, <2>3
    <3> QED
      BY <1>3, <3>1
  <2>4. CASE f # file /\ g # file
    <3>1. i \in Place(f) /\ j \in Place(g) /\ disk'[f][i] = disk[f][i] /\ disk'[g][j] = disk[g][j]
      BY <1>6, <2>4
    <3> QED
      BY <1>1, <3>1 DEF OncePlaced
  <2> QED
    BY <2>1, <2>2, <2>3, <2>4
<1>9. DayByDay' /\ ClearedStaysGone' /\ SweepsAreDue'
  BY <1>1, <1>2, <1>3 DEF DayByDay, ClearedStaysGone, SweepsAreDue
<1>10. /\ compaction'.pc = "idle" /\ Len(compaction'.kept) = 0
       /\ compaction' \in [pc : {"idle", "read", "removed"}, kept : Seq(Row)]
  BY <1>2 DEF NoCompaction
<1>11. KeptOnce'
  BY <1>10 DEF KeptOnce
<1>12. writer' \in WriterRecord
  <2>1. Len(k) \in Nat /\ today \in 0 .. MaxDay /\ 0 \in 0 .. MaxIndex
    BY <1>1, <1>3, LedgerConstants DEF LedgerConstants, Days
  <2> QED
    BY <1>2, <1>4, <2>1 DEF WriterRecord
<1>13. hot' \in Seq(Row) /\ Len(hot') <= HotSize
  BY <1>1, <1>2, <1>3, NewestIsTheEnd
<1>14. LedgerTypeOK'
  <2>1. writer'.day \in 0 .. MaxDay /\ writer'.index \in 0 .. MaxIndex /\ writer'.file \in Files \cup {NoFile}
    BY <1>12 DEF WriterRecord
  <2> QED
    BY <1>1, <1>2, <1>3, <1>5, <1>10, <1>13, <2>1 DEF LedgerTypeOK
<1> QED
  BY <1>1, <1>2, <1>7, <1>8, <1>9, <1>11, <1>12, <1>14 DEF LedgerInv

LEMMA LedgerInvStep == LedgerInv /\ [LedgerNext]_ledgerVars => LedgerInv'
<1> SUFFICES ASSUME LedgerInv, [LedgerNext]_ledgerVars PROVE LedgerInv'
  OBVIOUS
<1>1. /\ LedgerTypeOK /\ writer \in WriterRecord /\ today \in Days /\ hot \in Seq(Row) /\ Len(hot) <= HotSize
      /\ compacts \/ writer.entries \in 0 .. Cap
      /\ MaxDay \in Nat /\ MaxIndex \in Nat /\ Cap \in Nat /\ HotSize \in Nat
  BY LedgerConstants DEF LedgerInv, LedgerTypeOK, LedgerConstants
<1>2. today \in Nat /\ today >= today /\ today \in 1 .. MaxDay
  BY <1>1 DEF Days
<1>3. CASE \E k \in Keys : AppendRow(k) \/ AppendThrows(k)
  BY <1>3, AppendRowKeeps, AppendThrowsKeeps
<1>4. CASE Rotate
  <2>1. /\ writer' = [writer EXCEPT !.file = NoFile, !.entries = 0, !.index = 0]
        /\ UNCHANGED <<compacts, today, disk, hot, sweeps, compaction, appended, acked, cleared>>
    BY <1>4 DEF Rotate
  <2>2. writer' \in WriterRecord /\ writer'.entries = 0
    <3>1. NoFile \in Files \cup {NoFile} /\ 0 \in 0 .. MaxIndex
      BY <1>1
    <3> QED
      BY <1>1, <2>1, <3>1 DEF WriterRecord
  <2>3. writer'.entries \in 0 .. Cap
    BY <1>1, <2>2
  <2> QED
    BY <1>1, <1>2, <2>1, <2>2, <2>3, DiskUntouched
<1>5. CASE ClearLedger
  BY <1>5, ClearKeeps
<1>6. CASE Expire
  <2>1. /\ hot # <<>> /\ hot' = Tail(hot)
        /\ UNCHANGED <<compacts, today, disk, writer, sweeps, compaction, appended, acked, cleared>>
    BY <1>6 DEF Expire
  <2>2. hot' \in Seq(Row) /\ Len(hot') <= HotSize
    <3>1. Tail(hot) \in Seq(Row) /\ Len(Tail(hot)) = Len(hot) - 1 /\ Len(hot) \in Nat
      BY <1>1, <2>1, HeadTailProperties
    <3> QED
      BY <1>1, <2>1, <3>1
  <2> QED
    BY <1>1, <1>2, <2>1, <2>2, DiskUntouched
<1>7. CASE Midnight
  <2>1. /\ today < MaxDay /\ today' = today + 1
        /\ hot' = Selected(hot, {i \in DOMAIN hot : hot[i].at = today})
        /\ UNCHANGED <<compacts, disk, writer, sweeps, compaction, appended, acked, cleared>>
    BY <1>7 DEF Midnight
  <2>2. hot' \in Seq(Row) /\ Len(hot') <= HotSize
    <3> DEFINE K == {i \in DOMAIN hot : hot[i].at = today}
    <3>1. hot' = Selected(hot, K)
      BY <2>1
    <3> HIDE DEF K
    <3>2. Selected(hot, K) \in Seq(Row) /\ Len(Selected(hot, K)) <= Len(hot)
      BY <1>1, SelectedIsASubsequence, SelectedNoLonger
    <3>3. Len(Selected(hot, K)) \in Nat /\ Len(hot) \in Nat
      BY <1>1, <3>2
    <3> QED
      BY <1>1, <3>1, <3>2, <3>3
  <2>3. today' \in Days /\ today' >= today
    BY <1>1, <1>2, <2>1 DEF Days
  <2> QED
    BY <1>1, <2>1, <2>2, <2>3, DiskUntouched
<1>8. CASE Restart
  <2>1. /\ writer' = NewWriter /\ hot' = <<>> /\ sweeps' = {} /\ compaction' = NoCompaction
        /\ UNCHANGED <<compacts, today, disk, appended, acked, cleared>>
    BY <1>8 DEF Restart
  <2>2. writer' \in WriterRecord /\ writer'.entries \in 0 .. Cap
    BY <1>1, <2>1 DEF WriterRecord, NewWriter
  <2>3. hot' \in Seq(Row) /\ Len(hot') <= HotSize
    BY <1>1, <2>1
  <2> QED
    BY <1>1, <1>2, <2>1, <2>2, <2>3, DiskUntouched
<1>9. CASE \E cutoff \in sweeps : Sweep(cutoff)
  BY <1>9, SweepKeeps
<1>10. CASE CompactRead \/ CompactRemove \/ CompactWrite
  BY <1>10, CompactReadKeeps, CompactRemoveKeeps, CompactWriteKeeps
<1>11. CASE UNCHANGED ledgerVars
  <2>1. UNCHANGED <<compacts, today, disk, writer, hot, sweeps, compaction, appended, acked, cleared>>
    BY <1>11 DEF ledgerVars
  <2> QED
    BY <1>1, <1>2, <2>1, DiskUntouched
<1> QED
  BY <1>3, <1>4, <1>5, <1>6, <1>7, <1>8, <1>9, <1>10, <1>11 DEF LedgerNext

LEMMA LedgerInvAlways == LedgerSpec => []LedgerInv
BY LedgerInvInit, LedgerInvStep, PTL DEF LedgerSpec

\* What is on disk is what is read.
LEMMA DiskIsScan ==
  ASSUME disk \in [Files -> Seq(Row)], NEW at, Reads(at)
  PROVE  OnDisk = {Scan[p].id : p \in 1 .. Len(Scan)}
<1>1. ASSUME NEW id \in OnDisk PROVE \E p \in 1 .. Len(Scan) : id = Scan[p].id
  <2>1. PICK f \in Files : \E i \in DOMAIN disk[f] : id = disk[f][i].id
    BY <1>1 DEF OnDisk
  <2>2. PICK i \in Place(f) : id = disk[f][i].id
    BY <2>1 DEF Place
  <2>3. PICK p \in 1 .. Len(Scan) : at[p] = <<f, i>>
    BY <2>2 DEF Reads
  <2>4. at[p][1] = f /\ at[p][2] = i
    BY <2>3
  <2>5. Scan[p] = disk[at[p][1]][at[p][2]]
    BY DEF Reads
  <2> QED
    BY <2>2, <2>4, <2>5
<1>2. ASSUME NEW p \in 1 .. Len(Scan) PROVE Scan[p].id \in OnDisk
  <2>1. at[p][1] \in Files /\ at[p][2] \in Place(at[p][1]) /\ Scan[p] = disk[at[p][1]][at[p][2]]
    BY DEF Reads
  <2>2. DOMAIN disk[at[p][1]] = Place(at[p][1])
    BY <2>1 DEF Place
  <2> DEFINE f == at[p][1]  i == at[p][2]
  <2>3. f \in Files /\ i \in DOMAIN disk[f] /\ Scan[p].id = disk[f][i].id
    BY <2>1, <2>2
  <2> HIDE DEF f, i
  <2> QED
    BY <2>3 DEF OnDisk
<1> QED
  BY <1>1, <1>2

\* No failed write, rollover, rotation, restart or compaction leaves a second
\* copy of a row.
THEOREM RowsAreThereOnce == LedgerSpec => []NeverTwice
<1>1. LedgerInv => NeverTwice
  <2> SUFFICES ASSUME LedgerInv PROVE NeverTwice
    OBVIOUS
  <2>1. disk \in [Files -> Seq(Row)] /\ DiskIsAcked /\ OncePlaced
    BY DEF LedgerInv, LedgerTypeOK
  <2>2. Scan \in Seq(Row) /\ \E at : Reads(at)
    BY <2>1, ScanReads
  <2>3. PICK at : Reads(at)
    BY <2>2
  <2>4. \A p, q \in 1 .. Len(Scan) : Scan[p].id = Scan[q].id => p = q
    BY <2>1, <2>2, <2>3, ReadsOnce
  <2>5. OnDisk = {Scan[p].id : p \in 1 .. Len(Scan)}
    BY <2>1, <2>3, DiskIsScan
  <2> DEFINE f == [p \in 1 .. Len(Scan) |-> Scan[p].id]
  <2>6. OnDisk = {f[p] : p \in 1 .. Len(Scan)} /\ \A p, q \in 1 .. Len(Scan) : f[p] = f[q] => p = q
    BY <2>4, <2>5
  <2>7. Len(Scan) \in Nat
    BY <2>2, LenProperties
  <2>8. Cardinality(OnDisk) = Len(Scan)
    <3> HIDE DEF f
    <3> DEFINE n == Len(Scan)
    <3>1. /\ \A id : id \in OnDisk <=> \E p \in 1 .. n : id = f[p]
          /\ \A p, q \in 1 .. n : f[p] = f[q] => p = q
          /\ n \in Nat
      BY <2>6, <2>7
    <3> HIDE DEF n
    <3>2. Cardinality(OnDisk) = n
      BY <3>1, DistinctValues
    <3> QED
      BY <3>2 DEF n
  <2> QED
    BY <2>8 DEF NeverTwice
<1> QED
  BY <1>1, LedgerInvAlways, PTL

\* Rows come back in the order they were appended until a day overflows its first
\* file.
THEOREM ScanIsInOrder == LedgerSpec => []OrderedUntilOverflow
<1>1. LedgerInv => OrderedUntilOverflow
  <2> SUFFICES ASSUME LedgerInv, ~compacts,
                      (\A d \in Days : \A n \in 1 .. MaxIndex : disk[<<d, n>>] = <<>>),
                      NEW p \in DOMAIN Scan, NEW q \in DOMAIN Scan, p < q
               PROVE  Scan[p].id < Scan[q].id
    BY DEF OrderedUntilOverflow, Ascending
  <2>1. disk \in [Files -> Seq(Row)] /\ DayByDay
    BY DEF LedgerInv, LedgerTypeOK
  <2>2. Scan \in Seq(Row) /\ \E at : Reads(at)
    BY <2>1, ScanReads
  <2>3. PICK at : Reads(at)
    BY <2>2
  <2>4. p \in 1 .. Len(Scan) /\ q \in 1 .. Len(Scan)
    BY <2>2
  <2>5. /\ \A r \in 1 .. Len(Scan) : /\ at[r][1] \in Files /\ at[r][2] \in Place(at[r][1])
                                     /\ Scan[r] = disk[at[r][1]][at[r][2]]
        /\ at[p][1][1] <= at[q][1][1] /\ (at[p][1] = at[q][1] => at[p][2] < at[q][2])
    BY <2>3, <2>4 DEF Reads
  <2>6. ASSUME NEW f \in Files, NEW i \in Place(f) PROVE f[1] \in Days /\ f = <<f[1], 0>>
    <3>1. PICK d \in Days, n \in 0 .. MaxIndex : f = <<d, n>>
      BY DEF Files
    <3>2. n \in 1 .. MaxIndex => Place(f) = {}
      BY <3>1 DEF Place
    <3> QED
      BY <2>6, <3>1, <3>2, LedgerConstants DEF LedgerConstants
  <2> DEFINE f == at[p][1]  g == at[q][1]  i == at[p][2]  j == at[q][2]
  <2>7. /\ f \in Files /\ g \in Files /\ i \in Place(f) /\ j \in Place(g)
        /\ Scan[p] = disk[f][i] /\ Scan[q] = disk[g][j]
        /\ f[1] <= g[1] /\ (f = g => i < j)
    BY <2>4, <2>5
  <2> HIDE DEF f, g, i, j
  <2>8. f[1] \in Days /\ g[1] \in Days /\ f = <<f[1], 0>> /\ g = <<g[1], 0>>
    BY <2>6, <2>7
  <2>9. f[1] < g[1] \/ (f = g /\ i < j)
    <3>1. f[1] \in Nat /\ g[1] \in Nat
      BY <2>8 DEF Days
    <3>2. CASE f[1] = g[1]
      BY <2>7, <2>8, <3>2
    <3> QED
      BY <2>7, <3>1, <3>2
  <2>10. disk[f][i].id < disk[g][j].id
    BY <2>1, <2>7, <2>9 DEF DayByDay
  <2> QED
    BY <2>7, <2>10
<1> QED
  BY <1>1, LedgerInvAlways, PTL

\* Nothing brings cleared rows back, unless somebody compacts.
THEOREM ClearedIsNeverBack == LedgerSpec => []ClearedIsGone
<1>1. LedgerInv => ClearedIsGone
  <2> SUFFICES ASSUME LedgerInv, ~compacts, NEW id \in OnDisk PROVE id \notin cleared
    BY DEF ClearedIsGone
  <2>1. PICK f \in Files : \E i \in DOMAIN disk[f] : id = disk[f][i].id
    BY DEF OnDisk
  <2>2. PICK i \in Place(f) : id = disk[f][i].id
    BY <2>1 DEF LedgerInv, LedgerTypeOK, Place
  <2> QED
    BY <2>2 DEF LedgerInv, ClearedStaysGone
<1> QED
  BY <1>1, LedgerInvAlways, PTL

\* A row whose append returned stays on disk until its day is Retention days back,
\* unless somebody compacts.
THEOREM RowsStayTheirTime == LedgerSpec => RetentionIsHonoured
<1> DEFINE Honoured ==
      \A i \in OnDisk : ~compacts /\ i \notin OnDisk' \cup cleared' =>
        \A f \in Files : \A j \in DOMAIN disk[f] :
          disk[f][j].id = i => disk[f][j].at <= today - Retention
<1>1. LedgerInv /\ [LedgerNext]_ledgerVars => [Honoured]_ledgerVars
  <2> SUFFICES ASSUME LedgerInv, LedgerNext, NEW id \in OnDisk, ~compacts,
                      id \notin OnDisk' \cup cleared',
                      NEW f \in Files, NEW j \in DOMAIN disk[f], disk[f][j].id = id
               PROVE  disk[f][j].at <= today - Retention
    OBVIOUS
  <2>1. /\ LedgerTypeOK /\ DiskIsAcked /\ DayByDay /\ KeptOnce /\ SweepsAreDue
        /\ disk \in [Files -> Seq(Row)]
    BY DEF LedgerInv, LedgerTypeOK
  <2>2. compaction.pc = "idle"
    BY <2>1 DEF KeptOnce
  <2>3. j \in Place(f) /\ j \in 1 .. Len(disk[f])
    BY <2>1 DEF Place
  <2>4. ASSUME disk' \in [Files -> Seq(Row)], j \in 1 .. Len(disk'[f]), disk'[f][j] = disk[f][j] PROVE FALSE
    <3>1. j \in DOMAIN disk'[f]
      BY <2>4
    <3>2. id \in OnDisk'
      BY <2>4, <3>1 DEF OnDisk
    <3> QED
      BY <3>2
  <2>5. LedgerTypeOK'
    BY LedgerInvStep DEF LedgerInv
  <2>6. disk' \in [Files -> Seq(Row)]
    BY <2>5 DEF LedgerTypeOK
  <2>7. disk' # disk
    BY <2>3, <2>4, <2>6
  <2>8. ASSUME NEW k \in Keys, AppendRow(k) PROVE FALSE
    <3>1. /\ disk' = [disk EXCEPT ![Positioned.file] = Append(@, NextRow(k))]
          /\ Positioned.index <= MaxIndex
      BY <2>8 DEF AppendRow, Written
    <3>2. Positioned.file \in Files
      BY <3>1, PositionedIsOpen DEF LedgerInv, LedgerTypeOK
    <3>3. CASE f = Positioned.file
      <4>1. disk'[f] = Append(disk[f], NextRow(k)) /\ disk[f] \in Seq(Row)
        BY <2>1, <3>1, <3>3
      <4>2. j \in 1 .. Len(disk'[f]) /\ disk'[f][j] = disk[f][j]
        BY <2>3, <4>1
      <4> QED
        BY <2>4, <2>6, <4>2
    <3>4. CASE f # Positioned.file
      <4>1. disk'[f] = disk[f]
        BY <2>1, <3>1, <3>4
      <4> QED
        BY <2>3, <2>4, <2>6, <4>1
    <3> QED
      BY <3>3, <3>4
  <2>9. ASSUME ClearLedger PROVE FALSE
    <3>1. cleared' = {r.id : r \in acked}
      BY <2>9 DEF ClearLedger
    <3>2. disk[f][j] \in acked
      BY <2>1, <2>3 DEF DiskIsAcked
    <3> QED
      BY <3>1, <3>2
  <2>10. ASSUME NEW cutoff \in sweeps, Sweep(cutoff) PROVE disk[f][j].at <= today - Retention
    <3>1. disk' = [g \in Files |-> IF g \in Swept(cutoff) THEN <<>> ELSE disk[g]]
      BY <2>10 DEF Sweep
    <3>2. CASE f \in Swept(cutoff)
      <4>1. f[1] <= cutoff /\ cutoff <= today - Retention /\ disk[f][j].at = f[1]
        BY <2>1, <2>3, <3>2 DEF Swept, SweepsAreDue, DayByDay
      <4>2. cutoff \in Int /\ f[1] \in Int /\ today \in Int /\ Retention \in Int
        BY <2>1, LedgerConstants DEF LedgerTypeOK, LedgerConstants, Files, Days
      <4> QED
        BY <4>1, <4>2
    <3>3. CASE f \notin Swept(cutoff)
      <4>1. disk'[f] = disk[f]
        BY <3>1, <3>3
      <4> QED
        BY <2>3, <2>4, <2>6, <4>1
    <3> QED
      BY <3>2, <3>3
  <2>11. ~CompactRead /\ ~CompactRemove /\ ~CompactWrite
    BY <2>2 DEF CompactRead, CompactRemove, CompactWrite
  <2>12. /\ ~Rotate /\ ~Expire /\ ~Midnight /\ ~Restart /\ \A k \in Keys : ~AppendThrows(k)
    BY <2>7 DEF Rotate, Expire, Midnight, Restart, AppendThrows
  <2> QED
    BY <2>8, <2>9, <2>10, <2>11, <2>12 DEF LedgerNext
<1> QED
  BY <1>1, LedgerInvAlways, PTL DEF RetentionIsHonoured, LedgerSpec

\* The files, the caches and the counters of a ledger keep their shape.
THEOREM LedgerKeepsItsShape == LedgerSpec => []LedgerTypeOK
BY LedgerInvAlways, PTL DEF LedgerInv

-----------------------------------------------------------------------------
(* AutonomyGate.                                                             *)

Made == (1 .. MaxChanges) \X Modes

\* Rows hold mode changes, later rows later ones.
RowsAreChanges ==
  \A f \in Files : \A i \in Place(f) : disk[f][i].key \in Made /\ disk[f][i].key[1] <= changes
LaterRowsLaterChanges ==
  \A f, g \in Files : \A i \in Place(f), j \in Place(g) :
    disk[f][i].id < disk[g][j].id => disk[f][i].key[1] < disk[g][j].key[1]

\* What the ring has yet to write is later than what was written, and in order.
UnseenIsLater ==
  /\ \A p \in 1 .. Len(ring) : ring[p][1] \notin seen =>
       \A f \in Files : \A i \in Place(f) : disk[f][i].key[1] < ring[p][1]
  /\ \A p, q \in 1 .. Len(ring) :
       p < q /\ ring[p][1] \notin seen /\ ring[q][1] \notin seen => ring[p][1] < ring[q][1]

\* A mode beyond the sandbox was granted wherever it is held, and so was each
\* below it that is beyond the sandbox.
HeldModesWereGranted ==
  /\ \A p \in 1 .. Len(ring) : ring[p][2] > Sandbox => ring[p][2] \in granted
  /\ \A f \in Files : \A i \in Place(f) : disk[f][i].key[2] > Sandbox => disk[f][i].key[2] \in granted
  /\ \A m \in granted : m - 1 > Sandbox => m - 1 \in granted

\* The inductive invariant.
GateInv ==
  /\ LedgerInv /\ compacts = FALSE /\ GateTypeOK
  /\ ring \in Seq(Made) /\ changes \in 0 .. MaxChanges
  /\ RowsAreChanges /\ LaterRowsLaterChanges /\ UnseenIsLater
  /\ HeldModesWereGranted /\ BeyondSandboxWasGranted

\* An empty ledger and a gate as it is configured.
LEMMA GateInvInit == GateInit => GateInv
<1> SUFFICES ASSUME GateInit PROVE GateInv
  OBVIOUS
<1>1. /\ LedgerInit /\ ~compacts
      /\ mode = DefaultMode /\ ring = <<>> /\ seen = {}
      /\ nar = "built" /\ flushing = "no" /\ saved = FALSE
      /\ changes = 0 /\ granted = {}
  BY DEF GateInit
<1>2. /\ DefaultMode \in 1 .. 3 /\ RingSize \in Nat /\ MaxChanges \in Nat
  BY GateConstants DEF GateConstants
<1>3. LedgerInv
  BY <1>1, LedgerInvInit
<1>4. compacts = FALSE
  BY <1>1, <1>3 DEF LedgerInv, LedgerTypeOK
<1>5. \A f \in Files : Place(f) = {}
  BY <1>1 DEF LedgerInit, Place
<1>6. RowsAreChanges /\ LaterRowsLaterChanges
  BY <1>5 DEF RowsAreChanges, LaterRowsLaterChanges
<1>7. UnseenIsLater /\ HeldModesWereGranted /\ BeyondSandboxWasGranted
  BY <1>1, <1>2, <1>5 DEF UnseenIsLater, HeldModesWereGranted, BeyondSandboxWasGranted, Sandbox
<1>8. GateTypeOK
  <2>1. ring = <<>> /\ Len(ring) = 0 /\ DOMAIN ring = {}
    BY <1>1
  <2>2. mode \in Modes /\ Len(ring) <= RingSize /\ \A i \in DOMAIN ring : ring[i] \in (1 .. changes) \X Modes
    BY <1>1, <1>2, <2>1 DEF Modes
  <2> QED
    BY <1>1, <2>2 DEF GateTypeOK
<1>9. ring \in Seq(Made) /\ changes \in 0 .. MaxChanges
  BY <1>1, <1>2
<1> QED
  BY <1>3, <1>4, <1>6, <1>7, <1>8, <1>9 DEF GateInv

\* Rows that stay on disk change nothing.
LEMMA RowsStay ==
  ASSUME GateInv, granted \subseteq granted', changes' \in Nat, changes' >= changes,
         \A f \in Files : \A i \in Place(f)' : i \in Place(f) /\ disk'[f][i] = disk[f][i]
  PROVE  /\ RowsAreChanges' /\ LaterRowsLaterChanges'
         /\ \A f \in Files : \A i \in Place(f)' : disk'[f][i].key[2] > Sandbox => disk'[f][i].key[2] \in granted'
<1>1. RowsAreChanges /\ LaterRowsLaterChanges /\ HeldModesWereGranted /\ changes \in Nat
  BY GateConstants DEF GateInv, GateConstants
<1>2. RowsAreChanges'
  <2> SUFFICES ASSUME NEW f \in Files, NEW i \in Place(f)'
               PROVE  disk'[f][i].key \in Made /\ disk'[f][i].key[1] <= changes'
    BY DEF RowsAreChanges
  <2>1. disk'[f][i].key \in Made /\ disk'[f][i].key[1] <= changes
    BY <1>1 DEF RowsAreChanges
  <2>2. disk'[f][i].key[1] \in Nat
    BY <2>1 DEF Made
  <2> QED
    BY <1>1, <2>1, <2>2
<1>3. LaterRowsLaterChanges'
  BY <1>1 DEF LaterRowsLaterChanges
<1>4. \A f \in Files : \A i \in Place(f)' : disk'[f][i].key[2] > Sandbox => disk'[f][i].key[2] \in granted'
  BY <1>1 DEF HeldModesWereGranted
<1> QED
  BY <1>2, <1>3, <1>4

\* What the ring keeps of a list has what all of the list has.
LEMMA LoggedKeeps ==
  ASSUME NEW s \in Seq(Made), ring' = Logged(s),
         \A p \in 1 .. Len(s) :
           /\ s[p][1] \in 1 .. changes' /\ (s[p][2] > Sandbox => s[p][2] \in granted')
           /\ s[p][1] \notin seen' => \A f \in Files : \A i \in Place(f)' : disk'[f][i].key[1] < s[p][1],
         \A p, q \in 1 .. Len(s) : p < q /\ s[p][1] \notin seen' /\ s[q][1] \notin seen' => s[p][1] < s[q][1]
  PROVE  /\ ring' \in Seq(Made) /\ Len(ring') <= RingSize /\ UnseenIsLater'
         /\ \A p \in 1 .. Len(ring') : /\ ring'[p] \in (1 .. changes') \X Modes
                                       /\ ring'[p][2] > Sandbox => ring'[p][2] \in granted'
<1> DEFINE r == Newest(s, RingSize)  o == Len(s) - Len(r)
<1>1. RingSize \in Nat
  BY GateConstants DEF GateConstants
<1>2. /\ r \in Seq(Made) /\ Len(r) <= RingSize /\ Len(r) <= Len(s)
      /\ \A p \in 1 .. Len(r) : o + p \in 1 .. Len(s) /\ r[p] = s[o + p]
  BY <1>1, NewestIsTheEnd
<1>3. ring' = r
  BY DEF Logged
<1>4. Len(s) \in Nat /\ Len(r) \in Nat
  BY <1>2, LenProperties
<1> HIDE DEF r
<1>5. o \in Int
  BY <1>4
<1> HIDE DEF o
<1>6. \A p, q \in 1 .. Len(r) : p < q => o + p < o + q
  BY <1>5
<1>7. \A p \in 1 .. Len(s) : s[p] \in Made
  BY ElementOfSeq
<1>8. \A p \in 1 .. Len(r) :
        /\ r[p][1] \in 1 .. changes' /\ r[p] \in Made /\ (r[p][2] > Sandbox => r[p][2] \in granted')
        /\ r[p][1] \notin seen' => \A f \in Files : \A i \in Place(f)' : disk'[f][i].key[1] < r[p][1]
  BY <1>2, <1>7
<1>9. \A p, q \in 1 .. Len(r) : p < q /\ r[p][1] \notin seen' /\ r[q][1] \notin seen' => r[p][1] < r[q][1]
  BY <1>2, <1>6
<1>10. \A p \in 1 .. Len(r) : r[p] \in (1 .. changes') \X Modes
  BY <1>8 DEF Made
<1>11. UnseenIsLater'
  BY <1>3, <1>8, <1>9 DEF UnseenIsLater
<1> QED
  BY <1>2, <1>3, <1>8, <1>10, <1>11

\* The next event to write is the first of the ring that was not seen.
LEMMA HeadOfUnseen ==
  ASSUME GateInv, Unseen # <<>>
  PROVE  \E p \in 1 .. Len(ring) :
           /\ Head(Unseen) = ring[p] /\ ring[p] \in Made /\ ring[p] \in Keys /\ ring[p][1] \notin seen
           /\ \A q \in 1 .. Len(ring) : ring[q][1] \notin seen => p <= q
<1> DEFINE K == {i \in DOMAIN ring : ring[i][1] \notin seen}
<1>1. ring \in Seq(Made) /\ DOMAIN ring = 1 .. Len(ring) /\ Unseen = Selected(ring, K)
  BY DEF GateInv, Unseen
<1>2. \A q \in 1 .. Len(ring) : q \in K <=> ring[q][1] \notin seen
  BY <1>1
<1> HIDE DEF K
<1>3. Selected(ring, K) \in Seq(Made) /\ \E e : Embeds(e, Selected(ring, K), ring, K, Len(ring))
  BY <1>1, SelectedIsASubsequence
<1> DEFINE u == Selected(ring, K)
<1>4. PICK e : Embeds(e, u, ring, K, Len(ring))
  BY <1>3
<1>5. Len(u) \in Nat /\ 1 \in 1 .. Len(u) /\ Head(u) = u[1]
  <2>1. u \in Seq(Made) /\ u # <<>>
    BY <1>1, <1>3
  <2> HIDE DEF u
  <2> QED
    BY <2>1
<1> HIDE DEF u
<1>6. /\ \A i \in 1 .. Len(u) : e[i] \in 1 .. Len(ring) /\ e[i] \in K /\ u[i] = ring[e[i]]
      /\ \A i, j \in 1 .. Len(u) : i < j => e[i] < e[j]
      /\ \A k \in 1 .. Len(ring) : k \in K => \E i \in 1 .. Len(u) : e[i] = k
  BY <1>4 DEF Embeds
<1>7. ASSUME NEW q \in 1 .. Len(ring), ring[q][1] \notin seen PROVE e[1] <= q
  <2>1. PICK i \in 1 .. Len(u) : e[i] = q
    BY <1>2, <1>6, <1>7
  <2>2. i = 1 \/ 1 < i
    BY <1>5
  <2>3. e[1] \in Nat /\ q \in Nat
    BY <1>5, <1>6
  <2> QED
    BY <1>5, <1>6, <2>1, <2>2, <2>3
<1>8. /\ e[1] \in 1 .. Len(ring) /\ Head(Unseen) = ring[e[1]] /\ ring[e[1]][1] \notin seen
  BY <1>1, <1>2, <1>5, <1>6 DEF u
<1>9. ring[e[1]] \in Made
  BY <1>1, <1>8, ElementOfSeq
<1>10. ring[e[1]] \in Keys
  BY <1>9, GateConstants DEF GateConstants, Made
<1> QED
  BY <1>7, <1>8, <1>9, <1>10

\* What a replay reads.
LEMMA PersistedReads ==
  ASSUME GateInv
  PROVE  /\ Scan \in Seq(Row) /\ Persisted \in Seq(Made) /\ Len(Persisted) = Len(Scan)
         /\ \A p \in 1 .. Len(Persisted) :
              /\ Persisted[p] \in (1 .. changes) \X Modes /\ Persisted[p] = Scan[p].key
              /\ Persisted[p][2] > Sandbox => Persisted[p][2] \in granted
         /\ \A p, q \in 1 .. Len(Persisted) :
              /\ Scan[p].id < Scan[q].id => Persisted[p][1] < Persisted[q][1]
              /\ Scan[p].id = Scan[q].id => p = q
              /\ Scan[p].id \in Nat
<1>1. /\ disk \in [Files -> Seq(Row)] /\ DiskIsAcked /\ OncePlaced
      /\ RowsAreChanges /\ LaterRowsLaterChanges /\ HeldModesWereGranted /\ changes \in Nat
  BY GateConstants DEF GateInv, LedgerInv, LedgerTypeOK, GateConstants
<1>2. Scan \in Seq(Row) /\ \E at : Reads(at)
  BY <1>1, ScanReads
<1>3. PICK at : Reads(at)
  BY <1>2
<1>4. \A p \in 1 .. Len(Scan) :
        at[p][1] \in Files /\ at[p][2] \in Place(at[p][1]) /\ Scan[p] = disk[at[p][1]][at[p][2]]
  BY <1>3 DEF Reads
<1>5. \A p, q \in 1 .. Len(Scan) : Scan[p].id = Scan[q].id => p = q
  BY <1>1, <1>2, <1>3, ReadsOnce
<1>6. ASSUME NEW p \in 1 .. Len(Scan)
      PROVE  /\ Scan[p].key \in (1 .. changes) \X Modes /\ Scan[p].key \in Made
             /\ Scan[p].key[2] > Sandbox => Scan[p].key[2] \in granted
  <2>1. Scan[p].key \in Made /\ Scan[p].key[1] <= changes
    BY <1>1, <1>4 DEF RowsAreChanges
  <2>2. Scan[p].key[2] > Sandbox => Scan[p].key[2] \in granted
    BY <1>1, <1>4 DEF HeldModesWereGranted
  <2>3. Scan[p].key \in (1 .. changes) \X Modes
    BY <1>1, <2>1 DEF Made
  <2> QED
    BY <2>1, <2>2, <2>3
<1>7. \A p, q \in 1 .. Len(Scan) : Scan[p].id < Scan[q].id => Scan[p].key[1] < Scan[q].key[1]
  <2> SUFFICES ASSUME NEW p \in 1 .. Len(Scan), NEW q \in 1 .. Len(Scan), Scan[p].id < Scan[q].id
               PROVE  Scan[p].key[1] < Scan[q].key[1]
    OBVIOUS
  <2> DEFINE f == at[p][1]  g == at[q][1]  i == at[p][2]  j == at[q][2]
  <2>1. /\ f \in Files /\ g \in Files /\ i \in Place(f) /\ j \in Place(g)
        /\ Scan[p] = disk[f][i] /\ Scan[q] = disk[g][j]
    BY <1>4
  <2> HIDE DEF f, g, i, j
  <2>2. disk[f][i].id < disk[g][j].id => disk[f][i].key[1] < disk[g][j].key[1]
    BY <1>1, <2>1 DEF LaterRowsLaterChanges
  <2> QED
    BY <2>1, <2>2
<1>8. \A p \in 1 .. Len(Scan) : Scan[p].id \in Nat
  <2>1. \A p \in 1 .. Len(Scan) : Scan[p] \in Row
    BY <1>2, ElementOfSeq
  <2> QED
    BY <2>1 DEF Row
<1>9. DOMAIN Scan = 1 .. Len(Scan) /\ Len(Scan) \in Nat
  BY <1>2
<1>10. Persisted = [p \in 1 .. Len(Scan) |-> Scan[p].key]
  BY <1>9 DEF Persisted
<1>11. Persisted \in Seq(Made) /\ Len(Persisted) = Len(Scan)
  BY <1>6, <1>9, <1>10
<1> QED
  BY <1>2, <1>5, <1>6, <1>7, <1>8, <1>10, <1>11

\* A change of mode, granted or a step down.
LEMMA RequestKeeps ==
  ASSUME GateInv, NEW new \in Modes, NEW by \in Authorities, RequestModeChange(new, by)
  PROVE  GateInv'
<1>1. /\ changes < MaxChanges /\ new \in {mode - 1, mode + 1} /\ ~ Refused(new, by)
      /\ mode' = new /\ changes' = changes + 1
      /\ ring' = Logged(Append(ring, <<changes + 1, new>>))
      /\ granted' = IF by = "system" THEN granted ELSE granted \cup {new}
      /\ UNCHANGED <<seen, nar, flushing, saved>> /\ UNCHANGED ledgerVars
  BY DEF RequestModeChange, Event
<1>2. /\ LedgerInv /\ compacts = FALSE /\ GateTypeOK /\ mode \in Modes /\ ring \in Seq(Made)
      /\ changes \in Nat /\ changes <= MaxChanges /\ MaxChanges \in Nat /\ seen \subseteq 1 .. changes
      /\ UnseenIsLater /\ HeldModesWereGranted /\ BeyondSandboxWasGranted /\ RowsAreChanges
  BY GateConstants DEF GateInv, GateTypeOK, GateConstants
<1>3. UNCHANGED <<compacts, today, disk, writer, hot, sweeps, compaction, appended, acked, cleared>>
  BY <1>1 DEF ledgerVars
<1>4. LedgerInv'
  BY <1>1, <1>2, LedgerInvStep
<1>5. granted \subseteq granted' /\ changes' \in 0 .. MaxChanges /\ changes' >= changes
  BY <1>1, <1>2
<1>6. mode' > Sandbox => mode' \in granted'
  <2>1. CASE by = "system"
    <3>1. ~(new > mode /\ new > Sandbox)
      BY <1>1, <2>1 DEF Refused
    <3>2. new > Sandbox => new = mode - 1 /\ mode > Sandbox /\ mode - 1 > Sandbox
      BY <1>1, <1>2, <3>1 DEF Sandbox, Modes
    <3> QED
      BY <1>1, <1>2, <2>1, <3>2 DEF BeyondSandboxWasGranted, HeldModesWereGranted
  <2> QED
    BY <1>1, <2>1
<1>7. \A m \in granted' : m - 1 > Sandbox => m - 1 \in granted'
  <2> SUFFICES ASSUME NEW m \in granted', m - 1 > Sandbox PROVE m - 1 \in granted'
    OBVIOUS
  <2>1. CASE m \in granted
    BY <1>2, <1>5, <2>1 DEF HeldModesWereGranted
  <2>2. CASE m = new
    <3>1. CASE new = mode + 1
      <4>1. m - 1 = mode
        BY <1>2, <2>2, <3>1 DEF Modes
      <4> QED
        BY <1>2, <1>5, <4>1 DEF BeyondSandboxWasGranted
    <3>2. CASE new = mode - 1
      <4>1. mode > Sandbox /\ mode - 1 > Sandbox
        BY <1>2, <2>2, <3>2 DEF Modes, Sandbox
      <4>2. new \in granted
        BY <1>2, <3>2, <4>1 DEF BeyondSandboxWasGranted, HeldModesWereGranted
      <4> QED
        BY <2>1, <2>2, <4>2
    <3> QED
      BY <1>1, <3>1, <3>2
  <2> QED
    BY <1>1, <2>1, <2>2
<1>8. \A f \in Files : \A i \in Place(f)' : i \in Place(f) /\ disk'[f][i] = disk[f][i]
  BY <1>3 DEF Place
<1>9. /\ RowsAreChanges' /\ LaterRowsLaterChanges'
      /\ \A f \in Files : \A i \in Place(f)' : disk'[f][i].key[2] > Sandbox => disk'[f][i].key[2] \in granted'
  <2>1. changes' \in Nat
    BY <1>1, <1>2
  <2> QED
    BY <1>5, <1>8, <2>1, RowsStay
<1> DEFINE e == <<changes + 1, new>>  s == Append(ring, e)
<1>10. e \in Made
  BY <1>1, <1>2 DEF Made
<1>11. /\ s \in Seq(Made) /\ Len(s) = Len(ring) + 1 /\ Len(ring) \in Nat
       /\ \A p \in 1 .. Len(ring) : s[p] = ring[p]
       /\ s[Len(ring) + 1] = e
  <2> HIDE DEF e
  <2> QED
    BY <1>2, <1>10, AppendProperties
<1>12. \A p \in 1 .. Len(s) : p \in 1 .. Len(ring) \/ (p = Len(ring) + 1 /\ s[p] = <<changes + 1, new>>)
  BY <1>11
<1>13. \A p \in 1 .. Len(ring) : ring[p] \in (1 .. changes) \X Modes
  BY <1>2 DEF GateTypeOK
<1> HIDE DEF s
<1>14. ASSUME NEW p \in 1 .. Len(s)
       PROVE  /\ s[p][1] \in 1 .. changes' /\ (s[p][2] > Sandbox => s[p][2] \in granted')
              /\ s[p][1] \notin seen' => \A f \in Files : \A i \in Place(f)' : disk'[f][i].key[1] < s[p][1]
  <2>1. CASE p \in 1 .. Len(ring)
    <3>1. ring[p][1] \in 1 .. changes'
      BY <1>1, <1>2, <1>13, <2>1
    <3> QED
      BY <1>1, <1>2, <1>5, <1>8, <1>11, <2>1, <3>1 DEF HeldModesWereGranted, UnseenIsLater
  <2>2. CASE p = Len(ring) + 1 /\ s[p] = <<changes + 1, new>>
    <3>1. s[p][1] = changes + 1 /\ s[p][2] = new /\ changes + 1 \in 1 .. changes'
      BY <1>1, <1>2, <2>2
    <3>2. ASSUME NEW f \in Files, NEW i \in Place(f)' PROVE disk'[f][i].key[1] < changes + 1
      <4>1. disk[f][i].key \in Made /\ disk[f][i].key[1] <= changes /\ disk'[f][i] = disk[f][i]
        BY <1>2, <1>8 DEF RowsAreChanges
      <4>2. disk[f][i].key[1] \in Nat
        BY <4>1 DEF Made
      <4> QED
        BY <1>2, <4>1, <4>2
    <3> QED
      BY <1>1, <1>6, <3>1, <3>2
  <2> QED
    BY <1>12, <2>1, <2>2
<1>15. ASSUME NEW p \in 1 .. Len(s), NEW q \in 1 .. Len(s), p < q, s[p][1] \notin seen', s[q][1] \notin seen'
       PROVE  s[p][1] < s[q][1]
  <2>1. p \in 1 .. Len(ring) /\ s[p] = ring[p]
    BY <1>11, <1>15
  <2>2. CASE q \in 1 .. Len(ring)
    BY <1>1, <1>2, <1>11, <1>15, <2>1, <2>2 DEF UnseenIsLater
  <2>3. CASE q = Len(ring) + 1 /\ s[q] = <<changes + 1, new>>
    <3>1. ring[p][1] \in 1 .. changes
      BY <1>13, <2>1
    <3> QED
      BY <1>2, <2>1, <2>3, <3>1
  <2> QED
    BY <1>12, <2>2, <2>3
<1>16. ring' = Logged(s)
  BY <1>1 DEF s
<1>17. /\ ring' \in Seq(Made) /\ Len(ring') <= RingSize /\ UnseenIsLater'
       /\ \A p \in 1 .. Len(ring') : /\ ring'[p] \in (1 .. changes') \X Modes
                                     /\ ring'[p][2] > Sandbox => ring'[p][2] \in granted'
  BY <1>11, <1>14, <1>15, <1>16, LoggedKeeps
<1>18. HeldModesWereGranted'
  BY <1>7, <1>9, <1>17 DEF HeldModesWereGranted
<1>19. GateTypeOK'
  <2>1. DOMAIN ring' = 1 .. Len(ring') /\ seen' \subseteq 1 .. changes' /\ granted' \subseteq Modes
    BY <1>1, <1>2, <1>17 DEF GateTypeOK
  <2> QED
    BY <1>1, <1>2, <1>17, <2>1 DEF GateTypeOK
<1>20. BeyondSandboxWasGranted' /\ compacts' = FALSE
  BY <1>2, <1>3, <1>6 DEF BeyondSandboxWasGranted
<1> QED
  BY <1>4, <1>5, <1>9, <1>17, <1>18, <1>19, <1>20 DEF GateInv

\* A flush writes the oldest change it has not seen, and that is a later one
\* than any on disk.
LEMMA FlushEventKeeps == GateInv /\ FlushEvent => GateInv'
<1> SUFFICES ASSUME GateInv, FlushEvent PROVE GateInv'
  OBVIOUS
<1>1. /\ Unseen # <<>> /\ AppendRow(Head(Unseen))
      /\ seen' = seen \cup {Head(Unseen)[1]}
      /\ UNCHANGED <<mode, ring, nar, flushing, saved, changes, granted>>
  BY DEF FlushEvent
<1>2. /\ LedgerInv /\ compacts = FALSE /\ GateTypeOK /\ ring \in Seq(Made)
      /\ changes \in Nat /\ changes <= MaxChanges /\ MaxChanges \in Nat
      /\ UnseenIsLater /\ HeldModesWereGranted /\ BeyondSandboxWasGranted /\ RowsAreChanges /\ LaterRowsLaterChanges
      /\ DiskIsAcked /\ LedgerTypeOK /\ appended \in Nat
  BY GateConstants DEF GateInv, GateConstants, LedgerInv
<1>3. PICK h \in 1 .. Len(ring) :
        /\ Head(Unseen) = ring[h] /\ ring[h] \in Made /\ ring[h] \in Keys /\ ring[h][1] \notin seen
        /\ \A q \in 1 .. Len(ring) : ring[q][1] \notin seen => h <= q
  BY <1>1, HeadOfUnseen
<1> DEFINE k == ring[h]
<1>4. AppendRow(k) /\ k \in Keys /\ k \in Made /\ seen' = seen \cup {k[1]}
  BY <1>1, <1>3
<1>5. k \in (1 .. changes) \X Modes /\ (k[2] > Sandbox => k[2] \in granted) /\ k[1] \in Nat
  <2>1. DOMAIN ring = 1 .. Len(ring)
    BY <1>2
  <2> QED
    BY <1>2, <2>1 DEF GateTypeOK, HeldModesWereGranted
<1> HIDE DEF k
<1>6. /\ LedgerInv'
      /\ \A f \in Files : \A i \in Place(f)' :
           (i \in Place(f) /\ disk'[f][i] = disk[f][i]) \/ disk'[f][i] = NextRow(k)
  BY <1>2, <1>4, AppendRowKeeps
<1>7. compacts' = FALSE
  BY <1>2, <1>4 DEF AppendRow
<1>8. NextRow(k).id = appended + 1 /\ NextRow(k).key = k
  BY DEF NextRow
<1>9. ASSUME NEW f \in Files, NEW i \in Place(f) PROVE disk[f][i].id <= appended /\ disk[f][i].id \in Nat
  <2>1. disk[f][i] \in acked /\ acked \subseteq [id : 1 .. appended, key : Keys, at : 1 .. today]
    BY <1>2 DEF DiskIsAcked, LedgerTypeOK
  <2>2. disk[f][i].id \in 1 .. appended
    BY <2>1
  <2> QED
    BY <1>2, <2>2
<1>10. RowsAreChanges'
  <2> SUFFICES ASSUME NEW f \in Files, NEW i \in Place(f)'
               PROVE  disk'[f][i].key \in Made /\ disk'[f][i].key[1] <= changes'
    BY DEF RowsAreChanges
  <2>1. CASE i \in Place(f) /\ disk'[f][i] = disk[f][i]
    BY <1>1, <1>2, <2>1 DEF RowsAreChanges
  <2>2. CASE disk'[f][i] = NextRow(k)
    <3>1. k[1] <= changes
      BY <1>2, <1>5
    <3> QED
      BY <1>1, <1>4, <1>8, <2>2, <3>1
  <2> QED
    BY <1>6, <2>1, <2>2
<1>11. LaterRowsLaterChanges'
  <2> SUFFICES ASSUME NEW f \in Files, NEW g \in Files, NEW i \in Place(f)', NEW j \in Place(g)',
                      disk'[f][i].id < disk'[g][j].id
               PROVE  disk'[f][i].key[1] < disk'[g][j].key[1]
    BY DEF LaterRowsLaterChanges
  <2>1. CASE i \in Place(f) /\ disk'[f][i] = disk[f][i]
    <3>1. CASE j \in Place(g) /\ disk'[g][j] = disk[g][j]
      BY <1>2, <2>1, <3>1 DEF LaterRowsLaterChanges
    <3>2. CASE disk'[g][j] = NextRow(k)
      <4>1. disk[f][i].key[1] < ring[h][1]
        BY <1>2, <1>3, <2>1 DEF UnseenIsLater
      <4> QED
        BY <1>8, <2>1, <3>2, <4>1 DEF k
    <3> QED
      BY <1>6, <3>1, <3>2
  <2>2. CASE disk'[f][i] = NextRow(k)
    <3>1. CASE j \in Place(g) /\ disk'[g][j] = disk[g][j]
      <4>1. appended + 1 < disk[g][j].id
        BY <1>8, <2>2, <3>1
      <4>2. disk[g][j].id <= appended /\ disk[g][j].id \in Nat
        BY <1>9, <3>1
      <4> QED
        BY <1>2, <4>1, <4>2
    <3>2. CASE disk'[g][j] = NextRow(k)
      <4>1. appended + 1 < appended + 1
        BY <1>8, <2>2, <3>2
      <4> QED
        BY <1>2, <4>1
    <3> QED
      BY <1>6, <3>1, <3>2
  <2> QED
    BY <1>6, <2>1, <2>2
<1>12. ASSUME NEW q \in 1 .. Len(ring), ring[q][1] \notin seen' PROVE ring[q][1] \notin seen /\ k[1] < ring[q][1]
  <2>1. ring[q][1] \notin seen /\ ring[q][1] # ring[h][1] /\ h <= q
    BY <1>3, <1>4, <1>12 DEF k
  <2>2. h < q
    BY <2>1
  <2> QED
    BY <1>2, <1>3, <2>1, <2>2 DEF UnseenIsLater, k
<1>13. UnseenIsLater'
  <2>1. ASSUME NEW p \in 1 .. Len(ring), ring[p][1] \notin seen', NEW f \in Files, NEW i \in Place(f)'
        PROVE  disk'[f][i].key[1] < ring[p][1]
    <3>1. ring[p][1] \notin seen /\ k[1] < ring[p][1]
      BY <1>12, <2>1
    <3>2. CASE i \in Place(f) /\ disk'[f][i] = disk[f][i]
      BY <1>2, <3>1, <3>2 DEF UnseenIsLater
    <3>3. CASE disk'[f][i] = NextRow(k)
      BY <1>8, <3>1, <3>3
    <3> QED
      BY <1>6, <3>2, <3>3
  <2>2. ASSUME NEW p \in 1 .. Len(ring), NEW q \in 1 .. Len(ring), p < q,
               ring[p][1] \notin seen', ring[q][1] \notin seen'
        PROVE  ring[p][1] < ring[q][1]
    <3>1. ring[p][1] \notin seen /\ ring[q][1] \notin seen
      BY <1>12, <2>2
    <3> QED
      BY <1>2, <2>2, <3>1 DEF UnseenIsLater
  <2>3. ring' = ring
    BY <1>1
  <2> QED
    BY <2>1, <2>2, <2>3 DEF UnseenIsLater
<1>14. HeldModesWereGranted'
  <2>1. ASSUME NEW f \in Files, NEW i \in Place(f)', disk'[f][i].key[2] > Sandbox
        PROVE  disk'[f][i].key[2] \in granted
    <3>1. CASE i \in Place(f) /\ disk'[f][i] = disk[f][i]
      BY <1>2, <2>1, <3>1 DEF HeldModesWereGranted
    <3>2. CASE disk'[f][i] = NextRow(k)
      BY <1>5, <1>8, <2>1, <3>2
    <3> QED
      BY <1>6, <3>1, <3>2
  <2>2. ring' = ring /\ granted' = granted
    BY <1>1
  <2> QED
    BY <1>2, <2>1, <2>2 DEF HeldModesWereGranted
<1>15. GateTypeOK'
  <2>1. k[1] \in 1 .. changes
    BY <1>5
  <2>2. seen' \subseteq 1 .. changes'
    BY <1>1, <1>2, <1>4, <2>1 DEF GateTypeOK
  <2> QED
    BY <1>1, <1>2, <2>2 DEF GateTypeOK
<1>16. /\ BeyondSandboxWasGranted' /\ ring' \in Seq(Made) /\ changes' \in 0 .. MaxChanges
  BY <1>1, <1>2 DEF BeyondSandboxWasGranted
<1> QED
  BY <1>6, <1>7, <1>10, <1>11, <1>13, <1>14, <1>15, <1>16 DEF GateInv

\* A step that leaves the gate's own history alone and adds no row.
LEMMA GateQuiet ==
  ASSUME GateInv, LedgerInv', compacts' = compacts,
         UNCHANGED <<changes, granted, ring>> \/ (ring' = <<>> /\ UNCHANGED <<changes, granted>>),
         mode' \in {mode, DefaultMode}, ring' = <<>> \/ seen \subseteq seen', seen' \subseteq 1 .. changes,
         nar' \in {"built", "loading", "started", "stopped"}, flushing' \in {"no", "cycle", "stop"}, saved' \in BOOLEAN,
         \A f \in Files : \A i \in Place(f)' : i \in Place(f) /\ disk'[f][i] = disk[f][i]
  PROVE  GateInv'
<1>1. /\ compacts = FALSE /\ GateTypeOK /\ ring \in Seq(Made)
      /\ changes \in Nat /\ changes <= MaxChanges /\ MaxChanges \in Nat /\ RingSize \in Nat
      /\ UnseenIsLater /\ HeldModesWereGranted /\ BeyondSandboxWasGranted
      /\ DefaultMode \in Modes /\ DefaultMode <= Sandbox
  BY GateConstants DEF GateInv, GateConstants, Modes, Sandbox
<1>2. changes' = changes /\ granted' = granted /\ (ring' = ring \/ ring' = <<>>)
  OBVIOUS
<1>3. /\ RowsAreChanges' /\ LaterRowsLaterChanges'
      /\ \A f \in Files : \A i \in Place(f)' : disk'[f][i].key[2] > Sandbox => disk'[f][i].key[2] \in granted'
  <2>1. granted \subseteq granted' /\ changes' \in Nat /\ changes' >= changes
    BY <1>1, <1>2
  <2> QED
    BY <2>1, RowsStay
<1>4. ring' \in Seq(Made) /\ Len(ring') <= RingSize
      /\ \A p \in DOMAIN ring' : ring'[p] \in (1 .. changes) \X Modes
  <2>1. CASE ring' = ring
    BY <1>1, <2>1 DEF GateTypeOK
  <2>2. CASE ring' = <<>>
    <3>1. Len(ring') = 0 /\ DOMAIN ring' = {}
      BY <2>2
    <3> QED
      BY <1>1, <2>2, <3>1
  <2> QED
    BY <1>2, <2>1, <2>2
<1>5. UnseenIsLater'
  <2>1. CASE ring' = ring /\ seen \subseteq seen'
    <3>1. ASSUME NEW p \in 1 .. Len(ring), ring[p][1] \notin seen', NEW f \in Files, NEW i \in Place(f)'
          PROVE  disk'[f][i].key[1] < ring[p][1]
      <4>1. ring[p][1] \notin seen /\ i \in Place(f) /\ disk'[f][i] = disk[f][i]
        BY <2>1, <3>1
      <4> QED
        BY <1>1, <4>1 DEF UnseenIsLater
    <3>2. ASSUME NEW p \in 1 .. Len(ring), NEW q \in 1 .. Len(ring), p < q,
                 ring[p][1] \notin seen', ring[q][1] \notin seen'
          PROVE  ring[p][1] < ring[q][1]
      <4>1. ring[p][1] \notin seen /\ ring[q][1] \notin seen
        BY <2>1, <3>2
      <4> QED
        BY <1>1, <3>2, <4>1 DEF UnseenIsLater
    <3> QED
      BY <2>1, <3>1, <3>2 DEF UnseenIsLater
  <2>2. CASE ring' = <<>>
    BY <2>2 DEF UnseenIsLater
  <2> QED
    BY <1>2, <2>1, <2>2
<1>6. HeldModesWereGranted'
  <2>1. \A p \in 1 .. Len(ring') : ring'[p][2] > Sandbox => ring'[p][2] \in granted
    BY <1>1, <1>2 DEF HeldModesWereGranted
  <2> QED
    BY <1>1, <1>2, <1>3, <2>1 DEF HeldModesWereGranted
<1>7. BeyondSandboxWasGranted' /\ mode' \in Modes
  <2>1. CASE mode' = mode
    BY <1>1, <1>2, <2>1 DEF BeyondSandboxWasGranted, GateTypeOK
  <2>2. CASE mode' = DefaultMode
    <3>1. ~(mode' > Sandbox)
      BY <1>1, <2>2 DEF Modes, Sandbox
    <3> QED
      BY <1>1, <2>2, <3>1 DEF BeyondSandboxWasGranted
  <2> QED
    BY <2>1, <2>2
<1>8. GateTypeOK'
  <2>1. granted' \subseteq Modes
    BY <1>1, <1>2 DEF GateTypeOK
  <2> QED
    BY <1>2, <1>4, <1>7, <2>1 DEF GateTypeOK
<1>9. changes' \in 0 .. MaxChanges /\ compacts' = FALSE
  BY <1>1, <1>2
<1> QED
  BY <1>3, <1>4, <1>5, <1>6, <1>7, <1>8, <1>9 DEF GateInv

\* A replay adopts what it reads: nothing of it is written again.
LEMMA ReplayKeeps == GateInv /\ Replay => GateInv'
<1> SUFFICES ASSUME GateInv, Replay PROVE GateInv'
  OBVIOUS
<1>1. /\ mode' = Restored /\ seen' = Adopted /\ ring' = Logged(ring \o Persisted) /\ nar' = "started"
      /\ UNCHANGED <<flushing, saved, changes, granted>> /\ UNCHANGED ledgerVars
  BY DEF Replay
<1>2. /\ LedgerInv /\ compacts = FALSE /\ GateTypeOK /\ ring \in Seq(Made) /\ mode \in Modes
      /\ changes \in Nat /\ changes <= MaxChanges /\ MaxChanges \in Nat
      /\ UnseenIsLater /\ HeldModesWereGranted /\ BeyondSandboxWasGranted
  BY GateConstants DEF GateInv, GateTypeOK, GateConstants
<1>3. UNCHANGED <<compacts, today, disk, writer, hot, sweeps, compaction, appended, acked, cleared>>
  BY <1>1 DEF ledgerVars
<1>4. LedgerInv'
  BY <1>1, <1>2, LedgerInvStep
<1>5. \A f \in Files : \A i \in Place(f)' : i \in Place(f) /\ disk'[f][i] = disk[f][i]
  BY <1>3 DEF Place
<1>6. /\ RowsAreChanges' /\ LaterRowsLaterChanges'
      /\ \A f \in Files : \A i \in Place(f)' : disk'[f][i].key[2] > Sandbox => disk'[f][i].key[2] \in granted'
  <2>1. granted \subseteq granted' /\ changes' \in Nat /\ changes' >= changes
    BY <1>1, <1>2
  <2> QED
    BY <1>5, <2>1, RowsStay
<1>7. /\ Persisted \in Seq(Made)
      /\ \A p \in 1 .. Len(Persisted) :
           /\ Persisted[p] \in (1 .. changes) \X Modes
           /\ Persisted[p][2] > Sandbox => Persisted[p][2] \in granted
  BY PersistedReads
<1> DEFINE log == Persisted
<1>8. /\ Restored = IF log = <<>> THEN mode ELSE log[Len(log)][2]
      /\ Adopted = seen \cup {log[i][1] : i \in DOMAIN log}
  BY DEF Restored, Adopted
<1>9. /\ log \in Seq(Made)
      /\ \A p \in 1 .. Len(log) : log[p] \in (1 .. changes) \X Modes /\ (log[p][2] > Sandbox => log[p][2] \in granted)
  BY <1>7
<1>10. ring' = Logged(ring \o log)
  BY <1>1
<1> HIDE DEF log
<1>11. Len(log) \in Nat /\ DOMAIN log = 1 .. Len(log) /\ Len(ring) \in Nat /\ DOMAIN ring = 1 .. Len(ring)
  BY <1>2, <1>9
<1>12. mode' \in Modes /\ (mode' > Sandbox => mode' \in granted)
  <2>1. CASE log = <<>>
    BY <1>1, <1>2, <1>8, <2>1 DEF BeyondSandboxWasGranted
  <2>2. CASE log # <<>>
    <3>1. Len(log) \in 1 .. Len(log)
      BY <1>9, <1>11, <2>2
    <3>2. log[Len(log)] \in (1 .. changes) \X Modes
      BY <1>9, <3>1
    <3>3. log[Len(log)][2] \in Modes
      BY <3>2
    <3> QED
      BY <1>1, <1>8, <1>9, <2>2, <3>1, <3>3
  <2> QED
    BY <2>1, <2>2
<1>13. seen' \subseteq 1 .. changes
  <2>1. \A i \in DOMAIN log : log[i] \in (1 .. changes) \X Modes
    BY <1>9, <1>11
  <2>2. \A i \in DOMAIN log : log[i][1] \in 1 .. changes
    BY <2>1
  <2> QED
    BY <1>1, <1>2, <1>8, <2>2 DEF GateTypeOK
<1> DEFINE s == ring \o log
<1>14. /\ s \in Seq(Made) /\ Len(s) = Len(ring) + Len(log)
       /\ \A p \in 1 .. Len(s) : s[p] = IF p <= Len(ring) THEN ring[p] ELSE log[p - Len(ring)]
  <2>1. \A a, b \in Seq(Made) :
          /\ a \o b \in Seq(Made) /\ Len(a \o b) = Len(a) + Len(b)
          /\ \A p \in 1 .. Len(a) + Len(b) : (a \o b)[p] = IF p <= Len(a) THEN a[p] ELSE b[p - Len(a)]
    BY ConcatProperties
  <2> QED
    BY <1>2, <1>9, <2>1
<1> HIDE DEF s
<1>15. \A p \in 1 .. Len(s) :
         \/ p \in 1 .. Len(ring) /\ s[p] = ring[p]
         \/ p - Len(ring) \in 1 .. Len(log) /\ s[p] = log[p - Len(ring)]
  BY <1>11, <1>14
<1>16. ASSUME NEW p \in 1 .. Len(s), s[p][1] \notin seen'
       PROVE  p \in 1 .. Len(ring) /\ s[p] = ring[p] /\ ring[p][1] \notin seen
  <2>1. CASE p \in 1 .. Len(ring) /\ s[p] = ring[p]
    BY <1>1, <1>8, <1>16, <2>1
  <2>2. CASE p - Len(ring) \in 1 .. Len(log) /\ s[p] = log[p - Len(ring)]
    <3>1. log[p - Len(ring)][1] \in seen'
      BY <1>1, <1>8, <1>11, <2>2
    <3> QED
      BY <1>16, <2>2, <3>1
  <2> QED
    BY <1>15, <2>1, <2>2
<1>17. ASSUME NEW p \in 1 .. Len(s)
       PROVE  /\ s[p][1] \in 1 .. changes' /\ (s[p][2] > Sandbox => s[p][2] \in granted')
              /\ s[p][1] \notin seen' => \A f \in Files : \A i \in Place(f)' : disk'[f][i].key[1] < s[p][1]
  <2>1. s[p] \in (1 .. changes) \X Modes /\ (s[p][2] > Sandbox => s[p][2] \in granted)
    <3>1. CASE p \in 1 .. Len(ring) /\ s[p] = ring[p]
      BY <1>2, <1>11, <3>1 DEF GateTypeOK, HeldModesWereGranted
    <3>2. CASE p - Len(ring) \in 1 .. Len(log) /\ s[p] = log[p - Len(ring)]
      BY <1>9, <3>2
    <3> QED
      BY <1>15, <3>1, <3>2
  <2>2. s[p][1] \in 1 .. changes'
    BY <1>1, <2>1
  <2>3. s[p][1] \notin seen' => \A f \in Files : \A i \in Place(f)' : disk'[f][i].key[1] < s[p][1]
    BY <1>2, <1>5, <1>16 DEF UnseenIsLater
  <2> QED
    BY <1>1, <2>1, <2>2, <2>3
<1>18. \A p, q \in 1 .. Len(s) : p < q /\ s[p][1] \notin seen' /\ s[q][1] \notin seen' => s[p][1] < s[q][1]
  BY <1>2, <1>16 DEF UnseenIsLater
<1>19. ring' = Logged(s)
  BY <1>10 DEF s
<1>20. /\ ring' \in Seq(Made) /\ Len(ring') <= RingSize /\ UnseenIsLater'
       /\ \A p \in 1 .. Len(ring') : /\ ring'[p] \in (1 .. changes') \X Modes
                                     /\ ring'[p][2] > Sandbox => ring'[p][2] \in granted'
  BY <1>14, <1>17, <1>18, <1>19, LoggedKeeps
<1>21. HeldModesWereGranted'
  BY <1>1, <1>2, <1>6, <1>20 DEF HeldModesWereGranted
<1>22. GateTypeOK'
  <2>1. DOMAIN ring' = 1 .. Len(ring') /\ seen' \subseteq 1 .. changes' /\ granted' \subseteq Modes
    BY <1>1, <1>2, <1>13, <1>20 DEF GateTypeOK
  <2> QED
    BY <1>1, <1>2, <1>12, <1>20, <2>1 DEF GateTypeOK
<1>23. BeyondSandboxWasGranted' /\ compacts' = FALSE /\ changes' \in 0 .. MaxChanges
  BY <1>1, <1>2, <1>3, <1>12 DEF BeyondSandboxWasGranted
<1> QED
  BY <1>4, <1>6, <1>20, <1>21, <1>22, <1>23 DEF GateInv

\* Every step of the gate is one of its ledger's, or leaves the ledger alone.
LEMMA GateStepsTheLedger == GateInv /\ [GateNext]_vars => [LedgerNext]_ledgerVars /\ compacts' = compacts
<1> SUFFICES ASSUME GateInv, [GateNext]_vars PROVE [LedgerNext]_ledgerVars /\ compacts' = compacts
  OBVIOUS
<1>1. CASE FlushEvent \/ FlushThrows
  <2>1. Unseen # <<>> /\ (AppendRow(Head(Unseen)) \/ AppendThrows(Head(Unseen)))
    BY <1>1 DEF FlushEvent, FlushThrows
  <2>2. PICK p \in 1 .. Len(ring) : Head(Unseen) = ring[p] /\ ring[p] \in Keys
    BY <2>1, HeadOfUnseen
  <2> QED
    BY <2>1, <2>2 DEF LedgerNext, AppendRow, AppendThrows
<1>2. CASE Die
  BY <1>2 DEF Die, Restart, LedgerNext
<1>3. CASE LedgerStep
  BY <1>3 DEF LedgerStep, Midnight, Sweep, LedgerNext
<1>4. CASE UNCHANGED ledgerVars
  BY <1>4 DEF ledgerVars
<1>5. \/ UNCHANGED ledgerVars \/ FlushEvent \/ FlushThrows \/ Die \/ LedgerStep
  BY DEF GateNext, vars, RequestModeChange, BeginFlush, EndFlush, BeginStart, Replay, StartFresh
<1> QED
  BY <1>1, <1>2, <1>3, <1>4, <1>5

\* Every step of the gate and of its ledger.
LEMMA GateInvStep == GateInv /\ [GateNext]_vars => GateInv'
<1> SUFFICES ASSUME GateInv, [GateNext]_vars PROVE GateInv'
  OBVIOUS
<1>1. [LedgerNext]_ledgerVars /\ compacts' = compacts
  BY GateStepsTheLedger
<1>2. LedgerInv'
  BY <1>1, LedgerInvStep DEF GateInv
<1>3. /\ GateTypeOK /\ seen \subseteq 1 .. changes /\ saved \in BOOLEAN
      /\ nar \in {"built", "loading", "started", "stopped"} /\ flushing \in {"no", "cycle", "stop"}
      /\ disk \in [Files -> Seq(Row)]
  BY DEF GateInv, GateTypeOK, LedgerInv, LedgerTypeOK
<1>4. ASSUME disk' = disk PROVE \A f \in Files : \A i \in Place(f)' : i \in Place(f) /\ disk'[f][i] = disk[f][i]
  BY <1>4 DEF Place
<1>5. UNCHANGED ledgerVars => disk' = disk
  BY DEF ledgerVars
<1>6. CASE \E new \in Modes, by \in Authorities : RequestModeChange(new, by)
  BY <1>6, RequestKeeps
<1>7. CASE (\E caller \in {"cycle", "stop"} : BeginFlush(caller)) \/ EndFlush \/ BeginStart \/ StartFresh
  <2>1. UNCHANGED ledgerVars /\ UNCHANGED <<changes, granted, ring, mode, seen>>
    BY <1>7 DEF BeginFlush, EndFlush, BeginStart, StartFresh
  <2>2. /\ nar' \in {"built", "loading", "started", "stopped"} /\ flushing' \in {"no", "cycle", "stop"}
        /\ saved' \in BOOLEAN
    BY <1>3, <1>7 DEF BeginFlush, EndFlush, BeginStart, StartFresh
  <2>3. \A f \in Files : \A i \in Place(f)' : i \in Place(f) /\ disk'[f][i] = disk[f][i]
    BY <1>4, <1>5, <2>1
  <2> QED
    BY <1>1, <1>2, <1>3, <2>1, <2>2, <2>3, GateQuiet
<1>8. CASE FlushEvent
  BY <1>8, FlushEventKeeps
<1>9. CASE FlushThrows
  <2>1. /\ Unseen # <<>> /\ disk' = disk /\ seen' = seen \cup {Head(Unseen)[1]} /\ flushing' = "no"
        /\ UNCHANGED <<mode, ring, nar, saved, changes, granted>>
    BY <1>9 DEF FlushThrows, AppendThrows
  <2>2. PICK p \in 1 .. Len(ring) : Head(Unseen) = ring[p]
    BY <2>1, HeadOfUnseen
  <2>3. ring[p][1] \in 1 .. changes
    <3>1. p \in DOMAIN ring
      BY <2>2 DEF GateInv
    <3>2. ring[p] \in (1 .. changes) \X Modes
      BY <1>3, <3>1 DEF GateTypeOK
    <3> QED
      BY <3>2
  <2>4. seen \subseteq seen' /\ seen' \subseteq 1 .. changes
    BY <1>3, <2>1, <2>2, <2>3
  <2>5. \A f \in Files : \A i \in Place(f)' : i \in Place(f) /\ disk'[f][i] = disk[f][i]
    BY <1>4, <2>1
  <2> QED
    BY <1>1, <1>2, <1>3, <2>1, <2>4, <2>5, GateQuiet
<1>10. CASE Replay
  BY <1>10, ReplayKeeps
<1>11. CASE Die
  <2>1. /\ disk' = disk /\ mode' = DefaultMode /\ ring' = <<>> /\ seen' = {} /\ nar' = "built" /\ flushing' = "no"
        /\ UNCHANGED <<saved, changes, granted>>
    BY <1>11 DEF Die, Restart
  <2>2. \A f \in Files : \A i \in Place(f)' : i \in Place(f) /\ disk'[f][i] = disk[f][i]
    BY <1>4, <2>1
  <2> QED
    BY <1>1, <1>2, <1>3, <2>1, <2>2, GateQuiet
<1>12. CASE LedgerStep
  <2>1. UNCHANGED <<mode, ring, seen, nar, flushing, saved, changes, granted>>
    BY <1>12 DEF LedgerStep, gateVars
  <2>2. \A f \in Files : \A i \in Place(f)' : i \in Place(f) /\ disk'[f][i] = disk[f][i]
    <3>1. CASE disk' = disk
      BY <1>4, <3>1
    <3>2. CASE \E cutoff \in sweeps : Sweep(cutoff)
      <4>1. PICK cutoff \in sweeps : disk' = [g \in Files |-> IF g \in Swept(cutoff) THEN <<>> ELSE disk[g]]
        BY <3>2 DEF Sweep
      <4>2. \A f \in Files : disk'[f] = <<>> \/ disk'[f] = disk[f]
        BY <4>1
      <4> QED
        BY <4>2 DEF Place
    <3> QED
      BY <1>12, <3>1, <3>2 DEF LedgerStep, Midnight
  <2> QED
    BY <1>1, <1>2, <1>3, <2>1, <2>2, GateQuiet
<1>13. CASE UNCHANGED vars
  <2>1. UNCHANGED ledgerVars /\ UNCHANGED <<mode, ring, seen, nar, flushing, saved, changes, granted>>
    BY <1>13 DEF vars, gateVars
  <2>2. \A f \in Files : \A i \in Place(f)' : i \in Place(f) /\ disk'[f][i] = disk[f][i]
    BY <1>4, <1>5, <2>1
  <2> QED
    BY <1>1, <1>2, <1>3, <2>1, <2>2, GateQuiet
<1> QED
  BY <1>6, <1>7, <1>8, <1>9, <1>10, <1>11, <1>12, <1>13 DEF GateNext

LEMMA GateInvAlways == GateSpec => []GateInv
BY GateInvInit, GateInvStep, PTL DEF GateSpec

\* Whatever was lost or replayed, the gate is beyond the sandbox only in a mode
\* someone other than the system once asked for.
THEOREM NoSelfPromotion == GateSpec => []BeyondSandboxWasGranted
BY GateInvAlways, PTL DEF GateInv

\* The counters of the gate, its ring and what it has seen keep their shape.
THEOREM GateKeepsItsShape == GateSpec => []GateTypeOK
BY GateInvAlways, PTL DEF GateInv

\* A mode change is in the ledger once, however often it is replayed, flushed or
\* interrupted.
THEOREM ChangesAreThereOnce == GateSpec => []ChangesWrittenOnce
<1>1. GateInv => ChangesWrittenOnce
  <2> SUFFICES ASSUME GateInv PROVE ChangesWrittenOnce
    OBVIOUS
  <2> DEFINE log == Persisted
  <2>1. /\ log \in Seq(Made) /\ changes \in Nat
        /\ \A p \in 1 .. Len(log) : log[p] \in (1 .. changes) \X Modes
        /\ \A p, q \in 1 .. Len(log) :
             /\ Scan[p].id < Scan[q].id => log[p][1] < log[q][1]
             /\ Scan[p].id = Scan[q].id => p = q
             /\ Scan[p].id \in Nat
    <3>1. changes \in Nat
      BY GateConstants DEF GateInv, GateConstants
    <3> QED
      BY <3>1, PersistedReads
  <2>2. EventsOnDisk = {log[p] : p \in DOMAIN log}
    BY DEF EventsOnDisk
  <2> HIDE DEF log
  <2>3. Len(log) \in Nat /\ DOMAIN log = 1 .. Len(log)
    BY <2>1
  <2>4. ASSUME NEW p \in 1 .. Len(log), NEW q \in 1 .. Len(log), log[p] = log[q] PROVE p = q
    <3>1. log[p][1] \in Nat /\ log[p][1] = log[q][1]
      BY <2>1, <2>4
    <3>2. ~(Scan[p].id < Scan[q].id) /\ ~(Scan[q].id < Scan[p].id)
      BY <2>1, <3>1
    <3>3. Scan[p].id = Scan[q].id
      BY <2>1, <3>2
    <3> QED
      BY <2>1, <3>3
  <2>5. EventsOnDisk = {log[p] : p \in 1 .. Len(log)}
    BY <2>2, <2>3
  <2>6. Cardinality(EventsOnDisk) = Len(log)
    <3>1. \A event : event \in EventsOnDisk <=> \E p \in 1 .. Len(log) : event = log[p]
      BY <2>5
    <3> QED
      BY <2>3, <2>4, <3>1, DistinctValues
  <2> QED
    BY <2>6 DEF ChangesWrittenOnce, log
<1> QED
  BY <1>1, GateInvAlways, PTL

\* As long as no day overflowed its first file, a replay leaves the gate in the
\* mode of the newest change the ledger holds.
THEOREM ReplayRestoresTheNewest == GateSpec => ReplayResumesInOrder
<1> DEFINE Resumes == nar = "loading" /\ nar' = "started" /\ Ascending(Scan) =>
                        \A e \in EventsOnDisk : saved /\ e[1] = changes => mode' = e[2]
<1>1. GateInv /\ [GateNext]_vars => [Resumes]_vars
  <2> SUFFICES ASSUME GateInv, GateNext, nar = "loading", nar' = "started", Ascending(Scan),
                      NEW e \in EventsOnDisk, saved, e[1] = changes
               PROVE  mode' = e[2]
    OBVIOUS
  <2>1. mode' = Restored
    BY DEF GateNext, RequestModeChange, BeginFlush, FlushEvent, FlushThrows, EndFlush, BeginStart, Replay,
           StartFresh, Die, LedgerStep, gateVars
  <2> DEFINE log == Persisted
  <2>2. /\ log \in Seq(Made) /\ changes \in Nat /\ DOMAIN Scan = 1 .. Len(log)
        /\ \A p \in 1 .. Len(log) : log[p] \in (1 .. changes) \X Modes
        /\ \A p, q \in 1 .. Len(log) : Scan[p].id < Scan[q].id => log[p][1] < log[q][1]
    <3>1. changes \in Nat
      BY GateConstants DEF GateInv, GateConstants
    <3>2. Scan \in Seq(Row) /\ Len(Persisted) = Len(Scan)
      BY PersistedReads
    <3>3. DOMAIN Scan = 1 .. Len(log)
      BY <3>2
    <3> QED
      BY <3>1, <3>3, PersistedReads
  <2>3. EventsOnDisk = {log[p] : p \in DOMAIN log} /\ Restored = IF log = <<>> THEN mode ELSE log[Len(log)][2]
    BY DEF EventsOnDisk, Restored
  <2> HIDE DEF log
  <2>4. Len(log) \in Nat /\ DOMAIN log = 1 .. Len(log)
    BY <2>2
  <2>5. PICK p \in 1 .. Len(log) : e = log[p]
    BY <2>3, <2>4
  <2>6. log # <<>> /\ Len(log) \in 1 .. Len(log)
    BY <2>4, <2>5
  <2>7. ASSUME p < Len(log) PROVE FALSE
    <3>1. Scan[p].id < Scan[Len(log)].id
      BY <2>2, <2>6, <2>7 DEF Ascending
    <3>2. log[p][1] < log[Len(log)][1] /\ log[Len(log)] \in (1 .. changes) \X Modes
      BY <2>2, <2>6, <3>1
    <3>3. log[Len(log)][1] \in 1 .. changes
      BY <3>2
    <3> QED
      BY <2>2, <2>5, <3>2, <3>3
  <2>8. p = Len(log)
    <3>1. p \in 1 .. Len(log) /\ ~(p < Len(log))
      BY <2>7
    <3>2. \A m, n \in Nat : m \in 1 .. n /\ ~(m < n) => m = n
      OBVIOUS
    <3>3. p \in Nat
      BY <2>4
    <3> QED
      BY <2>4, <3>1, <3>2, <3>3
  <2> QED
    BY <2>1, <2>3, <2>5, <2>6, <2>8
<1> QED
  BY <1>1, GateInvAlways, PTL DEF ReplayResumesInOrder, GateSpec
=============================================================================
