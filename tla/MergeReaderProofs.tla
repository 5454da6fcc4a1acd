------------------------- MODULE MergeReaderProofs --------------------------
(***************************************************************************)
(* The merge of several journals: what the linear scan and the heap hand   *)
(* out, for any number of journals and frames and while writers append.    *)
(***************************************************************************)
EXTENDS MergeReader, FiniteSetTheorems, TLAPS

-----------------------------------------------------------------------------
(* The inductive invariant. *)

MergeTypeOK ==
  /\ frames \in [Sources -> Seq(Times)] /\ pos \in [Sources -> Nat]
  /\ journals \in Seq(Sources)
  /\ idx \in 0 .. Len(journals) /\ scanned \in 0 .. Len(journals)
  /\ pc \in {"idle", "scan", "check", "view"}

\* No journal is joined twice, so no two entries are about the same frame.
JoinedOnce == \A i, j \in 1 .. Len(journals) : journals[i] = journals[j] => i = j

\* No two frames have the same gen_time.
TimesDiffer ==
  \A r, s \in Sources : \A i \in 1 .. Len(frames[r]), j \in 1 .. Len(frames[s]) :
    frames[r][i] = frames[s][j] => r = s /\ i = j

\* What a scan has found is still there, and it has missed nothing that was
\* there at its beginning.
ScanOK ==
  /\ pc = "scan" => /\ found \subseteq Heads /\ heads \subseteq Heads
                    /\ \A h \in heads : h[2] <= scanned => h \in found
  /\ pc # "scan" => found = {} /\ scanned = 0

\* A frame is only shown after a choice, and it is there.
ChoiceMade ==
  /\ pc \in {"check", "view"} /\ Len(journals) # 1 => ~needsRebuild
  /\ pc = "view" => idx # 0 /\ HasData(idx)

\* The heap has one entry for each of some journals' frames, the current
\* journal's among the oldest.
HeapOK ==
  (HeapInUse /\ ~needsRebuild /\ pc # "scan" /\ idx # 0) =>
    /\ heap = SetToBag(BagToSet(heap)) /\ BagToSet(heap) \subseteq Heads
    /\ \E e \in Oldest(BagToSet(heap)) : e[2] = idx

\* Whatever the times, its entries are about journals that are joined.
HeapRange ==
  (HeapInUse /\ ~needsRebuild /\ pc # "scan" /\ idx # 0) =>
    \A e \in BagToSet(heap) : e[2] \in 1 .. Len(journals)

\* The linear scan's choice is as old as anything it saw.
LinearOK ==
  (Len(journals) > 1 /\ ~HeapInUse /\ ~needsRebuild /\ pc # "scan" /\ idx # 0) =>
    HasData(idx) /\ \A h \in heads : GenTime(idx) <= h[1]

MergeInv == /\ MergeTypeOK /\ JoinedOnce /\ ScanOK /\ ChoiceMade
            /\ HeapRange /\ LinearOK

\* With the heap in use, and times that differ.
HeapInv == MergeInv /\ TimesDiffer /\ HeapOK

-----------------------------------------------------------------------------
(* Frames and entries. *)

\* gen_times are numbers.
LEMMA TimesAreNat == Times \subseteq Nat /\ LinearLimit \in Nat \ {0}
BY MergeAssumption, Zenon

\* The i-th journal's frames.
LEMMA FramesAt ==
  ASSUME MergeTypeOK, NEW i \in 1 .. Len(journals)
  PROVE  /\ i \in Nat /\ journals[i] \in Sources
         /\ pos[journals[i]] \in Nat /\ Len(frames[journals[i]]) \in Nat
         /\ HasData(i) => /\ pos[journals[i]] + 1 \in 1 .. Len(frames[journals[i]])
                          /\ GenTime(i) \in Nat
<1>0. journals \in Seq(Sources)
  BY DEF MergeTypeOK
<1>1. Len(journals) \in Nat /\ i \in Nat /\ journals[i] \in Sources
  BY <1>0
<1>2. frames[journals[i]] \in Seq(Times) /\ pos[journals[i]] \in Nat
  BY <1>1 DEF MergeTypeOK
<1>3. HasData(i) => pos[journals[i]] + 1 \in 1 .. Len(frames[journals[i]])
  BY <1>2 DEF HasData
<1>4. HasData(i) => GenTime(i) \in Nat
  <2>1. ASSUME NEW q \in Seq(Times), NEW k \in 1 .. Len(q) PROVE q[k] \in Nat
    <3>1. q[k] \in Times
      OBVIOUS
    <3> QED BY <3>1, TimesAreNat
  <2> QED BY <1>2, <1>3, <2>1 DEF GenTime
<1> QED BY <1>1, <1>2, <1>3, <1>4

\* What an entry stands for.
LEMMA EntryOf ==
  ASSUME MergeTypeOK, NEW e \in Heads
  PROVE  /\ e[2] \in 1 .. Len(journals) /\ e[2] \in Nat /\ e[1] \in Nat
         /\ HasData(e[2]) /\ e[1] = GenTime(e[2]) /\ e = <<e[1], e[2]>>
<1>1. DOMAIN journals = 1 .. Len(journals)
  BY DEF MergeTypeOK
<1>2. PICK i \in 1 .. Len(journals) : HasData(i) /\ e = <<GenTime(i), i>>
  BY <1>1 DEF Heads
<1> QED BY <1>2, FramesAt

\* And that every frame has one.
LEMMA EntryFor ==
  ASSUME MergeTypeOK, NEW i \in 1 .. Len(journals), HasData(i)
  PROVE  <<GenTime(i), i>> \in Heads
<1>1. DOMAIN journals = 1 .. Len(journals)
  BY DEF MergeTypeOK
<1> QED BY <1>1 DEF Heads

\* Entries outlive whatever only appends.
LEMMA EntriesStay ==
  ASSUME MergeTypeOK, MergeTypeOK', UNCHANGED <<journals, pos>>,
         \A s \in Sources : /\ Len(frames[s]) <= Len(frames'[s])
                            /\ \A i \in 1 .. Len(frames[s]) : frames'[s][i] = frames[s][i]
  PROVE  /\ \A i \in 1 .. Len(journals) :
              HasData(i) => HasData(i)' /\ GenTime(i)' = GenTime(i)
         /\ Heads \subseteq Heads'
<1>1. ASSUME NEW i \in 1 .. Len(journals), HasData(i)
      PROVE  HasData(i)' /\ GenTime(i)' = GenTime(i)
  <2> DEFINE s == journals[i]
  <2>1. s \in Sources /\ pos[s] \in Nat /\ pos[s] + 1 \in 1 .. Len(frames[s])
    BY <1>1, FramesAt
  <2>2. Len(frames[s]) \in Nat /\ Len(frames'[s]) \in Nat
    BY SMTT(30), <2>1 DEF MergeTypeOK
  <2> QED BY <2>1, <2>2 DEF HasData, GenTime
<1>2. ASSUME NEW e \in Heads PROVE e \in Heads'
  <2>1. /\ e[2] \in 1 .. Len(journals) /\ HasData(e[2]) /\ e[1] = GenTime(e[2])
        /\ e = <<e[1], e[2]>>
    BY EntryOf
  <2>2. PICK k \in 1 .. Len(journals) : k = e[2]
    BY <2>1
  <2>3. HasData(k)' /\ e = <<GenTime(k)', k>>
    BY <1>1, <2>1, <2>2
  <2>4. k \in DOMAIN journals'
    BY <2>2 DEF MergeTypeOK
  <2> QED BY <2>3, <2>4 DEF Heads
<1> QED BY <1>1, <1>2

-----------------------------------------------------------------------------
(* The scan. *)

\* At the start.
LEMMA MergeInit == Init => MergeInv
<1> SUFFICES ASSUME Init PROVE MergeInv
  OBVIOUS
<1>1. MergeTypeOK
  BY DEF Init, MergeTypeOK
<1>2. JoinedOnce /\ ScanOK /\ ChoiceMade /\ HeapRange /\ LinearOK
  BY DEF Init, JoinedOnce, ScanOK, ChoiceMade, HeapRange, LinearOK
<1> QED BY <1>1, <1>2 DEF MergeInv

\* A frame is committed.
LEMMA CommitAppends ==
  ASSUME MergeTypeOK, NEW s \in Sources, Commit(s)
  PROVE  /\ MergeTypeOK' /\ UNCHANGED readerVars
         /\ \A r \in Sources : /\ Len(frames[r]) <= Len(frames'[r])
                               /\ \A i \in 1 .. Len(frames[r]) : frames'[r][i] = frames[r][i]
<1>1. PICK t \in Times : frames' = [frames EXCEPT ![s] = Append(@, t)]
  BY DEF Commit
<1>2. UNCHANGED readerVars
  BY DEF Commit
<1>3. frames' \in [Sources -> Seq(Times)]
  BY <1>1 DEF MergeTypeOK
<1>4. MergeTypeOK'
  BY <1>2, <1>3 DEF MergeTypeOK, readerVars
<1>5. ASSUME NEW r \in Sources
      PROVE  /\ Len(frames[r]) <= Len(frames'[r])
             /\ \A i \in 1 .. Len(frames[r]) : frames'[r][i] = frames[r][i]
  <2>1. frames[r] \in Seq(Times) /\ Len(frames[r]) \in Nat
    BY DEF MergeTypeOK
  <2>2. frames'[r] = frames[r] \/ frames'[r] = Append(frames[r], t)
    BY <1>1 DEF MergeTypeOK
  <2> QED BY <2>1, <2>2
<1> QED BY <1>2, <1>4, <1>5

\* Frames arrive, or nothing happens.
LEMMA AppendKeeps ==
  ASSUME MergeInv, MergeTypeOK', UNCHANGED readerVars,
         \A s \in Sources : /\ Len(frames[s]) <= Len(frames'[s])
                            /\ \A i \in 1 .. Len(frames[s]) : frames'[s][i] = frames[s][i]
  PROVE  MergeInv'
<1>1. /\ UNCHANGED <<pos, journals, idx, heap, pc, found, scanned, heads>>
      /\ UNCHANGED <<needsRebuild, useHeap>>
  BY DEF readerVars
<1>2. /\ \A i \in 1 .. Len(journals) : HasData(i) => HasData(i)' /\ GenTime(i)' = GenTime(i)
      /\ Heads \subseteq Heads'
  BY <1>1, EntriesStay DEF MergeInv
<1>3. JoinedOnce' /\ ScanOK'
  BY <1>1, <1>2 DEF MergeInv, JoinedOnce, ScanOK
<1>4. ASSUME idx # 0 PROVE idx \in 1 .. Len(journals)
  BY <1>4 DEF MergeInv, MergeTypeOK
<1>5. ASSUME idx # 0, HasData(idx) PROVE HasData(idx)' /\ GenTime(idx)' = GenTime(idx)
  <2>1. PICK k \in 1 .. Len(journals) : k = idx
    BY <1>4, <1>5
  <2>2. HasData(k)' /\ GenTime(k)' = GenTime(k)
    BY <1>2, <1>5, <2>1
  <2> QED BY <1>1, <2>1, <2>2 DEF HasData, GenTime
<1>6. ChoiceMade'
  BY <1>1, <1>5 DEF MergeInv, ChoiceMade
<1>7. HeapInUse' <=> HeapInUse
  BY <1>1 DEF HeapInUse
<1>8. LinearOK'
  BY <1>1, <1>5, <1>7 DEF MergeInv, LinearOK
<1>15. HeapRange'
  BY <1>1, <1>7 DEF MergeInv, HeapRange
<1> QED BY <1>3, <1>6, <1>8, <1>15 DEF MergeInv

\* A journal is joined.
LEMMA JoinKeeps ==
  ASSUME MergeInv, NEW s \in Sources, Join(s)
  PROVE  MergeInv' /\ needsRebuild' /\ UNCHANGED frames
<1>1. /\ pc = "idle" /\ pc' = "idle" /\ ~Joined(s)
      /\ journals' = Append(journals, s) /\ pos' = [pos EXCEPT ![s] = 0]
      /\ idx' = CurrentAfter(journals', idx)
      /\ UNCHANGED <<frames, found, scanned>>
  BY DEF Join
<1>2. needsRebuild'
  BY DEF Join
<1>3. journals \in Seq(Sources) /\ Len(journals) \in Nat
  BY DEF MergeInv, MergeTypeOK
<1>4. /\ journals' \in Seq(Sources) /\ Len(journals') = Len(journals) + 1
      /\ journals'[Len(journals) + 1] = s
      /\ \A i \in 1 .. Len(journals) : journals'[i] = journals[i]
  BY <1>1, <1>3
<1>5. idx' \in 0 .. Len(journals')
  BY <1>1, <1>3, <1>4 DEF CurrentAfter, MergeInv, MergeTypeOK
<1>6. pos' \in [Sources -> Nat]
  BY <1>1 DEF MergeInv, MergeTypeOK
<1>7. scanned' \in 0 .. Len(journals')
  BY <1>1, <1>3, <1>4 DEF MergeInv, MergeTypeOK
<1>8. MergeTypeOK'
  BY <1>1, <1>4, <1>5, <1>6, <1>7 DEF MergeInv, MergeTypeOK
<1>9. \A i \in 1 .. Len(journals) : journals[i] # s
  BY <1>1, <1>3 DEF Joined, ToSet
<1>10. JoinedOnce'
  <2> SUFFICES ASSUME NEW i \in 1 .. Len(journals'), NEW j \in 1 .. Len(journals'),
                      journals'[i] = journals'[j]
               PROVE  i = j
    BY DEF JoinedOnce
  <2>1. i \in 1 .. Len(journals) \/ i = Len(journals) + 1
    BY <1>3, <1>4
  <2>2. j \in 1 .. Len(journals) \/ j = Len(journals) + 1
    BY <1>3, <1>4
  <2> QED BY <1>4, <1>9, <2>1, <2>2 DEF MergeInv, JoinedOnce
<1>11. ScanOK' /\ ChoiceMade'
  BY <1>1 DEF MergeInv, ScanOK, ChoiceMade
<1>12. HeapRange' /\ LinearOK'
  BY <1>2 DEF HeapRange, LinearOK
<1> QED BY <1>1, <1>2, <1>8, <1>10, <1>11, <1>12 DEF MergeInv

\* What RemoveAt leaves.
LEMMA RemoveAtIs ==
  ASSUME NEW S, NEW s \in Seq(S), NEW i \in 1 .. Len(s)
  PROVE  /\ RemoveAt(s, i) \in Seq(S) /\ Len(RemoveAt(s, i)) = Len(s) - 1
         /\ \A k \in 1 .. Len(s) - 1 : RemoveAt(s, i)[k] = IF k < i THEN s[k] ELSE s[k + 1]
<1>1. Len(s) \in Nat /\ i \in Nat
  OBVIOUS
<1> DEFINE a == SubSeq(s, 1, i - 1)
           b == SubSeq(s, i + 1, Len(s))
<1>2. a \in Seq(S) /\ Len(a) = i - 1 /\ \A k \in 1 .. i - 1 : a[k] = s[k]
  BY <1>1
<1>3. b \in Seq(S) /\ Len(b) = Len(s) - i /\ \A k \in 1 .. Len(s) - i : b[k] = s[i + k]
  BY <1>1
<1>4. RemoveAt(s, i) = a \o b
  BY DEF RemoveAt
<1> HIDE DEF a, b
<1>8. ASSUME NEW c \in Seq(S), NEW d \in Seq(S) PROVE Len(c \o d) = Len(c) + Len(d)
  OBVIOUS
<1>5. Len(a \o b) = Len(s) - 1
  <2>1. Len(a \o b) = Len(a) + Len(b)
    BY <1>2, <1>3, <1>8
  <2> QED BY <1>1, <1>2, <1>3, <2>1
<1>6. a \o b \in Seq(S)
  BY <1>2, <1>3
<1>7. ASSUME NEW k \in 1 .. Len(s) - 1
      PROVE  (a \o b)[k] = IF k < i THEN s[k] ELSE s[k + 1]
  <2>1. CASE k < i
    BY <1>1, <1>2, <1>3, <2>1
  <2>2. CASE k >= i
    <3>1. /\ k - Len(a) \in 1 .. Len(b) /\ k \in Len(a) + 1 .. Len(a) + Len(b)
          /\ i + (k - Len(a)) = k + 1
      BY <1>1, <1>2, <1>3, <2>2
    <3>2. (a \o b)[k] = b[k - Len(a)]
      BY <1>1, <1>2, <1>3, <3>1
    <3>3. b[k - Len(a)] = s[k + 1]
      BY <1>2, <1>3, <3>1
    <3> QED BY <1>1, <2>2, <3>2, <3>3
  <2>3. k < i \/ k >= i
    BY <1>1
  <2> QED BY <2>1, <2>2, <2>3
<1> QED BY <1>4, <1>5, <1>6, <1>7

\* A journal is left.
LEMMA DisjoinKeeps ==
  ASSUME MergeInv, NEW s \in Sources, Disjoin(s)
  PROVE  MergeInv' /\ needsRebuild' /\ UNCHANGED frames
<1>1. /\ pc = "idle" /\ pc' = "idle"
      /\ idx' = CurrentAfter(journals', 0)
      /\ UNCHANGED <<frames, pos, found, scanned>>
  BY DEF Disjoin
<1>2. needsRebuild'
  BY DEF Disjoin
<1>3. journals \in Seq(Sources) /\ Len(journals) \in Nat
  BY DEF MergeInv, MergeTypeOK
<1>4. PICK n \in 1 .. Len(journals) : journals' = RemoveAt(journals, n)
  BY <1>3 DEF Disjoin
<1>5. /\ journals' \in Seq(Sources) /\ Len(journals') = Len(journals) - 1
      /\ \A k \in 1 .. Len(journals) - 1 :
           journals'[k] = IF k < n THEN journals[k] ELSE journals[k + 1]
  BY <1>3, <1>4, RemoveAtIs
<1>6. Len(journals') \in Nat
  BY <1>5
<1>7. idx' \in 0 .. Len(journals') /\ scanned' \in 0 .. Len(journals')
  BY <1>1, <1>6 DEF CurrentAfter, MergeInv, ScanOK
<1>8. MergeTypeOK'
  BY <1>1, <1>5, <1>7 DEF MergeInv, MergeTypeOK
<1>9. JoinedOnce'
  <2> SUFFICES ASSUME NEW i \in 1 .. Len(journals'), NEW j \in 1 .. Len(journals'),
                      journals'[i] = journals'[j]
               PROVE  i = j
    BY DEF JoinedOnce
  <2>1. /\ i \in 1 .. Len(journals) - 1 /\ j \in 1 .. Len(journals) - 1
        /\ i \in 1 .. Len(journals) /\ j \in 1 .. Len(journals)
        /\ i + 1 \in 1 .. Len(journals) /\ j + 1 \in 1 .. Len(journals)
    BY <1>3, <1>5
  <2>2. \A k, l \in 1 .. Len(journals) : journals[k] = journals[l] => k = l
    BY DEF MergeInv, JoinedOnce
  <2>3. /\ journals'[i] = IF i < n THEN journals[i] ELSE journals[i + 1]
        /\ journals'[j] = IF j < n THEN journals[j] ELSE journals[j + 1]
    BY <1>5, <2>1
  <2>4. n \in Nat /\ i \in Nat /\ j \in Nat
    BY <1>3, <2>1
  <2>5. CASE i < n /\ j < n
    BY <2>1, <2>2, <2>3, <2>5
  <2>6. CASE i < n /\ ~(j < n)
    <3>1. journals[i] = journals[j + 1]
      BY <2>3, <2>6
    <3>2. i = j + 1
      BY <2>1, <2>2, <3>1
    <3> QED BY <2>4, <2>6, <3>2
  <2>7. CASE ~(i < n) /\ j < n
    <3>1. journals[i + 1] = journals[j]
      BY <2>3, <2>7
    <3>2. i + 1 = j
      BY <2>1, <2>2, <3>1
    <3> QED BY <2>4, <2>7, <3>2
  <2>8. CASE ~(i < n) /\ ~(j < n)
    <3>1. journals[i + 1] = journals[j + 1]
      BY <2>3, <2>8
    <3>2. i + 1 = j + 1
      BY <2>1, <2>2, <3>1
    <3> QED BY <2>4, <3>2
  <2> QED BY <2>5, <2>6, <2>7, <2>8
<1>10. ScanOK' /\ ChoiceMade'
  BY <1>1 DEF MergeInv, ScanOK, ChoiceMade
<1>11. HeapRange' /\ LinearOK'
  BY <1>2 DEF HeapRange, LinearOK
<1> QED BY <1>1, <1>2, <1>8, <1>9, <1>10, <1>11 DEF MergeInv

\* setUseHeap.
LEMMA SetUseHeapKeeps ==
  ASSUME MergeInv, NEW b, SetUseHeap(b)
  PROVE  MergeInv' /\ needsRebuild' /\ UNCHANGED frames
<1>1. /\ pc = "idle" /\ UNCHANGED <<frames, pos, journals, idx, pc, found, scanned>>
  BY DEF SetUseHeap
<1>2. needsRebuild'
  BY DEF SetUseHeap
<1>3. MergeTypeOK' /\ JoinedOnce'
  BY <1>1 DEF MergeInv, MergeTypeOK, JoinedOnce
<1>4. ScanOK' /\ ChoiceMade'
  BY <1>1 DEF MergeInv, ScanOK, ChoiceMade
<1>5. HeapRange' /\ LinearOK'
  BY <1>2 DEF HeapRange, LinearOK
<1> QED BY <1>1, <1>2, <1>3, <1>4, <1>5 DEF MergeInv

\* seekToTime.
LEMMA SeekAllKeeps ==
  ASSUME MergeInv, NEW t \in Times, SeekAll(t)
  PROVE  MergeInv' /\ needsRebuild' /\ UNCHANGED frames
<1>1. /\ pc = "idle" /\ UNCHANGED <<frames, journals, idx, pc, found, scanned>>
  BY DEF SeekAll
<1>2. needsRebuild'
  BY DEF SeekAll
<1>3. ASSUME NEW s \in Sources PROVE Older(s, t) \in Nat
  <2> DEFINE S == {i \in DOMAIN frames[s] : frames[s][i] < t}
  <2>1. Len(frames[s]) \in Nat /\ DOMAIN frames[s] = 1 .. Len(frames[s])
    BY DEF MergeInv, MergeTypeOK
  <2>2. IsFiniteSet(DOMAIN frames[s])
    <3>1. ASSUME NEW n \in Nat PROVE IsFiniteSet(1 .. n)
      <4>1. 1 \in Int /\ n \in Int
        OBVIOUS
      <4> QED BY <4>1, FS_Interval, Zenon
    <3>2. IsFiniteSet(1 .. Len(frames[s]))
      BY <2>1, <3>1, Zenon
    <3> QED BY <2>1, <3>2, Zenon
  <2>3. IsFiniteSet(S)
    BY <2>2, FS_Subset
  <2>4. Cardinality(S) \in Nat
    BY <2>3, FS_CardinalityType
  <2> QED BY <2>4 DEF Older
<1>4. pos' \in [Sources -> Nat]
  <2>1. PICK stay :
          pos' = [s \in Sources |->
                    IF ~Joined(s) \/ (s \in stay /\ pos[s] > Older(s, t))
                      THEN pos[s] ELSE Older(s, t)]
    BY DEF SeekAll
  <2> QED BY <1>3, <2>1 DEF MergeInv, MergeTypeOK
<1>5. MergeTypeOK' /\ JoinedOnce'
  BY <1>1, <1>4 DEF MergeInv, MergeTypeOK, JoinedOnce
<1>6. ScanOK' /\ ChoiceMade'
  BY <1>1 DEF MergeInv, ScanOK, ChoiceMade
<1>7. HeapRange' /\ LinearOK'
  BY <1>2 DEF HeapRange, LinearOK
<1> QED BY <1>1, <1>2, <1>5, <1>6, <1>7 DEF MergeInv

\* What a step that leaves journals and frames alone does not change.
LEMMA SameHeads ==
  ASSUME UNCHANGED <<frames, pos, journals>>
  PROVE  Heads' = Heads /\ \A i : (HasData(i)' <=> HasData(i)) /\ GenTime(i)' = GenTime(i)
BY DEF Heads, HasData, GenTime

\* tryCurrentFrame begins.
LEMMA TryKeeps ==
  ASSUME MergeInv, TryCurrentFrame
  PROVE  MergeInv'
<1>1. /\ pc = "idle" /\ UNCHANGED <<frames, pos, journals, idx, heap, found, scanned>>
      /\ UNCHANGED <<needsRebuild, useHeap>>
      /\ \/ pc' = "scan" /\ heads' = Heads /\ Len(journals) # 1
         \/ pc' = "check" /\ heads' = heads /\ (Len(journals) # 1 => ~needsRebuild)
  BY DEF TryCurrentFrame
<1>2. Heads' = Heads
  BY <1>1, SameHeads
<1>3. MergeTypeOK' /\ JoinedOnce'
  BY <1>1 DEF MergeInv, MergeTypeOK, JoinedOnce
<1>4. found = {} /\ scanned = 0
  BY <1>1 DEF MergeInv, ScanOK
<1>5. ASSUME NEW h \in Heads PROVE ~(h[2] <= 0)
  BY EntryOf DEF MergeInv
<1>6. ScanOK'
  BY <1>1, <1>2, <1>4, <1>5 DEF ScanOK
<1>7. ChoiceMade'
  BY <1>1 DEF ChoiceMade
<1>8. /\ (HeapInUse' <=> HeapInUse) /\ (HasData(idx)' <=> HasData(idx))
      /\ GenTime(idx)' = GenTime(idx)
  BY <1>1 DEF HeapInUse, HasData, GenTime
<1>9. LinearOK'
  BY <1>1, <1>8 DEF MergeInv, LinearOK
<1>15. HeapRange'
  BY <1>1, <1>8 DEF MergeInv, HeapRange
<1> QED BY <1>3, <1>6, <1>7, <1>9, <1>15 DEF MergeInv

\* One journal is looked at.
LEMMA ScanJournalKeeps ==
  ASSUME MergeInv, ScanJournal
  PROVE  MergeInv'
<1> DEFINE n == scanned + 1
<1>1. /\ pc = "scan" /\ pc' = "scan" /\ scanned < Len(journals) /\ scanned' = n
      /\ found' = IF HasData(n) THEN found \cup {<<GenTime(n), n>>} ELSE found
      /\ UNCHANGED <<frames, pos, journals, idx, heap, heads>>
  BY DEF ScanJournal
<1>2. Len(journals) \in Nat /\ scanned \in Nat
  BY DEF MergeInv, MergeTypeOK
<1>3. n \in 1 .. Len(journals)
  BY <1>1, <1>2
<1>4. HasData(n) => <<GenTime(n), n>> \in Heads
  BY <1>3, EntryFor DEF MergeInv
<1>5. Heads' = Heads
  BY <1>1, SameHeads
<1>6. MergeTypeOK' /\ JoinedOnce'
  BY <1>1, <1>2, <1>3 DEF MergeInv, MergeTypeOK, JoinedOnce
<1>7. ASSUME NEW h \in heads, h[2] <= n PROVE h \in found'
  <2>1. h \in Heads
    BY <1>1 DEF MergeInv, ScanOK
  <2>2. /\ h[2] \in Nat /\ HasData(h[2]) /\ h[1] = GenTime(h[2]) /\ h = <<h[1], h[2]>>
    BY <2>1, EntryOf DEF MergeInv
  <2>3. CASE h[2] = n
    BY <1>1, <2>2, <2>3
  <2>4. CASE h[2] <= scanned
    BY <1>1, <2>4 DEF MergeInv, ScanOK
  <2> QED BY <1>2, <1>7, <2>2, <2>3, <2>4
<1>8. ScanOK'
  BY <1>1, <1>4, <1>5, <1>7 DEF MergeInv, ScanOK
<1>9. ChoiceMade' /\ HeapRange' /\ LinearOK'
  BY <1>1 DEF ChoiceMade, HeapRange, LinearOK
<1> QED BY <1>6, <1>8, <1>9 DEF MergeInv

\* The choice.
LEMMA ScanEndChooses ==
  ASSUME MergeInv, ScanEnd
  PROVE  /\ pc = "scan" /\ pc' = "check" /\ ~needsRebuild' /\ found' = {} /\ scanned' = 0
         /\ UNCHANGED <<frames, pos, journals, heads>> /\ UNCHANGED useHeap
         /\ idx' \in 0 .. Len(journals)
         /\ idx' # 0 => /\ HeapInUse => heap' = SetToBag(found)
                        /\ \E e \in Oldest(found) :
                             /\ e[2] = idx' /\ HasData(e[2])
                             /\ \A h \in heads : GenTime(e[2]) <= h[1]
<1>1. /\ pc = "scan" /\ pc' = "check" /\ found' = {} /\ scanned' = 0
      /\ scanned = Len(journals) /\ UNCHANGED <<frames, pos, journals, heads>>
  BY DEF ScanEnd
<1>2. ~needsRebuild' /\ UNCHANGED useHeap
  BY DEF ScanEnd
<1>3. /\ found \subseteq Heads /\ heads \subseteq Heads
      /\ \A h \in heads : h[2] <= scanned => h \in found
  BY <1>1 DEF MergeInv, ScanOK
<1>4. ASSUME NEW h \in heads PROVE h \in found
  BY <1>1, <1>3, EntryOf DEF MergeInv
<1>5. ASSUME NEW e \in Oldest(found)
      PROVE  /\ e[2] \in 0 .. Len(journals) /\ HasData(e[2])
             /\ \A h \in heads : GenTime(e[2]) <= h[1]
  <2>1. e \in found /\ \A f \in found : e[1] <= f[1]
    BY DEF Oldest
  <2>2. e[2] \in 1 .. Len(journals) /\ HasData(e[2]) /\ e[1] = GenTime(e[2])
    BY <1>3, <2>1, EntryOf DEF MergeInv
  <2> QED BY <1>4, <2>1, <2>2
<1>6. idx' = 0 \/ \E e \in Oldest(found) : e[2] = idx'
  BY DEF ScanEnd, ChooseFromHeap, ChooseLinear
<1>7. idx' # 0 /\ HeapInUse => heap' = SetToBag(found)
  <2>1. CASE found = {}
    BY <2>1 DEF ScanEnd
  <2>2. CASE found # {}
    BY <2>2 DEF ScanEnd, ChooseFromHeap
  <2> QED BY <2>1, <2>2
<1>8. idx' \in 0 .. Len(journals)
  BY <1>5, <1>6 DEF MergeInv, MergeTypeOK
<1> QED BY <1>1, <1>2, <1>5, <1>6, <1>7, <1>8

\* The end of a scan keeps the invariant.
LEMMA ScanEndKeeps ==
  ASSUME MergeInv, ScanEnd
  PROVE  MergeInv'
<1>1. /\ pc' = "check" /\ found' = {} /\ scanned' = 0
      /\ UNCHANGED <<frames, pos, journals, heads>> /\ idx' \in 0 .. Len(journals)
  BY ScanEndChooses
<1>2. ~needsRebuild'
  BY ScanEndChooses
<1>3. Len(journals) \in Nat
  BY DEF MergeInv, MergeTypeOK
<1>4. MergeTypeOK' /\ JoinedOnce'
  BY <1>1, <1>3 DEF MergeInv, MergeTypeOK, JoinedOnce
<1>5. ScanOK' /\ ChoiceMade'
  BY <1>1, <1>2 DEF ScanOK, ChoiceMade
<1>6. ASSUME idx' # 0
      PROVE  HasData(idx)' /\ \A h \in heads' : GenTime(idx)' <= h[1]
  <2>1. PICK e \in Oldest(found) :
          e[2] = idx' /\ HasData(e[2]) /\ \A h \in heads : GenTime(e[2]) <= h[1]
    BY <1>6, ScanEndChooses
  <2> QED BY <1>1, <2>1 DEF HasData, GenTime
<1>7. LinearOK'
  BY <1>6 DEF LinearOK
<1>8. ASSUME idx' # 0, HeapInUse'
      PROVE  \A e \in BagToSet(heap') : e[2] \in 1 .. Len(journals)
  <2>1. HeapInUse
    BY <1>8, ScanEndChooses DEF HeapInUse
  <2>2. heap' = SetToBag(found)
    BY <1>8, <2>1, ScanEndChooses
  <2>3. BagToSet(heap') = found
    BY <2>2 DEF BagToSet, SetToBag
  <2>4. found \subseteq Heads
    BY ScanEndChooses DEF MergeInv, ScanOK
  <2> QED BY <2>3, <2>4, EntryOf DEF MergeInv
<1>15. HeapRange'
  BY <1>1, <1>8 DEF HeapRange
<1> QED BY <1>4, <1>5, <1>7, <1>15 DEF MergeInv

\* The rest of isDataAvailable.
LEMMA CheckKeeps ==
  ASSUME MergeInv, Check
  PROVE  MergeInv'
<1>1. /\ pc = "check" /\ pc' = IF idx # 0 /\ HasData(idx) THEN "view" ELSE "idle"
      /\ UNCHANGED <<frames, pos, journals, idx, heap, found, scanned, heads>>
  BY DEF Check
<1>2. UNCHANGED useHeap /\ (needsRebuild' <=> needsRebuild \/ (idx = 0 /\ journals # <<>>))
  BY DEF Check
<1>3. MergeTypeOK' /\ JoinedOnce'
  BY <1>1 DEF MergeInv, MergeTypeOK, JoinedOnce
<1>4. /\ (HeapInUse' <=> HeapInUse) /\ (HasData(idx)' <=> HasData(idx))
      /\ GenTime(idx)' = GenTime(idx)
  BY <1>1, <1>2 DEF HeapInUse, HasData, GenTime
<1>5. ScanOK'
  BY <1>1 DEF MergeInv, ScanOK
<1>6. ChoiceMade'
  BY <1>1, <1>2, <1>4 DEF MergeInv, ChoiceMade
<1>7. LinearOK'
  BY <1>1, <1>2, <1>4 DEF MergeInv, LinearOK
<1>15. HeapRange'
  BY <1>1, <1>2, <1>4 DEF MergeInv, HeapRange
<1> QED BY <1>3, <1>5, <1>6, <1>7, <1>15 DEF MergeInv

\* The caller does not advance.
LEMMA LeaveKeeps ==
  ASSUME MergeInv, Leave
  PROVE  MergeInv'
<1>1. /\ pc = "view" /\ pc' = "idle"
      /\ UNCHANGED <<frames, pos, journals, idx, heap, found, scanned, heads>>
  BY DEF Leave
<1>2. UNCHANGED <<needsRebuild, useHeap>>
  BY DEF Leave
<1>3. MergeTypeOK' /\ JoinedOnce'
  BY <1>1 DEF MergeInv, MergeTypeOK, JoinedOnce
<1>4. /\ (HeapInUse' <=> HeapInUse) /\ (HasData(idx)' <=> HasData(idx))
      /\ GenTime(idx)' = GenTime(idx)
  BY <1>1, <1>2 DEF HeapInUse, HasData, GenTime
<1>5. ScanOK' /\ ChoiceMade'
  BY <1>1 DEF MergeInv, ScanOK, ChoiceMade
<1>6. LinearOK'
  BY <1>1, <1>2, <1>4 DEF MergeInv, LinearOK
<1>15. HeapRange'
  BY <1>1, <1>2, <1>4 DEF MergeInv, HeapRange
<1> QED BY <1>3, <1>5, <1>6, <1>15 DEF MergeInv

\* A heap of some entries, each once: the top leaves it, an entry joins it.
LEMMA HeapPop ==
  ASSUME NEW E, NEW e \in E
  PROVE  SetToBag(E) (-) SetToBag({e}) = SetToBag(E \ {e})
BY DEF SetToBag, (-)

\* Pushing an entry the heap does not have.
LEMMA HeapPush ==
  ASSUME NEW E, NEW R, E \cap R = {}
  PROVE  SetToBag(E) (+) SetToBag(R) = SetToBag(E \cup R)
BY DEF SetToBag, (+)

\* The entries of a heap without repetition.
LEMMA HeapEntries ==
  ASSUME NEW E
  PROVE  BagToSet(SetToBag(E)) = E /\ (SetToBag(E) = EmptyBag <=> E = {})
<1>1. BagToSet(SetToBag(E)) = E
  BY DEF SetToBag, BagToSet
<1>2. SetToBag(E) = EmptyBag <=> E = {}
  BY DEF SetToBag, EmptyBag
<1> QED BY <1>1, <1>2

\* Nothing else enters.
LEMMA HeapBounded ==
  ASSUME NEW B, NEW C, NEW D
  PROVE  BagToSet((B (-) C) (+) D) \subseteq BagToSet(B) \cup BagToSet(D)
BY DEF BagToSet, (+), (-)

\* updateHeap, with the heap as it is when a frame is shown.
LEMMA UpdateIs ==
  ASSUME MergeTypeOK, updateHeap, pc = "view", idx # 0
  PROVE  \/ needsRebuild' /\ (idx' = 0 \/ idx' = idx)
         \/ /\ needsRebuild' = needsRebuild
            /\ \E top \in Oldest(BagToSet(heap)) :
                 heap' = (heap (-) SetToBag({top})) (+) Refill
            /\ \E e \in Oldest(BagToSet(heap')) : idx' = e[2]
BY DEF updateHeap

\* The frame is passed.
LEMMA AdvanceIs ==
  ASSUME MergeInv, Advance
  PROVE  /\ pc = "view" /\ pc' = "idle" /\ UNCHANGED <<frames, journals, found, scanned>>
         /\ UNCHANGED useHeap
         /\ idx \in 1 .. Len(journals) /\ HasData(idx)
         /\ pos' = [pos EXCEPT ![journals[idx]] = @ + 1]
         /\ pos' \in [Sources -> Nat]
         /\ \/ Len(journals) = 1 /\ idx' = idx
            \/ Len(journals) > 1 /\ HeapInUse /\ ~needsRebuild /\ updateHeap
            \/ Len(journals) > 1 /\ ~HeapInUse /\ needsRebuild' /\ idx' = idx
<1>1. /\ pc = "view" /\ pc' = "idle" /\ UNCHANGED <<frames, journals, found, scanned>>
      /\ pos' = [pos EXCEPT ![journals[idx]] = @ + 1]
  BY DEF Advance
<1>2. UNCHANGED useHeap
  BY DEF Advance
<1>3. idx # 0 /\ HasData(idx) /\ (Len(journals) # 1 => ~needsRebuild)
  BY <1>1 DEF MergeInv, ChoiceMade
<1>4. idx \in 1 .. Len(journals) /\ Len(journals) \in Nat
  BY <1>3 DEF MergeInv, MergeTypeOK
<1>5. pos' \in [Sources -> Nat]
  <2>1. journals[idx] \in Sources
    BY <1>4, FramesAt DEF MergeInv
  <2> QED BY <1>1, <2>1 DEF MergeInv, MergeTypeOK
<1>6. ASSUME NEW n \in Nat, n > 1 PROVE n # 1
  BY <1>6
<1>7. \/ Len(journals) = 1 /\ idx' = idx
      \/ Len(journals) > 1 /\ HeapInUse /\ updateHeap
      \/ Len(journals) > 1 /\ ~HeapInUse /\ needsRebuild' /\ idx' = idx
  BY Zenon DEF Advance
<1>8. Len(journals) > 1 => ~needsRebuild
  BY <1>3, <1>4, <1>6
<1> QED BY <1>1, <1>2, <1>3, <1>4, <1>5, <1>7, <1>8

\* advance, with its pop of the top and its push of the next frame, keeps the
\* invariant.
LEMMA AdvanceKeeps ==
  ASSUME MergeInv, Advance
  PROVE  MergeInv'
<1>1. /\ pc = "view" /\ pc' = "idle" /\ UNCHANGED <<frames, journals, found, scanned>>
      /\ idx \in 1 .. Len(journals) /\ pos' \in [Sources -> Nat]
  BY AdvanceIs
<1>2. UNCHANGED useHeap
  BY AdvanceIs
<1>3. Len(journals) \in Nat
  BY DEF MergeInv, MergeTypeOK
<1>4. HeapInUse' <=> HeapInUse
  BY <1>1, <1>2 DEF HeapInUse
<1>5. ScanOK' /\ ChoiceMade' /\ JoinedOnce'
  BY <1>1 DEF MergeInv, ScanOK, ChoiceMade, JoinedOnce
<1>6. ASSUME idx' \in 0 .. Len(journals) PROVE MergeTypeOK'
  BY <1>1, <1>6 DEF MergeInv, MergeTypeOK
<1>7. CASE Len(journals) = 1 /\ idx' = idx
  <2>1. ~HeapInUse'
    BY <1>1, <1>7, TimesAreNat DEF HeapInUse
  <2>2. MergeTypeOK'
    BY <1>1, <1>3, <1>6, <1>7
  <2>3. HeapRange' /\ LinearOK'
    BY <1>1, <1>7, <2>1 DEF HeapRange, LinearOK
  <2> QED BY <1>5, <2>2, <2>3 DEF MergeInv
<1>8. CASE ~HeapInUse /\ needsRebuild' /\ idx' = idx
  <2>1. MergeTypeOK'
    BY <1>1, <1>3, <1>6, <1>8
  <2>2. HeapRange' /\ LinearOK'
    BY <1>8 DEF HeapRange, LinearOK
  <2> QED BY <1>5, <2>1, <2>2 DEF MergeInv
<1>9. CASE HeapInUse /\ ~needsRebuild /\ updateHeap
  <2>1. LinearOK'
    BY <1>4, <1>9 DEF LinearOK
  <2>2. idx # 0
    BY <1>1, <1>3
  <2>3. CASE needsRebuild' /\ (idx' = 0 \/ idx' = idx)
    <3>1. MergeTypeOK'
      BY <1>1, <1>3, <1>6, <2>3
    <3>2. HeapRange'
      BY <2>3 DEF HeapRange
    <3> QED BY <1>5, <2>1, <3>1, <3>2 DEF MergeInv
  <2>4. CASE /\ \E top \in Oldest(BagToSet(heap)) :
                  heap' = (heap (-) SetToBag({top})) (+) Refill
             /\ \E e \in Oldest(BagToSet(heap')) : idx' = e[2]
    <3>1. BagToSet(heap') \subseteq BagToSet(heap) \cup BagToSet(Refill)
      BY <2>4, HeapBounded
    <3>2. \A e \in BagToSet(heap) : e[2] \in 1 .. Len(journals)
      BY <1>1, <1>9, <2>2 DEF MergeInv, HeapRange
    <3>3. \A e \in BagToSet(Refill) : e[2] = idx
      <4> DEFINE s == journals[idx]
                 R == {<<frames[s][n], idx>> : n \in DOMAIN frames[s] \cap {pos[s] + 2}}
      <4>1. BagToSet(Refill) = R
        BY HeapEntries DEF Refill
      <4>2. \A e \in R : e[2] = idx
        OBVIOUS
      <4> QED BY <4>1, <4>2
    <3>4. \A e \in BagToSet(heap') : e[2] \in 1 .. Len(journals)
      BY <1>1, <3>1, <3>2, <3>3
    <3>5. idx' \in 0 .. Len(journals)
      <4>1. PICK e \in Oldest(BagToSet(heap')) : idx' = e[2]
        BY <2>4
      <4>2. e \in BagToSet(heap')
        BY DEF Oldest
      <4>3. e[2] \in 1 .. Len(journals)
        BY <3>4, <4>2
      <4> QED BY <1>3, <4>1, <4>3
    <3>6. MergeTypeOK'
      BY <1>6, <3>5
    <3>7. HeapRange'
      BY <1>1, <3>4 DEF HeapRange
    <3> QED BY <1>5, <2>1, <3>6, <3>7 DEF MergeInv
  <2> QED BY <1>1, <1>9, <2>2, <2>3, <2>4, UpdateIs DEF MergeInv
<1> QED BY <1>7, <1>8, <1>9, AdvanceIs

\* The invariant of the scan is inductive.
LEMMA MergeNext ==
  ASSUME MergeInv, [Next]_vars
  PROVE  MergeInv'
<1>1. ASSUME NEW s \in Sources, Commit(s) PROVE MergeInv'
  BY <1>1, CommitAppends, AppendKeeps DEF MergeInv
<1>2. ASSUME NEW s \in Sources, Join(s) \/ Disjoin(s) PROVE MergeInv'
  BY <1>2, JoinKeeps, DisjoinKeeps
<1>3. ASSUME NEW b \in HeapSettings, SetUseHeap(b) PROVE MergeInv'
  BY <1>3, SetUseHeapKeeps
<1>4. ASSUME NEW t \in Times, SeekAll(t) PROVE MergeInv'
  BY <1>4, SeekAllKeeps
<1>5. CASE ReaderStep
  BY <1>5, TryKeeps, ScanJournalKeeps, ScanEndKeeps, CheckKeeps DEF ReaderStep
<1>6. CASE Leave \/ Advance
  BY <1>6, LeaveKeeps, AdvanceKeeps
<1>7. CASE UNCHANGED vars
  <2>1. UNCHANGED frames /\ UNCHANGED readerVars
    BY <1>7 DEF vars
  <2>2. MergeTypeOK'
    BY <2>1 DEF MergeInv, MergeTypeOK, readerVars
  <2>3. \A s \in Sources : /\ Len(frames[s]) <= Len(frames'[s])
                           /\ \A i \in 1 .. Len(frames[s]) : frames'[s][i] = frames[s][i]
    BY <2>1 DEF MergeInv, MergeTypeOK
  <2> QED BY <2>1, <2>2, <2>3, AppendKeeps
<1> QED BY <1>1, <1>2, <1>3, <1>4, <1>5, <1>6, <1>7 DEF Next

-----------------------------------------------------------------------------
(* The heap. *)

\* A new frame has a new time.
LEMMA CommitDiffers ==
  ASSUME ~EqualTimes, MergeTypeOK, TimesDiffer, NEW s \in Sources, Commit(s)
  PROVE  TimesDiffer'
<1>1. PICK t \in Times :
        /\ EqualTimes \/ \A r \in Sources : t \notin ToSet(frames[r])
        /\ frames' = [frames EXCEPT ![s] = Append(@, t)]
  BY DEF Commit
<1>2. \A r \in Sources : frames[r] \in Seq(Times) /\ Len(frames[r]) \in Nat
  BY DEF MergeTypeOK
<1>3. ASSUME NEW r \in Sources, NEW i \in 1 .. Len(frames[r]) PROVE frames[r][i] # t
  <2>1. i \in DOMAIN frames[r]
    BY <1>2
  <2>2. t \notin ToSet(frames[r])
    BY <1>1
  <2> QED BY <2>1, <2>2 DEF ToSet
<1>4. ASSUME NEW r \in Sources, NEW i \in 1 .. Len(frames'[r])
      PROVE  \/ i \in 1 .. Len(frames[r]) /\ frames'[r][i] = frames[r][i]
             \/ r = s /\ i = Len(frames[s]) + 1 /\ frames'[r][i] = t
  <2>1. CASE r = s
    <3>1. frames'[r] = Append(frames[r], t)
      BY <1>1, <2>1 DEF MergeTypeOK
    <3>2. frames[r] \in Seq(Times) /\ Len(frames[r]) \in Nat
      BY <1>2
    <3> QED BY <2>1, <3>1, <3>2
  <2>2. CASE r # s
    <3>1. frames'[r] = frames[r]
      BY <1>1, <2>2 DEF MergeTypeOK
    <3> QED BY <3>1
  <2> QED BY <2>1, <2>2
<1>5. ASSUME NEW r \in Sources, NEW q \in Sources,
             NEW i \in 1 .. Len(frames'[r]), NEW j \in 1 .. Len(frames'[q]),
             frames'[r][i] = frames'[q][j]
      PROVE  r = q /\ i = j
  <2>1. \/ i \in 1 .. Len(frames[r]) /\ frames'[r][i] = frames[r][i]
        \/ r = s /\ i = Len(frames[s]) + 1 /\ frames'[r][i] = t
    BY <1>4
  <2>2. \/ j \in 1 .. Len(frames[q]) /\ frames'[q][j] = frames[q][j]
        \/ q = s /\ j = Len(frames[s]) + 1 /\ frames'[q][j] = t
    BY <1>4
  <2> QED BY <1>3, <1>5, <2>1, <2>2 DEF TimesDiffer
<1> QED BY <1>5 DEF TimesDiffer

\* An entry is told by its journal, and by its time.
LEMMA EntriesDiffer ==
  ASSUME MergeTypeOK, JoinedOnce, TimesDiffer, NEW e \in Heads, NEW f \in Heads,
         e[1] = f[1] \/ e[2] = f[2]
  PROVE  e = f
<1>1. /\ e[2] \in 1 .. Len(journals) /\ HasData(e[2]) /\ e[1] = GenTime(e[2])
      /\ e = <<e[1], e[2]>>
  BY EntryOf
<1>2. /\ f[2] \in 1 .. Len(journals) /\ HasData(f[2]) /\ f[1] = GenTime(f[2])
      /\ f = <<f[1], f[2]>>
  BY EntryOf
<1>3. CASE e[2] = f[2]
  BY <1>1, <1>2, <1>3
<1>4. CASE e[1] = f[1]
  <2>1. journals[e[2]] = journals[f[2]]
    <3>1. /\ journals[e[2]] \in Sources
          /\ pos[journals[e[2]]] + 1 \in 1 .. Len(frames[journals[e[2]]])
      BY <1>1, FramesAt
    <3>2. /\ journals[f[2]] \in Sources
          /\ pos[journals[f[2]]] + 1 \in 1 .. Len(frames[journals[f[2]]])
      BY <1>2, FramesAt
    <3>3. GenTime(e[2]) = GenTime(f[2])
      BY <1>1, <1>2, <1>4
    <3>4. frames[journals[e[2]]][pos[journals[e[2]]] + 1]
            = frames[journals[f[2]]][pos[journals[f[2]]] + 1]
      BY <3>3 DEF GenTime
    <3> QED BY SMTT(30), <3>1, <3>2, <3>4 DEF TimesDiffer
  <2>2. e[2] = f[2]
    BY <1>1, <1>2, <2>1 DEF JoinedOnce
  <2> QED BY <1>3, <2>2
<1> QED BY <1>3, <1>4

\* Only the current journal moves: the other entries stay, and its following
\* frame becomes one.
LEMMA AdvanceEntries ==
  ASSUME MergeInv, Advance, NEW e
  PROVE  /\ e \in Heads /\ e[2] # idx => e \in Heads'
         /\ \A n \in DOMAIN frames[journals[idx]] \cap {pos[journals[idx]] + 2} :
              <<frames[journals[idx]][n], idx>> \in Heads'
<1> DEFINE s == journals[idx]
<1>1. /\ idx \in 1 .. Len(journals) /\ UNCHANGED <<frames, journals>>
      /\ pos' = [pos EXCEPT ![s] = @ + 1]
  BY AdvanceIs
<1>2. s \in Sources /\ pos[s] \in Nat /\ Len(frames[s]) \in Nat
  BY <1>1, FramesAt DEF MergeInv
<1>3. DOMAIN journals = 1 .. Len(journals) /\ DOMAIN frames[s] = 1 .. Len(frames[s])
  BY <1>2 DEF MergeInv, MergeTypeOK
<1>4. pos'[s] = pos[s] + 1 /\ \A r \in Sources \ {s} : pos'[r] = pos[r]
  BY <1>1, <1>2 DEF MergeInv, MergeTypeOK
<1>5. ASSUME e \in Heads, e[2] # idx PROVE e \in Heads'
  <2>1. /\ e[2] \in 1 .. Len(journals) /\ HasData(e[2]) /\ e[1] = GenTime(e[2])
        /\ e = <<e[1], e[2]>>
    BY <1>5, EntryOf DEF MergeInv
  <2>2. PICK k \in 1 .. Len(journals) : k = e[2]
    BY <2>1
  <2>3. journals[k] \in Sources \ {s}
    BY <1>1, <1>5, <2>2, FramesAt DEF MergeInv, JoinedOnce
  <2>4. pos'[journals[k]] = pos[journals[k]]
    BY <1>4, <2>3
  <2>5. HasData(k)' /\ e = <<GenTime(k)', k>>
    BY <1>1, <2>1, <2>2, <2>4 DEF HasData, GenTime
  <2> QED BY <1>1, <1>3, <2>5 DEF Heads
<1>6. ASSUME NEW n \in DOMAIN frames[s] \cap {pos[s] + 2}
      PROVE  <<frames[s][n], idx>> \in Heads'
  <2>1. n = pos[s] + 2 /\ n <= Len(frames[s])
    BY <1>2, <1>3
  <2>2. PICK k \in 1 .. Len(journals) : k = idx
    BY <1>1
  <2>3. journals'[k] = s /\ frames' = frames
    BY <1>1, <2>2
  <2>4. pos'[s] < Len(frames[s]) /\ pos'[s] + 1 = n
    BY <1>2, <1>4, <2>1
  <2>5. HasData(k)' /\ GenTime(k)' = frames[s][n]
    BY <2>3, <2>4 DEF HasData, GenTime
  <2>6. k \in DOMAIN journals'
    BY <1>1, <1>3
  <2>7. <<GenTime(k)', k>> \in Heads'
    BY <2>5, <2>6 DEF Heads
  <2> QED BY <2>2, <2>5, <2>7
<1> QED BY <1>5, <1>6

\* updateHeap takes the entry of the frame just passed from the heap, not another.
LEMMA AdvanceHeap ==
  ASSUME HeapInv, Advance
  PROVE  HeapOK'
<1>1. /\ pc = "view" /\ pc' = "idle" /\ UNCHANGED journals /\ idx \in 1 .. Len(journals)
  BY AdvanceIs DEF HeapInv
<1>2. UNCHANGED useHeap
  BY AdvanceIs DEF HeapInv
<1>3. HeapInUse' <=> HeapInUse
  BY <1>1, <1>2 DEF HeapInUse
<1>4. Len(journals) \in Nat /\ idx # 0
  BY <1>1 DEF HeapInv, MergeInv, MergeTypeOK
<1>5. CASE Len(journals) = 1
  <2>1. ~HeapInUse'
    BY <1>1, <1>5, TimesAreNat DEF HeapInUse
  <2> QED BY <2>1 DEF HeapOK
<1>6. CASE ~HeapInUse
  BY <1>3, <1>6 DEF HeapOK
<1>7. CASE HeapInUse /\ ~needsRebuild /\ updateHeap
  <2>1. CASE needsRebuild'
    BY <2>1 DEF HeapOK
  <2>2. CASE /\ \E top \in Oldest(BagToSet(heap)) :
                  heap' = (heap (-) SetToBag({top})) (+) Refill
             /\ \E e \in Oldest(BagToSet(heap')) : idx' = e[2]
    <3> DEFINE E == BagToSet(heap)
               s == journals[idx]
               R == {<<frames[s][n], idx>> : n \in DOMAIN frames[s] \cap {pos[s] + 2}}
    <3>1. heap = SetToBag(E) /\ E \subseteq Heads /\ \E e \in Oldest(E) : e[2] = idx
      BY <1>1, <1>4, <1>7 DEF HeapInv, HeapOK
    <3>2. PICK top \in Oldest(E) : heap' = (heap (-) SetToBag({top})) (+) SetToBag(R)
      BY <2>2 DEF Refill
    <3>3. PICK e \in Oldest(E) : e[2] = idx
      BY <3>1
    <3> HIDE DEF E, R
    <3>4. top \in E /\ e \in E /\ top[1] <= e[1] /\ e[1] <= top[1]
      BY DEF Oldest
    <3>5. top[1] \in Nat /\ e[1] \in Nat
      BY <3>1, <3>4, EntryOf DEF HeapInv, MergeInv
    <3>6. top = e
      <4>1. top[1] = e[1]
        BY <3>4, <3>5
      <4> QED BY <3>1, <3>4, <4>1, EntriesDiffer DEF HeapInv, MergeInv
    <3>7. \A f \in E \ {top} : f[2] # idx
      BY <3>1, <3>3, <3>4, <3>6, EntriesDiffer DEF HeapInv, MergeInv
    <3>8. \A f \in R : f[2] = idx
      BY DEF R
    <3>9. (E \ {top}) \cap R = {}
      BY <3>7, <3>8
    <3>10. heap' = SetToBag((E \ {top}) \cup R)
      <4>1. SetToBag(E) (-) SetToBag({top}) = SetToBag(E \ {top})
        BY <3>4, HeapPop
      <4>2. SetToBag(E \ {top}) (+) SetToBag(R) = SetToBag((E \ {top}) \cup R)
        BY <3>9, HeapPush
      <4> QED BY <3>1, <3>2, <4>1, <4>2
    <3>11. BagToSet(heap') = (E \ {top}) \cup R
      BY <3>10, HeapEntries
    <3>12. (E \ {top}) \cup R \subseteq Heads'
      <4>1. E \ {top} \subseteq Heads'
        BY <3>1, <3>7, AdvanceEntries DEF HeapInv
      <4>2. R \subseteq Heads'
        BY AdvanceEntries DEF HeapInv, R
      <4> QED BY <4>1, <4>2
    <3>13. \E f \in Oldest(BagToSet(heap')) : f[2] = idx'
      BY <2>2
    <3>14. Oldest(BagToSet(heap'))  = Oldest(BagToSet(heap))'
      BY DEF Oldest
    <3> QED BY <3>10, <3>11, <3>12, <3>13, <3>14 DEF HeapOK
  <2> QED BY <1>1, <1>4, <1>7, <2>1, <2>2, UpdateIs DEF HeapInv, MergeInv
<1> QED BY <1>5, <1>6, <1>7, AdvanceIs DEF HeapInv

\* The invariant of the heap is inductive, when times differ.
LEMMA HeapNext ==
  ASSUME ~EqualTimes, HeapInv, [Next]_vars
  PROVE  HeapInv'
<1>1. MergeInv'
  BY MergeNext DEF HeapInv
<1>2. ASSUME UNCHANGED frames PROVE TimesDiffer'
  BY <1>2 DEF HeapInv, TimesDiffer
<1>3. ASSUME MergeTypeOK', UNCHANGED readerVars,
             \A s \in Sources : /\ Len(frames[s]) <= Len(frames'[s])
                                /\ \A i \in 1 .. Len(frames[s]) : frames'[s][i] = frames[s][i]
      PROVE  HeapOK'
  <2>1. UNCHANGED <<pos, journals, idx, heap, pc>> /\ UNCHANGED <<needsRebuild, useHeap>>
    BY <1>3 DEF readerVars
  <2>2. Heads \subseteq Heads'
    BY <1>3, <2>1, EntriesStay DEF HeapInv, MergeInv
  <2>3. HeapInUse' <=> HeapInUse
    BY <2>1 DEF HeapInUse
  <2> QED BY <2>1, <2>2, <2>3 DEF HeapInv, HeapOK, Oldest
<1>4. ASSUME NEW s \in Sources, Commit(s) PROVE HeapInv'
  <2>1. TimesDiffer'
    BY <1>4, CommitDiffers DEF HeapInv, MergeInv
  <2>2. HeapOK'
    BY <1>3, <1>4, CommitAppends DEF HeapInv, MergeInv
  <2> QED BY <1>1, <2>1, <2>2 DEF HeapInv
<1>5. ASSUME needsRebuild', UNCHANGED frames PROVE HeapInv'
  BY <1>1, <1>2, <1>5 DEF HeapInv, HeapOK
<1>6. ASSUME NEW s \in Sources, Join(s) \/ Disjoin(s) PROVE HeapInv'
  BY <1>5, <1>6, JoinKeeps, DisjoinKeeps DEF HeapInv
<1>7. ASSUME NEW b \in HeapSettings, SetUseHeap(b) PROVE HeapInv'
  BY <1>5, <1>7, SetUseHeapKeeps DEF HeapInv
<1>8. ASSUME NEW t \in Times, SeekAll(t) PROVE HeapInv'
  BY <1>5, <1>8, SeekAllKeeps DEF HeapInv
<1>9. ASSUME UNCHANGED <<frames, pos, journals, idx, heap>>, UNCHANGED useHeap,
             pc # "scan", ~needsRebuild' /\ pc' # "scan" => ~needsRebuild
      PROVE  HeapInv'
  <2>1. Heads' = Heads /\ (HeapInUse' <=> HeapInUse)
    BY <1>9, SameHeads DEF HeapInUse
  <2>2. HeapOK'
    BY <1>9, <2>1 DEF HeapInv, HeapOK, Oldest
  <2> QED BY <1>1, <1>2, <1>9, <2>2 DEF HeapInv
<1>10. CASE TryCurrentFrame
  BY <1>9, <1>10 DEF TryCurrentFrame
<1>11. CASE ScanJournal
  <2>1. pc' = "scan" /\ UNCHANGED frames
    BY <1>11 DEF ScanJournal
  <2> QED BY <1>1, <1>2, <2>1 DEF HeapInv, HeapOK
<1>12. CASE ScanEnd
  <2>1. UNCHANGED <<frames, pos, journals>> /\ pc = "scan"
    BY <1>12, ScanEndChooses DEF HeapInv
  <2>2. ASSUME HeapInUse', idx' # 0
        PROVE  /\ heap' = SetToBag(found) /\ BagToSet(heap') = found
               /\ found \subseteq Heads' /\ \E e \in Oldest(found) : e[2] = idx'
    <3>1. HeapInUse
      BY <1>12, <2>2, ScanEndChooses DEF HeapInUse, HeapInv
    <3>2. heap' = SetToBag(found) /\ \E e \in Oldest(found) : e[2] = idx'
      BY <1>12, <2>2, <3>1, ScanEndChooses DEF HeapInv
    <3>3. found \subseteq Heads /\ Heads' = Heads
      BY <2>1, SameHeads DEF HeapInv, MergeInv, ScanOK
    <3> QED BY <3>2, <3>3, HeapEntries
  <2>3. HeapOK'
    BY <2>2 DEF HeapOK, Oldest
  <2> QED BY <1>1, <1>2, <2>1, <2>3 DEF HeapInv
<1>13. CASE Check
  BY <1>9, <1>13 DEF Check
<1>14. CASE Leave
  BY <1>9, <1>14 DEF Leave
<1>15. CASE Advance
  <2>1. UNCHANGED frames
    BY <1>15 DEF Advance
  <2> QED BY <1>1, <1>2, <1>15, <2>1, AdvanceHeap DEF HeapInv
<1>16. CASE UNCHANGED vars
  <2>1. UNCHANGED frames /\ UNCHANGED readerVars
    BY <1>16 DEF vars
  <2>2. \A s \in Sources : /\ Len(frames[s]) <= Len(frames'[s])
                           /\ \A i \in 1 .. Len(frames[s]) : frames'[s][i] = frames[s][i]
    BY <2>1 DEF HeapInv, MergeInv, MergeTypeOK
  <2>3. HeapOK'
    BY <1>1, <1>3, <2>1, <2>2 DEF MergeInv
  <2> QED BY <1>1, <1>2, <2>1, <2>3 DEF HeapInv
<1> QED BY <1>4, <1>6, <1>7, <1>8, <1>10, <1>11, <1>12, <1>13, <1>14, <1>15, <1>16
        DEF Next, ReaderStep

-----------------------------------------------------------------------------
(* The results. *)

\* findMinimumLinear hands out a frame as old as any that was there when the scan
\* began, for any number of journals and although frames, older ones too, arrive
\* while it looks at one journal after the other.
THEOREM ScanIsOldestFirst == Spec => []ScanOldestFirst
<1>1. Init => MergeInv
  BY MergeInit
<1>2. MergeInv /\ [Next]_vars => MergeInv'
  BY MergeNext
<1>3. MergeInv => ScanOldestFirst
  <2> SUFFICES ASSUME MergeInv, pc = "view", Len(journals) > 1, ~HeapInUse
               PROVE  \A h \in heads : GenTime(idx) <= h[1]
    BY DEF ScanOldestFirst
  <2>1. Len(journals) # 1
    <3>1. Len(journals) \in Nat
      BY DEF MergeInv, MergeTypeOK
    <3>2. ASSUME NEW n \in Nat, n > 1 PROVE n # 1
      BY <3>2
    <3> QED BY <3>1, <3>2
  <2>2. ~needsRebuild /\ idx # 0
    BY <2>1 DEF MergeInv, ChoiceMade
  <2> QED BY <2>2 DEF MergeInv, LinearOK
<1> QED BY <1>1, <1>2, <1>3, PTL DEF Spec

\* When no two frames have the same gen_time, the entries of the heap are the
\* frames their journals are at, whatever updateHeap has popped and pushed, and
\* the current journal's is the oldest of them.
THEOREM HeapIsInStep ==
  ASSUME ~EqualTimes
  PROVE  Spec => []HeapTracksFrames
<1>1. Init => HeapInv
  BY MergeInit DEF Init, HeapInv, TimesDiffer, HeapOK
<1>2. HeapInv /\ [Next]_vars => HeapInv'
  BY HeapNext
<1>3. HeapInv => HeapTracksFrames
  <2> SUFFICES ASSUME HeapInv, HeapInUse, ~needsRebuild, pc # "scan", idx # 0
               PROVE  /\ \A e \in BagToSet(heap) : HasData(e[2]) /\ GenTime(e[2]) = e[1]
                      /\ idx \in {e[2] : e \in Oldest(BagToSet(heap))}
    BY DEF HeapTracksFrames
  <2>1. BagToSet(heap) \subseteq Heads /\ \E e \in Oldest(BagToSet(heap)) : e[2] = idx
    BY DEF HeapInv, HeapOK
  <2>2. \A e \in BagToSet(heap) : HasData(e[2]) /\ GenTime(e[2]) = e[1]
    BY <2>1, EntryOf DEF HeapInv, MergeInv
  <2> QED BY <2>1, <2>2
<1> QED BY <1>1, <1>2, <1>3, PTL DEF Spec
=============================================================================
