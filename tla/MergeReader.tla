---------------------------- MODULE MergeReader ----------------------------
(***************************************************************************)
(* JournalReader over several journals: the frames of all of them, oldest  *)
(* gen_time first.  Up to LinearLimit journals it scans for the minimum    *)
(* before every frame; beyond that it keeps a heap of (gen_time, index).   *)
(*                                                                         *)
(* A journal is the sequence of its frames' gen_times; the writers append  *)
(* while the reader scans.  How a Journal finds its next frame is the      *)
(* subject of JournalReader.                                               *)
(***************************************************************************)
EXTENDS Naturals, Sequences, FiniteSets, Bags, SequencesExt

CONSTANTS
  Sources,      \* the journals there are, one per location
  LinearLimit,  \* 3 in the code: more journals use the heap
  HeapSettings, \* the arguments of setUseHeap; TRUE to begin with
  EqualTimes,   \* whether frames of two journals may have the same gen_time
  Times,        \* bound: the gen_times
  MaxFrames,    \* bound: frames of a journal
  MaxCalls      \* bound: calls of join and seekToTime

ASSUME MergeAssumption ==
  /\ LinearLimit \in Nat \ {0} /\ HeapSettings \subseteq BOOLEAN
  /\ EqualTimes \in BOOLEAN
  /\ Times \subseteq Nat /\ IsFiniteSet(Times) /\ MaxFrames \in Nat
  /\ MaxCalls \in Nat

VARIABLES
  frames,       \* source -> gen_times of its committed frames
  calls,        \* calls of join and seekToTime so far, for the bound
  pos,          \* source -> how many of them its Journal has passed
  journals,     \* journals_
  idx,          \* current_journal_idx_, 0 for none
  needsRebuild, useHeap,
  heap,         \* heap_, a bag of <<gen_time, index>>
  pc,           \* what the reader does next
  found,        \* rebuildHeap: the entries collected so far
  scanned,      \* and how many journals were looked at
  heads         \* history: the frames there when the current one was chosen

readerVars == <<calls, pos, journals, idx, needsRebuild, useHeap, heap, pc,
                found, scanned, heads>>
vars == <<frames, readerVars>>

Init ==
  /\ frames = [s \in Sources |-> <<>>] /\ pos = [s \in Sources |-> 0]
  /\ calls = 0 /\ journals = <<>> /\ idx = 0
  /\ needsRebuild = TRUE /\ useHeap = TRUE
  /\ heap = EmptyBag
  /\ pc = "idle" /\ found = {} /\ scanned = 0 /\ heads = {}

-----------------------------------------------------------------------------
Joined(s) == s \in ToSet(journals)

\* Frame::hasData and getGenTime of the frame the i-th journal is at.
HasData(i) == pos[journals[i]] < Len(frames[journals[i]])
GenTime(i) == frames[journals[i]][pos[journals[i]] + 1]

\* What all the journals offer now.
Heads == {<<GenTime(i), i>> : i \in {k \in DOMAIN journals : HasData(k)}}

Oldest(entries) == {e \in entries : \A f \in entries : e[1] <= f[1]}

HeapInUse == useHeap /\ Len(journals) > LinearLimit

\* A writer commits a frame; its own gen_times do not fall.
Commit(s) ==
  /\ Len(frames[s]) < MaxFrames
  /\ \E t \in Times :
       /\ \A u \in ToSet(frames[s]) : u <= t
       /\ EqualTimes \/ \A r \in Sources : t \notin ToSet(frames[r])
       /\ frames' = [frames EXCEPT ![s] = Append(@, t)]
  /\ UNCHANGED readerVars

-----------------------------------------------------------------------------
(* join, disjoin, setUseHeap, seekToTime. *)

\* refreshSingleJournal
CurrentAfter(js, i) == IF Len(js) = 1 THEN 1 ELSE i

\* A slip: the heap is not rebuilt.
JoinQuietly(s) ==
  /\ pc = "idle" /\ ~Joined(s) /\ calls < MaxCalls
  /\ calls' = calls + 1
  /\ journals' = Append(journals, s)
  /\ pos' = [pos EXCEPT ![s] = 0]
  /\ idx' = CurrentAfter(journals', idx)
  /\ UNCHANGED <<frames, needsRebuild, useHeap, heap, pc, found, scanned, heads>>

\* join with from_time 0; a journal that is joined already is refused.
Join(s) ==
  /\ pc = "idle" /\ ~Joined(s) /\ calls < MaxCalls
  /\ calls' = calls + 1
  /\ journals' = Append(journals, s)
  /\ pos' = [pos EXCEPT ![s] = 0]
  /\ idx' = CurrentAfter(journals', idx)
  /\ needsRebuild' = TRUE /\ heads' = {}
  /\ UNCHANGED <<frames, useHeap, heap, pc, found, scanned>>

Disjoin(s) ==
  /\ pc = "idle"
  /\ \E i \in DOMAIN journals : journals[i] = s /\ journals' = RemoveAt(journals, i)
  /\ idx' = CurrentAfter(journals', 0)
  /\ needsRebuild' = TRUE /\ heads' = {}
  /\ UNCHANGED <<frames, calls, pos, useHeap, heap, pc, found, scanned>>

SetUseHeap(b) ==
  /\ pc = "idle"
  /\ useHeap' = b /\ needsRebuild' = TRUE /\ heads' = {}
  /\ UNCHANGED <<frames, calls, pos, journals, idx, heap, pc, found, scanned>>

\* How many frames of a journal are older than t.
Older(s, t) == Cardinality({i \in DOMAIN frames[s] : frames[s][i] < t})

\* seekToTime in every journal; one that is past the time already goes back,
\* or stays when it would have to go back on its page (SeekToTime).
SeekAll(t) ==
  /\ pc = "idle" /\ calls < MaxCalls
  /\ calls' = calls + 1
  /\ \E stay \in SUBSET ToSet(journals) :
       pos' = [s \in Sources |->
                 IF ~Joined(s) \/ (s \in stay /\ pos[s] > Older(s, t))
                   THEN pos[s] ELSE Older(s, t)]
  /\ needsRebuild' = TRUE /\ heads' = {}
  /\ UNCHANGED <<frames, journals, idx, useHeap, heap, pc, found, scanned>>

-----------------------------------------------------------------------------
(* tryCurrentFrame. *)

\* One journal needs no search; otherwise rebuildHeap when it is due.
TryCurrentFrame ==
  /\ pc = "idle"
  /\ IF Len(journals) # 1 /\ needsRebuild
       THEN pc' = "scan" /\ heads' = Heads
       ELSE pc' = "check" /\ UNCHANGED heads
  /\ UNCHANGED <<frames, calls, pos, journals, idx, needsRebuild, useHeap, heap,
                 found, scanned>>

\* rebuildHeap and findMinimumLinear look at one journal after the other.
ScanJournal ==
  /\ pc = "scan" /\ scanned < Len(journals)
  /\ LET i == scanned + 1
     IN  /\ found' = IF HasData(i) THEN found \cup {<<GenTime(i), i>>} ELSE found
         /\ scanned' = i
  /\ UNCHANGED <<frames, calls, pos, journals, idx, needsRebuild, useHeap, heap, pc,
                 heads>>

\* A slip: the comparison is the wrong way round.
ChooseNewest ==
  /\ \E e \in found : idx' = e[2] /\ \A f \in found : f[1] <= e[1]
  /\ UNCHANGED heap

\* findMinimumLinear: the first of the oldest.
ChooseLinear ==
  /\ idx' \in {e[2] : e \in Oldest(found)}
  /\ \A e \in Oldest(found) : idx' <= e[2]
  /\ UNCHANGED heap

\* The heap's front; which of several equal entries is left to the library.
ChooseFromHeap ==
  /\ \E e \in Oldest(found) : idx' = e[2]
  /\ heap' = SetToBag(found)

\* The end of rebuildHeap.  Without any data an old heap_ stays as it was.
ScanEnd ==
  /\ pc = "scan" /\ scanned = Len(journals)
  /\ IF found = {}
       THEN idx' = 0 /\ UNCHANGED heap
       ELSE IF HeapInUse THEN ChooseFromHeap ELSE ChooseLinear
  /\ needsRebuild' = FALSE
  /\ pc' = "check" /\ found' = {} /\ scanned' = 0
  /\ UNCHANGED <<frames, calls, pos, journals, useHeap, heads>>

\* The rest of isDataAvailable.
Check ==
  /\ pc = "check"
  /\ pc' = IF idx # 0 /\ HasData(idx) THEN "view" ELSE "idle"
  /\ needsRebuild' = (needsRebuild \/ (idx = 0 /\ journals # <<>>))
  /\ UNCHANGED <<frames, calls, pos, journals, idx, useHeap, heap, found, scanned,
                 heads>>

\* The caller does not advance: dispatchCurrent, or a handler that throws.
Leave ==
  /\ pc = "view"
  /\ pc' = "idle"
  /\ UNCHANGED <<frames, calls, pos, journals, idx, needsRebuild, useHeap, heap,
                 found, scanned, heads>>

-----------------------------------------------------------------------------
(* next. *)

\* The entry for the current journal's following frame, if it has one.
Refill ==
  LET s == journals[idx]
  IN  SetToBag({<<frames[s][n], idx>> : n \in DOMAIN frames[s] \cap {pos[s] + 2}})

\* A slip: the consumed entry stays in the heap.
UpdateKeepingTop ==
  /\ heap' = heap (+) Refill
  /\ \E e \in Oldest(BagToSet(heap')) : idx' = e[2]
  /\ UNCHANGED needsRebuild

\* updateHeap: remove the top, put the journal back, take the new top.
updateHeap ==
  IF heap = EmptyBag
    THEN needsRebuild' = TRUE /\ UNCHANGED <<idx, heap>>
    ELSE /\ \E top \in Oldest(BagToSet(heap)) :
              heap' = (heap (-) SetToBag({top})) (+) Refill
         /\ IF heap' = EmptyBag
              THEN idx' = 0 /\ needsRebuild' = TRUE
              ELSE /\ \E e \in Oldest(BagToSet(heap')) : idx' = e[2]
                   /\ UNCHANGED needsRebuild

\* The current journal moves on, and the next choice is made or put off.
Advance ==
  /\ pc = "view"
  /\ pos' = [pos EXCEPT ![journals[idx]] = @ + 1]
  /\ UNCHANGED <<frames, calls, journals, useHeap, found, scanned>>
  /\ pc' = "idle"
  /\ \/ Len(journals) = 1 /\ UNCHANGED <<idx, needsRebuild, heap, heads>>
     \/ Len(journals) > 1 /\ HeapInUse /\ updateHeap /\ heads' = Heads'
     \/ /\ Len(journals) > 1 /\ ~HeapInUse
        /\ needsRebuild' = TRUE /\ heads' = {} /\ UNCHANGED <<idx, heap>>

-----------------------------------------------------------------------------
ReaderStep == TryCurrentFrame \/ ScanJournal \/ ScanEnd \/ Check
Next ==
  \/ \E s \in Sources : Commit(s) \/ Join(s) \/ Disjoin(s)
  \/ \E b \in HeapSettings : SetUseHeap(b)
  \/ \E t \in Times : SeekAll(t)
  \/ ReaderStep \/ Leave \/ Advance

Spec == Init /\ [][Next]_vars

\* The caller polls again and again, and of the frames it is shown it does not
\* refuse the same one for ever.
FairSpec == Spec /\ WF_vars(ReaderStep) /\ SF_vars(Advance)

-----------------------------------------------------------------------------
(* Properties. *)

\* The linear scan hands out the oldest of the frames that were there when it
\* began, whatever arrives while it looks at the journals.  (The heap does not:
\* a journal that was empty when it was built is passed over.)
ScanOldestFirst ==
  (pc = "view" /\ Len(journals) > 1 /\ ~HeapInUse) =>
    \A h \in heads : GenTime(idx) <= h[1]

\* While the heap is in force each of its entries is the frame its journal is
\* at, and the current journal's is an oldest one: entries never go stale.
HeapTracksFrames ==
  (HeapInUse /\ ~needsRebuild /\ pc # "scan" /\ idx # 0) =>
    /\ \A e \in BagToSet(heap) : HasData(e[2]) /\ GenTime(e[2]) = e[1]
    /\ idx \in {e[2] : e \in Oldest(BagToSet(heap))}

\* The writers commit nothing more from some moment on.
WritersFallSilent == <>[][frames' = frames]_vars

\* When the writers fall silent every frame they committed to a joined journal is
\* handed out, through joins, disjoins, seeks, changes of mode and refused frames: no
\* journal is forgotten for good.  While they go on nothing of the kind holds: with the
\* heap in force updateHeap refills from the current journal alone, so that one journal
\* that always has a next frame keeps the heap from being rebuilt, and a journal that
\* was empty at the last rebuild is not looked at again until the heap runs dry.
MergeDelivers ==
  WritersFallSilent =>
    \A s \in Sources : \A n \in 1 .. MaxFrames :
      (Joined(s) /\ Len(frames[s]) >= n) ~> (~Joined(s) \/ pos[s] >= n)
=============================================================================
