----------------------------- MODULE SeekToTime -----------------------------
(***************************************************************************)
(* Journal::seekToTime: a binary search over the pages by the gen_time of  *)
(* their first frames, then page by page, then frame by frame, while the   *)
(* writer appends.  join(from_time) is a seek without a page loaded.       *)
(*                                                                         *)
(* A page is the sequence of its frames' gen_times, and its PageEnd        *)
(* sentinel, which carries the wall clock's time.  Pages beyond the        *)
(* writer's exist when a warmer has prepared them; they are empty.         *)
(***************************************************************************)
EXTENDS Naturals, Sequences

CONSTANTS
  Liberties,    \* what callers may do beyond the ordinary:
                \*   "tie"    a page begins with the gen_time the last one ends with
                \*   "clock"  gen_times are not from the sentinels' clock
                \*   "back"   a seek to a time before the reader's, on its page
  MaxTime,      \* bound: the largest gen_time
  MaxPages,     \* bound: pages
  PageFrames    \* bound: frames on a page

ASSUME SeekAssumption ==
  /\ Liberties \subseteq {"tie", "clock", "back"}
  /\ MaxTime \in Nat /\ MaxPages \in Nat \ {0} /\ PageFrames \in Nat \ {0}

Pages == 1 .. MaxPages
Times == 1 .. MaxTime

VARIABLES
  times,        \* page -> gen_times of its frames
  sentinel,     \* page -> gen_time of its sentinel, 0 before there is one
  full,         \* page -> its sentinel lies at the border (Page::isFull)
  listed,       \* pages 1..listed exist
  current,      \* the writer's page
  pc,           \* what the reader does next
  page, pos,    \* current_page_ (0: none) and the frame_ on it
  timestamp,    \* seekToTime's argument
  left, right, best,   \* findPageId's locals
  wanted        \* history: the frames the last seek was after

journalVars == <<times, sentinel, full, listed, current>>
searchVars == <<left, right, best>>
vars == <<journalVars, pc, page, pos, timestamp, searchVars, wanted>>

Init ==
  /\ times = [p \in Pages |-> <<>>] /\ sentinel = [p \in Pages |-> 0]
  /\ full = [p \in Pages |-> FALSE]
  /\ listed = 1 /\ current = 1
  /\ pc = "idle" /\ page = 0 /\ pos = 0 /\ timestamp = 0
  /\ left = 0 /\ right = 0 /\ best = 0 /\ wanted = {}

-----------------------------------------------------------------------------
(* The writer. *)

\* Whether t is at or after every gen_time so far; after every one; at or after
\* every sentinel's.
SinceFrames(t) == \A p \in Pages : \A i \in DOMAIN times[p] : times[p][i] <= t
AfterFrames(t) == \A p \in Pages : \A i \in DOMAIN times[p] : times[p][i] < t
SinceSentinels(t) == \A p \in Pages : sentinel[p] <= t

Write ==
  /\ Len(times[current]) < PageFrames
  /\ \E t \in Times :
       /\ SinceFrames(t)
       /\ (times[current] = <<>> /\ "tie" \notin Liberties) => AfterFrames(t)
       /\ "clock" \in Liberties \/ SinceSentinels(t)
       /\ times' = [times EXCEPT ![current] = Append(@, t)]
  /\ UNCHANGED <<sentinel, full, listed, current, pc, page, pos, timestamp,
                 searchVars, wanted>>

\* A page ahead is created and initialised.
Prepare ==
  /\ listed < MaxPages
  /\ listed' = listed + 1
  /\ UNCHANGED <<times, sentinel, full, current, pc, page, pos, timestamp,
                 searchVars, wanted>>

\* rotatePage; how close to the border the sentinel comes depends on the sizes.
Rotate ==
  /\ times[current] # <<>> /\ current < listed
  /\ \E t \in Times, f \in BOOLEAN :
       /\ "clock" \in Liberties \/ SinceFrames(t)
       /\ sentinel' = [sentinel EXCEPT ![current] = t]
       /\ full' = [full EXCEPT ![current] = f]
  /\ current' = current + 1
  /\ UNCHANGED <<times, listed, pc, page, pos, timestamp, searchVars, wanted>>

-----------------------------------------------------------------------------
(* Pages and frames as the reader sees them. *)

\* Page::beginTime, 0 for an empty page; Page::endTime of a page that is full.
BeginTime(p) == IF times[p] = <<>> THEN 0 ELSE Head(times[p])
EndTime(p) == sentinel[p]

\* The frames of a page, its sentinel included.
FramesOf(p) == IF sentinel[p] = 0 THEN times[p] ELSE Append(times[p], sentinel[p])
HasData == pos <= Len(FramesOf(page))
AtSentinel == pos = Len(times[page]) + 1

Before(p, i, q, j) == p < q \/ (p = q /\ i < j)

\* Journal::next: from a sentinel to the first frame of the next page.
MoveOn ==
  IF AtSentinel
    THEN page' = page + 1 /\ pos' = 1
    ELSE page' = page /\ pos' = pos + 1

-----------------------------------------------------------------------------
(* The reader. *)

ReadNext ==
  /\ pc = "idle" /\ page # 0 /\ HasData
  /\ MoveOn
  /\ wanted' = {}
  /\ UNCHANGED <<journalVars, pc, timestamp, searchVars>>

\* seekToTime begins with findPageId's list of the pages; time 0 is the first.
Seek ==
  /\ pc = "idle"
  /\ \E t \in 0 .. MaxTime :
       /\ "back" \in Liberties
            \/ \A p \in Pages : \A i \in DOMAIN times[p] :
                 times[p][i] >= t /\ p = page => ~Before(p, i, page, pos)
       /\ timestamp' = t
       /\ wanted' = {w \in Pages \X (1 .. PageFrames) :
                       w[2] \in DOMAIN times[w[1]] /\ times[w[1]][w[2]] >= t}
       /\ pc' = IF t = 0 THEN "load" ELSE "search"
  /\ left' = 1 /\ right' = listed /\ best' = 1
  /\ UNCHANGED <<journalVars, page, pos>>

\* A slip: an empty page is taken for an early one.
ProbeEmptyEarly ==
  /\ pc = "search" /\ left <= right
  /\ LET mid == left + (right - left) \div 2
     IN  IF BeginTime(mid) <= timestamp
           THEN best' = mid /\ left' = mid + 1 /\ UNCHANGED right
           ELSE right' = mid - 1 /\ UNCHANGED <<left, best>>
  /\ UNCHANGED <<journalVars, pc, page, pos, timestamp, wanted>>

\* A slip: the lower half keeps its middle.
ProbeStuck ==
  /\ pc = "search" /\ left <= right
  /\ LET mid == left + (right - left) \div 2
         begin == BeginTime(mid)
     IN  IF begin # 0 /\ begin <= timestamp
           THEN best' = mid /\ left' = mid /\ UNCHANGED right
           ELSE right' = mid - 1 /\ UNCHANGED <<left, best>>
  /\ UNCHANGED <<journalVars, pc, page, pos, timestamp, wanted>>

\* One iteration of the binary search.
Probe ==
  /\ pc = "search" /\ left <= right
  /\ LET mid == left + (right - left) \div 2
         begin == BeginTime(mid)
     IN  IF begin # 0 /\ begin <= timestamp
           THEN best' = mid /\ left' = mid + 1 /\ UNCHANGED right
           ELSE right' = mid - 1 /\ UNCHANGED <<left, best>>
  /\ UNCHANGED <<journalVars, pc, page, pos, timestamp, wanted>>

SearchEnd ==
  /\ pc = "search" /\ left > right
  /\ pc' = "load"
  /\ UNCHANGED <<journalVars, page, pos, timestamp, searchVars, wanted>>

\* loadPage does nothing, and leaves frame_ where it is, on the page it has.
LoadPage ==
  /\ pc = "load"
  /\ page' = best /\ pos' = IF page = best THEN pos ELSE 1
  /\ pc' = "pages"
  /\ left' = 0 /\ right' = 0 /\ best' = 0
  /\ UNCHANGED <<journalVars, timestamp, wanted>>

\* The loop over full pages.
SkipPage ==
  /\ pc = "pages"
  /\ IF full[page] /\ EndTime(page) < timestamp
       THEN page' = page + 1 /\ pos' = 1 /\ UNCHANGED pc
       ELSE pc' = "frames" /\ UNCHANGED <<page, pos>>
  /\ UNCHANGED <<journalVars, timestamp, searchVars, wanted>>

\* The loop over frames.
SkipFrame ==
  /\ pc = "frames"
  /\ IF HasData /\ FramesOf(page)[pos] < timestamp
       THEN MoveOn /\ UNCHANGED pc
       ELSE pc' = "idle" /\ UNCHANGED <<page, pos>>
  /\ UNCHANGED <<journalVars, timestamp, searchVars, wanted>>

-----------------------------------------------------------------------------
SeekStep == Probe \/ SearchEnd \/ LoadPage \/ SkipPage \/ SkipFrame
Next == Write \/ Prepare \/ Rotate \/ ReadNext \/ Seek \/ SeekStep

Spec == Init /\ [][Next]_vars

\* The reader's thread runs.
FairSpec == Spec /\ WF_vars(SeekStep)

-----------------------------------------------------------------------------
(* Properties. *)

\* A finished seek has not gone past any frame with a gen_time at or after the
\* one asked for that was in the journal when it began.
SeekMissesNothing ==
  pc = "idle" => \A w \in wanted : ~Before(w[1], w[2], page, pos)

\* Every seek ends, although the writer goes on while it runs.
SeekEnds == (pc # "idle") ~> (pc = "idle")
=============================================================================
