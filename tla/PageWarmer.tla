----------------------------- MODULE PageWarmer -----------------------------
(***************************************************************************)
(* The writer's page warmer: a ring of pre-mapped page files between       *)
(* warmupLoop (its own thread) and JournalWriter::rotatePage.  A slot's    *)
(* page_id is the only synchronisation; address and is_owned are plain     *)
(* fields, so their loads and stores are steps of their own.               *)
(*                                                                         *)
(* A page file is absent, sized (zeros, no header) or ready.  frames[p]    *)
(* tells whether the page holds the frames the writer has committed to it. *)
(*                                                                         *)
(* background_threads is FALSE here: a page beyond retained_page_limit is  *)
(* released by the writer's own thread.  (ReaderThreads models the retire  *)
(* thread, which is the same for readers and writers.)                     *)
(***************************************************************************)
EXTENDS Integers, Sequences, FiniteSets, SequencesExt

CONSTANTS
  RingSize,       \* kWriterPageWarmerRingSize
  WarmupPages,    \* JournalWriterOptions::warmup_pages
  RetainedLimit,  \* JournalWriterOptions::retained_page_limit
  Prefault,       \* JournalWriterOptions::prefault
  WarmFailures,   \* where loadMmapBuffer may throw in the warmer: "open" fails,
                  \* or "late", once the file exists (fallocate, mmap, mlock)
  LoadFailures,   \* where it may throw in rotatePage's own Page::load
  Addrs,          \* bound: the addresses mmap may return
  MaxPage         \* bound: the writer rotates up to this page

\* No mapping.
Null == "null"

\* The constructor refuses distances beyond the ring.  (The code's ring is a power of
\* two, so that it can mask an index instead of dividing; nothing else rests on it.)
ASSUME WarmerAssumption ==
  /\ RingSize \in Nat \ {0, 1} /\ WarmupPages \in 1 .. RingSize
  /\ RetainedLimit \in Nat /\ Prefault \in BOOLEAN
  /\ WarmFailures \subseteq {"open", "late"} /\ LoadFailures \subseteq {"open", "late"}
  /\ Addrs # {} /\ Null \notin Addrs /\ MaxPage \in Nat \ {0}

\* The states of a slot's page_id other than a page's id.
Empty == -1
Warming == -2

Slots == 0 .. RingSize - 1
Pages == 1 .. MaxPage + RingSize

VARIABLES
  file, frames,               \* the page files
  written,                    \* history: pages the writer committed frames to
  mapped,                     \* address -> the page mapped there, 0 if none
  pageId, address, owned,     \* the ring: PageSlot's fields
  writeIndex, readIndex,
  currentPage,                \* PageWarmer::current_page_
  running,                    \* PageWarmer::running_
  writer,                     \* what the writer's thread does next
  current, onPage,            \* its current_page_: the mapping and its page_id_
  currentId,                  \* its current_page_id_
  probe,                      \* getWarmedPage: the slots it has looked at
  next,                       \* rotatePage's next_page, or the address claimed
  sawFile,                    \* loadMmapBuffer's file_exists in rotatePage
  viaRing,                    \* history: pages the writer took from the ring
  retired,                    \* retired_pages_
  warmer,                     \* what the warmer's thread does next
  seen, step,                 \* warmupLoop's current_page and i
  existed, exists, addr       \* warmPageIntoSlot's locals

fileVars == <<file, frames, written>>
ringVars == <<pageId, address, owned>>
writerVars == <<writer, current, onPage, currentId, probe, next, sawFile, viaRing,
                retired>>
warmerVars == <<warmer, seen, step, existed, exists, addr>>
indexVars == <<writeIndex, readIndex, currentPage, running>>
vars == <<fileVars, mapped, ringVars, indexVars, writerVars, warmerVars>>

-----------------------------------------------------------------------------
(* Mappings. *)

FreeAddr == CHOOSE a \in Addrs : mapped[a] = 0
Map(p) ==
  /\ \E a \in Addrs : mapped[a] = 0
  /\ mapped' = [mapped EXCEPT ![FreeAddr] = p]
Unmap(as) == mapped' = [a \in Addrs |-> IF a \in as THEN 0 ELSE mapped[a]]

\* open with O_CREAT, and fallocate.
Create(p) == file' = [file EXCEPT ![p] = IF @ = "absent" THEN "sized" ELSE @]

\* A slip: the distance is not cut to half the ring.
WholeRing == WarmupPages

\* The constructor cuts the distance so that half of the ring is slack.
warmupDistance == IF WarmupPages < RingSize \div 2 THEN WarmupPages ELSE RingSize \div 2

\* After the writer's constructor has loaded page 1 and started the threads.
\* Pages ahead may exist: an earlier writer's warmer prepared them.
Init ==
  /\ \E k \in {1, 3} :
       file = [p \in Pages |-> IF p <= k THEN "ready" ELSE "absent"]
  /\ frames = [p \in Pages |-> FALSE] /\ written = {}
  /\ LET a == CHOOSE b \in Addrs : TRUE
     IN  /\ mapped = [b \in Addrs |-> IF b = a THEN 1 ELSE 0]
         /\ current = a
  /\ pageId = [s \in Slots |-> Empty]
  /\ address = [s \in Slots |-> Null] /\ owned = [s \in Slots |-> FALSE]
  /\ writeIndex = 0 /\ readIndex = 0 /\ currentPage = -1 /\ running = TRUE
  /\ writer = "update" /\ onPage = 1 /\ currentId = 1 /\ probe = 0 /\ next = Null
  /\ sawFile = TRUE /\ viaRing = {} /\ retired = <<>>
  /\ warmer = "loop" /\ seen = -1 /\ step = 1
  /\ existed = TRUE /\ exists = TRUE /\ addr = Null

-----------------------------------------------------------------------------
(* The writer's thread: writing and rotatePage. *)

\* A frame is committed to the current page.
Commit ==
  /\ writer = "idle"
  /\ onPage \notin written
  /\ written' = written \cup {onPage}
  /\ frames' = [frames EXCEPT ![onPage] = TRUE]
  /\ UNCHANGED <<file, mapped, ringVars, indexVars, writerVars, warmerVars>>

Rotate ==
  /\ writer = "idle" /\ currentId < MaxPage
  /\ currentId' = currentId + 1
  /\ probe' = 0 /\ writer' = "look"
  /\ UNCHANGED <<fileVars, mapped, ringVars, indexVars, current, onPage, next,
                 sawFile, viaRing, retired, warmerVars>>

\* The slot getWarmedPage looks at.
ProbedSlot == (readIndex + probe) % RingSize

\* getWarmedPage: load page_id of the slots, one per step.
Look ==
  /\ writer = "look"
  /\ IF probe = RingSize
       THEN writer' = "sample" /\ UNCHANGED probe
       ELSE IF pageId[ProbedSlot] = currentId
         THEN writer' = "claim" /\ UNCHANGED probe
         ELSE probe' = probe + 1 /\ UNCHANGED writer
  /\ UNCHANGED <<fileVars, mapped, ringVars, indexVars, current, onPage, currentId, next,
                 sawFile, viaRing, retired, warmerVars>>

\* The compare-exchange.
Claim ==
  /\ writer = "claim"
  /\ IF pageId[ProbedSlot] = currentId
       THEN /\ pageId' = [pageId EXCEPT ![ProbedSlot] = Empty]
            /\ writer' = "take" /\ UNCHANGED probe
       ELSE /\ probe' = probe + 1 /\ writer' = "look" /\ UNCHANGED pageId
  /\ UNCHANGED <<fileVars, mapped, address, owned, indexVars, current, onPage, currentId,
                 next, sawFile, viaRing, retired, warmerVars>>

\* The plain load of address after the claim.
Take ==
  /\ writer = "take"
  /\ next' = address[ProbedSlot]
  /\ viaRing' = viaRing \cup {currentId}
  /\ writer' = "disown"
  /\ UNCHANGED <<fileVars, mapped, ringVars, indexVars, current, onPage, currentId, probe,
                 sawFile, retired, warmerVars>>

\* The plain store of is_owned, and the read index.
Disown ==
  /\ writer = "disown"
  /\ owned' = [owned EXCEPT ![ProbedSlot] = FALSE]
  /\ readIndex' = (ProbedSlot + 1) % RingSize
  /\ writer' = "validate"
  /\ UNCHANGED <<fileVars, mapped, pageId, address, writeIndex, currentPage, running,
                 current, onPage, currentId, probe, next, sawFile, viaRing, retired, warmerVars>>

\* Page::loadFromAddress accepts a page with a header and throws otherwise, out
\* of the caller's write: rotatePage's local is lost, the mapping leaks, and
\* current_page_id_ stays incremented.
Validate ==
  /\ writer = "validate"
  /\ IF file[currentId] = "ready"
       THEN writer' = "update" /\ UNCHANGED next
       ELSE writer' = "idle" /\ next' = Null
  /\ UNCHANGED <<fileVars, mapped, ringVars, indexVars, current, onPage, currentId,
                 probe, sawFile, viaRing, retired, warmerVars>>

\* No warmed page: Page::load, first the stat in loadMmapBuffer.
LoadSample ==
  /\ writer = "sample"
  /\ sawFile' = (file[currentId] # "absent")
  /\ writer' = "map"
  /\ UNCHANGED <<fileVars, mapped, ringVars, indexVars, current, onPage, currentId, probe,
                 next, viaRing, retired, warmerVars>>

LoadMap ==
  /\ writer = "map"
  /\ Create(currentId)
  /\ Map(currentId) /\ next' = FreeAddr
  /\ writer' = "zero"
  /\ UNCHANGED <<frames, written, ringVars, indexVars, current, onPage, currentId, probe,
                 sawFile, viaRing, retired, warmerVars>>

\* loadMmapBuffer throws, out of the caller's write; current_page_id_ stays
\* incremented.
LoadThrows ==
  /\ writer = "map"
  /\ \E f \in LoadFailures : IF f = "late" THEN Create(currentId) ELSE UNCHANGED file
  /\ sawFile' = TRUE
  /\ writer' = "idle"
  /\ UNCHANGED <<frames, written, mapped, ringVars, indexVars, current, onPage,
                 currentId, probe, next, viaRing, retired, warmerVars>>

\* The zero-fill of a file that was not there, with prefault.
LoadZero ==
  /\ writer = "zero"
  /\ file' = [file EXCEPT ![currentId] = IF Prefault /\ ~sawFile THEN "sized" ELSE @]
  /\ writer' = "header"
  /\ UNCHANGED <<frames, written, mapped, ringVars, indexVars, current, onPage, currentId,
                 probe, next, sawFile, viaRing, retired, warmerVars>>

\* Page::load writes the header when last_frame_position is 0.
LoadHeader ==
  /\ writer = "header"
  /\ file' = [file EXCEPT ![currentId] = "ready"]
  /\ sawFile' = TRUE
  /\ writer' = "update"
  /\ UNCHANGED <<frames, written, mapped, ringVars, indexVars, current, onPage, currentId,
                 probe, next, viaRing, retired, warmerVars>>

\* updateCurrentPage, in the constructor (no next page) and in rotatePage.
Update ==
  /\ writer = "update"
  /\ currentPage' = currentId /\ probe' = 0
  /\ writer' = IF next = Null THEN "idle" ELSE "swap"
  /\ UNCHANGED <<fileVars, mapped, ringVars, writeIndex, readIndex, running, current,
                 onPage, currentId, next, sawFile, viaRing, retired, warmerVars>>

\* The rest of rotatePage: the sentinel, the old page's retirement, the swap.
Swap ==
  /\ writer = "swap"
  /\ LET old == onPage
         kept == Append(retired, current)
     IN  /\ written' = written \cup {old}
         /\ frames' = [frames EXCEPT ![old] = @ \/ old \notin written]
         /\ IF Len(kept) > RetainedLimit
              THEN Unmap({Head(kept)}) /\ retired' = Tail(kept)
              ELSE retired' = kept /\ UNCHANGED mapped
  /\ current' = next /\ onPage' = currentId /\ next' = Null
  /\ writer' = "idle"
  /\ UNCHANGED <<file, ringVars, indexVars, currentId, probe, sawFile, viaRing,
                 warmerVars>>

-----------------------------------------------------------------------------
(* ~JournalWriter. *)

StopWarmer ==
  /\ writer = "idle"
  /\ running' = FALSE /\ writer' = "joinWarmer"
  /\ UNCHANGED <<fileVars, mapped, ringVars, writeIndex, readIndex, currentPage,
                 current, onPage, currentId, probe, next, sawFile, viaRing, retired, warmerVars>>

\* A slip: the ring is forgotten.
ForgetRing ==
  /\ writer = "joinWarmer" /\ warmer = "done"
  /\ Unmap({current}) /\ current' = Null
  /\ writer' = "clear"
  /\ UNCHANGED <<fileVars, ringVars, indexVars, onPage, currentId, probe, next, sawFile,
                 viaRing, retired, warmerVars>>

\* The join returns; releaseAllPages; current_page_.reset().
ReleaseAllPages ==
  /\ writer = "joinWarmer" /\ warmer = "done"
  /\ Unmap({address[s] : s \in {t \in Slots : owned[t]}} \cup {current})
  /\ address' = [s \in Slots |-> IF owned[s] THEN Null ELSE address[s]]
  /\ owned' = [s \in Slots |-> FALSE] /\ current' = Null
  /\ writer' = "clear"
  /\ UNCHANGED <<fileVars, pageId, indexVars, onPage, currentId, probe, next, sawFile,
                 viaRing, retired, warmerVars>>

\* retired_pages_.clear()
ClearRetired ==
  /\ writer = "clear"
  /\ Unmap(ToSet(retired)) /\ retired' = <<>>
  /\ writer' = "gone"
  /\ UNCHANGED <<fileVars, ringVars, indexVars, current, onPage, currentId, probe, next,
                 sawFile, viaRing, warmerVars>>

-----------------------------------------------------------------------------
(* warmupLoop. *)

\* The page under work and the slot it goes to.
Target == seen + step
WriteSlot == writeIndex % RingSize

\* The loop's head, and the wait for the first page before it.
WarmerLoop ==
  /\ warmer = "loop"
  /\ \/ ~running /\ warmer' = "done" /\ UNCHANGED <<seen, step>>
     \/ running /\ currentPage >= 0
          /\ warmer' = "next" /\ seen' = currentPage /\ step' = 1
  /\ UNCHANGED <<fileVars, mapped, ringVars, indexVars, writerVars,
                 existed, exists, addr>>

\* isPageInRing.  The scan is one step: while it runs the writer only empties
\* slots, so its answer is right at the moment of its last load.
WarmerNext ==
  /\ warmer = "next"
  /\ IF step > warmupDistance
       THEN warmer' = "clean" /\ UNCHANGED step
       ELSE IF \E s \in Slots : pageId[s] = Target
         THEN step' = step + 1 /\ UNCHANGED warmer
         ELSE warmer' = "claim" /\ UNCHANGED step
  /\ UNCHANGED <<fileVars, mapped, ringVars, indexVars, writerVars, seen,
                 existed, exists, addr>>

\* The compare-exchange; an occupied slot skips the page.
WarmerClaim ==
  /\ warmer = "claim"
  /\ IF pageId[WriteSlot] = Empty
       THEN /\ pageId' = [pageId EXCEPT ![WriteSlot] = Warming]
            /\ warmer' = "sample" /\ UNCHANGED step
       ELSE /\ step' = step + 1 /\ warmer' = "next" /\ UNCHANGED pageId
  /\ UNCHANGED <<fileVars, mapped, address, owned, indexVars, writerVars,
                 seen, existed, exists, addr>>

\* A slip: the page is taken for a new one.
SampleNever ==
  /\ warmer = "sample"
  /\ existed' = FALSE
  /\ warmer' = "stat"
  /\ UNCHANGED <<fileVars, mapped, ringVars, indexVars, writerVars, seen,
                 step, exists, addr>>

\* warmPageIntoSlot's filesystem::exists.
WarmerSample ==
  /\ warmer = "sample"
  /\ existed' = (file[Target] # "absent")
  /\ warmer' = "stat"
  /\ UNCHANGED <<fileVars, mapped, ringVars, indexVars, writerVars, seen,
                 step, exists, addr>>

\* loadMmapBuffer's own stat.
WarmerStat ==
  /\ warmer = "stat"
  /\ exists' = (file[Target] # "absent")
  /\ warmer' = "map"
  /\ UNCHANGED <<fileVars, mapped, ringVars, indexVars, writerVars, seen,
                 step, existed, addr>>

\* open, fallocate, mmap and mlock.
WarmerMap ==
  /\ warmer = "map"
  /\ Create(Target)
  /\ Map(Target) /\ addr' = FreeAddr
  /\ warmer' = "zero"
  /\ UNCHANGED <<frames, written, ringVars, indexVars, writerVars, seen,
                 step, existed, exists>>

\* One of them fails; the slot is empty again and the next page's turn comes.
WarmerMapThrows ==
  /\ warmer = "map"
  /\ \E f \in WarmFailures : IF f = "late" THEN Create(Target) ELSE UNCHANGED file
  /\ pageId' = [pageId EXCEPT ![WriteSlot] = Empty]
  /\ step' = step + 1 /\ warmer' = "next"
  /\ UNCHANGED <<frames, written, mapped, address, owned, indexVars, writerVars,
                 seen, existed, exists, addr>>

\* The zero-fill of the whole page in loadMmapBuffer.
WarmerZero ==
  /\ warmer = "zero"
  /\ IF exists
       THEN UNCHANGED <<file, frames>>
       ELSE /\ file' = [file EXCEPT ![Target] = "sized"]
            /\ frames' = [frames EXCEPT ![Target] = FALSE]
  /\ warmer' = "header"
  /\ UNCHANGED <<written, mapped, ringVars, indexVars, writerVars, seen,
                 step, existed, exists, addr>>

\* A slip: no header.
WarmerNoHeader ==
  /\ warmer = "header"
  /\ frames' = [frames EXCEPT ![Target] = IF existed THEN @ ELSE FALSE]
  /\ warmer' = "fill"
  /\ UNCHANGED <<file, written, mapped, ringVars, indexVars, writerVars,
                 seen, step, existed, exists, addr>>

\* The header and the zeros behind it.
WarmerHeader ==
  /\ warmer = "header"
  /\ IF existed
       THEN UNCHANGED <<file, frames>>
       ELSE /\ file' = [file EXCEPT ![Target] = "ready"]
            /\ frames' = [frames EXCEPT ![Target] = FALSE]
  /\ warmer' = "fill"
  /\ UNCHANGED <<written, mapped, ringVars, indexVars, writerVars, seen,
                 step, existed, exists, addr>>

\* The plain stores into the slot; it owns the mapping now.
WarmerFill ==
  /\ warmer = "fill"
  /\ address' = [address EXCEPT ![WriteSlot] = addr]
  /\ owned' = [owned EXCEPT ![WriteSlot] = TRUE]
  /\ addr' = Null /\ existed' = TRUE /\ exists' = TRUE
  /\ warmer' = "publish"
  /\ UNCHANGED <<fileVars, mapped, pageId, indexVars, writerVars, seen,
                 step>>

\* The release store of page_id, and the write index.
WarmerPublish ==
  /\ warmer = "publish"
  /\ pageId' = [pageId EXCEPT ![WriteSlot] = Target]
  /\ writeIndex' = (writeIndex + 1) % RingSize
  /\ step' = step + 1 /\ warmer' = "next"
  /\ UNCHANGED <<fileVars, mapped, address, owned, readIndex, currentPage, running,
                 writerVars, seen, existed, exists, addr>>

\* Slots whose page lies more than a ring behind.
OldSlots == {s \in Slots : pageId[s] >= 0 /\ pageId[s] < seen - RingSize}

\* cleanupOldPages.  One step: the writer asks for pages ahead of these.
WarmerClean ==
  /\ warmer = "clean"
  /\ Unmap({address[s] : s \in {t \in OldSlots : owned[t]}})
  /\ pageId' = [s \in Slots |-> IF s \in OldSlots THEN Empty ELSE pageId[s]]
  /\ address' = [s \in Slots |-> IF s \in OldSlots /\ owned[s] THEN Null ELSE address[s]]
  /\ owned' = [s \in Slots |-> s \notin OldSlots /\ owned[s]]
  /\ warmer' = "loop"
  /\ UNCHANGED <<fileVars, indexVars, writerVars, seen, step, existed,
                 exists, addr>>

-----------------------------------------------------------------------------
RotateStep == \/ Rotate \/ Look \/ Claim \/ Take \/ Disown \/ Validate
              \/ LoadSample \/ LoadMap \/ LoadThrows \/ LoadZero \/ LoadHeader \/ Update \/ Swap
CloseStep == ReleaseAllPages \/ ClearRetired
WarmerStep == \/ WarmerLoop \/ WarmerNext \/ WarmerClaim \/ WarmerSample \/ WarmerStat
              \/ WarmerMap \/ WarmerMapThrows \/ WarmerZero \/ WarmerHeader
              \/ WarmerFill \/ WarmerPublish \/ WarmerClean

Next == Commit \/ RotateStep \/ StopWarmer \/ CloseStep \/ WarmerStep

Spec == Init /\ [][Next]_vars

\* Each thread is scheduled as long as it can run.
FairSpec == Spec /\ WF_vars(CloseStep) /\ WF_vars(WarmerStep)

-----------------------------------------------------------------------------
(* Properties. *)

\* How often pages that the writer can still ask for are published from the turn
\* of one of them on, as long as that one is in the ring.  When no warm-up fails
\* the pages before it are there already.
Turns == IF WarmFailures = {} THEN warmupDistance ELSE 2 * warmupDistance - 1

\* The ring is large enough for the distance: pages the writer has already passed
\* may be published as well, once each.  The constructor's cut to half of the ring
\* is enough without failures; with them the ring of 16 slots is large enough for
\* warmup_pages up to 5.
Roomy == Turns + warmupDistance <= RingSize

\* A slot owns its mapping while is_owned is set, except that a claim takes it
\* away before the flag falls.
OwningSlots ==
  {s \in Slots : owned[s] /\ ~(writer = "disown" /\ s = ProbedSlot)}

\* How often a sequence holds an address.
Times(a, s) == Cardinality({i \in DOMAIN s : s[i] = a})

\* Every mapping has exactly one owner among the ring, the writer and the
\* warmer, at every step of the lock-free hand-over, although the warmer publishes
\* pages too late and twice, its opens fail and rotatePage's own loads throw.  It
\* takes a ring that is Roomy, and a warmer that does not fail behind its open:
\* such a failure leaves a page without a header, and Validate leaks its mapping.
WarmerOneOwner ==
  \A a \in Addrs :
    Times(a, <<current, next, addr>>) + Times(a, retired)
      + Cardinality({s \in OwningSlots : address[s] = a}) =
        IF mapped[a] = 0 THEN 0 ELSE 1

\* A claim yields the page that was asked for, with its header: the warmer does
\* not reuse a slot between the writer's claim and its load of the address, and
\* loadFromAddress does not throw in rotatePage.  Under the same two conditions.
ClaimedPage ==
  writer = "validate" => mapped[next] = currentId /\ file[currentId] = "ready"

\* A page taken from the ring keeps its frames, although the warmer may prepare
\* the same page once more before it learns that the writer has moved on.
RingPagesKept == \A p \in written \cap viaRing : frames[p]

\* Every page keeps its frames, whichever way the writer came by it.
FramesKept == \A p \in written : frames[p]

\* Once the writer is being destroyed the destructor returns, the threads have
\* ended, and every mapping is released (the last under the same two conditions).
WriterShutdownEnds ==
  ~running ~> (writer = "gone" /\ warmer = "done" /\ \A a \in Addrs : mapped[a] = 0)
=============================================================================
