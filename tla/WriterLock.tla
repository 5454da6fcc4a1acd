----------------------------- MODULE WriterLock -----------------------------
(***************************************************************************)
(* JournalWriter<MultiWriterPolicy>: threads of one process share a writer *)
(* behind the spin lock writing_.  openData takes the lock and closeData   *)
(* gives it back; writeBytes and mark hold it with WriteLockGuard.  The    *)
(* open frame is known to closeData only through open_frame_header_, which *)
(* the threads share.                                                      *)
(*                                                                         *)
(* A page is a row of slots of one frame each.  A slot records the thread  *)
(* that opened the frame and the one whose payload is in it.               *)
(***************************************************************************)
EXTENDS Naturals, Sequences, FiniteSets

CONSTANTS
  Threads,
  ThrowsIn,     \* the calls out of which rotatePage may throw (Page::load fails)
  MaxFrames     \* bound: frames committed

ASSUME LockAssumption ==
  ThrowsIn \subseteq {"openData", "writeBytes"} /\ MaxFrames \in Nat

\* No thread, and no open frame.
None == "none"
NoFrame == 0

VARIABLES
  writing,      \* writing_
  header,       \* open_frame_header_
  address,      \* current_frame_address_
  slot,         \* the frames: who opened them, whose payload they hold
  committed,    \* slot -> the thread that stored its length
  pc,           \* thread -> what it does next
  guard,        \* thread -> it is in writeBytes
  ref,          \* thread -> the frame it was given
  lost          \* history: an exception has left openData with the lock held

vars == <<writing, header, address, slot, committed, pc, guard, ref, lost>>

Slots == 1 .. MaxFrames

Init ==
  /\ writing = FALSE /\ header = NoFrame /\ address = 1
  /\ slot = [s \in Slots |-> [by |-> None, data |-> None]]
  /\ committed = [s \in Slots |-> None]
  /\ pc = [t \in Threads |-> "idle"] /\ guard = [t \in Threads |-> FALSE]
  /\ ref = [t \in Threads |-> NoFrame] /\ lost = FALSE

Goto(t, where) == pc' = [pc EXCEPT ![t] = where]

-----------------------------------------------------------------------------
\* openData, or writeBytes, is called.
Call(t) ==
  /\ pc[t] = "idle"
  /\ \E g \in BOOLEAN : guard' = [guard EXCEPT ![t] = g]
  /\ Goto(t, "spin")
  /\ UNCHANGED <<writing, header, address, slot, committed, ref, lost>>

\* The exchange that finds the flag down; before that the thread spins.
Acquire(t) ==
  /\ pc[t] = "spin" /\ ~writing /\ address <= MaxFrames
  /\ writing' = TRUE
  /\ Goto(t, "open")
  /\ UNCHANGED <<header, address, slot, committed, guard, ref, lost>>

\* openFrame; openData also stores open_frame_header_.
OpenFrame(t) ==
  /\ pc[t] = "open"
  /\ slot' = [slot EXCEPT ![address] = [by |-> t, data |-> None]]
  /\ ref' = [ref EXCEPT ![t] = address]
  /\ header' = IF guard[t] THEN header ELSE address
  /\ Goto(t, "fill")
  /\ UNCHANGED <<writing, address, committed, guard, lost>>

\* rotatePage throws.  The guard gives the lock back, openData does not.
OpenThrows(t) ==
  /\ pc[t] = "open"
  /\ (IF guard[t] THEN "writeBytes" ELSE "openData") \in ThrowsIn
  /\ writing' = (writing /\ ~guard[t])
  /\ lost' = (lost \/ ~guard[t])
  /\ Goto(t, "idle")
  /\ UNCHANGED <<header, address, slot, committed, guard, ref>>

\* The payload: writeBytes copies it, openData's caller fills it in and calls
\* closeData, which throws and gives the lock back when no frame is open.
Fill(t) ==
  /\ pc[t] = "fill"
  /\ slot' = [slot EXCEPT ![ref[t]] = [by |-> slot[ref[t]].by, data |-> t]]
  /\ Goto(t, IF guard[t] \/ header # NoFrame THEN "close" ELSE "unlock")
  /\ UNCHANGED <<writing, header, address, committed, guard, ref, lost>>

\* The frame that closeFrame is called with.
Closing(t) == IF guard[t] THEN ref[t] ELSE header

\* A slip: the exception goes out with the lock held.
CallbackKeepsLock(t) ==
  /\ pc[t] = "close" /\ ~guard[t]
  /\ Goto(t, "idle")
  /\ UNCHANGED <<writing, header, address, slot, committed, guard, ref, lost>>

\* before_publish throws: nothing is published, open_frame_header_ stays.
CallbackThrows(t) ==
  /\ pc[t] = "close" /\ ~guard[t]
  /\ Goto(t, "unlock")
  /\ UNCHANGED <<writing, header, address, slot, committed, guard, ref, lost>>

\* A slip: the lock is given back before the address has moved.
UnlockEarly(t) ==
  /\ pc[t] = "close"
  /\ committed' = [committed EXCEPT ![Closing(t)] = t]
  /\ writing' = FALSE
  /\ Goto(t, "advance")
  /\ UNCHANGED <<header, address, slot, guard, ref, lost>>

\* closeFrame stores the length.
StoreLength(t) ==
  /\ pc[t] = "close"
  /\ committed' = [committed EXCEPT ![Closing(t)] = t]
  /\ Goto(t, "advance")
  /\ UNCHANGED <<writing, header, address, slot, guard, ref, lost>>

\* The rest of closeFrame, and closeData's reset of open_frame_header_.
AdvanceAddress(t) ==
  /\ pc[t] = "advance"
  /\ address' = Closing(t) + 1
  /\ header' = IF guard[t] THEN header ELSE NoFrame
  /\ Goto(t, "unlock")
  /\ UNCHANGED <<writing, slot, committed, guard, ref, lost>>

Release(t) ==
  /\ pc[t] = "unlock"
  /\ writing' = FALSE
  /\ ref' = [ref EXCEPT ![t] = NoFrame]
  /\ Goto(t, "idle")
  /\ UNCHANGED <<header, address, slot, committed, guard, lost>>

-----------------------------------------------------------------------------
\* What a thread does once it has the lock.
Inside(t) == \/ OpenFrame(t) \/ OpenThrows(t) \/ Fill(t) \/ CallbackThrows(t)
             \/ StoreLength(t) \/ AdvanceAddress(t) \/ Release(t)
Next == \E t \in Threads : Call(t) \/ Acquire(t) \/ Inside(t)

Spec == Init /\ [][Next]_vars

\* A thread that has the lock goes on; who gets the lock next is left open.
FairSpec == Spec /\ \A t \in Threads : WF_vars(Inside(t))

-----------------------------------------------------------------------------
(* Properties. *)

\* What a thread that has the lock may be about to do.
Holding == {"open", "fill", "close", "advance", "unlock"}

TypeOK ==
  /\ writing \in BOOLEAN /\ header \in Slots \cup {NoFrame}
  /\ address \in 1 .. MaxFrames + 1
  /\ slot \in [Slots -> [by : Threads \cup {None}, data : Threads \cup {None}]]
  /\ committed \in [Slots -> Threads \cup {None}]
  /\ pc \in [Threads -> {"idle", "spin"} \cup Holding]
  /\ guard \in [Threads -> BOOLEAN] /\ ref \in [Threads -> Slots \cup {NoFrame}]
  /\ lost \in BOOLEAN

\* At most one thread is between taking the lock and giving it back.
OneHolder ==
  \A t \in Threads : pc[t] \in Holding =>
    writing /\ \A u \in Threads : pc[u] \in Holding => u = t

\* The frame under work is at the frontier and is the holder's own; nothing
\* from the frontier on is committed, but for a frame being closed.
OwnFrame ==
  \A t \in Threads :
    /\ pc[t] \in {"open", "fill", "close", "advance"} => address \in Slots
    /\ pc[t] \in {"fill", "close", "advance"} =>
         /\ ref[t] = address /\ slot[address].by = t
         /\ guard[t] \/ header = address
    /\ pc[t] \in {"close", "advance"} => slot[address].data = t
    /\ pc[t] = "advance" => committed[address] = t
Frontier ==
  \A s \in Slots : committed[s] # None =>
    s < address \/ (s = address /\ \E t \in Threads : pc[t] = "advance")

\* A committed frame holds the payload of the thread that opened it, and that
\* thread committed it: no two threads ever share a frame, also after a
\* callback that threw has left open_frame_header_ behind.
WholeFrames ==
  \A s \in Slots :
    committed[s] # None => slot[s] = [by |-> committed[s], data |-> committed[s]]

LockInv == TypeOK /\ OneHolder /\ OwnFrame /\ Frontier /\ WholeFrames

\* The lock comes free again whatever throws, out of closeData, its callback and
\* writeBytes, with one exception: openData has no guard around its rotatePage, and a
\* load that fails there leaves writing_ set for good.
LockComesFree == writing ~> (~writing \/ lost)

\* Not so without the exception, if a load may fail in openData.
LockAlwaysComesFree == writing ~> ~writing
=============================================================================
