----------------------------- MODULE PageLoader -----------------------------
(***************************************************************************)
(* The processes that load one page file: Page::load over                  *)
(* MmapBuffer::loadMmapBuffer, call by call, and a reader's warmer, which  *)
(* maps the file only if it exists.  Whoever loads with is_writing or      *)
(* prefault is a master: it may size the file, zero it and write the page  *)
(* header.  A process may die at any call and start again.                 *)
(*                                                                         *)
(* pc[p], what process p does next:                                        *)
(*   out       stat the path                open      open(O_CREAT)        *)
(*   allocate  fallocate                    map       mmap, mlock          *)
(*   zeroHead, zeroRest  memset of a new file                              *)
(*   check     load last_frame_position     blank, store  initialise it    *)
(*   validate  compare the header           loaded    take the first frame *)
(*   await, warmed  a warmer's wait for the header, and its hand-over      *)
(*   using     at work on the page                                         *)
(* and how it failed: threw (a system call), refused (the validation),     *)
(* killed (SIGBUS or SIGSEGV), astray (first frame taken as offset 0).     *)
(***************************************************************************)
EXTENDS Naturals, FiniteSets

CONSTANTS
  Writer,          \* the process that writes the page
  WriterPrefault,  \* its JournalWriterOptions::prefault
  Prefaulting,     \* readers with prefault = true
  Lazy,            \* readers with prefault = false
  Warmers,         \* readerWarmerLoop threads of lazy readers
  EarlyMasters,    \* prefaulting readers may come before the page is ready
  InOrder,         \* the header's stores become visible in program order
  FailingCalls,    \* the system calls that may fail
  MaxFrames        \* bound: frames committed to the page

Procs == {Writer} \cup Prefaulting \cup Lazy \cup Warmers

ASSUME LoaderAssumption ==
  /\ WriterPrefault \in BOOLEAN /\ EarlyMasters \in BOOLEAN
  /\ InOrder \in BOOLEAN /\ MaxFrames \in Nat
  /\ Writer \notin Prefaulting \cup Lazy \cup Warmers
  /\ Prefaulting \cap (Lazy \cup Warmers) = {} /\ Lazy \cap Warmers = {}
  /\ FailingCalls \subseteq {"fallocate", "mlock", "populate"}

VARIABLES
  file,       \* "absent", "empty" or "sized"
  fields,     \* version, page_header_length and page_size are in the header
  lastPos,    \* last_frame_position: 0, or the number of the frame it names
  present,    \* the committed frames that are in the page
  committed,  \* how many the writer committed
  ready,      \* the writer announced the page: sentinel of the page before it
  pc,         \* see above
  existed,    \* p's file_exists
  sized,      \* p's st_size was the page's size
  todo        \* the header parts p still has to store

vars == <<file, fields, lastPos, present, committed, ready, pc, existed, sized, todo>>
page == <<fields, lastPos, present, committed>>
locals == <<existed, sized, todo>>

HeaderParts == {"fields", "last"}

Init ==
  /\ file = "absent" /\ fields = FALSE /\ lastPos = 0
  /\ present = {} /\ committed = 0 /\ ready = FALSE
  /\ pc = [p \in Procs |-> "out"]
  /\ existed = [p \in Procs |-> FALSE] /\ sized = [p \in Procs |-> FALSE]
  /\ todo = [p \in Procs |-> {}]

Goto(p, where) == pc' = [pc EXCEPT ![p] = where]

prefault(p) == p \in Prefaulting \/ (p = Writer /\ WriterPrefault)
master(p) == p = Writer \/ prefault(p)

-----------------------------------------------------------------------------
(* loadMmapBuffer *)

\* A reader follows a sentinel or was started after the writer; one that joins
\* earlier is not kept from it by the code.  Lazy readers may come at any time.
Stat(p) ==
  /\ pc[p] = "out" /\ p \notin Warmers
  /\ p \in Prefaulting => EarlyMasters \/ ready
  /\ existed' = [existed EXCEPT ![p] = file # "absent"]
  /\ sized' = [sized EXCEPT ![p] = file = "sized"]
  /\ Goto(p, "open")
  /\ UNCHANGED <<file, page, ready, todo>>

\* A slip: only a file that is absent is allocated, not one of the wrong size.
OpenTrustingSize(p) ==
  /\ pc[p] = "open"
  /\ file' = IF file = "absent" THEN "empty" ELSE file
  /\ Goto(p, IF master(p) /\ ~existed[p] THEN "allocate" ELSE "map")
  /\ UNCHANGED <<page, ready, locals>>

\* open creates the file also for those who map it read-only.
Open(p) ==
  /\ pc[p] = "open"
  /\ file' = IF file = "absent" THEN "empty" ELSE file
  /\ Goto(p, IF master(p) /\ (~existed[p] \/ ~sized[p]) THEN "allocate" ELSE "map")
  /\ UNCHANGED <<page, ready, locals>>

Allocate(p) ==
  /\ pc[p] = "allocate"
  /\ file' = "sized"
  /\ Goto(p, "map")
  /\ UNCHANGED <<page, ready, locals>>

\* A call fails and the exception leaves Page::load.
CallFails(p) ==
  /\ \/ pc[p] = "allocate" /\ "fallocate" \in FailingCalls
     \/ pc[p] = "map" /\ prefault(p) /\ "mlock" \in FailingCalls
     \/ pc[p] = "await" /\ "populate" \in FailingCalls
  /\ Goto(p, "threw")
  /\ UNCHANGED <<file, page, ready, locals>>

\* A slip: a prefaulting load zeroes every file it maps.
MapZeroing(p) ==
  /\ pc[p] = "map"
  /\ Goto(p, IF prefault(p) THEN "zeroHead" ELSE "check")
  /\ UNCHANGED <<file, page, ready, locals>>

\* mmap and mlock; what follows depends on file_exists as it was before open.
Map(p) ==
  /\ pc[p] = "map"
  /\ Goto(p, IF prefault(p) /\ ~existed[p] THEN "zeroHead" ELSE "check")
  /\ UNCHANGED <<file, page, ready, locals>>

\* memset, from the low addresses up.
ZeroHead(p) ==
  /\ pc[p] = "zeroHead"
  /\ fields' = FALSE /\ lastPos' = 0
  /\ Goto(p, "zeroRest")
  /\ UNCHANGED <<file, present, committed, ready, locals>>

ZeroRest(p) ==
  /\ pc[p] = "zeroRest"
  /\ present' = {}
  /\ Goto(p, "check")
  /\ UNCHANGED <<file, fields, lastPos, committed, ready, locals>>

-----------------------------------------------------------------------------
(* Page::load *)

\* is_new_page.  Behind the end of a file that is too short the load raises
\* SIGBUS, and a mapping that is not a master's is read-only.
Check(p) ==
  /\ pc[p] = "check"
  /\ Goto(p, IF file # "sized" \/ (lastPos = 0 /\ ~master(p)) THEN "killed"
             ELSE IF lastPos = 0 THEN "blank" ELSE "validate")
  /\ UNCHANGED <<file, page, ready, locals>>

BlankHeader(p) ==
  /\ pc[p] = "blank"
  /\ fields' = FALSE /\ lastPos' = 0
  /\ todo' = [todo EXCEPT ![p] = HeaderParts]
  /\ Goto(p, "store")
  /\ UNCHANGED <<file, present, committed, ready, existed, sized>>

\* A slip: last_frame_position, which tells others that the header is there, is
\* stored before the rest.
StoreHeaderLastFirst(p) ==
  /\ pc[p] = "store"
  /\ \E part \in todo[p] :
       /\ part = "fields" => todo[p] = {"fields"}
       /\ fields' = IF part = "fields" THEN TRUE ELSE fields
       /\ lastPos' = IF part = "last" THEN 1 ELSE lastPos
       /\ todo' = [todo EXCEPT ![p] = @ \ {part}]
       /\ Goto(p, IF todo[p] = {part} THEN "validate" ELSE "store")
  /\ UNCHANGED <<file, present, committed, ready, existed, sized>>

\* The stores into the header are plain and the fence comes after all of them:
\* unless the build and the processor keep their order, another process may see
\* last_frame_position before the rest.
StoreHeader(p) ==
  /\ pc[p] = "store"
  /\ \E part \in todo[p] :
       /\ InOrder /\ part = "last" => todo[p] = {"last"}
       /\ fields' = IF part = "fields" THEN TRUE ELSE fields
       /\ lastPos' = IF part = "last" THEN 1 ELSE lastPos
       /\ todo' = [todo EXCEPT ![p] = @ \ {part}]
       /\ Goto(p, IF todo[p] = {part} THEN "validate" ELSE "store")
  /\ UNCHANGED <<file, present, committed, ready, existed, sized>>

Validate(p) ==
  /\ pc[p] = "validate"
  /\ Goto(p, IF fields THEN "loaded" ELSE "refused")
  /\ UNCHANGED <<file, page, ready, locals>>

\* firstFrameAddress: the header's page_header_length is read once more.
TakeFirstFrame(p) ==
  /\ pc[p] = "loaded"
  /\ Goto(p, IF fields THEN "using" ELSE "astray")
  /\ ready' = IF p = Writer THEN TRUE ELSE ready
  /\ UNCHANGED <<file, page, locals>>

-----------------------------------------------------------------------------
(* A lazy reader's warmer: readerWarmerLoop, and loadPage's fast path. *)

OpenExisting(p) ==
  /\ pc[p] = "out" /\ p \in Warmers
  /\ Goto(p, IF file = "sized" THEN "await" ELSE "threw")
  /\ UNCHANGED <<file, page, ready, locals>>

\* The header appears before the timeout, or it does not.
AwaitHeader(p) ==
  /\ pc[p] = "await"
  /\ Goto(p, IF fields THEN "warmed" ELSE "threw")
  /\ UNCHANGED <<file, page, ready, locals>>

\* loadNextPage, past the sentinel, takes the warmed mapping.
LoadFromAddress(p) ==
  /\ pc[p] = "warmed" /\ ready
  /\ Goto(p, IF fields THEN "loaded" ELSE "refused")
  /\ UNCHANGED <<file, page, ready, locals>>

-----------------------------------------------------------------------------
\* The writer commits a frame.
Commit ==
  /\ pc[Writer] = "using" /\ committed < MaxFrames
  /\ committed' = committed + 1
  /\ present' = present \cup {committed + 1}
  /\ lastPos' = committed + 1
  /\ UNCHANGED <<file, fields, ready, pc, locals>>

\* A process dies, or its caller tries again.  What happens to a page that the
\* writer had at work before it died is the matter of JournalSystem.
Restart(p) ==
  /\ pc[p] # "out" /\ ~(p = Writer /\ ready)
  /\ Goto(p, "out")
  /\ UNCHANGED <<file, page, ready, locals>>

Step(p) ==
  \/ Stat(p) \/ Open(p) \/ Allocate(p) \/ CallFails(p) \/ Map(p)
  \/ ZeroHead(p) \/ ZeroRest(p) \/ Check(p) \/ BlankHeader(p) \/ StoreHeader(p)
  \/ Validate(p) \/ TakeFirstFrame(p)
  \/ OpenExisting(p) \/ AwaitHeader(p) \/ LoadFromAddress(p) \/ Restart(p)

Next == Commit \/ \E p \in Procs : Step(p)

Spec == Init /\ [][Next]_vars

-----------------------------------------------------------------------------
(* Properties. *)

Locations == {"out", "open", "allocate", "map", "zeroHead", "zeroRest", "check",
              "blank", "store", "validate", "loaded", "await", "warmed", "using",
              "threw", "refused", "killed", "astray"}

\* Every variable has its type.
LoaderTypeOK ==
  /\ file \in {"absent", "empty", "sized"} /\ fields \in BOOLEAN
  /\ lastPos \in Nat /\ committed \in Nat /\ present \subseteq Nat
  /\ ready \in BOOLEAN /\ pc \in [Procs -> Locations]
  /\ existed \in [Procs -> BOOLEAN] /\ sized \in [Procs -> BOOLEAN]
  /\ todo \in [Procs -> SUBSET HeaderParts]

\* Nobody who loads a page destroys what the writer put there, whatever stage of
\* creating the file the others had reached or died in: the frames stay, and
\* once the writer has announced the page its header is complete and
\* last_frame_position names the last frame (loadMmapBuffer: "Only zero-fill if
\* this is a NEW file being created by master"; Page::load's is_new_page).
PageKept ==
  /\ present = 1 .. committed
  /\ ready => /\ file = "sized" /\ fields
              /\ lastPos = IF committed = 0 THEN 1 ELSE committed

\* A page that somebody left half created, at whatever call he died, never stops
\* a master: its load ends with the page or with an exception from a system
\* call, it is neither killed by the mapping nor refused by its own validation.
\* And nobody works on a page whose first frame he takes to be the header.
MastersGetThrough ==
  \A p \in Procs : /\ pc[p] # "astray"
                   /\ master(p) => pc[p] \notin {"killed", "refused"}

-----------------------------------------------------------------------------
(* The inductive invariant, for prefaulting readers that come after the page is *)
(* ready and header stores that keep their order.                               *)

\* last_frame_position is the last thing stored into a header.
HeaderWhole == lastPos # 0 => fields /\ file = "sized"

\* The page is announced once, and nothing is written to it before.
Announced == (ready <=> pc[Writer] = "using") /\ (~ready => committed = 0 /\ lastPos <= 1)

\* The writer's own load: it zeroes or initialises only while
\* last_frame_position is 0, and after allocating the file has its size.
WriterLoading ==
  LET at == pc[Writer]
  IN  /\ at = "open" /\ sized[Writer] => file = "sized"
      /\ at \in {"map", "zeroHead", "zeroRest", "check", "blank", "store",
                 "validate", "loaded"} => file = "sized"
      /\ at \in {"open", "allocate", "map"} /\ ~existed[Writer] => lastPos = 0
      /\ at \in {"zeroHead", "zeroRest", "blank", "store"} => lastPos = 0
      /\ at = "store" => "last" \in todo[Writer] /\ (fields \/ "fields" \in todo[Writer])

\* Everyone else stores nothing: a prefaulting reader found a page that was ready.
OthersLoading ==
  \A p \in Procs \ {Writer} :
    /\ pc[p] \notin {"allocate", "zeroHead", "zeroRest", "blank", "store"}
    /\ p \in Prefaulting /\ pc[p] # "out" => ready
    /\ p \in Prefaulting /\ pc[p] \in {"open", "map"} => existed[p] /\ sized[p]

\* Whoever found last_frame_position set may go on to use the page.
Passed == \A p \in Procs : pc[p] \in {"validate", "loaded"} => lastPos # 0

\* What holds at every step of every loader (see PageKept, MastersGetThrough).
LoaderInv == /\ LoaderTypeOK /\ HeaderWhole /\ Announced /\ WriterLoading
             /\ OthersLoading /\ Passed /\ PageKept /\ MastersGetThrough
=============================================================================
