--------------------------- MODULE ReaderThreads ---------------------------
(***************************************************************************)
(* A reading Journal with background_threads = true and prefault = false:  *)
(* the reader's thread (loadPage, ~Journal), retireLoop and                *)
(* readerWarmerLoop.  The three hand mappings of page files to each other  *)
(* under two mutexes and two condition variables.                          *)
(*                                                                         *)
(* A section under retire_mutex_ is one step.  So is one under             *)
(* warmer_mutex_, except that the warmer's wait tests and then sleeps: its *)
(* predicate reads retire_running_, which that mutex does not protect.     *)
(***************************************************************************)
EXTENDS Naturals, Sequences, FiniteSets

CONSTANTS
  Addrs,          \* bound: the addresses mmap may return
  MaxPage,        \* bound: the writer creates pages 1..MaxPage
  RetainedLimit   \* JournalOptions::retained_page_limit

\* No mapping.
Null == "null"

ASSUME ThreadsAssumption ==
  /\ Addrs # {} /\ Null \notin Addrs
  /\ MaxPage \in Nat \ {0}
  /\ RetainedLimit \in Nat

VARIABLES
  sized, ready,   \* pages 1..sized have their full size, 1..ready a header
  mapped,         \* address -> the page mapped there, 0 if none
  main,           \* what the reader's thread does next
  current,        \* the mapping of current_page_
  currentId,      \* its page id, 0 without a page
  target,         \* loadPage's argument
  fresh,          \* loadPage's new_page
  retired,        \* retired_pages_
  queue,          \* retire_queue_
  running,        \* retire_running_
  retire, doomed, \* retireLoop: what it does next, its local page
  warmer, addr,   \* readerWarmerLoop: what it does next, its local mapping
  toWarm,         \* page_to_warm
  lock,           \* warmer_mutex_ is held by a warmer about to sleep
  nextPage, pending, warmAddr, readyId   \* warmer_*

filesVars == <<sized, ready>>
mainVars == <<main, current, currentId, target, fresh, retired>>
retireVars == <<retire, doomed>>
warmerVars == <<warmer, addr, toWarm>>
sharedVars == <<nextPage, pending, warmAddr, readyId>>
vars == <<filesVars, mapped, mainVars, queue, running, retireVars, warmerVars,
          lock, sharedVars>>

Init ==
  /\ sized = 0 /\ ready = 0
  /\ mapped = [a \in Addrs |-> 0]
  /\ main = "idle" /\ current = Null /\ currentId = 0
  /\ target = 0 /\ fresh = Null /\ retired = <<>>
  /\ queue = <<>> /\ running = TRUE
  /\ retire = "wait" /\ doomed = Null
  /\ warmer = "wait" /\ addr = Null /\ toWarm = 0
  /\ lock = FALSE
  /\ nextPage = 0 /\ pending = FALSE /\ warmAddr = Null /\ readyId = 0

-----------------------------------------------------------------------------
(* Mappings and files. *)

\* mmap returns an address that is not in use; which one makes no difference.
FreeAddr == CHOOSE a \in Addrs : mapped[a] = 0
Map(p) ==
  /\ \E a \in Addrs : mapped[a] = 0
  /\ mapped' = [mapped EXCEPT ![FreeAddr] = p]

\* releaseMmapBuffer
Unmap(as) == mapped' = [a \in Addrs |-> IF a \in as THEN 0 ELSE mapped[a]]

\* The writer, in another process, creates and then initialises the next page.
CreatePage ==
  /\ sized = ready /\ sized < MaxPage
  /\ sized' = sized + 1
  /\ UNCHANGED <<ready, mapped, mainVars, queue, running, retireVars, warmerVars,
                 lock, sharedVars>>
InitPage ==
  /\ ready < sized
  /\ ready' = ready + 1
  /\ UNCHANGED <<sized, mapped, mainVars, queue, running, retireVars, warmerVars,
                 lock, sharedVars>>

WakeRetire == retire' = IF retire = "asleep" THEN "wait" ELSE retire
WakeWarmer == warmer' = IF warmer = "asleep" THEN "wait" ELSE warmer

-----------------------------------------------------------------------------
(* The reader's thread. *)

\* A slip: the mapping is taken whatever page it is of.
TakeAny ==
  /\ main = "idle" /\ ~lock
  /\ \E p \in 1 .. ready : p # currentId /\ target' = p
  /\ IF warmAddr # Null
       THEN /\ fresh' = warmAddr
            /\ warmAddr' = Null /\ readyId' = 0
       ELSE UNCHANGED <<fresh, warmAddr, readyId>>
  /\ main' = "load"
  /\ UNCHANGED <<filesVars, mapped, current, currentId, retired, queue, running,
                 retireVars, warmerVars, lock, nextPage, pending>>

\* loadPage of another page, the fast path: take the warmer's mapping.  Callers
\* ask for pages that are initialised, so loadFromAddress accepts the header.
TakeWarmed ==
  /\ main = "idle" /\ ~lock
  /\ \E p \in 1 .. ready : p # currentId /\ target' = p
  /\ IF readyId = target' /\ warmAddr # Null
       THEN /\ fresh' = warmAddr
            /\ warmAddr' = Null /\ readyId' = 0
       ELSE UNCHANGED <<fresh, warmAddr, readyId>>
  /\ main' = "load"
  /\ UNCHANGED <<filesVars, mapped, current, currentId, retired, queue, running,
                 retireVars, warmerVars, lock, nextPage, pending>>

\* The slow path, Page::load.
LoadSlow ==
  /\ main = "load" /\ fresh = Null
  /\ Map(target)
  /\ fresh' = FreeAddr
  /\ UNCHANGED <<filesVars, main, current, currentId, target, retired, queue,
                 running, retireVars, warmerVars, lock, sharedVars>>

\* Page::load throws: the reader stays on its page.
LoadThrows ==
  /\ main = "load" /\ fresh = Null
  /\ main' = "idle" /\ target' = 0
  /\ UNCHANGED <<filesVars, mapped, current, currentId, fresh, retired, queue,
                 running, retireVars, warmerVars, lock, sharedVars>>

\* The new page becomes current; the old one is retained, and the oldest page
\* beyond the limit goes to the retire thread.
SwapPage ==
  /\ main = "load" /\ fresh # Null
  /\ current' = fresh /\ currentId' = target /\ fresh' = Null /\ target' = 0
  /\ LET kept == IF current = Null THEN retired ELSE Append(retired, current)
     IN  IF Len(kept) > RetainedLimit
           THEN /\ queue' = Append(queue, Head(kept))
                /\ retired' = Tail(kept)
                /\ WakeRetire
           ELSE /\ retired' = kept
                /\ UNCHANGED <<queue, retire>>
  /\ main' = "signal"
  /\ UNCHANGED <<filesVars, mapped, running, doomed, warmerVars, lock, sharedVars>>

\* loadPage's last section: ask for the page after this one.
SignalWarmer ==
  /\ main = "signal" /\ ~lock
  /\ nextPage' = currentId + 1
  /\ pending' = TRUE
  /\ WakeWarmer
  /\ main' = "idle"
  /\ UNCHANGED <<filesVars, mapped, current, currentId, target, fresh, retired,
                 queue, running, retireVars, addr, toWarm, lock, warmAddr, readyId>>

-----------------------------------------------------------------------------
(* ~Journal. *)

\* A slip: the retained pages are forgotten.
ShutForgetting ==
  /\ main = "idle"
  /\ queue' = IF current = Null THEN queue ELSE Append(queue, current)
  /\ current' = Null /\ retired' = <<>>
  /\ running' = FALSE
  /\ main' = "notifyRetire"
  /\ UNCHANGED <<filesVars, mapped, currentId, target, fresh, retireVars,
                 warmerVars, lock, sharedVars>>

\* Under retire_mutex_: all pages go to the retire thread, and the flag falls.
Shut ==
  /\ main = "idle"
  /\ queue' = (IF current = Null THEN queue ELSE Append(queue, current)) \o retired
  /\ current' = Null /\ retired' = <<>>
  /\ running' = FALSE
  /\ main' = "notifyRetire"
  /\ UNCHANGED <<filesVars, mapped, currentId, target, fresh, retireVars,
                 warmerVars, lock, sharedVars>>

NotifyRetire ==
  /\ main = "notifyRetire"
  /\ WakeRetire
  /\ main' = "barrier"
  /\ UNCHANGED <<filesVars, mapped, current, currentId, target, fresh, retired,
                 queue, running, doomed, warmerVars, lock, sharedVars>>

\* A slip: notify_all without taking the mutex first.
NoBarrier ==
  /\ main = "barrier"
  /\ main' = "notifyWarmer"
  /\ UNCHANGED <<filesVars, mapped, current, currentId, target, fresh, retired,
                 queue, running, retireVars, warmerVars, lock, sharedVars>>

\* The empty section under warmer_mutex_.
Barrier ==
  /\ main = "barrier" /\ ~lock
  /\ main' = "notifyWarmer"
  /\ UNCHANGED <<filesVars, mapped, current, currentId, target, fresh, retired,
                 queue, running, retireVars, warmerVars, lock, sharedVars>>

NotifyWarmer ==
  /\ main = "notifyWarmer"
  /\ WakeWarmer
  /\ main' = "join"
  /\ UNCHANGED <<filesVars, mapped, current, currentId, target, fresh, retired,
                 queue, running, retireVars, addr, toWarm, lock, sharedVars>>

\* Both joins return, and releaseWarmedPage.
Finish ==
  /\ main = "join" /\ retire = "done" /\ warmer = "done"
  /\ Unmap({warmAddr})
  /\ warmAddr' = Null /\ readyId' = 0
  /\ main' = "gone"
  /\ UNCHANGED <<filesVars, current, currentId, target, fresh, retired, queue,
                 running, retireVars, warmerVars, lock, nextPage, pending>>

-----------------------------------------------------------------------------
(* retireLoop. *)

RetireWait ==
  /\ retire = "wait"
  /\ retire' = IF queue # <<>> \/ ~running THEN "drain" ELSE "asleep"
  /\ UNCHANGED <<filesVars, mapped, mainVars, queue, running, doomed, warmerVars,
                 lock, sharedVars>>

\* The inner loop's head, and what follows when the queue is empty.
RetireDrain ==
  /\ retire = "drain"
  /\ IF queue # <<>>
       THEN /\ doomed' = Head(queue) /\ queue' = Tail(queue)
            /\ retire' = "unmap"
       ELSE /\ retire' = IF running THEN "wait" ELSE "done"
            /\ UNCHANGED <<queue, doomed>>
  /\ UNCHANGED <<filesVars, mapped, mainVars, running, warmerVars, lock, sharedVars>>

\* page.reset() without the lock.
RetireUnmap ==
  /\ retire = "unmap"
  /\ Unmap({doomed})
  /\ doomed' = Null
  /\ retire' = "drain"
  /\ UNCHANGED <<filesVars, mainVars, queue, running, warmerVars, lock, sharedVars>>

-----------------------------------------------------------------------------
(* readerWarmerLoop. *)

\* A newer request or the shutdown ends the work on this page.
Interrupted == pending \/ ~running

\* The predicate of the wait, with the mutex held.
WarmerTest ==
  /\ warmer = "wait"
  /\ \/ /\ ~running
        /\ warmer' = "done"
        /\ UNCHANGED <<toWarm, pending, lock>>
     \/ /\ running /\ pending
        /\ pending' = FALSE /\ toWarm' = nextPage
        /\ warmer' = "stat"
        /\ UNCHANGED lock
     \/ /\ ~Interrupted
        /\ lock' = TRUE
        /\ warmer' = "sleep"
        /\ UNCHANGED <<toWarm, pending>>
  /\ UNCHANGED <<filesVars, mapped, mainVars, queue, running, retireVars, addr,
                 nextPage, warmAddr, readyId>>

\* The wait releases the mutex and blocks.
WarmerSleep ==
  /\ warmer = "sleep"
  /\ warmer' = "asleep" /\ lock' = FALSE
  /\ UNCHANGED <<filesVars, mapped, mainVars, queue, running, retireVars, addr,
                 toWarm, sharedVars>>

\* Either wait may return without a notification.
SpuriousWake ==
  /\ \/ retire = "asleep" /\ retire' = "wait" /\ UNCHANGED warmer
     \/ warmer = "asleep" /\ warmer' = "wait" /\ UNCHANGED retire
  /\ UNCHANGED <<filesVars, mapped, mainVars, queue, running, doomed, addr, toWarm,
                 lock, sharedVars>>

\* The loop that waits for the file to have its size; it may time out.
WarmerStat ==
  /\ warmer = "stat"
  /\ \/ Interrupted /\ warmer' = "wait"
     \/ ~Interrupted /\ toWarm <= sized /\ warmer' = "recheck"
     \/ ~Interrupted /\ toWarm > sized /\ warmer' = "wait"
  /\ UNCHANGED <<filesVars, mapped, mainVars, queue, running, retireVars, addr,
                 toWarm, lock, sharedVars>>

WarmerRecheck ==
  /\ warmer = "recheck"
  /\ warmer' = IF Interrupted THEN "wait" ELSE "map"
  /\ UNCHANGED <<filesVars, mapped, mainVars, queue, running, retireVars, addr,
                 toWarm, lock, sharedVars>>

\* loadExistingReadOnlyMmapBuffer, or its exception.
WarmerMap ==
  /\ warmer = "map"
  /\ \/ Map(toWarm) /\ addr' = FreeAddr /\ warmer' = "header"
     \/ warmer' = "wait" /\ UNCHANGED <<mapped, addr>>
  /\ UNCHANGED <<filesVars, mainVars, queue, running, retireVars, toWarm, lock,
                 sharedVars>>

\* The work on this page is given up and its mapping released.
GiveUp == Unmap({addr}) /\ addr' = Null /\ warmer' = "wait"

\* The loop that waits for the header; it may time out.
WarmerHeader ==
  /\ warmer = "header"
  /\ \/ Interrupted /\ GiveUp
     \/ ~Interrupted /\ toWarm <= ready /\ warmer' = "populate"
          /\ UNCHANGED <<mapped, addr>>
     \/ ~Interrupted /\ toWarm > ready /\ GiveUp
  /\ UNCHANGED <<filesVars, mainVars, queue, running, retireVars, toWarm, lock,
                 sharedVars>>

\* prepareReadOnlyMmapBuffer, or its exception.
WarmerPopulate ==
  /\ warmer = "populate"
  /\ \/ warmer' = "publish" /\ UNCHANGED <<mapped, addr>>
     \/ GiveUp
  /\ UNCHANGED <<filesVars, mainVars, queue, running, retireVars, toWarm, lock,
                 sharedVars>>

\* A slip: the last test is left out.
PublishUntested ==
  /\ warmer = "publish"
  /\ Unmap({warmAddr})
  /\ warmAddr' = addr /\ readyId' = toWarm
  /\ addr' = Null /\ warmer' = "wait"
  /\ UNCHANGED <<filesVars, mainVars, queue, running, retireVars, toWarm, lock,
                 nextPage, pending>>

\* The last section: hand the mapping over in place of an older one.
WarmerPublish ==
  /\ warmer = "publish"
  /\ \/ Interrupted /\ GiveUp /\ UNCHANGED <<warmAddr, readyId>>
     \/ /\ ~Interrupted
        /\ Unmap({warmAddr})
        /\ warmAddr' = addr /\ readyId' = toWarm
        /\ addr' = Null /\ warmer' = "wait"
  /\ UNCHANGED <<filesVars, mainVars, queue, running, retireVars, toWarm, lock,
                 nextPage, pending>>

-----------------------------------------------------------------------------
LoadStep == TakeWarmed \/ LoadSlow \/ LoadThrows \/ SwapPage \/ SignalWarmer
CloseStep == NotifyRetire \/ Barrier \/ NotifyWarmer \/ Finish
RetireStep == RetireWait \/ RetireDrain \/ RetireUnmap
WarmerStep == \/ WarmerTest \/ WarmerSleep \/ WarmerStat \/ WarmerRecheck
              \/ WarmerMap \/ WarmerHeader \/ WarmerPopulate \/ WarmerPublish

Next == \/ CreatePage \/ InitPage \/ LoadStep \/ Shut \/ CloseStep
        \/ RetireStep \/ WarmerStep \/ SpuriousWake

Spec == Init /\ [][Next]_vars

\* Each thread is scheduled as long as it can run.
FairSpec == Spec /\ WF_vars(CloseStep) /\ WF_vars(RetireStep) /\ WF_vars(WarmerStep)

-----------------------------------------------------------------------------
(* Properties. *)

\* How often a sequence holds an address.
Times(a, s) == Cardinality({i \in DOMAIN s : s[i] = a})

\* What holds one mapping at a time.
Members == <<current, fresh, doomed, addr, warmAddr>>

\* Every mapping has exactly one owner, and every owner's mapping exists: the
\* hand-overs between loadPage, retireLoop and readerWarmerLoop neither leak a
\* mapping, release one twice nor leave one that is gone in use.
OneOwner ==
  \A a \in Addrs :
    Times(a, Members) + Times(a, retired) + Times(a, queue) =
      IF mapped[a] = 0 THEN 0 ELSE 1

\* The page the reader works on is the one it asked for, and it is initialised
\* (warmer_ready_id_ is compared under the same lock that publishes it).
RightPage == current # Null => mapped[current] = currentId /\ currentId <= ready

\* What the warmer hands over is what the reader asked for last: a mapping for
\* an outdated request is dropped, not published.
PublishesLatest ==
  [][(warmAddr' # warmAddr /\ warmAddr' # Null) => readyId' = nextPage]_vars

\* Once ~Journal has begun it returns, with every mapping released: no thread
\* sleeps through the shutdown, whichever mutex it waits under.
ShutdownEnds ==
  ~running ~> (main = "gone" /\ \A a \in Addrs : mapped[a] = 0)
=============================================================================
