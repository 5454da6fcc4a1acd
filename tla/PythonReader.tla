---------------------------- MODULE PythonReader ----------------------------
(***************************************************************************)
(* The Python bindings of JournalReader: threads of an interpreter that    *)
(* call read, __next__, next and current_frame.  A call runs under the     *)
(* interpreter lock and is one step, except read with a timeout: it gives  *)
(* the lock up while it polls, and other threads may use the reader then.  *)
(* Between two calls, current_frame and next say, the lock is free too.    *)
(*                                                                         *)
(* ppc[t]:                                                                 *)
(*   idle     no call                  peek, load  the polling loop: take  *)
(*   clock    compare with deadline    the frame's address, then its length*)
(*   held     has a snapshot from current_frame, next is to come           *)
(*   peek2, load2  the test behind the loop                                *)
(*   lock     take the interpreter lock again and finish                   *)
(*   killed   SIGSEGV                                                      *)
(***************************************************************************)
EXTENDS FrameStream, Integers, FiniteSets

CONSTANTS
  PyThreads,
  readerOf,     \* thread -> the reader it uses
  Spinners,     \* the threads that call read with a timeout
  Peekers,      \* the threads that call current_frame and then next
  Timeouts,     \* the timeouts, in clock ticks
  Retained,     \* pages behind the current one that stay mapped
  MaxClock      \* bound: clock ticks

ASSUME PythonAssumption ==
  /\ Spinners \subseteq PyThreads /\ Peekers \subseteq PyThreads
  /\ Timeouts \subseteq Int /\ 0 \notin Timeouts
  /\ Retained \in Nat /\ MaxClock \in Nat /\ \A n \in Timeouts : n <= MaxClock

PyReaders == {readerOf[t] : t \in PyThreads}

VARIABLES
  ppc,          \* see above
  ppos,         \* reader -> frames it has passed
  address,      \* thread -> the frame whose address it holds
  held,         \* thread -> the frame its snapshot is of, 0 without one
  deadline,     \* thread -> when its read gives up
  found,        \* thread -> what the test behind the loop said
  known,        \* history: how many frames there were when the loop gave up
  stopped,      \* history: the threads whose read raised StopIteration
  got,          \* history: reader -> the frames handed out, in order
  clock

pythonVars == <<ppc, ppos, address, held, deadline, found, known, stopped, got, clock>>

PythonInit ==
  /\ ppc = [t \in PyThreads |-> "idle"]
  /\ ppos = [r \in PyReaders |-> 0]
  /\ address = [t \in PyThreads |-> 0] /\ held = [t \in PyThreads |-> 0]
  /\ deadline = [t \in PyThreads |-> 0]
  /\ found = [t \in PyThreads |-> FALSE] /\ known = [t \in PyThreads |-> 0]
  /\ stopped = {}
  /\ got = [r \in PyReaders |-> <<>>] /\ clock = 0

Goto(t, where) == ppc' = [ppc EXCEPT ![t] = where]
HasFrame(t) == ppos[readerOf[t]] < Len(log)

\* snap_and_advance with a frame there: the copy is made before the reader moves.
SnapAndAdvance(t) ==
  LET r == readerOf[t]
  IN  /\ ppos' = [ppos EXCEPT ![r] = @ + 1]
      /\ got' = [got EXCEPT ![r] = Append(@, log[ppos[r] + 1])]

\* The page a frame is on: sentinels before it.
PageOf(i) == Cardinality({k \in 1 .. i - 1 : log[k].msg_type = "PageEnd"})

-----------------------------------------------------------------------------
\* __next__ and read(0) with a frame there; without one they raise StopIteration
\* and return None.
Take(t) ==
  /\ ppc[t] = "idle" /\ HasFrame(t)
  /\ SnapAndAdvance(t)
  /\ UNCHANGED <<ppc, address, held, deadline, found, known, stopped, clock>>

\* current_frame: a snapshot, and the reader stays where it is; None without a frame.
CurrentFrame(t) ==
  /\ ppc[t] = "idle" /\ t \in Peekers /\ HasFrame(t)
  /\ held' = [held EXCEPT ![t] = ppos[readerOf[t]] + 1]
  /\ Goto(t, "held")
  /\ UNCHANGED <<ppos, address, deadline, found, known, stopped, got, clock>>

\* next, a call of its own: the reader passes the frame it is at by now, and the
\* thread is done with the one it holds; without a frame it moves by a length of 0.
NextCall(t) ==
  /\ ppc[t] = "held"
  /\ ppos' = IF HasFrame(t) THEN [ppos EXCEPT ![readerOf[t]] = @ + 1] ELSE ppos
  /\ got' = [got EXCEPT ![readerOf[t]] = Append(@, log[held[t]])]
  /\ held' = [held EXCEPT ![t] = 0]
  /\ Goto(t, "idle")
  /\ UNCHANGED <<address, deadline, found, known, stopped, clock>>

\* read(timeout_ms): the deadline, and the lock is given up.
ReadBegin(t) ==
  /\ ppc[t] = "idle" /\ t \in Spinners
  /\ \E timeout \in Timeouts :
       /\ clock + timeout <= MaxClock
       /\ deadline' = [deadline EXCEPT ![t] = clock + timeout]
  /\ Goto(t, "peek")
  /\ UNCHANGED <<ppos, address, held, found, known, stopped, got, clock>>

\* isDataAvailable without the lock: the frame's address ...
Peek(t) ==
  /\ ppc[t] \in {"peek", "peek2"}
  /\ address' = [address EXCEPT ![t] = ppos[readerOf[t]] + 1]
  /\ Goto(t, IF ppc[t] = "peek" THEN "load" ELSE "load2")
  /\ UNCHANGED <<ppos, held, deadline, found, known, stopped, got, clock>>

\* Its page may have been left, and unmapped, since.
Unmapped(t) == PageOf(address[t]) + Retained < PageOf(ppos[readerOf[t]] + 1)

\* A slip: the loop looks at the clock only once it has seen a frame.
LoadWithoutClock(t) ==
  /\ ppc[t] \in {"load", "load2"}
  /\ LET data == address[t] <= Len(log)
     IN  /\ Goto(t, IF ppc[t] = "load2" THEN "lock" ELSE IF data THEN "peek2" ELSE "peek")
         /\ found' = [found EXCEPT ![t] = data /\ ppc[t] = "load2"]
  /\ address' = [address EXCEPT ![t] = 0]
  /\ UNCHANGED <<ppos, held, deadline, known, stopped, got, clock>>

\* ... and the length behind it.
Load(t) ==
  /\ ppc[t] \in {"load", "load2"}
  /\ LET data == address[t] <= Len(log)
     IN  /\ Goto(t, IF Unmapped(t) THEN "killed"
                    ELSE IF ppc[t] = "load2" THEN "lock"
                    ELSE IF data THEN "peek2" ELSE "clock")
         /\ found' = [found EXCEPT ![t] = data /\ ppc[t] = "load2"]
  /\ address' = [address EXCEPT ![t] = 0]
  /\ UNCHANGED <<ppos, held, deadline, known, stopped, got, clock>>

\* A slip: when the time is up the loop's last test is trusted.
LookAtClockAndGiveUp(t) ==
  /\ ppc[t] = "clock"
  /\ IF clock >= deadline[t]
       THEN Goto(t, "lock") /\ known' = [known EXCEPT ![t] = Len(log)]
       ELSE Goto(t, "peek") /\ UNCHANGED known
  /\ UNCHANGED <<ppos, address, held, deadline, found, stopped, got, clock>>

\* The loop ends when the time is up, behind it comes one more test.
LookAtClock(t) ==
  /\ ppc[t] = "clock"
  /\ IF clock >= deadline[t]
       THEN Goto(t, "peek2") /\ known' = [known EXCEPT ![t] = Len(log)]
       ELSE Goto(t, "peek") /\ UNCHANGED known
  /\ UNCHANGED <<ppos, address, held, deadline, found, stopped, got, clock>>

\* With the lock again: None, or the frame, or StopIteration from
\* snap_and_advance when the frame that was found is gone.
ReadEnd(t) ==
  /\ ppc[t] = "lock"
  /\ IF found[t] /\ HasFrame(t)
       THEN SnapAndAdvance(t) /\ UNCHANGED stopped
       ELSE /\ stopped' = IF found[t] THEN stopped \cup {t} ELSE stopped
            /\ UNCHANGED <<ppos, got>>
  /\ Goto(t, "idle")
  /\ deadline' = [deadline EXCEPT ![t] = 0]
  /\ found' = [found EXCEPT ![t] = FALSE] /\ known' = [known EXCEPT ![t] = 0]
  /\ UNCHANGED <<address, held, clock>>

Tick ==
  /\ clock < MaxClock
  /\ clock' = clock + 1
  /\ UNCHANGED <<ppc, ppos, address, held, deadline, found, known, stopped, got>>

Reading(t) == Peek(t) \/ Load(t) \/ LookAtClock(t) \/ ReadEnd(t)

PythonStep ==
  \/ Tick
  \/ \E t \in PyThreads :
       Take(t) \/ CurrentFrame(t) \/ NextCall(t) \/ ReadBegin(t) \/ Reading(t)
=============================================================================
