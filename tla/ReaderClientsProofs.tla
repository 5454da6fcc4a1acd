------------------------ MODULE ReaderClientsProofs -------------------------
(***************************************************************************)
(* The clients of a journal receive each frame once and in order, however  *)
(* many Python threads share a reader, as long as none of these calls      *)
(* current_frame and next, and whatever the dispatcher's handlers do; and  *)
(* a read that polls a reader of its own returns None for a reason.        *)
(***************************************************************************)
EXTENDS ReaderClients, FiniteSetTheorems, TLAPS

-----------------------------------------------------------------------------
(* What is handed out: the invariant. *)

\* A thread that calls current_frame and then next has its reader to itself.
PeekersAlone ==
  \A t \in Peekers, u \in PyThreads : readerOf[t] = readerOf[u] => t = u

\* Frames are numbered from 0.
StreamOK ==
  /\ log \in Seq(Frame)
  /\ \A i \in 1 .. Len(log) : log[i].seq = i - 1

\* Between a handler's return and the advance, done is one ahead of the reader.
DispatcherOK ==
  /\ done \in Seq(Frame) /\ dpos \in Nat /\ dpos <= Len(log)
  /\ dpc \in {"idle", "dispatch", "advance"}
  /\ dpc = "idle" => Len(done) = dpos
  /\ dpc = "dispatch" => Len(done) = dpos /\ dpos < Len(log)
  /\ dpc = "advance" => Len(done) = dpos + 1 /\ dpos < Len(log)

\* A Python reader has handed out what it has passed.
PythonOK ==
  /\ ppos \in [PyReaders -> Nat] /\ got \in [PyReaders -> Seq(Frame)]
  /\ \A r \in PyReaders : Len(got[r]) = ppos[r] /\ ppos[r] <= Len(log)

Places == {"idle", "held", "peek", "load", "clock", "peek2", "load2", "lock", "killed"}

\* The snapshot a thread holds between current_frame and next is that of the frame
\* its reader is at.
HeldOK ==
  /\ ppc \in [PyThreads -> Places] /\ held \in [PyThreads -> Nat]
  /\ \A t \in PyThreads :
       ppc[t] = "held" => t \in Peekers /\ HasFrame(t) /\ held[t] = ppos[readerOf[t]] + 1

ServedInv == StreamOK /\ DispatcherOK /\ PythonOK /\ HeldOK

\* At the start.
LEMMA ServedInit == Init => ServedInv
<1> SUFFICES ASSUME Init PROVE ServedInv
  OBVIOUS
<1>1. log = <<>> /\ dpc = "idle" /\ dpos = 0 /\ done = <<>>
  BY DEF Init, StreamInit, DispatchInit
<1>2. ppos = [r \in PyReaders |-> 0] /\ got = [r \in PyReaders |-> <<>>]
  BY DEF Init, PythonInit
<1>3. StreamOK /\ DispatcherOK
  BY <1>1 DEF StreamOK, DispatcherOK
<1>4. PythonOK
  BY <1>1, <1>2 DEF PythonOK
<1>5. ppc = [t \in PyThreads |-> "idle"] /\ held = [t \in PyThreads |-> 0]
  BY DEF Init, PythonInit
<1>6. HeldOK
  BY <1>5 DEF HeldOK, Places
<1> QED BY <1>3, <1>4, <1>6 DEF ServedInv

\* Some writer commits: the new frame has the next number.
LEMMA CommitGrows ==
  ASSUME StreamOK, Commit
  PROVE  /\ StreamOK' /\ Len(log') = Len(log) + 1 /\ Len(log) \in Nat
         /\ \A i \in 1 .. Len(log) : log'[i] = log[i]
         /\ log'[Len(log) + 1].seq = Len(log)
<1>0. PICK type \in Types : \E size \in written[type] :
        log' = Append(log, [seq |-> Len(log), msg_type |-> type, size |-> size])
  BY DEF Commit
<1>1. PICK size \in written[type] :
        log' = Append(log, [seq |-> Len(log), msg_type |-> type, size |-> size])
  BY <1>0
<1>2. size \in Nat
  BY <1>1, StreamAssumption
<1>3. log \in Seq(Frame) /\ Len(log) \in Nat
  BY DEF StreamOK
<1> DEFINE f == [seq |-> Len(log), msg_type |-> type, size |-> size]
<1>4. f \in Frame /\ f.seq = Len(log)
  BY <1>2, <1>3 DEF Frame
<1> HIDE DEF f
<1>5. log' = Append(log, f)
  BY <1>1 DEF f
<1>6. /\ log' \in Seq(Frame) /\ Len(log') = Len(log) + 1
      /\ \A i \in 1 .. Len(log) : log'[i] = log[i]
      /\ log'[Len(log) + 1] = f
  BY <1>3, <1>4, <1>5
<1>7. ASSUME NEW i \in 1 .. Len(log') PROVE log'[i].seq = i - 1
  <2>1. CASE i \in 1 .. Len(log)
    BY <1>6, <2>1 DEF StreamOK
  <2>2. CASE i = Len(log) + 1
    BY <1>3, <1>4, <1>6, <2>2
  <2> QED BY <1>3, <1>6, <2>1, <2>2
<1> QED BY <1>3, <1>4, <1>6, <1>7 DEF StreamOK

\* A step of the dispatcher hands out nothing or the frame that follows.
LEMMA DispatcherServes ==
  ASSUME ServedInv, DispatchStep, UNCHANGED log
  PROVE  /\ DispatcherOK'
         /\ \/ done' = done
            \/ Len(done) < Len(log) /\ done' = Append(done, log[Len(done) + 1])
<1> USE DEF ServedInv, StreamOK, DispatcherOK
<1>1. CASE onUnknown \/ clearHandlers \/ \E type \in HandledTypes : on(type)
  BY <1>1 DEF onUnknown, clearHandlers, on
<1>2. CASE run \/ next \/ dispatchCurrent
  <2>1. PICK max : Begin(max)
    BY <1>2 DEF run, next, dispatchCurrent
  <2> QED BY <2>1 DEF Begin
<1>3. CASE DispatchReturns
  <2>1. dpc = "dispatch" /\ dpos' = dpos
    BY <1>3 DEF DispatchReturns
  <2>2. log[dpos + 1] \in Frame
    BY <2>1
  <2>3. CASE dpc' = "idle" /\ done' = done
    BY <2>1, <2>3
  <2>4. CASE dpc' = "advance" /\ done' = Append(done, log[dpos + 1])
    BY <2>1, <2>2, <2>4
  <2> QED BY <1>3, <2>3, <2>4 DEF DispatchReturns, Current
<1>4. CASE DispatchThrows
  BY <1>4 DEF DispatchThrows
<1>5. CASE AdvanceDispatcher
  BY <1>5 DEF AdvanceDispatcher
<1> QED BY <1>1, <1>2, <1>3, <1>4, <1>5 DEF DispatchStep, GoOnDispatching

\* A reader with a frame in front of it hands it out and passes it.
LEMMA SnapServes ==
  ASSUME ServedInv, NEW t \in PyThreads, HasFrame(t), SnapAndAdvance(t), UNCHANGED log
  PROVE  /\ PythonOK'
         /\ \E r \in PyReaders :
              /\ Len(got[r]) < Len(log)
              /\ got' = [got EXCEPT ![r] = Append(@, log[Len(got[r]) + 1])]
<1> DEFINE r == readerOf[t]
<1>1. r \in PyReaders
  BY DEF PyReaders
<1>2. /\ ppos[r] < Len(log) /\ ppos[r] \in Nat /\ Len(got[r]) = ppos[r]
      /\ log \in Seq(Frame) /\ got[r] \in Seq(Frame)
  BY <1>1 DEF ServedInv, StreamOK, PythonOK, HasFrame
<1>3. /\ ppos' = [ppos EXCEPT ![r] = @ + 1]
      /\ got' = [got EXCEPT ![r] = Append(@, log[ppos[r] + 1])]
  BY DEF SnapAndAdvance
<1> HIDE DEF r
<1>4. log[ppos[r] + 1] \in Frame
  BY <1>2
<1>5. ppos' \in [PyReaders -> Nat] /\ got' \in [PyReaders -> Seq(Frame)]
  BY <1>1, <1>2, <1>3, <1>4 DEF ServedInv, PythonOK
<1>6. ASSUME NEW q \in PyReaders
      PROVE  Len(got'[q]) = ppos'[q] /\ ppos'[q] <= Len(log)
  <2>1. CASE q = r
    BY <1>1, <1>2, <1>3, <1>4, <2>1 DEF ServedInv, PythonOK
  <2>2. CASE q # r
    BY <1>3, <2>2 DEF ServedInv, PythonOK
  <2> QED BY <2>1, <2>2
<1>7. PythonOK'
  BY <1>5, <1>6 DEF PythonOK
<1>8. got' = [got EXCEPT ![r] = Append(@, log[Len(got[r]) + 1])]
  BY <1>2, <1>3
<1> QED BY <1>1, <1>2, <1>7, <1>8

\* A step of a Python thread hands out nothing, or the frame that follows.
LEMMA PythonServes ==
  ASSUME ServedInv, PythonStep, UNCHANGED log
  PROVE  /\ PythonOK'
         /\ \/ got' = got
            \/ \E r \in PyReaders :
                 /\ Len(got[r]) < Len(log)
                 /\ got' = [got EXCEPT ![r] = Append(@, log[Len(got[r]) + 1])]
<1>1. CASE UNCHANGED <<ppos, got>>
  BY <1>1 DEF ServedInv, PythonOK
<1>2. CASE \E t \in PyThreads : HasFrame(t) /\ SnapAndAdvance(t)
  BY <1>2, SnapServes
<1>3. CASE Tick
  BY <1>1, <1>3 DEF Tick
<1>4. ASSUME NEW t \in PyThreads,
             Take(t) \/ CurrentFrame(t) \/ NextCall(t) \/ ReadBegin(t) \/ Reading(t)
      PROVE  UNCHANGED <<ppos, got>> \/ (HasFrame(t) /\ SnapAndAdvance(t))
  <2>1. CASE Take(t)
    BY <2>1 DEF Take
  <2>2. CASE ReadBegin(t)
    BY <2>2 DEF ReadBegin
  <2>3. CASE Peek(t)
    BY <2>3 DEF Peek
  <2>4. CASE Load(t)
    BY <2>4 DEF Load
  <2>5. CASE LookAtClock(t)
    BY <2>5 DEF LookAtClock
  <2>6. CASE ReadEnd(t)
    BY <2>6 DEF ReadEnd
  <2>7. CASE CurrentFrame(t)
    BY <2>7 DEF CurrentFrame
  <2>8. CASE NextCall(t)
    <3>1. HasFrame(t) /\ held[t] = ppos[readerOf[t]] + 1
      BY <2>8 DEF NextCall, ServedInv, HeldOK
    <3> QED BY <2>8, <3>1 DEF NextCall, SnapAndAdvance
  <2> QED BY <1>4, <2>1, <2>2, <2>3, <2>4, <2>5, <2>6, <2>7, <2>8 DEF Reading
<1> QED BY <1>1, <1>2, <1>3, <1>4 DEF PythonStep

\* A frame that is there stays there, and a snapshot remains that of the frame its
\* reader is at when nobody moves the reader.
LEMMA SnapshotUndisturbed ==
  ASSUME ServedInv, NEW t \in PyThreads, ppc'[t] = ppc[t], held'[t] = held[t],
         Len(log') \in Nat, Len(log) <= Len(log'),
         ppc[t] = "held" => ppos'[readerOf[t]] = ppos[readerOf[t]]
  PROVE  (ppc[t] = "held"
            => t \in Peekers /\ HasFrame(t) /\ held[t] = ppos[readerOf[t]] + 1)'
<1>1. readerOf[t] \in PyReaders /\ ppos[readerOf[t]] \in Nat /\ Len(log) \in Nat
  BY DEF PyReaders, ServedInv, StreamOK, PythonOK
<1>2. ASSUME ppc[t] = "held"
      PROVE  t \in Peekers /\ ppos[readerOf[t]] < Len(log) /\ held[t] = ppos[readerOf[t]] + 1
  BY <1>2 DEF ServedInv, HeldOK, HasFrame
<1>3. ASSUME ppc[t] = "held" PROVE ppos'[readerOf[t]] < Len(log')
  BY <1>1, <1>2, <1>3
<1> QED BY <1>2, <1>3 DEF HasFrame

\* A thread that holds a snapshot has its reader to itself: nobody moves it.
LEMMA SnapshotKept ==
  ASSUME PeekersAlone, ServedInv, PythonStep, UNCHANGED log
  PROVE  HeldOK'
<1>0. Len(log') \in Nat /\ Len(log) <= Len(log')
  BY DEF ServedInv, StreamOK
<1>1. CASE Tick
  <2>1. UNCHANGED <<ppc, ppos, held>>
    BY <1>1 DEF Tick
  <2> QED BY <1>0, <2>1 DEF ServedInv, HeldOK, HasFrame
<1>2. ASSUME NEW t \in PyThreads,
             Take(t) \/ CurrentFrame(t) \/ NextCall(t) \/ ReadBegin(t) \/ Reading(t)
      PROVE  HeldOK'
  <2>1. /\ ppc' \in [PyThreads -> Places]
        /\ \A u \in PyThreads \ {t} : ppc'[u] = ppc[u]
    BY <1>2 DEF Take, CurrentFrame, NextCall, ReadBegin, Reading, Peek, Load, LookAtClock,
                ReadEnd, Goto, ServedInv, HeldOK, Places
  <2>2. readerOf[t] \in PyReaders /\ ppos[readerOf[t]] \in Nat
    BY DEF PyReaders, ServedInv, PythonOK
  <2>3. /\ held' \in [PyThreads -> Nat]
        /\ \A u \in PyThreads \ {t} : held'[u] = held[u]
    BY <1>2, <2>2 DEF Take, CurrentFrame, NextCall, ReadBegin, Reading, Peek, Load,
                      LookAtClock, ReadEnd, ServedInv, HeldOK
  <2>4. \A r \in PyReaders \ {readerOf[t]} : ppos'[r] = ppos[r]
    BY <1>2, <2>2 DEF Take, CurrentFrame, NextCall, ReadBegin, Reading, Peek, Load,
                      LookAtClock, ReadEnd, SnapAndAdvance, ServedInv, PythonOK
  <2>5. ASSUME NEW u \in PyThreads \ {t}
        PROVE  (ppc[u] = "held"
                  => u \in Peekers /\ HasFrame(u) /\ held[u] = ppos[readerOf[u]] + 1)'
    <3>1. ppc[u] = "held" => readerOf[u] \in PyReaders \ {readerOf[t]}
      BY DEF PeekersAlone, PyReaders, ServedInv, HeldOK
    <3> QED BY <1>0, <2>1, <2>3, <2>4, <3>1, SnapshotUndisturbed
  <2>6. (ppc[t] = "held"
           => t \in Peekers /\ HasFrame(t) /\ held[t] = ppos[readerOf[t]] + 1)'
    <3>1. CASE CurrentFrame(t)
      BY <3>1 DEF CurrentFrame, HasFrame, ServedInv, HeldOK
    <3>2. CASE ~CurrentFrame(t)
      <4>1. ppc'[t] # "held"
        BY <1>2, <3>2 DEF Take, NextCall, ReadBegin, Reading, Peek, Load,
                          LookAtClock, ReadEnd, Goto, ServedInv, HeldOK
      <4> QED BY <4>1
    <3> QED BY <3>1, <3>2
  <2> QED BY <2>1, <2>3, <2>5, <2>6 DEF HeldOK
<1> QED BY <1>1, <1>2 DEF PythonStep

\* The invariant is inductive.
LEMMA ServedNext ==
  ASSUME PeekersAlone, ServedInv, [Next]_vars
  PROVE  ServedInv'
<1>1. CASE Commit /\ UNCHANGED <<dispatchVars, pythonVars>>
  <2>1. StreamOK' /\ Len(log') = Len(log) + 1 /\ Len(log) \in Nat
    BY <1>1, CommitGrows DEF ServedInv
  <2>2. DispatcherOK'
    BY <1>1, <2>1 DEF ServedInv, DispatcherOK, dispatchVars
  <2>3. PythonOK'
    BY <1>1, <2>1 DEF ServedInv, PythonOK, pythonVars
  <2>4. HeldOK'
    <3>1. UNCHANGED <<ppc, held, ppos>> /\ Len(log') \in Nat /\ Len(log) <= Len(log')
      BY <1>1, <2>1 DEF pythonVars
    <3>2. ASSUME NEW t \in PyThreads
          PROVE  (ppc[t] = "held"
                    => t \in Peekers /\ HasFrame(t) /\ held[t] = ppos[readerOf[t]] + 1)'
      BY <3>1, SnapshotUndisturbed
    <3> QED BY <3>1, <3>2 DEF ServedInv, HeldOK
  <2> QED BY <2>1, <2>2, <2>3, <2>4 DEF ServedInv
<1>2. CASE DispatchStep /\ UNCHANGED <<log, pythonVars>>
  <2>1. DispatcherOK'
    BY <1>2, DispatcherServes
  <2> QED BY <1>2, <2>1 DEF ServedInv, StreamOK, PythonOK, HeldOK, HasFrame, pythonVars
<1>3. CASE PythonStep /\ UNCHANGED <<log, dispatchVars>>
  <2>1. PythonOK'
    BY <1>3, PythonServes
  <2>2. HeldOK'
    BY <1>3, SnapshotKept
  <2> QED BY <1>3, <2>1, <2>2 DEF ServedInv, StreamOK, DispatcherOK, dispatchVars
<1>4. CASE UNCHANGED vars
  BY <1>4 DEF vars, dispatchVars, pythonVars, ServedInv, StreamOK, DispatcherOK, PythonOK,
             HeldOK, HasFrame
<1> QED BY <1>1, <1>2, <1>3, <1>4 DEF Next

-----------------------------------------------------------------------------
(* The refinement. *)

Served == {Dispatcher} \cup PyReaders

\* At the start nothing has been handed out.
LEMMA ClientsInit == Init => Clients!Init
<1> SUFFICES ASSUME Init PROVE Clients!Init
  OBVIOUS
<1>1. log = <<>> /\ done = <<>> /\ got = [r \in PyReaders |-> <<>>]
  BY DEF Init, StreamInit, DispatchInit, PythonInit
<1>2. handed = [c \in Served |-> <<>>]
  BY <1>1 DEF handed, Served
<1> QED BY <1>1, <1>2 DEF Clients!Init, Served

\* One client's share grows by the frame that follows.
LEMMA OneIsServed ==
  ASSUME NEW c \in Served, UNCHANGED log, Len(handed[c]) < Len(log),
         handed'[c] = Append(handed[c], log[Len(handed[c]) + 1]),
         \A d \in Served \ {c} : handed'[d] = handed[d]
  PROVE  Clients!Next
<1>1. handed' = [handed EXCEPT ![c] = Append(handed[c], log[Len(handed[c]) + 1])]
  BY DEF handed, Served
<1>2. Clients!Deliver(c)
  BY <1>1 DEF Clients!Deliver
<1> QED BY <1>2 DEF Clients!Next, Served

\* Every step is one of the abstract log's, or none.
LEMMA ClientsStep ==
  ASSUME ServedInv, [Next]_vars
  PROVE  [Clients!Next]_(Clients!vars)
<1>1. CASE Commit /\ UNCHANGED <<dispatchVars, pythonVars>>
  <2>1. /\ log' \in Seq(Frame) /\ Len(log') = Len(log) + 1 /\ Len(log) \in Nat
        /\ \A i \in 1 .. Len(log) : log'[i] = log[i]
        /\ log'[Len(log) + 1].seq = Len(log)
    BY <1>1, CommitGrows DEF ServedInv, StreamOK
  <2>2. \A i \in 1 .. Len(log) : log[i].seq < log'[Len(log')].seq
    BY <2>1 DEF ServedInv, StreamOK
  <2>3. UNCHANGED handed
    BY <1>1 DEF handed, dispatchVars, pythonVars
  <2>4. Clients!Publish
    BY <2>1, <2>2, <2>3 DEF Clients!Publish
  <2> QED BY <2>4 DEF Clients!Next
<1>2. CASE DispatchStep /\ UNCHANGED <<log, pythonVars>>
  <2>1. UNCHANGED got
    BY <1>2 DEF pythonVars
  <2>2. CASE done' = done
    BY <1>2, <2>1, <2>2 DEF handed, Clients!vars
  <2>3. CASE Len(done) < Len(log) /\ done' = Append(done, log[Len(done) + 1])
    <3>1. Dispatcher \in Served /\ handed[Dispatcher] = done /\ handed'[Dispatcher] = done'
      BY DEF handed, Served
    <3>2. \A d \in Served \ {Dispatcher} : handed'[d] = handed[d]
      BY <2>1 DEF handed, Served
    <3> QED BY <1>2, <2>3, <3>1, <3>2, OneIsServed
  <2> QED BY <1>2, <2>2, <2>3, DispatcherServes
<1>3. CASE PythonStep /\ UNCHANGED <<log, dispatchVars>>
  <2>1. UNCHANGED done
    BY <1>3 DEF dispatchVars
  <2>2. CASE got' = got
    BY <1>3, <2>1, <2>2 DEF handed, Clients!vars
  <2>3. CASE \E r \in PyReaders :
               /\ Len(got[r]) < Len(log)
               /\ got' = [got EXCEPT ![r] = Append(@, log[Len(got[r]) + 1])]
    <3>1. PICK r \in PyReaders :
               /\ Len(got[r]) < Len(log)
               /\ got' = [got EXCEPT ![r] = Append(@, log[Len(got[r]) + 1])]
      BY <2>3
    <3>2. /\ got'[r] = Append(got[r], log[Len(got[r]) + 1])
          /\ \A q \in PyReaders \ {r} : got'[q] = got[q]
      BY <3>1 DEF ServedInv, PythonOK
    <3>3. CASE r = Dispatcher
      <4>1. handed' = handed
        BY <2>1, <3>2, <3>3 DEF handed
      <4> QED BY <1>3, <4>1 DEF Clients!vars
    <3>4. CASE r # Dispatcher
      <4>1. r \in Served /\ handed[r] = got[r] /\ handed'[r] = got'[r]
        BY <3>4 DEF handed, Served
      <4>2. \A d \in Served \ {r} : handed'[d] = handed[d]
        BY <2>1, <3>2 DEF handed, Served
      <4> QED BY <1>3, <3>1, <3>2, <4>1, <4>2, OneIsServed
    <3> QED BY <3>3, <3>4
  <2> QED BY <1>3, <2>2, <2>3, PythonServes
<1>4. CASE UNCHANGED vars
  BY <1>4 DEF vars, dispatchVars, pythonVars, handed, Clients!vars
<1> QED BY <1>1, <1>2, <1>3, <1>4 DEF Next

\* Exactly once and in order, for any number of threads, readers and frames:
\* TypedJournalDispatcher::next passes a frame only after its handler returned,
\* and snap_and_advance copies a frame and passes it in one step under the
\* interpreter lock, whoever else reads or polls the same reader.  current_frame and
\* next are two calls: a thread that uses them must have its reader to itself, or a
\* frame is taken twice and another passed over.
THEOREM ClientsAreServed ==
  ASSUME PeekersAlone
  PROVE  Spec => ClientsImplementLog
<1>1. Init => ServedInv
  BY ServedInit
<1>2. ServedInv /\ [Next]_vars => ServedInv'
  BY ServedNext
<1>3. Init => Clients!Init
  BY ClientsInit
<1>4. ServedInv /\ [Next]_vars => [Clients!Next]_(Clients!vars)
  BY ClientsStep
<1> QED BY <1>1, <1>2, <1>3, <1>4, PTL DEF Spec, ClientsImplementLog, Clients!Spec

-----------------------------------------------------------------------------
(* A read with a timeout: the invariant. *)

\* No other thread uses the reader of one that polls.
OwnReaders ==
  \A t \in Spinners, u \in PyThreads : readerOf[t] = readerOf[u] => t = u

ReadTypeOK ==
  /\ ppc \in [PyThreads -> Places \ {"killed"}]
  /\ address \in [PyThreads -> Nat] /\ deadline \in [PyThreads -> Int]
  /\ known \in [PyThreads -> Nat] /\ clock \in Int

FoundOK == found \in [PyThreads -> BOOLEAN]

\* Where a thread's read has got to: the address it holds is that of the frame its
\* reader is at; behind the loop a frame has been seen or the time is up; and with
\* the lock again, found tells whether there is a frame to hand out, and without
\* one there was none when the loop gave up.
PollOK(t) ==
  /\ ppc[t] \notin {"idle", "held"} => t \in Spinners
  /\ known[t] <= Len(log)
  /\ ppc[t] \in {"load", "load2"} => address[t] = ppos[readerOf[t]] + 1
  /\ ppc[t] \in {"peek2", "load2", "lock"} => HasFrame(t) \/ deadline[t] <= clock
  /\ ppc[t] = "lock" /\ found[t] => HasFrame(t)
  /\ ppc[t] = "lock" /\ ~found[t] => known[t] <= ppos[readerOf[t]] /\ deadline[t] <= clock

ReadsInv == /\ ServedInv /\ ReadTypeOK /\ FoundOK /\ stopped = {}
            /\ \A t \in PyThreads : PollOK(t)

\* At the start nobody reads.
LEMMA ReadsInit == Init => ReadsInv
<1> SUFFICES ASSUME Init PROVE ReadsInv
  OBVIOUS
<1>1. /\ ppc = [t \in PyThreads |-> "idle"] /\ address = [t \in PyThreads |-> 0]
      /\ deadline = [t \in PyThreads |-> 0] /\ known = [t \in PyThreads |-> 0]
      /\ stopped = {} /\ clock = 0 /\ log = <<>>
  BY DEF Init, PythonInit, StreamInit
<1>2. found = [t \in PyThreads |-> FALSE]
  BY DEF Init, PythonInit
<1>3. ReadTypeOK
  BY <1>1 DEF ReadTypeOK, Places
<1>4. FoundOK
  BY <1>2 DEF FoundOK
<1>5. \A t \in PyThreads : PollOK(t)
  BY <1>1 DEF PollOK
<1> QED BY <1>1, <1>3, <1>4, <1>5, ServedInit DEF ReadsInv

\* What the other threads, writers and the clock do to a read.
LEMMA PollUndisturbed ==
  ASSUME ReadsInv, NEW t \in PyThreads,
         ppc'[t] = ppc[t], address'[t] = address[t], deadline'[t] = deadline[t],
         known'[t] = known[t], found'[t] = found[t],
         Len(log') \in Nat, Len(log) <= Len(log'), clock' \in Int, clock <= clock',
         ppc[t] \notin {"idle", "held"} => ppos'[readerOf[t]] = ppos[readerOf[t]]
  PROVE  PollOK(t)'
<1>1. /\ readerOf[t] \in PyReaders /\ ppos[readerOf[t]] \in Nat /\ Len(log) \in Nat
      /\ known[t] \in Nat /\ deadline[t] \in Int /\ clock \in Int
  BY DEF PyReaders, ReadsInv, ReadTypeOK, ServedInv, StreamOK, PythonOK
<1>2. PollOK(t)
  BY DEF ReadsInv
<1> QED BY <1>1, <1>2 DEF PollOK, HasFrame

\* A thread's own page cannot have been left while it polls.
LEMMA StillMapped ==
  ASSUME ReadsInv, NEW t \in PyThreads, ppc[t] \in {"load", "load2"}
  PROVE  ~Unmapped(t)
<1>1. address[t] = ppos[readerOf[t]] + 1
  BY DEF ReadsInv, PollOK
<1> DEFINE n == ppos[readerOf[t]] + 1
           S == {k \in 1 .. n - 1 : log[k].msg_type = "PageEnd"}
<1>2. n \in Nat
  BY DEF PyReaders, ReadsInv, ServedInv, PythonOK
<1>3. IsFiniteSet(1 .. n - 1)
  <2>1. 1 \in Int /\ n - 1 \in Int
    BY <1>2
  <2> QED BY <2>1, FS_Interval, Zenon
<1>4. IsFiniteSet(S)
  BY <1>3, FS_Subset
<1>5. Cardinality(S) \in Nat
  BY <1>4, FS_CardinalityType
<1>6. PageOf(n) = Cardinality(S)
  BY DEF PageOf
<1> HIDE DEF n, S
<1>7. ~(PageOf(n) + Retained < PageOf(n))
  BY <1>5, <1>6, PythonAssumption
<1> QED BY <1>1, <1>7 DEF Unmapped, n

\* The call begins.
LEMMA ReadBeginKeeps ==
  ASSUME ReadsInv, NEW t \in PyThreads, ReadBegin(t), UNCHANGED log
  PROVE  ReadTypeOK' /\ FoundOK' /\ PollOK(t)' /\ stopped' = {}
<1>1. PICK timeout \in Timeouts : deadline' = [deadline EXCEPT ![t] = clock + timeout]
  BY DEF ReadBegin
<1>2. /\ t \in Spinners /\ ppc' = [ppc EXCEPT ![t] = "peek"]
      /\ UNCHANGED <<ppos, address, known, stopped, got, clock>>
  BY DEF ReadBegin, Goto
<1>3. UNCHANGED found
  BY DEF ReadBegin
<1>4. ReadTypeOK'
  BY <1>1, <1>2, PythonAssumption DEF ReadsInv, ReadTypeOK, Places
<1>5. ppc'[t] = "peek" /\ known'[t] <= Len(log')
  BY <1>2 DEF ReadsInv, ReadTypeOK, PollOK
<1> QED BY <1>2, <1>3, <1>4, <1>5 DEF ReadsInv, FoundOK, PollOK

\* The address is taken.
LEMMA PeekKeeps ==
  ASSUME ReadsInv, NEW t \in PyThreads, Peek(t), UNCHANGED log
  PROVE  ReadTypeOK' /\ FoundOK' /\ PollOK(t)' /\ stopped' = {}
<1>1. /\ address' = [address EXCEPT ![t] = ppos[readerOf[t]] + 1]
      /\ UNCHANGED <<ppos, deadline, known, stopped, got, clock>>
      /\ \/ ppc[t] = "peek" /\ ppc' = [ppc EXCEPT ![t] = "load"]
         \/ ppc[t] = "peek2" /\ ppc' = [ppc EXCEPT ![t] = "load2"]
  BY DEF Peek, Goto
<1>2. UNCHANGED found
  BY DEF Peek
<1>3. ppos[readerOf[t]] \in Nat
  BY DEF PyReaders, ReadsInv, ServedInv, PythonOK
<1>4. ReadTypeOK'
  BY <1>1, <1>3 DEF ReadsInv, ReadTypeOK, Places
<1>5. PollOK(t)'
  BY <1>1 DEF ReadsInv, ReadTypeOK, PollOK, HasFrame
<1> QED BY <1>1, <1>2, <1>4, <1>5 DEF ReadsInv, FoundOK

\* The length behind it is read.
LEMMA LoadKeeps ==
  ASSUME ReadsInv, NEW t \in PyThreads, Load(t), UNCHANGED log
  PROVE  ReadTypeOK' /\ FoundOK' /\ PollOK(t)' /\ stopped' = {}
<1> DEFINE data == address[t] <= Len(log)
<1>1. ppc[t] \in {"load", "load2"}
  BY DEF Load
<1>2. ~Unmapped(t)
  BY <1>1, StillMapped
<1>3. /\ address' = [address EXCEPT ![t] = 0]
      /\ UNCHANGED <<ppos, deadline, known, stopped, got, clock>>
      /\ \/ ppc[t] = "load2" /\ ppc' = [ppc EXCEPT ![t] = "lock"]
         \/ ppc[t] = "load" /\ data /\ ppc' = [ppc EXCEPT ![t] = "peek2"]
         \/ ppc[t] = "load" /\ ~data /\ ppc' = [ppc EXCEPT ![t] = "clock"]
  BY <1>1, <1>2 DEF Load, Goto
<1>4. found' = [found EXCEPT ![t] = data /\ ppc[t] = "load2"]
  BY DEF Load
<1>5. FoundOK' /\ (found'[t] <=> data /\ ppc[t] = "load2")
  BY <1>4 DEF ReadsInv, FoundOK
<1>6. ReadTypeOK'
  BY <1>3 DEF ReadsInv, ReadTypeOK, Places
<1>7. /\ address[t] = ppos[readerOf[t]] + 1 /\ ppos[readerOf[t]] \in Nat /\ Len(log) \in Nat
      /\ known[t] \in Nat /\ known[t] <= Len(log)
  BY <1>1 DEF PyReaders, ReadsInv, ServedInv, StreamOK, PythonOK, PollOK, ReadTypeOK
<1>8. data <=> HasFrame(t)
  BY <1>7 DEF HasFrame
<1>9. HasFrame(t)' <=> HasFrame(t)
  BY <1>3 DEF HasFrame
<1> HIDE DEF data
<1>10. CASE ppc[t] = "load2"
  <2>1. ppc'[t] = "lock" /\ known'[t] = known[t] /\ deadline'[t] = deadline[t]
    BY <1>3, <1>10 DEF ReadsInv, ReadTypeOK, Places
  <2>2. HasFrame(t) \/ deadline[t] <= clock
    BY <1>10 DEF ReadsInv, PollOK
  <2>3. ~HasFrame(t) => known[t] <= ppos[readerOf[t]]
    BY <1>7 DEF HasFrame
  <2>4. found'[t] <=> HasFrame(t)
    BY <1>5, <1>8, <1>10
  <2>5. t \in Spinners
    BY <1>10 DEF ReadsInv, PollOK
  <2> QED BY <1>3, <1>5, <1>6, <1>7, <1>9, <2>1, <2>2, <2>3, <2>4, <2>5 DEF PollOK, ReadsInv
<1>11. CASE ppc[t] = "load"
  <2>1. /\ (ppc'[t] = "peek2" /\ HasFrame(t)) \/ ppc'[t] = "clock"
        /\ known'[t] = known[t]
    BY <1>3, <1>8, <1>11 DEF ReadsInv, ReadTypeOK, Places
  <2>2. t \in Spinners
    BY <1>11 DEF ReadsInv, PollOK
  <2> QED BY <1>3, <1>5, <1>6, <1>7, <1>9, <2>1, <2>2 DEF PollOK, ReadsInv
<1> QED BY <1>1, <1>10, <1>11

\* The clock is compared with the deadline.
LEMMA LookAtClockKeeps ==
  ASSUME ReadsInv, NEW t \in PyThreads, LookAtClock(t), UNCHANGED log
  PROVE  ReadTypeOK' /\ FoundOK' /\ PollOK(t)' /\ stopped' = {}
<1>1. /\ ppc[t] = "clock"
      /\ UNCHANGED <<ppos, address, deadline, stopped, got, clock>>
      /\ \/ /\ clock >= deadline[t] /\ ppc' = [ppc EXCEPT ![t] = "peek2"]
            /\ known' = [known EXCEPT ![t] = Len(log)]
         \/ ppc' = [ppc EXCEPT ![t] = "peek"] /\ known' = known
  BY DEF LookAtClock, Goto
<1>2. UNCHANGED found
  BY DEF LookAtClock
<1>3. Len(log) \in Nat
  BY DEF ReadsInv, ServedInv, StreamOK
<1>4. ReadTypeOK'
  BY <1>1, <1>3 DEF ReadsInv, ReadTypeOK, Places
<1>5. PollOK(t)'
  <2>1. t \in Spinners /\ ppc'[t] \in {"peek", "peek2"} /\ known'[t] <= Len(log')
    <3>1. ppc'[t] \in {"peek", "peek2"}
      BY <1>1 DEF ReadsInv, ReadTypeOK
    <3>2. t \in Spinners /\ known[t] <= Len(log) /\ known \in [PyThreads -> Nat]
      BY <1>1 DEF ReadsInv, ReadTypeOK, PollOK
    <3>3. known'[t] <= Len(log')
      BY <1>1, <1>3, <3>2
    <3> QED BY <3>1, <3>2, <3>3
  <2>2. ppc'[t] = "peek2" => deadline'[t] <= clock'
    <3>1. ppc'[t] = "peek2" => clock >= deadline[t]
      BY <1>1 DEF ReadsInv, ReadTypeOK, Places
    <3>2. deadline'[t] = deadline[t] /\ clock' = clock /\ deadline[t] \in Int /\ clock \in Int
      BY <1>1 DEF ReadsInv, ReadTypeOK
    <3> QED BY <3>1, <3>2
  <2> QED BY <2>1, <2>2 DEF PollOK
<1> QED BY <1>1, <1>2, <1>4, <1>5 DEF ReadsInv, FoundOK

\* The call ends: with a frame, or without, but not with StopIteration.
LEMMA ReadEndKeeps ==
  ASSUME ReadsInv, NEW t \in PyThreads, ReadEnd(t), UNCHANGED log
  PROVE  ReadTypeOK' /\ FoundOK' /\ PollOK(t)' /\ stopped' = {}
<1>1. /\ ppc[t] = "lock" /\ ppc' = [ppc EXCEPT ![t] = "idle"]
      /\ deadline' = [deadline EXCEPT ![t] = 0] /\ known' = [known EXCEPT ![t] = 0]
      /\ UNCHANGED <<address, clock>>
  BY DEF ReadEnd, Goto
<1>2. found' = [found EXCEPT ![t] = FALSE]
  BY DEF ReadEnd
<1>3. found[t] => HasFrame(t)
  BY <1>1 DEF ReadsInv, PollOK
<1>4. stopped' = stopped
  BY <1>3 DEF ReadEnd
<1>5. ReadTypeOK'
  BY <1>1 DEF ReadsInv, ReadTypeOK, Places
<1>6. FoundOK'
  BY <1>2 DEF ReadsInv, FoundOK
<1>7. ppc'[t] = "idle" /\ known'[t] = 0 /\ Len(log') \in Nat
  BY <1>1 DEF ReadsInv, ReadTypeOK, ServedInv, StreamOK
<1>8. PollOK(t)'
  BY <1>7 DEF PollOK
<1> QED BY <1>4, <1>5, <1>6, <1>8 DEF ReadsInv

\* What a step of one thread leaves to the others.
LEMMA OthersKeep ==
  ASSUME OwnReaders, ReadsInv, NEW t \in PyThreads,
         Take(t) \/ CurrentFrame(t) \/ NextCall(t) \/ ReadBegin(t) \/ Reading(t),
         UNCHANGED log,
         NEW u \in PyThreads, u # t
  PROVE  PollOK(u)'
<1>1. /\ ppc'[u] = ppc[u] /\ address'[u] = address[u] /\ deadline'[u] = deadline[u]
      /\ known'[u] = known[u] /\ clock' = clock
  BY DEF Take, CurrentFrame, NextCall, ReadBegin, Reading, Peek, Load, LookAtClock,
         ReadEnd, Goto, ReadsInv, ReadTypeOK
<1>2. found'[u] = found[u]
  BY DEF Take, CurrentFrame, NextCall, ReadBegin, Reading, Peek, Load, LookAtClock,
         ReadEnd, ReadsInv, FoundOK
<1>3. ppc[u] \notin {"idle", "held"} => ppos'[readerOf[u]] = ppos[readerOf[u]]
  <2> SUFFICES ASSUME ppc[u] \notin {"idle", "held"}
               PROVE  ppos'[readerOf[u]] = ppos[readerOf[u]]
    OBVIOUS
  <2>1. readerOf[u] # readerOf[t] /\ readerOf[u] \in PyReaders
    BY DEF ReadsInv, PollOK, OwnReaders, PyReaders
  <2>2. ppos' = ppos \/ ppos' = [ppos EXCEPT ![readerOf[t]] = @ + 1]
    BY DEF Take, CurrentFrame, NextCall, ReadBegin, Reading, Peek, Load, LookAtClock,
           ReadEnd, SnapAndAdvance
  <2> QED BY <2>1, <2>2 DEF ReadsInv, ServedInv, PythonOK
<1>4. Len(log') \in Nat /\ Len(log) <= Len(log') /\ clock' \in Int /\ clock <= clock'
  BY <1>1 DEF ReadsInv, ServedInv, StreamOK, ReadTypeOK
<1> QED BY <1>1, <1>2, <1>3, <1>4, PollUndisturbed

\* The invariant is inductive.
LEMMA ReadsNext ==
  ASSUME OwnReaders, PeekersAlone, ReadsInv, [Next]_vars
  PROVE  ReadsInv'
<1>1. ServedInv'
  BY ServedNext DEF ReadsInv
<1>2. Len(log) \in Nat /\ Len(log') \in Nat /\ clock \in Int
  BY <1>1 DEF ReadsInv, ServedInv, StreamOK, ReadTypeOK
<1>3. CASE UNCHANGED pythonVars /\ (Commit \/ UNCHANGED log)
  <2>1. UNCHANGED <<ppc, ppos, address, deadline, known, stopped, clock>>
    BY <1>3 DEF pythonVars
  <2>2. UNCHANGED found
    BY <1>3 DEF pythonVars
  <2>3. Len(log) <= Len(log')
    BY <1>2, <1>3, CommitGrows DEF ReadsInv, ServedInv
  <2>4. \A t \in PyThreads : PollOK(t)'
    BY <1>2, <2>1, <2>2, <2>3, PollUndisturbed
  <2>5. ReadTypeOK' /\ stopped' = {}
    BY <2>1 DEF ReadsInv, ReadTypeOK, Places
  <2>6. FoundOK'
    BY <2>2 DEF ReadsInv, FoundOK
  <2> QED BY <1>1, <2>4, <2>5, <2>6 DEF ReadsInv
<1>4. CASE Tick /\ UNCHANGED log
  <2>1. UNCHANGED <<ppc, ppos, address, deadline, known, stopped>> /\ clock' = clock + 1
    BY <1>4 DEF Tick
  <2>2. UNCHANGED found
    BY <1>4 DEF Tick
  <2>3. clock' \in Int /\ clock <= clock' /\ Len(log) <= Len(log')
    BY <1>2, <1>4, <2>1
  <2>4. \A t \in PyThreads : PollOK(t)'
    BY <1>2, <2>1, <2>2, <2>3, PollUndisturbed
  <2>5. ReadTypeOK' /\ stopped' = {}
    BY <2>1, <2>3 DEF ReadsInv, ReadTypeOK, Places
  <2>6. FoundOK'
    BY <2>2 DEF ReadsInv, FoundOK
  <2> QED BY <1>1, <2>4, <2>5, <2>6 DEF ReadsInv
<1>5. ASSUME NEW t \in PyThreads,
             Take(t) \/ CurrentFrame(t) \/ NextCall(t) \/ ReadBegin(t) \/ Reading(t),
             UNCHANGED log
      PROVE  ReadsInv'
  <2>1. \A u \in PyThreads \ {t} : PollOK(u)'
    BY <1>5, OthersKeep
  <2>2. CASE Take(t)
    <3>1. ppc[t] = "idle" /\ UNCHANGED <<ppc, address, deadline, known, stopped, clock>>
      BY <2>2 DEF Take
    <3>2. UNCHANGED found
      BY <2>2 DEF Take
    <3>3. PollOK(t)'
      BY <1>2, <1>5, <3>1, <3>2, PollUndisturbed
    <3>4. ReadTypeOK' /\ stopped' = {}
      BY <3>1 DEF ReadsInv, ReadTypeOK, Places
    <3>5. FoundOK'
      BY <3>2 DEF ReadsInv, FoundOK
    <3> QED BY <1>1, <2>1, <3>3, <3>4, <3>5 DEF ReadsInv
  <2>3. CASE ReadBegin(t)
    BY <1>1, <1>5, <2>1, <2>3, ReadBeginKeeps DEF ReadsInv
  <2>4. CASE Peek(t)
    BY <1>1, <1>5, <2>1, <2>4, PeekKeeps DEF ReadsInv
  <2>5. CASE Load(t)
    BY <1>1, <1>5, <2>1, <2>5, LoadKeeps DEF ReadsInv
  <2>6. CASE LookAtClock(t)
    BY <1>1, <1>5, <2>1, <2>6, LookAtClockKeeps DEF ReadsInv
  <2>7. CASE ReadEnd(t)
    BY <1>1, <1>5, <2>1, <2>7, ReadEndKeeps DEF ReadsInv
  <2>8. CASE CurrentFrame(t) \/ NextCall(t)
    <3>1. /\ \/ ppc[t] = "idle" /\ ppc' = [ppc EXCEPT ![t] = "held"]
             \/ ppc[t] = "held" /\ ppc' = [ppc EXCEPT ![t] = "idle"]
          /\ UNCHANGED <<address, deadline, known, stopped, clock>>
      BY <2>8 DEF CurrentFrame, NextCall, Goto
    <3>2. UNCHANGED found
      BY <2>8 DEF CurrentFrame, NextCall
    <3>3. ReadTypeOK' /\ stopped' = {} /\ ppc'[t] \in {"idle", "held"}
      BY <3>1 DEF ReadsInv, ReadTypeOK, Places
    <3>4. PollOK(t)'
      BY <1>2, <1>5, <3>1, <3>3 DEF ReadsInv, PollOK
    <3>5. FoundOK'
      BY <3>2 DEF ReadsInv, FoundOK
    <3> QED BY <1>1, <2>1, <3>3, <3>4, <3>5 DEF ReadsInv
  <2> QED BY <1>5, <2>2, <2>3, <2>4, <2>5, <2>6, <2>7, <2>8 DEF Reading
<1>6. CASE UNCHANGED vars
  BY <1>3, <1>6 DEF vars
<1> QED BY <1>3, <1>4, <1>5, <1>6 DEF Next, PythonStep

\* Without a frame, what the loop knew and when it gave up.
LEMMA NoneIsRight ==
  ASSUME ReadsInv, [Next]_vars, NEW t \in PyThreads,
         ppc[t] = "lock", ppc'[t] = "idle", UNCHANGED <<got, stopped>>
  PROVE  known[t] <= ppos[readerOf[t]] /\ deadline[t] <= clock
<1>1. PICK u \in PyThreads : ReadEnd(u) /\ (ppc' = [ppc EXCEPT ![u] = "idle"])
  <2>1. \E u \in PyThreads : ReadEnd(u)
    <3>1. ppc' # ppc
      OBVIOUS
    <3>2. ASSUME NEW u \in PyThreads,
                 Take(u) \/ CurrentFrame(u) \/ NextCall(u) \/ ReadBegin(u) \/ Reading(u)
          PROVE  ReadEnd(u)
      <4>1. ppc[u] = "lock" \/ u # t
        BY <3>1, <3>2 DEF Take, CurrentFrame, NextCall, ReadBegin, Reading, Peek, Load,
                          LookAtClock, ReadEnd, Goto, ReadsInv, ReadTypeOK
      <4>2. u = t
        BY <3>2 DEF Take, CurrentFrame, NextCall, ReadBegin, Reading, Peek, Load,
                    LookAtClock, ReadEnd, Goto, ReadsInv, ReadTypeOK
      <4> QED BY <3>2, <4>1, <4>2 DEF Take, CurrentFrame, NextCall, ReadBegin, Reading,
                                       Peek, Load, LookAtClock
    <3> QED BY <3>1, <3>2 DEF Next, PythonStep, Tick, vars, pythonVars
  <2> QED BY <2>1 DEF ReadEnd, Goto
<1>2. u = t
  BY <1>1 DEF ReadsInv, ReadTypeOK, Places
<1>3. ~found[t]
  <2> SUFFICES ASSUME found[t] PROVE FALSE
    OBVIOUS
  <2>1. HasFrame(t)
    BY DEF ReadsInv, PollOK
  <2>2. got' = [got EXCEPT ![readerOf[t]] = Append(@, log[ppos[readerOf[t]] + 1])]
    BY <1>1, <1>2, <2>1 DEF ReadEnd, SnapAndAdvance
  <2>3. readerOf[t] \in PyReaders /\ got[readerOf[t]] \in Seq(Frame)
    BY DEF PyReaders, ReadsInv, ServedInv, PythonOK
  <2>4. log[ppos[readerOf[t]] + 1] \in Frame
    BY <2>1, <2>3 DEF HasFrame, ReadsInv, ServedInv, StreamOK, PythonOK
  <2>5. Len(got'[readerOf[t]]) = Len(got[readerOf[t]]) + 1
    BY <2>2, <2>3, <2>4 DEF ReadsInv, ServedInv, PythonOK
  <2> QED BY <2>3, <2>5
<1> QED BY <1>3 DEF ReadsInv, PollOK

\* When a read with a timeout, of a reader that no other thread uses, returns None,
\* the time is up and no frame had been committed when the loop gave up: the test
\* behind the loop makes up for the one it ends with.
THEOREM NoneIsHonest ==
  ASSUME OwnReaders, PeekersAlone
  PROVE  Spec => NoneMeansNothing
<1>1. Init => ReadsInv
  BY ReadsInit
<1>2. ReadsInv /\ [Next]_vars => ReadsInv'
  BY ReadsNext
<1>3. ReadsInv /\ [Next]_vars
        => [\A t \in PyThreads :
              ppc[t] = "lock" /\ ppc'[t] = "idle" /\ UNCHANGED <<got, stopped>>
                => known[t] <= ppos[readerOf[t]] /\ deadline[t] <= clock]_vars
  BY NoneIsRight
<1> QED BY <1>1, <1>2, <1>3, PTL DEF Spec, NoneMeansNothing
=============================================================================
