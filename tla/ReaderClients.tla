--------------------------- MODULE ReaderClients ----------------------------
(***************************************************************************)
(* Clients of one journal: a C++ thread with a TypedJournalDispatcher and  *)
(* a Python interpreter whose threads read through the bindings, while the *)
(* journal grows.                                                          *)
(***************************************************************************)
EXTENDS TypedDispatch, PythonReader

vars == <<log, dispatchVars, pythonVars>>

Init == StreamInit /\ DispatchInit /\ PythonInit

Next ==
  \/ Commit /\ UNCHANGED <<dispatchVars, pythonVars>>
  \/ DispatchStep /\ UNCHANGED <<log, pythonVars>>
  \/ PythonStep /\ UNCHANGED <<log, dispatchVars>>

Spec == Init /\ [][Next]_vars

\* The dispatcher's caller comes back with run, its handlers do not throw for
\* ever on one frame, the operating system runs the polling threads, and time
\* passes.
FairSpec ==
  /\ Spec
  /\ SF_vars(run /\ UNCHANGED <<log, pythonVars>>)
  /\ WF_vars(GoOnDispatching /\ UNCHANGED <<log, pythonVars>>)
  /\ SF_vars(DispatchReturns /\ left > 0 /\ UNCHANGED <<log, pythonVars>>)
  /\ WF_vars(Tick /\ UNCHANGED <<log, dispatchVars>>)
  /\ \A t \in PyThreads : WF_vars(Reading(t) /\ UNCHANGED <<log, dispatchVars>>)

-----------------------------------------------------------------------------
(* Properties. *)

Dispatcher == "dispatcher"

\* What each client was handed: by the dispatcher the frames whose handlers
\* returned, by a Python reader the snapshots its threads received.
handed == [c \in {Dispatcher} \cup PyReaders |->
             IF c = Dispatcher THEN done ELSE got[c]]

Clients == INSTANCE AppendLog
             WITH Readers <- {Dispatcher} \cup PyReaders, Record <- Frame,
                  log <- log, delivered <- handed

\* Exactly once, in order, at the level of the application: a frame whose handler
\* throws or whose payload does not fit is dispatched again until its handler
\* returns, and never after that (TypedJournalDispatcher::next advances last);
\* threads that share a Python reader and read it with __next__ or read divide the
\* frames between them without loss or repetition (snap_and_advance under the
\* interpreter lock); a thread that calls current_frame and next, between which the
\* lock is free, gets each frame once as long as the reader is its own.
ClientsImplementLog == Clients!Spec

\* What read's documentation says (revoq_py.cpp: "Return the next frame as a
\* snapshot, or None") and the code gives only to a thread that shares its reader
\* with nobody: with a second user it raises StopIteration, or its polling loop,
\* which runs without the interpreter lock, touches a page unmapped under it.
ReadReturnsFrameOrNone ==
  \A t \in PyThreads : ppc[t] # "killed" /\ t \notin stopped

\* None means that there was nothing: a frame that was committed before the
\* polling loop gave up is returned, although the loop's own test missed it.
NoneMeansNothing ==
  [][\A t \in PyThreads :
       ppc[t] = "lock" /\ ppc'[t] = "idle" /\ UNCHANGED <<got, stopped>>
         => known[t] <= ppos[readerOf[t]] /\ deadline[t] <= clock]_vars

\* Every read with a timeout ends.
ReadEnds == \A t \in PyThreads : ppc[t] = "peek" ~> ppc[t] = "idle"

\* Every committed frame gets through the dispatcher, whatever is registered or
\* cleared meanwhile and however often handlers throw.
DispatcherDrains ==
  \A n \in 1 .. MaxLog : Len(log) >= n ~> Len(done) >= n
=============================================================================
