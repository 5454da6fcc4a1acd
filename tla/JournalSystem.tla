--------------------------- MODULE JournalSystem ---------------------------
(***************************************************************************)
(* One writer process and any number of reader processes over the page     *)
(* files of one journal.  They share nothing else.                         *)
(***************************************************************************)
EXTENDS JournalWriter, JournalReader

vars == <<pagesVars, writerVars, readerVars>>

Init == PagesInit /\ WriterInit /\ ReaderInit

Next ==
  \/ Construct /\ UNCHANGED readerVars
  \/ FindUnready /\ UNCHANGED readerVars
  \/ FindReady /\ UNCHANGED readerVars
  \/ FindFails /\ UNCHANGED readerVars
  \/ FindNone /\ UNCHANGED readerVars
  \/ ScanFrame /\ UNCHANGED readerVars
  \/ ScanEnd /\ UNCHANGED readerVars
  \/ LoadPage /\ UNCHANGED readerVars
  \/ LoadFails /\ UNCHANGED readerVars
  \/ LoadedInitial /\ UNCHANGED readerVars
  \/ openData /\ UNCHANGED readerVars
  \/ writeBytes /\ UNCHANGED readerVars
  \/ mark /\ UNCHANGED readerVars
  \/ OpenFrame /\ UNCHANGED readerVars
  \/ FillPayload /\ UNCHANGED readerVars
  \/ StoreLength /\ UNCHANGED readerVars
  \/ SetLastFramePosition /\ UNCHANGED readerVars
  \/ Abandon /\ UNCHANGED readerVars
  \/ SentinelHeader /\ UNCHANGED readerVars
  \/ SentinelLength /\ UNCHANGED readerVars
  \/ SentinelPos /\ UNCHANGED readerVars
  \/ Destroy /\ UNCHANGED readerVars
  \/ Crash /\ UNCHANGED readerVars
  \/ \E r \in Readers :
       \/ Join(r) /\ UNCHANGED writerVars
       \/ LoadLength(r) /\ UNCHANGED writerVars
       \/ Dispatch(r) /\ UNCHANGED writerVars
       \/ MoveToNext(r) /\ UNCHANGED writerVars
       \/ LoadNextPage(r) /\ UNCHANGED writerVars

Spec == Init /\ [][Next]_vars

\* Readers poll in a loop on threads of their own, so a step a reader can take
\* is eventually taken.  Nothing obliges callers to write or readers to join.
FairSpec == Spec /\ \A r \in Readers :
                      WF_vars(ReaderStep(r) /\ UNCHANGED writerVars)

-----------------------------------------------------------------------------
(* Properties. *)

\* Every variable of the page files, the writer and the readers has its type; in
\* particular current_frame_address_ never passes the border (the assertion at
\* the head of rotatePage's sentinel code), with and without resume.
TypeOK == PagesTypeOK /\ WriterTypeOK /\ ReaderTypeOK

\* The abstract log over this system: its records are the committed frames and
\* its deliveries the frames the readers' dispatchers were handed.
Log == INSTANCE AppendLog
         WITH Readers <- Readers, Record <- Record,
              log <- log, delivered <- delivered

\* The journal implements the abstract log: what readers take out of the mapped
\* pages, by loading lengths and following strides and sentinels, is the
\* sequence of records the writer committed, from the first on, whole and in
\* order, with rising sequence numbers (closeFrame's release store of length
\* against tryCurrentFrame's acquire load, rotatePage against loadNextPage).
ImplementsAppendLog == Log!Spec

\* Nothing is delivered that was not committed: each reader holds a prefix of the
\* log (docs/memory_model.md: "The reader reads metadata and payload only after
\* the frame is committed").
DeliveredIsPrefixOfLog ==
  \A r \in Readers :
    /\ Len(delivered[r]) <= Len(log)
    /\ \A i \in 1 .. Len(delivered[r]) : delivered[r][i] = log[i]

\* The frame in memory at the place of a committed record.
FrameAt(rec) ==
  LET f == mem[rec.page][rec.off]
  IN  [page |-> rec.page, off |-> rec.off, length |-> f.length,
       msg_type |-> f.msg_type, seq |-> f.seq,
       data |-> PayloadOf(f.length, f.data)]

\* A committed frame stays in its page as it was committed: later frames, the
\* sentinel, a rotation or a resumed writer never overwrite it.
CommittedFramesIntact == \A i \in 1 .. Len(log) : FrameAt(log[i]) = log[i]

\* Frames do not overlap: in the order of the log, each begins at or after the
\* end of the one before it on the same page, and all lie between the page
\* header and the end of the page (openFrame's border test leaves room for the
\* sentinel that rotatePage writes without a test).
FramesDisjoint ==
  /\ \A i \in 1 .. Len(log) :
       /\ FirstFrame <= log[i].off
       /\ log[i].off + framePhysicalLength(log[i].length) <= PageSize
  /\ \A i, j \in 1 .. Len(log) :
       i < j => \/ log[i].page < log[j].page
                \/ /\ log[i].page = log[j].page
                   /\ log[i].off + framePhysicalLength(log[i].length) <= log[j].off

\* Sequence numbers count the committed frames, sentinels included, without gap
\* or repetition, across rotations and across resumed writers
\* (findLastSequenceNumber; tests/test_multiprocess.cpp: "Every frame - data and
\* PageEnd alike - must advance the sequence by exactly one").
SequencesContiguous == \A i \in 1 .. Len(log) : log[i].seq = i - 1

\* last_frame_position never runs ahead of the commits: it names a committed
\* frame, or the first slot of a page that may have none (closeFrame and
\* rotatePage store it after the length; isFull, endTime and
\* findLastWrittenPage dereference it).
LastPositionCommitted ==
  \A p \in PageIds : IsReady(p) =>
    \/ lastPos[p] = FirstFrame
    \/ \E i \in 1 .. Len(log) : log[i].page = p /\ log[i].off = lastPos[p]

\* A reader that has joined is never killed by a page it follows: the sentinel
\* of a page is committed only after the next page was created, allocated and
\* initialised (rotatePage loads the next page first).
JoinedReadersSurvive ==
  [][\A r \in Readers : rpc[r] # "out" => (rpc'[r] = "fault" => rpc[r] = "fault")]_vars

\* The record's page can be reached from the first one: every page before it that
\* holds frames was closed with a sentinel.
Reachable(n) ==
  \A i \in 1 .. n : \E j \in i .. n :
    /\ log[j].page = log[i].page
    /\ log[j].page = log[n].page \/ log[j].msg_type = PageEnd

\* Every frame that a journal's first writer committed reaches every joined reader,
\* across page rotations, also when the writer has ended since (rotatePage leaves
\* no page without a sentinel).  A writer that ends does leave its page without
\* one (~JournalWriter) and its successor starts on the next page
\* (loadInitialPage): of later writers' frames those arrive that sentinels lead to.
Delivery ==
  \A r \in Readers : \A n \in 1 .. (MaxSeq + 1) :
    (/\ rpc[r] \notin {"out", "fault"}
     /\ Len(log) >= n
     /\ sessions = 1 \/ Reachable(n))
      ~> Len(delivered[r]) >= n
=============================================================================
