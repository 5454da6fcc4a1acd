--------------------------- MODULE JournalWriter ---------------------------
(***************************************************************************)
(* JournalWriter<SingleWriterPolicy> without a PageWarmer: construction    *)
(* with resume, the three ways to write a frame, page rotation,            *)
(* destruction and crash.  Every store another process can observe is a    *)
(* step of its own; what happens between two of them is private.           *)
(*                                                                         *)
(* wpc, what the writer does next:                                         *)
(*   down     no writer object            find   findLastWrittenPage loop  *)
(*   scan     findLastSequenceNumber loop load   Page::load(is_writing)    *)
(*   sentinel, sentinelLength, sentinelPos       rotatePage, after the load*)
(*   idle     between two calls           open   openFrame, header fields  *)
(*   fill     the payload is written      length closeFrame, length.store  *)
(*   pos      closeFrame, the rest        fault  killed by a signal        *)
(***************************************************************************)
EXTENDS JournalPages

CONSTANTS
  PayloadSizes,    \* payload sizes callers write
  MsgTypes,        \* message types callers write
  WriterPrefault,  \* JournalWriterOptions::prefault
  Faults,          \* what may go wrong, a subset of FaultKinds
  MaxSeq,          \* bound: no call starts at this sequence number
  MaxSessions      \* bound: how many writers are constructed, one at a time

\* "stop"       the writer ends when the next resume scan is reliable
\* "stop_any"   the writer ends at any step
\* "abandon"    openData is not followed by a successful closeData
\* "load_fails" Page::load of loadInitialPage or rotatePage throws (no space,
\*              no lock quota, ...)
\* "search_fails"      the constructor's search fails to load a page that holds
\*                     no frame
\* "search_fails_any"  the constructor's search fails to load any page
FaultKinds == {"stop", "stop_any", "abandon", "load_fails", "search_fails",
               "search_fails_any"}

ASSUME WriterAssumption ==
  /\ PayloadSizes \subseteq Nat
  /\ MsgTypes \subseteq Nat
  /\ WriterPrefault \in BOOLEAN
  /\ Faults \subseteq FaultKinds
  /\ MaxSeq \in Nat
  /\ MaxSessions \in Nat

\* Every frame fits into an empty page.  openFrame does not check it.
ASSUME FitsAssumption ==
  \A s \in PayloadSizes : FirstFrame + Stride(s) <= Border

VARIABLES
  wpc,                  \* see above
  currentPageId,        \* current_page_id_
  currentSequence,      \* current_sequence_
  currentPage,          \* the page current_page_ maps, 0 for nullptr
  currentFrameAddress,  \* current_frame_address_, as an offset
  req,                  \* the arguments of the write call in progress
  scan,                 \* the locals of the constructor's two scan loops
  sessions,             \* writers constructed so far
  log                   \* history: the frames committed, in order

writerVars == <<wpc, currentPageId, currentSequence, currentPage,
                currentFrameAddress, req, scan, sessions, log>>

Ops == {"openData", "writeBytes", "mark"}

NoReq == [op |-> "mark", msg_type |-> 0, size |-> 0, data |-> NoData]
Requests == [op : Ops, msg_type : MsgTypes \cup {0},
             size : PayloadSizes \cup {0}, data : Data \cup {NoData}]

NoScan == [page |-> 0, off |-> FirstFrame, seq |-> 0]

WriterInit ==
  /\ wpc = "down"
  /\ currentPageId = 0
  /\ currentSequence = 0
  /\ currentPage = 0
  /\ currentFrameAddress = FirstFrame
  /\ req = NoReq
  /\ scan = NoScan
  /\ sessions = 0
  /\ log = <<>>

-----------------------------------------------------------------------------
(* Construction and resume. *)

\* The writer object is gone; the page files are as they were.
ForgetWriter ==
  /\ wpc' = "down"
  /\ currentPageId' = 0
  /\ currentSequence' = 0
  /\ currentPage' = 0
  /\ currentFrameAddress' = FirstFrame
  /\ req' = NoReq
  /\ scan' = NoScan
  /\ UNCHANGED <<pagesVars, sessions, log>>

\* The constructor lists the page files; the search starts at the highest.
Construct ==
  /\ wpc = "down"
  /\ sessions < MaxSessions
  /\ sessions' = sessions + 1
  /\ \/ /\ listPageId = {}
        /\ scan' = NoScan
     \/ \E highest \in listPageId :
          /\ \A p \in listPageId : p <= highest
          /\ scan' = [NoScan EXCEPT !.page = highest]
  /\ wpc' = "find"
  /\ UNCHANGED <<pagesVars, currentPageId, currentSequence, currentPage,
                 currentFrameAddress, req, log>>

\* The test that decides whether a page "has data".
HasWrittenFrames(p) == lastPos[p] > SizeofPageHeader

\* One iteration of findLastWrittenPage over a page that is not ready: with
\* prefault the load initialises it, without it the process is killed.
FindUnready ==
  /\ wpc = "find"
  /\ scan.page > 0
  /\ ~IsReady(scan.page)
  /\ IF WriterPrefault
       THEN /\ LoadAsMaster(scan.page)
            /\ scan' = [scan EXCEPT !.page = @ - 1]
            /\ UNCHANGED wpc
       ELSE /\ LoadReadOnly(scan.page)
            /\ wpc' = "fault"
            /\ UNCHANGED scan
  /\ UNCHANGED <<currentPageId, currentSequence, currentPage,
                 currentFrameAddress, req, sessions, log>>

\* One iteration of findLastWrittenPage over a ready page.
FindReady ==
  /\ wpc = "find"
  /\ IsReady(scan.page)
  /\ IF HasWrittenFrames(scan.page)
       THEN /\ wpc' = "scan"
            /\ UNCHANGED scan
       ELSE /\ scan' = [scan EXCEPT !.page = @ - 1]
            /\ UNCHANGED wpc
  /\ UNCHANGED <<pagesVars, currentPageId, currentSequence, currentPage,
                 currentFrameAddress, req, sessions, log>>

\* The load of a page in findLastWrittenPage throws: the exception is caught in
\* the loop, and the search goes on with the page below.
FindFails ==
  /\ wpc = "find"
  /\ scan.page > 0
  /\ \/ "search_fails_any" \in Faults
     \/ /\ "search_fails" \in Faults
        /\ \A o \in Offsets : mem[scan.page][o].length = 0
  /\ LoadThrows(scan.page, WriterPrefault)
  /\ scan' = [scan EXCEPT !.page = @ - 1]
  /\ UNCHANGED <<wpc, currentPageId, currentSequence, currentPage,
                 currentFrameAddress, req, sessions, log>>

\* findLastWrittenPage returned 0: start afresh on page 1.
FindNone ==
  /\ wpc = "find"
  /\ scan.page = 0
  /\ currentPageId' = 1
  /\ wpc' = "load"
  /\ UNCHANGED <<pagesVars, currentSequence, currentPage, currentFrameAddress,
                 req, scan, sessions, log>>

\* The frame under the scan of findLastSequenceNumber is committed.
FrameUnderScan ==
  /\ scan.off \in Offsets
  /\ LET len == mem[scan.page][scan.off].length
     IN  /\ SizeofFrameHeader <= len /\ len <= PageSize
         /\ scan.off + framePhysicalLength(len) <= PageSize

\* Slips the properties must catch: resuming into the page that was found, and
\* taking the last sequence number instead of the one after it.
ResumeInto(seq) ==
  /\ currentPageId' = scan.page
  /\ currentSequence' = seq + 1
  /\ wpc' = "load"
ResumeAt(seq) ==
  /\ scan.page < MaxPages
  /\ currentPageId' = scan.page + 1
  /\ currentSequence' = seq
  /\ wpc' = "load"

\* current_page_id_ and current_sequence_ take the values found, and
\* loadInitialPage moves on to the next page.
ResumeAfter(seq) ==
  /\ scan.page < MaxPages
  /\ currentPageId' = scan.page + 1
  /\ currentSequence' = seq + 1
  /\ wpc' = "load"

\* One iteration of the loop in findLastSequenceNumber.
ScanFrame ==
  /\ wpc = "scan"
  /\ FrameUnderScan
  /\ LET f == mem[scan.page][scan.off]
     IN  IF f.msg_type = PageEnd
           THEN /\ ResumeAfter(f.seq)
                /\ UNCHANGED scan
           ELSE /\ scan' = [scan EXCEPT !.off = @ + framePhysicalLength(f.length),
                                        !.seq = f.seq]
                /\ UNCHANGED <<wpc, currentPageId, currentSequence>>
  /\ UNCHANGED <<pagesVars, currentPage, currentFrameAddress, req, sessions, log>>

\* findLastSequenceNumber returns: behind the last frame, or, when its own load
\* of the page throws, at once and with 0.
ScanEnd ==
  /\ wpc = "scan"
  /\ \/ /\ ~FrameUnderScan
        /\ ResumeAfter(scan.seq)
     \/ /\ "search_fails_any" \in Faults
        /\ scan.off = FirstFrame
        /\ ResumeAfter(0)
  /\ UNCHANGED <<pagesVars, currentPage, currentFrameAddress, req, scan,
                 sessions, log>>

-----------------------------------------------------------------------------
(* Page::load(..., is_writing = true), for loadInitialPage and rotatePage. *)

LoadPage ==
  /\ wpc = "load"
  /\ ~IsReady(currentPageId)
  /\ LoadStepAsMaster(currentPageId)
  /\ UNCHANGED writerVars

\* The load throws and leaves the file as far as it got.  In rotatePage
\* current_page_id_ stays incremented; in the constructor no writer results.
LoadFails ==
  /\ wpc = "load"
  /\ "load_fails" \in Faults
  /\ \/ /\ currentPage = 0
        /\ ForgetWriter
     \/ /\ currentPage # 0
        /\ wpc' = "idle"
        /\ req' = NoReq
        /\ UNCHANGED <<pagesVars, currentPageId, currentSequence, currentPage,
                       currentFrameAddress, scan, sessions, log>>

\* The rest of loadInitialPage.
LoadedInitial ==
  /\ wpc = "load"
  /\ IsReady(currentPageId)
  /\ currentPage = 0
  /\ currentPage' = currentPageId
  /\ currentFrameAddress' = FirstFrame
  /\ wpc' = "idle"
  /\ UNCHANGED <<pagesVars, currentPageId, currentSequence, req, scan,
                 sessions, log>>

-----------------------------------------------------------------------------
(* Writing a frame. *)

\* Store into the frame header at current_frame_address_.
StoreFrame(f) ==
  mem' = [mem EXCEPT ![currentPage][currentFrameAddress] = f]

\* A slip: testing against the end of the page.
NeedsRotationAtPageEnd(size) == currentFrameAddress + Stride(size) > PageSize

\* openFrame's test: rotate when the frame does not fit below the border.
NeedsRotation(size) == currentFrameAddress + Stride(size) > Border

\* openData, mark or writeBytes is called; rotatePage begins by taking the
\* next page id.
Call(op, m, s, d) ==
  /\ wpc = "idle"
  /\ currentSequence < MaxSeq
  /\ req' = [op |-> op, msg_type |-> m, size |-> s, data |-> d]
  /\ IF NeedsRotation(s)
       THEN /\ currentPageId < MaxPages
            /\ currentPageId' = currentPageId + 1
            /\ wpc' = "load"
       ELSE /\ UNCHANGED currentPageId
            /\ wpc' = "open"
  /\ UNCHANGED <<pagesVars, currentSequence, currentPage, currentFrameAddress,
                 scan, sessions, log>>

openData   == \E m \in MsgTypes, s \in PayloadSizes \ {0}, d \in Data :
                Call("openData", m, s, d)
writeBytes == \E m \in MsgTypes, s \in PayloadSizes \ {0}, d \in Data :
                Call("writeBytes", m, s, d)
mark       == \E m \in MsgTypes : Call("mark", m, 0, NoData)

\* Slips: the length is stored with the other fields; last_frame_position is
\* stored when the frame is opened.
OpenFrameCommitted ==
  /\ wpc = "open"
  /\ StoreFrame([length |-> SizeofFrameHeader + req.size,
                 msg_type |-> toUint16(req.msg_type), seq |-> currentSequence,
                 data |-> mem[currentPage][currentFrameAddress].data])
  /\ currentSequence' = currentSequence + 1
  /\ wpc' = IF req.op = "mark" THEN "length" ELSE "fill"
  /\ UNCHANGED <<file, lastPos, currentPageId, currentPage,
                 currentFrameAddress, req, scan, sessions, log>>
OpenFrameWithPosition ==
  /\ wpc = "open"
  /\ StoreFrame([length |-> 0, msg_type |-> toUint16(req.msg_type),
                 seq |-> currentSequence,
                 data |-> mem[currentPage][currentFrameAddress].data])
  /\ lastPos' = [lastPos EXCEPT ![currentPage] = currentFrameAddress]
  /\ currentSequence' = currentSequence + 1
  /\ wpc' = IF req.op = "mark" THEN "length" ELSE "fill"
  /\ UNCHANGED <<file, currentPageId, currentPage,
                 currentFrameAddress, req, scan, sessions, log>>

\* openFrame: the header fields and a sequence number, length still 0.
OpenFrame ==
  /\ wpc = "open"
  /\ StoreFrame([length |-> 0, msg_type |-> toUint16(req.msg_type),
                 seq |-> currentSequence,
                 data |-> mem[currentPage][currentFrameAddress].data])
  /\ currentSequence' = currentSequence + 1
  /\ wpc' = IF req.op = "mark" THEN "length" ELSE "fill"
  /\ UNCHANGED <<file, lastPos, currentPageId, currentPage,
                 currentFrameAddress, req, scan, sessions, log>>

\* The slots a payload covers beyond that of its own header.
Covered(size) == {o \in Offsets : /\ currentFrameAddress < o
                                  /\ o < currentFrameAddress + Stride(size)}

\* The caller writes through the reference openData returned, or writeBytes
\* copies: the payload lands in this slot and in the ones it covers.
FillPayload ==
  /\ wpc = "fill"
  /\ mem' = [mem EXCEPT ![currentPage] =
               [o \in Offsets |->
                  CASE o = currentFrameAddress -> [@[o] EXCEPT !.data = req.data]
                    [] o \in Covered(req.size) -> PayloadImage(req.data)
                    [] OTHER -> @[o]]]
  /\ wpc' = "length"
  /\ UNCHANGED <<file, lastPos, currentPageId, currentSequence, currentPage,
                 currentFrameAddress, req, scan, sessions, log>>

\* The frame being written, as it is meant to be read.
NewRecord(length, m, d) ==
  [page |-> currentPage, off |-> currentFrameAddress, length |-> length,
   msg_type |-> m, seq |-> currentSequence - 1, data |-> d]

\* closeFrame: the release store of the length commits the frame.
StoreLength ==
  /\ wpc = "length"
  /\ LET length == SizeofFrameHeader + req.size
     IN  /\ StoreFrame([mem[currentPage][currentFrameAddress]
                          EXCEPT !.length = length])
         /\ log' = Append(log, NewRecord(length, toUint16(req.msg_type), req.data))
  /\ wpc' = "pos"
  /\ UNCHANGED <<file, lastPos, currentPageId, currentSequence, currentPage,
                 currentFrameAddress, req, scan, sessions>>

\* A slip: the next frame starts after the payload, the header is forgotten.
SetLastFramePositionShort ==
  /\ wpc = "pos"
  /\ lastPos' = [lastPos EXCEPT ![currentPage] = currentFrameAddress]
  /\ currentFrameAddress' = currentFrameAddress + framePhysicalLength(req.size)
  /\ req' = NoReq
  /\ wpc' = "idle"
  /\ UNCHANGED <<file, mem, currentPageId, currentSequence, currentPage, scan,
                 sessions, log>>

\* closeFrame: setLastFramePosition, and the frame address moves on.
SetLastFramePosition ==
  /\ wpc = "pos"
  /\ lastPos' = [lastPos EXCEPT ![currentPage] = currentFrameAddress]
  /\ currentFrameAddress' = currentFrameAddress + Stride(req.size)
  /\ req' = NoReq
  /\ wpc' = "idle"
  /\ UNCHANGED <<file, mem, currentPageId, currentSequence, currentPage, scan,
                 sessions, log>>

\* openData's frame is never closed, or before_publish throws.
Abandon ==
  /\ wpc \in {"fill", "length"}
  /\ req.op = "openData"
  /\ "abandon" \in Faults
  /\ wpc' = "idle"
  /\ req' = NoReq
  /\ UNCHANGED <<pagesVars, currentPageId, currentSequence, currentPage,
                 currentFrameAddress, scan, sessions, log>>

-----------------------------------------------------------------------------
(* rotatePage, once the next page is loaded. *)

\* A slip: the sentinel is written without waiting for the next page.
SentinelHeaderEarly ==
  /\ wpc = "load"
  /\ currentPage # 0
  /\ StoreFrame([length |-> 0, msg_type |-> PageEnd, seq |-> currentSequence,
                 data |-> mem[currentPage][currentFrameAddress].data])
  /\ currentSequence' = currentSequence + 1
  /\ wpc' = "sentinelLength"
  /\ UNCHANGED <<file, lastPos, currentPageId, currentPage,
                 currentFrameAddress, req, scan, sessions, log>>

\* The sentinel's fields, length still 0.
SentinelHeader ==
  /\ wpc = "load"
  /\ IsReady(currentPageId)
  /\ currentPage # 0
  /\ StoreFrame([length |-> 0, msg_type |-> PageEnd, seq |-> currentSequence,
                 data |-> mem[currentPage][currentFrameAddress].data])
  /\ currentSequence' = currentSequence + 1
  /\ wpc' = "sentinelLength"
  /\ UNCHANGED <<file, lastPos, currentPageId, currentPage,
                 currentFrameAddress, req, scan, sessions, log>>

\* A slip: the sentinel's length is never stored.
SentinelLengthMissing ==
  /\ wpc = "sentinelLength"
  /\ wpc' = "sentinelPos"
  /\ UNCHANGED <<pagesVars, currentPageId, currentSequence, currentPage,
                 currentFrameAddress, req, scan, sessions, log>>

\* The release store of the sentinel's length sends readers to the next page.
SentinelLength ==
  /\ wpc = "sentinelLength"
  /\ StoreFrame([mem[currentPage][currentFrameAddress]
                   EXCEPT !.length = SizeofFrameHeader])
  /\ log' = Append(log, NewRecord(SizeofFrameHeader, PageEnd, NoData))
  /\ wpc' = "sentinelPos"
  /\ UNCHANGED <<file, lastPos, currentPageId, currentSequence, currentPage,
                 currentFrameAddress, req, scan, sessions>>

\* setLastFramePosition on the old page, and the switch to the new one.
SentinelPos ==
  /\ wpc = "sentinelPos"
  /\ lastPos' = [lastPos EXCEPT ![currentPage] = currentFrameAddress]
  /\ currentPage' = currentPageId
  /\ currentFrameAddress' = FirstFrame
  /\ wpc' = "open"
  /\ UNCHANGED <<file, mem, currentPageId, currentSequence, req, scan,
                 sessions, log>>

-----------------------------------------------------------------------------
(* The end of a writer. *)

\* No page looks empty to HasWrittenFrames while something was stored in it.
ResumeIsReliable ==
  \A p \in PageIds : (IsReady(p) /\ ~HasWrittenFrames(p))
                       => \A o \in Offsets : mem[p][o].length = 0

MayEnd == \/ "stop_any" \in Faults
          \/ "stop" \in Faults /\ ResumeIsReliable

\* ~JournalWriter unmaps the pages and writes nothing into them.
Destroy ==
  /\ wpc = "idle"
  /\ MayEnd
  /\ ForgetWriter

\* The process dies between two steps; the mapped files survive.
Crash ==
  /\ wpc \notin {"down", "idle", "fault"}
  /\ MayEnd
  /\ ForgetWriter

WriterPcs == {"down", "find", "scan", "load", "sentinelLength", "sentinelPos",
              "idle", "open", "fill", "length", "pos", "fault"}

WriterTypeOK ==
  /\ wpc \in WriterPcs
  /\ currentPageId \in {0} \cup PageIds
  /\ currentSequence \in Nat
  /\ currentPage \in {0} \cup PageIds
  /\ currentFrameAddress \in Offsets
  /\ req \in Requests
  /\ scan \in [page : {0} \cup PageIds, off : Nat, seq : Nat]
  /\ sessions \in Nat
  /\ log \in Seq(Record)
=============================================================================
