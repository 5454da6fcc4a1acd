--------------------------- MODULE JournalProofs ---------------------------
(***************************************************************************)
(* Proofs about JournalSystem, for every page size, every set of readers,  *)
(* payloads and message types, and every bound: the geometry of a page,    *)
(* types, what a commit does to the log and the memory, and that           *)
(* JournalInv is inductive.  Under the conditions Disciplined states the   *)
(* journal keeps what was committed, numbers it without gaps, never kills  *)
(* a joined reader, and implements AppendLog.                              *)
(***************************************************************************)
EXTENDS JournalInvariant, SequenceTheorems, TLAPS

-----------------------------------------------------------------------------
(* The geometry of a page: facts cited instead of the arithmetic itself. *)

\* A frame's stride covers its logical length, is a whole number of alignment
\* units and wastes less than one (framePhysicalLength).
LEMMA PhysicalLength ==
  ASSUME NEW l \in Nat
  PROVE  /\ framePhysicalLength(l) \in Nat
         /\ framePhysicalLength(l) >= l
         /\ framePhysicalLength(l) < l + FRAME_ALIGNMENT
         /\ framePhysicalLength(l) % FRAME_ALIGNMENT = 0
BY DEF framePhysicalLength, alignUp, FRAME_ALIGNMENT

\* Strides are positive, because every frame has a header (openFrame).
LEMMA StrideType ==
  ASSUME NEW s \in Nat
  PROVE  /\ Stride(s) \in Nat
         /\ Stride(s) > s
         /\ Stride(s) >= FRAME_ALIGNMENT
         /\ Stride(s) % FRAME_ALIGNMENT = 0
         /\ Stride(s) = framePhysicalLength(SizeofFrameHeader + s)
<1>1. SizeofFrameHeader + s \in Nat /\ SizeofFrameHeader + s > s
  BY DEF SizeofFrameHeader
<1>2. Stride(s) >= FRAME_ALIGNMENT
  BY DEF Stride, framePhysicalLength, alignUp, FRAME_ALIGNMENT, SizeofFrameHeader
<1> QED
  BY <1>1, <1>2, PhysicalLength DEF Stride, FRAME_ALIGNMENT, SizeofFrameHeader

\* A stride of a marker frame is one alignment unit (mark).
LEMMA StrideOfMark == Stride(0) = FRAME_ALIGNMENT
BY DEF Stride, framePhysicalLength, alignUp, FRAME_ALIGNMENT, SizeofFrameHeader

\* Offsets are natural numbers inside the page, and the first frame is one of
\* them (Page::firstFrameAddress).
LEMMA OffsetsType ==
  /\ Offsets \subseteq Nat
  /\ FirstFrame \in Offsets
  /\ \A o \in Offsets : FirstFrame <= o /\ o <= Border
BY PageSizeAssumption
DEF Offsets, FirstFrame, Border, SizeofPageHeader, FRAME_ALIGNMENT

\* Moving on by a stride that stays within the border leads to a slot
\* (closeFrame, Frame::moveToNext).
LEMMA OffsetsClosed ==
  ASSUME NEW o \in Offsets, NEW s \in Nat,
         s % FRAME_ALIGNMENT = 0, o + s <= Border
  PROVE  o + s \in Offsets
BY PageSizeAssumption
DEF Offsets, FirstFrame, Border, SizeofPageHeader, FRAME_ALIGNMENT

USE PagesAssumption, WriterAssumption

-----------------------------------------------------------------------------
(* Who takes a step. *)

WriterStep ==
  \/ Construct \/ FindUnready \/ FindReady \/ FindFails \/ FindNone
  \/ ScanFrame \/ ScanEnd \/ LoadPage \/ LoadFails \/ LoadedInitial
  \/ openData \/ writeBytes \/ mark
  \/ OpenFrame \/ FillPayload \/ StoreLength \/ SetLastFramePosition \/ Abandon
  \/ SentinelHeader \/ SentinelLength \/ SentinelPos
  \/ Destroy \/ Crash

AnyReaderStep(r) ==
  Join(r) \/ LoadLength(r) \/ Dispatch(r) \/ MoveToNext(r) \/ LoadNextPage(r)

\* A step of the system is a step of the writer or of one reader.
LEMMA WhoSteps ==
  ASSUME Next
  PROVE  \/ WriterStep /\ UNCHANGED readerVars
         \/ \E r \in Readers : AnyReaderStep(r) /\ UNCHANGED writerVars
BY DEF Next, WriterStep, AnyReaderStep

-----------------------------------------------------------------------------
(* Types. *)

TypeInv == TypeOK /\ PcInv

\* The writer's offset stays a slot when it moves on by the stride of a frame
\* that fits (closeFrame after openFrame's border test).
LEMMA AddressMoves ==
  ASSUME NEW a \in Offsets, NEW s \in Nat, a + Stride(s) <= Border
  PROVE  a + Stride(s) \in Offsets
BY StrideType, OffsetsClosed

\* A frame placed at the head of a page fits (openFrame after rotatePage).
LEMMA FirstFits ==
  ASSUME NEW s \in PayloadSizes \cup {0}
  PROVE  FirstFrame + Stride(s) <= Border
<1>1. CASE s = 0
  BY <1>1, StrideOfMark, PageSizeAssumption
  DEF FirstFrame, SizeofPageHeader, Border, FRAME_ALIGNMENT
<1>2. CASE s \in PayloadSizes
  BY <1>2, FitsAssumption
<1> QED BY <1>1, <1>2

\* The constants a record or a frame is made of have their types.
LEMMA ConstTypes ==
  /\ SizeofFrameHeader \in Nat /\ SizeofFrameHeader > 0
  /\ PageEnd \in Nat
  /\ \A m \in Nat : toUint16(m) \in Nat
  /\ ZeroFrame \in FrameType
  /\ \A d : PayloadImage(d) \in FrameType
BY DEF SizeofFrameHeader, PageEnd, toUint16, ZeroFrame, JunkFrame, FrameType,
       PayloadImage

\* The arguments of a call have their types.
LEMMA ReqTypes ==
  ASSUME WriterTypeOK
  PROVE  /\ req.size \in Nat /\ req.size \in PayloadSizes \cup {0}
         /\ req.msg_type \in Nat
         /\ req.data \in Data \cup {NoData}
<1>1. /\ req.size \in PayloadSizes \cup {0}
      /\ req.msg_type \in MsgTypes \cup {0}
      /\ req.data \in Data \cup {NoData}
  BY DEF WriterTypeOK, Requests
<1>2. PayloadSizes \cup {0} \subseteq Nat /\ MsgTypes \cup {0} \subseteq Nat
  OBVIOUS
<1> HIDE PagesAssumption, WriterAssumption
<1> QED BY <1>1, <1>2

\* The initial state has its types.
LEMMA TypeInit == Init => TypeInv
<1> SUFFICES ASSUME Init PROVE TypeInv
  OBVIOUS
<1> USE DEF Init, PagesInit, WriterInit, ReaderInit
<1>1. PagesTypeOK
  BY ConstTypes DEF PagesTypeOK, FileStates
<1>2. WriterTypeOK
  BY OffsetsType DEF WriterTypeOK, WriterPcs, Requests, NoReq, NoScan, Ops
<1>3. ReaderTypeOK
  BY OffsetsType DEF ReaderTypeOK
<1>4. PcInv
  BY DEF PcInv
<1> QED BY <1>1, <1>2, <1>3, <1>4 DEF TypeInv, TypeOK

\* Page::load keeps the pages well-typed, whoever calls it.
LEMMA LoadTypes ==
  ASSUME PagesTypeOK, NEW p \in PageIds,
         \/ LoadStepAsMaster(p) /\ ~IsReady(p)
         \/ LoadAsMaster(p)
         \/ LoadReadOnly(p)
         \/ LoadThrows(p, WriterPrefault)
  PROVE  PagesTypeOK'
<1>1. CASE LoadStepAsMaster(p) /\ ~IsReady(p)
  BY <1>1, OffsetsType
  DEF PagesTypeOK, LoadStepAsMaster, IsReady, FileStates, FirstFrame
<1>2. CASE LoadAsMaster(p)
  BY <1>2, OffsetsType DEF PagesTypeOK, LoadAsMaster, FileStates, FirstFrame
<1>3. CASE LoadReadOnly(p)
  BY <1>3 DEF PagesTypeOK, LoadReadOnly, FileStates
<1>4. CASE LoadThrows(p, WriterPrefault)
  <2>1. \/ file' = file
        \/ file' = [file EXCEPT ![p] = "empty"]
        \/ file' = [file EXCEPT ![p] = "sized"]
    BY <1>4, Zenon DEF LoadThrows
  <2> QED BY <1>4, <2>1 DEF PagesTypeOK, LoadThrows, FileStates
<1> QED BY <1>1, <1>2, <1>3, <1>4

\* A store into a slot of a page keeps the memory well-typed.
LEMMA StoreTypes ==
  ASSUME PagesTypeOK, NEW f \in FrameType, StoreFrame(f),
         currentPage \in PageIds, currentFrameAddress \in Offsets
  PROVE  mem' \in [PageIds -> [Offsets -> FrameType]]
BY DEF PagesTypeOK, StoreFrame

\* Every step of the writer keeps the types.
LEMMA TypeWriterStep ==
  ASSUME TypeInv, WriterStep, UNCHANGED readerVars
  PROVE  TypeInv'
<1> USE DEF TypeInv, TypeOK
<1>r. ReaderTypeOK' /\ (\A r \in Readers :
         /\ rpc[r] \in {"poll", "view", "advance"} => rpage[r] \in PageIds
         /\ rpc[r] \in {"view", "advance"} => raddr[r] \in Offsets)'
  BY DEF ReaderTypeOK, readerVars, PcInv
<1> SUFFICES PagesTypeOK' /\ WriterTypeOK' /\ PcInv'
  BY <1>r
<1>f. ASSUME ForgetWriter
      PROVE  PagesTypeOK' /\ WriterTypeOK' /\ PcInv'
  BY <1>f, <1>r, OffsetsType
  DEF ForgetWriter, pagesVars, PagesTypeOK, WriterTypeOK, PcInv, WriterPcs,
      Requests, NoReq, NoScan, Ops
<1>1. CASE Construct
  <2>1. scan' \in [page : {0} \cup PageIds, off : Nat, seq : Nat]
    BY <1>1, OffsetsType DEF Construct, NoScan, listPageId
  <2> QED
    BY <1>1, <1>r, <2>1
    DEF Construct, pagesVars, PagesTypeOK, WriterTypeOK, PcInv, WriterPcs
<1>2. CASE FindUnready
  <2>1. scan.page \in PageIds
    BY <1>2 DEF FindUnready, WriterTypeOK
  <2>2. PagesTypeOK'
    BY <1>2, <2>1, LoadTypes DEF FindUnready
  <2> QED
    BY SMTT(30), <1>2, <1>r, <2>1, <2>2
    DEF FindUnready, WriterTypeOK, PcInv, WriterPcs, PageIds
<1>3. CASE FindReady
  BY <1>3, <1>r
  DEF FindReady, pagesVars, PagesTypeOK, WriterTypeOK, PcInv, WriterPcs, IsReady,
      PageIds
<1>24. CASE FindFails
  <2>1. scan.page \in PageIds
    BY <1>24 DEF FindFails, WriterTypeOK
  <2>2. PagesTypeOK'
    BY <1>24, <2>1, LoadTypes DEF FindFails
  <2> QED
    BY SMTT(30), <1>24, <1>r, <2>1, <2>2
    DEF FindFails, WriterTypeOK, PcInv, PageIds
<1>4. CASE FindNone
  BY <1>4, <1>r
  DEF FindNone, pagesVars, PagesTypeOK, WriterTypeOK, PcInv, WriterPcs, PageIds
<1>5. CASE ScanFrame
  <2> DEFINE f == mem[scan.page][scan.off]
  <2>1. f \in FrameType
    BY <1>5 DEF ScanFrame, FrameUnderScan, PcInv, PagesTypeOK
  <2>2. framePhysicalLength(f.length) \in Nat
    BY <2>1, PhysicalLength DEF FrameType
  <2>3. CASE f.msg_type = PageEnd
    <3>1. ResumeAfter(f.seq) /\ UNCHANGED scan
      BY <1>5, <2>3 DEF ScanFrame
    <3>2. f.seq \in Nat
      BY <2>1 DEF FrameType
    <3> HIDE DEF f
    <3> QED
      BY SMTT(30), <1>5, <1>r, <3>1, <3>2
      DEF ScanFrame, ResumeAfter, pagesVars, PagesTypeOK, WriterTypeOK, PcInv,
          WriterPcs, PageIds
  <2>4. CASE f.msg_type # PageEnd
    <3>1. /\ scan' = [scan EXCEPT !.off = @ + framePhysicalLength(f.length),
                                  !.seq = f.seq]
          /\ UNCHANGED <<wpc, currentPageId, currentSequence>>
      BY <1>5, <2>4 DEF ScanFrame
    <3>2. f.seq \in Nat
      BY <2>1 DEF FrameType
    <3> HIDE DEF f
    <3>3. /\ scan' \in [page : {0} \cup PageIds, off : Nat, seq : Nat]
          /\ scan'.page = scan.page
      <4>1. scan \in [page : {0} \cup PageIds, off : Nat, seq : Nat]
        BY DEF WriterTypeOK
      <4>2. scan.off + framePhysicalLength(f.length) \in Nat
        BY <4>1, <2>2
      <4> QED BY <3>1, <3>2, <4>1, <4>2
    <3> QED
      BY <1>5, <1>r, <3>1, <3>3
      DEF ScanFrame, pagesVars, PagesTypeOK, WriterTypeOK, PcInv
  <2> QED BY <2>3, <2>4
<1>6. CASE ScanEnd
  BY <1>6, <1>r
  DEF ScanEnd, ResumeAfter, pagesVars, PagesTypeOK, WriterTypeOK, PcInv,
      WriterPcs, PageIds
<1>7. CASE LoadPage
  <2>1. PagesTypeOK'
    BY <1>7, LoadTypes DEF LoadPage, PcInv
  <2> QED
    BY <1>7, <1>r, <2>1 DEF LoadPage, writerVars, WriterTypeOK, PcInv
<1>8. CASE LoadFails
  <2>1. CASE currentPage = 0
    BY <1>8, <1>f, <2>1 DEF LoadFails
  <2>2. CASE currentPage # 0
    BY <1>8, <1>r, <2>2
    DEF LoadFails, pagesVars, PagesTypeOK, WriterTypeOK, PcInv, WriterPcs,
        Requests, NoReq, Ops
  <2> QED BY <2>1, <2>2
<1>9. CASE LoadedInitial
  BY <1>9, <1>r, OffsetsType
  DEF LoadedInitial, pagesVars, PagesTypeOK, WriterTypeOK, PcInv, WriterPcs
<1>10. ASSUME NEW op \in Ops, NEW m \in MsgTypes, NEW s \in PayloadSizes \cup {0},
              NEW d \in Data \cup {NoData}, Call(op, m, s, d)
       PROVE  PagesTypeOK' /\ WriterTypeOK' /\ PcInv'
  <2>1. Stride(s) \in Nat /\ currentFrameAddress \in Nat /\ Border \in Int
    <3>1. s \in Nat
      OBVIOUS
    <3>2. Stride(s) \in Nat
      BY <3>1, StrideType
    <3>3. currentFrameAddress \in Nat
      BY OffsetsType DEF WriterTypeOK
    <3> QED BY <3>2, <3>3, PageSizeAssumption DEF Border, FRAME_ALIGNMENT
  <2>2. req' \in Requests /\ req'.size = s
    BY <1>10 DEF Call, Requests
  <2> QED
    BY SMTT(30), <1>10, <1>r, <2>1, <2>2
    DEF Call, NeedsRotation, pagesVars, PagesTypeOK, WriterTypeOK, PcInv,
        WriterPcs, PageIds
<1>11. CASE openData
  BY <1>11, <1>10 DEF openData, Ops
<1>12. CASE writeBytes
  BY <1>12, <1>10 DEF writeBytes, Ops
<1>13. CASE mark
  BY <1>13, <1>10 DEF mark, Ops
<1>14. CASE OpenFrame
  <2>1. req.msg_type \in Nat /\ mem[currentPage][currentFrameAddress] \in FrameType
    BY <1>14, ReqTypes DEF OpenFrame, PcInv, WriterTypeOK, PagesTypeOK
  <2>2. [length |-> 0, msg_type |-> toUint16(req.msg_type),
         seq |-> currentSequence,
         data |-> mem[currentPage][currentFrameAddress].data] \in FrameType
    BY <2>1, ConstTypes DEF FrameType, WriterTypeOK
  <2>3. mem' \in [PageIds -> [Offsets -> FrameType]]
    BY <1>14, <2>2, StoreTypes DEF OpenFrame, PcInv, WriterTypeOK
  <2> QED
    BY <1>14, <1>r, <2>3
    DEF OpenFrame, PagesTypeOK, WriterTypeOK, PcInv, WriterPcs
<1>15. CASE FillPayload
  <2>1. mem[currentPage] \in [Offsets -> FrameType] /\ currentPage \in PageIds
    BY <1>15 DEF FillPayload, PcInv, PagesTypeOK
  <2>2. req.data \in Data \cup {NoData}
    BY DEF WriterTypeOK, Requests
  <2> DEFINE g == [o \in Offsets |->
         CASE o = currentFrameAddress -> [mem[currentPage][o] EXCEPT !.data = req.data]
           [] o \in Covered(req.size) -> PayloadImage(req.data)
           [] OTHER -> mem[currentPage][o]]
  <2>3. ASSUME NEW o \in Offsets PROVE g[o] \in FrameType
    <3>1. mem[currentPage][o] \in FrameType
      BY <2>1
    <3>2. [mem[currentPage][o] EXCEPT !.data = req.data] \in FrameType
      BY <3>1, <2>2 DEF FrameType
    <3> QED BY <3>1, <3>2, ConstTypes
  <2>4. g \in [Offsets -> FrameType]
    BY <2>3
  <2>5. mem' = [mem EXCEPT ![currentPage] = g]
    BY <1>15 DEF FillPayload
  <2>6. mem' \in [PageIds -> [Offsets -> FrameType]]
    BY <2>1, <2>4, <2>5 DEF PagesTypeOK
  <2> QED
    BY <1>15, <1>r, <2>6
    DEF FillPayload, PagesTypeOK, WriterTypeOK, PcInv, WriterPcs
<1>16. CASE StoreLength
  <2>1. req.msg_type \in Nat /\ req.size \in Nat /\ req.data \in Data \cup {NoData}
        /\ mem[currentPage][currentFrameAddress] \in FrameType
    BY <1>16, ReqTypes DEF StoreLength, PcInv, WriterTypeOK, PagesTypeOK
  <2>2. [mem[currentPage][currentFrameAddress]
           EXCEPT !.length = SizeofFrameHeader + req.size] \in FrameType
    BY <2>1, ConstTypes DEF FrameType
  <2>3. mem' \in [PageIds -> [Offsets -> FrameType]]
    BY <1>16, <2>2, StoreTypes DEF StoreLength, PcInv, WriterTypeOK
  <2>4. NewRecord(SizeofFrameHeader + req.size, toUint16(req.msg_type), req.data)
          \in Record
    <3>1. /\ currentPage \in PageIds /\ currentFrameAddress \in Offsets
          /\ currentSequence - 1 \in Nat
      BY <1>16 DEF StoreLength, PcInv, WriterTypeOK
    <3>2. SizeofFrameHeader + req.size \in Nat /\ toUint16(req.msg_type) \in Nat
      BY <2>1, ConstTypes
    <3> QED BY <2>1, <3>1, <3>2 DEF NewRecord, Record
  <2>5. log' \in Seq(Record)
    BY <1>16, <2>4 DEF StoreLength, WriterTypeOK
  <2> QED
    BY <1>16, <1>r, <2>3, <2>5
    DEF StoreLength, PagesTypeOK, WriterTypeOK, PcInv, WriterPcs
<1>17. CASE SetLastFramePosition
  <2>1. currentFrameAddress + Stride(req.size) \in Offsets
    BY <1>17, AddressMoves
    DEF SetLastFramePosition, PcInv, WriterTypeOK, Requests
  <2> QED
    BY <1>17, <1>r, <2>1
    DEF SetLastFramePosition, PagesTypeOK, WriterTypeOK, PcInv, WriterPcs,
        Requests, NoReq, Ops
<1>18. CASE Abandon
  BY <1>18, <1>r
  DEF Abandon, pagesVars, PagesTypeOK, WriterTypeOK, PcInv, WriterPcs,
      Requests, NoReq, Ops
<1>19. CASE SentinelHeader
  <2>0. currentPage \in PageIds
    BY <1>19 DEF SentinelHeader, WriterTypeOK
  <2>1. mem[currentPage][currentFrameAddress] \in FrameType
    BY <2>0 DEF WriterTypeOK, PagesTypeOK
  <2>2. [length |-> 0, msg_type |-> PageEnd, seq |-> currentSequence,
         data |-> mem[currentPage][currentFrameAddress].data] \in FrameType
    BY <2>1, ConstTypes DEF FrameType, WriterTypeOK
  <2>3. mem' \in [PageIds -> [Offsets -> FrameType]]
    BY <1>19, <2>0, <2>2, StoreTypes DEF SentinelHeader, WriterTypeOK
  <2> QED
    BY <1>19, <1>r, <2>0, <2>3
    DEF SentinelHeader, PagesTypeOK, WriterTypeOK, PcInv, WriterPcs
<1>20. CASE SentinelLength
  <2>1. mem[currentPage][currentFrameAddress] \in FrameType
    BY <1>20 DEF SentinelLength, PcInv, WriterTypeOK, PagesTypeOK
  <2>2. [mem[currentPage][currentFrameAddress]
           EXCEPT !.length = SizeofFrameHeader] \in FrameType
    BY <2>1, ConstTypes DEF FrameType
  <2>3. mem' \in [PageIds -> [Offsets -> FrameType]]
    BY <1>20, <2>2, StoreTypes DEF SentinelLength, PcInv, WriterTypeOK
  <2>4. NewRecord(SizeofFrameHeader, PageEnd, NoData) \in Record
    BY <1>20, <2>1, ConstTypes DEF SentinelLength, NewRecord, Record, PcInv, WriterTypeOK
  <2>5. log' \in Seq(Record)
    BY <1>20, <2>4 DEF SentinelLength, WriterTypeOK
  <2> QED
    BY <1>20, <1>r, <2>3, <2>5
    DEF SentinelLength, PagesTypeOK, WriterTypeOK, PcInv, WriterPcs
<1>21. CASE SentinelPos
  <2>1. FirstFrame + Stride(req.size) <= Border
    BY FirstFits DEF WriterTypeOK, Requests
  <2> QED
    BY <1>21, <1>r, <2>1, OffsetsType
    DEF SentinelPos, PagesTypeOK, WriterTypeOK, PcInv, WriterPcs
<1>22. CASE Destroy
  BY <1>22, <1>f DEF Destroy
<1>23. CASE Crash
  BY <1>23, <1>f DEF Crash
<1> QED
  BY <1>1, <1>2, <1>3, <1>4, <1>5, <1>6, <1>7, <1>8, <1>9, <1>11, <1>12, <1>13,
     <1>14, <1>15, <1>16, <1>17, <1>18, <1>19, <1>20, <1>21, <1>22, <1>23, <1>24, <1>r
  DEF WriterStep

\* Every step of a reader keeps the types.
LEMMA TypeReaderStep ==
  ASSUME TypeInv, NEW r \in Readers,
         AnyReaderStep(r), UNCHANGED writerVars
  PROVE  TypeInv'
<1> USE DEF TypeInv, TypeOK
<1>w. WriterTypeOK' /\ (PcInv!1 /\ PcInv!2 /\ PcInv!3 /\ PcInv!4 /\ PcInv!5)'
  BY DEF WriterTypeOK, writerVars, PcInv
<1>l. ASSUME NEW p \in PageIds, LoadForReading(r, p), UNCHANGED <<view, delivered>>
      PROVE  PagesTypeOK' /\ ReaderTypeOK' /\ PcInv'
  <2>1. PagesTypeOK'
    BY <1>l, LoadTypes DEF LoadForReading
  <2> QED
    BY ZenonT(60), <1>l, <1>w, <2>1, OffsetsType DEF LoadForReading, ReaderTypeOK, PcInv
<1>1. CASE Join(r)
  BY <1>1, <1>l, <1>w DEF Join, listPageId, PageIds
<1>2. CASE LoadLength(r)
  <2>1. mem[rpage[r]][raddr[r]].length \in Nat
    BY <1>2 DEF LoadLength, PcInv, PagesTypeOK, FrameType
  <2>2. view' \in [Readers -> [length : Nat, msg_type : Nat]]
    <3>1. view[r] \in [length : Nat, msg_type : Nat]
      BY DEF ReaderTypeOK
    <3>2. [view[r] EXCEPT !.length = mem[rpage[r]][raddr[r]].length]
            \in [length : Nat, msg_type : Nat]
      BY <2>1, <3>1
    <3>3. view' = [view EXCEPT ![r] =
                     [view[r] EXCEPT !.length = mem[rpage[r]][raddr[r]].length]]
      BY <1>2 DEF LoadLength, ReaderTypeOK
    <3> QED BY <3>2, <3>3 DEF ReaderTypeOK
  <2> QED
    BY <1>2, <1>w, <2>2 DEF LoadLength, pagesVars, PagesTypeOK, ReaderTypeOK, PcInv
<1>3. CASE Dispatch(r)
  <2> DEFINE f == mem[rpage[r]][raddr[r]]
             rec == [page |-> rpage[r], off |-> raddr[r],
                     length |-> view[r].length, msg_type |-> f.msg_type,
                     seq |-> f.seq, data |-> PayloadOf(view[r].length, f.data)]
  <2>1. f \in FrameType /\ view[r].length \in Nat
    BY <1>3 DEF Dispatch, PcInv, PagesTypeOK, ReaderTypeOK
  <2>2. rec \in Record
    BY <1>3, <2>1 DEF Dispatch, PcInv, Record, FrameType, PayloadOf
  <2>3. CASE hasData(view[r].length, f.msg_type)
    <3>1. view' \in [Readers -> [length : Nat, msg_type : Nat]]
      <4>1. [view[r] EXCEPT !.msg_type = f.msg_type] \in [length : Nat, msg_type : Nat]
        BY <2>1 DEF FrameType, ReaderTypeOK
      <4>2. view' = [view EXCEPT ![r] = [view[r] EXCEPT !.msg_type = f.msg_type]]
        BY <1>3, <2>3 DEF Dispatch, ReaderTypeOK
      <4> QED BY <4>1, <4>2 DEF ReaderTypeOK
    <3>2. delivered' \in [Readers -> Seq(Record)]
      <4>1. Append(delivered[r], rec) \in Seq(Record)
        BY <2>2 DEF ReaderTypeOK
      <4>2. delivered' = [delivered EXCEPT ![r] = Append(delivered[r], rec)]
        BY <1>3, <2>3 DEF Dispatch, ReaderTypeOK
      <4> QED BY <4>1, <4>2 DEF ReaderTypeOK
    <3>3. rpc' = [rpc EXCEPT ![r] = "advance"]
      BY <1>3, <2>3 DEF Dispatch
    <3> QED
      BY <1>3, <1>w, <3>1, <3>2, <3>3
      DEF Dispatch, pagesVars, PagesTypeOK, ReaderTypeOK, PcInv
  <2>4. CASE ~hasData(view[r].length, f.msg_type)
    BY <1>3, <1>w, <2>4 DEF Dispatch, pagesVars, PagesTypeOK, ReaderTypeOK, PcInv
  <2> QED BY <2>3, <2>4
<1>4. CASE MoveToNext(r)
  <2>1. framePhysicalLength(view[r].length) \in Nat
    BY PhysicalLength DEF ReaderTypeOK
  <2> QED
    BY <1>4, <1>w, <2>1 DEF MoveToNext, pagesVars, PagesTypeOK, ReaderTypeOK, PcInv
<1>5. CASE LoadNextPage(r)
  <2>1. rpage[r] + 1 \in PageIds
    BY <1>5 DEF LoadNextPage, PcInv, PageIds
  <2> QED
    BY <1>5, <1>l, <1>w, <2>1 DEF LoadNextPage
<1> QED BY <1>1, <1>2, <1>3, <1>4, <1>5, <1>w DEF AnyReaderStep

\* The type invariant and what the program counters imply hold always.
LEMMA TypeInvariant == Spec => []TypeInv
<1>1. Init => TypeInv
  BY TypeInit
<1>2. TypeInv /\ [Next]_vars => TypeInv'
  <2> SUFFICES ASSUME TypeInv, [Next]_vars PROVE TypeInv'
    OBVIOUS
  <2>1. CASE Next
    BY <2>1, WhoSteps, TypeWriterStep, TypeReaderStep
  <2>2. CASE UNCHANGED vars
    BY <2>2 DEF vars, pagesVars, writerVars, readerVars, TypeInv, TypeOK,
                PagesTypeOK, WriterTypeOK, ReaderTypeOK, PcInv
  <2> QED BY <2>1, <2>2
<1> QED BY <1>1, <1>2, PTL DEF Spec

\* TypeOK for every instance: in particular current_frame_address_ is always a
\* slot at or below the border, as rotatePage asserts before it writes the
\* sentinel, whatever faults occur.
THEOREM TypeCorrect == Spec => []TypeOK
<1>1. TypeInv => TypeOK
  BY DEF TypeInv
<1> QED BY <1>1, TypeInvariant, PTL

HIDE PagesAssumption
HIDE WriterAssumption

-----------------------------------------------------------------------------
(* Facts about states that satisfy the invariant. *)

\* The records of the log have their types.
LEMMA LogTypes ==
  ASSUME TypeInv
  PROVE  /\ Len(log) \in Nat
         /\ \A i \in 1 .. Len(log) :
              /\ log[i] \in Record
              /\ log[i].page \in PageIds /\ log[i].page \in Nat
              /\ log[i].off \in Offsets /\ log[i].off \in Nat
              /\ log[i].length \in Nat /\ log[i].msg_type \in Nat
              /\ log[i].seq \in Nat
<1>1. log \in Seq(Record)
  BY DEF TypeInv, TypeOK, WriterTypeOK
<1>2. \A i \in 1 .. Len(log) : log[i] \in Record
  BY <1>1
<1>3. Len(log) \in Nat
  BY <1>1
<1>4. ASSUME NEW i \in 1 .. Len(log)
      PROVE  /\ log[i].page \in PageIds /\ log[i].off \in Offsets
             /\ log[i].length \in Nat /\ log[i].msg_type \in Nat
             /\ log[i].seq \in Nat
  BY <1>2 DEF Record
<1>5. PageIds \subseteq Nat
  BY DEF PageIds
<1> QED BY <1>2, <1>3, <1>4, <1>5, OffsetsType

\* A record ends where the next one may begin, past its own beginning.
LEMMA NextIsLater ==
  ASSUME TypeInv, LogInv, NEW i \in 1 .. Len(log)
  PROVE  /\ log[i].msg_type # PageEnd =>
              NextPage(log[i]) = log[i].page /\ log[i].off < NextOff(log[i])
         /\ log[i].msg_type = PageEnd =>
              NextPage(log[i]) = log[i].page + 1 /\ NextOff(log[i]) = FirstFrame
         /\ NextPage(log[i]) \in PageIds /\ NextPage(log[i]) \in Nat
         /\ NextOff(log[i]) \in Offsets /\ NextOff(log[i]) \in Nat
         /\ log[i].page <= NextPage(log[i])
<1>1. /\ framePhysicalLength(log[i].length) \in Nat
      /\ framePhysicalLength(log[i].length) >= log[i].length
  BY LogTypes, PhysicalLength
<1>2. log[i].length > 0
  BY LogTypes DEF LogInv, SizeofFrameHeader
<1>3. NextPage(log[i]) \in PageIds /\ NextOff(log[i]) \in Offsets
  BY DEF LogInv
<1>4. NextPage(log[i]) \in Nat /\ NextOff(log[i]) \in Nat
  <2>1. PageIds \subseteq Nat
    BY DEF PageIds
  <2>2. Offsets \subseteq Nat
    BY OffsetsType
  <2> QED BY <1>3, <2>1, <2>2
<1>5. log[i].page \in Nat /\ log[i].off \in Nat /\ log[i].length \in Nat
  BY LogTypes
<1> QED
  BY <1>1, <1>2, <1>3, <1>4, <1>5 DEF NextPage, NextOff

\* Everything committed lies before the frontier, and so do the places where
\* readers wait.
LEMMA BeforeFrontier ==
  ASSUME TypeInv, LogInv, NEW p \in PageIds, NEW o \in Offsets, Frontier(p, o),
         NEW i \in 1 .. Len(log)
  PROVE  /\ \/ log[i].page < p
            \/ /\ log[i].page = p /\ log[i].msg_type # PageEnd
               /\ log[i].off < o /\ NextOff(log[i]) <= o
         /\ NextPage(log[i]) <= p
         /\ NextPage(log[i]) = p => NextOff(log[i]) <= o
<1> DEFINE n == Len(log)
<1>1. n \in Nat /\ n \in 1 .. Len(log) /\ log # <<>>
  BY LogTypes
<1>2. \/ p = NextPage(log[n]) /\ o = NextOff(log[n])
      \/ o = FirstFrame /\ NextPage(log[n]) < p
  BY <1>1 DEF Frontier
<1>3. p \in Nat /\ o \in Nat /\ FirstFrame <= o /\ FirstFrame \in Nat
  BY OffsetsType DEF PageIds
<1>4. CASE i = n
  BY <1>1, <1>2, <1>3, <1>4, NextIsLater, LogTypes
<1>5. CASE i < n
  <2>1. \/ log[i].page < log[n].page
        \/ /\ log[i].page = log[n].page /\ log[i].msg_type # PageEnd
           /\ NextOff(log[i]) <= log[n].off
    BY <1>1, <1>5 DEF LogInv
  <2>2. log[n].page <= NextPage(log[n])
    BY <1>1, NextIsLater
  <2>3. CASE log[i].page < log[n].page
    <3>1. log[i].page < p
      BY SMTT(30), <1>1, <1>2, <1>3, <2>2, <2>3, LogTypes, NextIsLater
    <3>2. NextPage(log[i]) <= p
      BY <1>3, <3>1, LogTypes, NextIsLater
    <3>3. NextPage(log[i]) = p => NextOff(log[i]) = FirstFrame
      BY <3>1, LogTypes, NextIsLater
    <3> QED BY <1>3, <3>1, <3>2, <3>3
  <2>4. CASE /\ log[i].page = log[n].page /\ log[i].msg_type # PageEnd
             /\ NextOff(log[i]) <= log[n].off
    <3>1. /\ NextPage(log[i]) = log[i].page /\ log[i].off < NextOff(log[i])
          /\ NextOff(log[i]) \in Nat
      BY <2>4, NextIsLater
    <3>2. /\ log[n].msg_type # PageEnd =>
               NextPage(log[n]) = log[n].page /\ log[n].off < NextOff(log[n])
          /\ log[n].msg_type = PageEnd => NextPage(log[n]) = log[n].page + 1
          /\ NextPage(log[n]) \in Nat /\ NextOff(log[n]) \in Nat
      BY <1>1, NextIsLater
    <3>3. /\ log[i].page \in Nat /\ log[n].page \in Nat
          /\ log[i].off \in Nat /\ log[n].off \in Nat
      BY <1>1, LogTypes
    <3> QED BY SMTT(30), <1>2, <1>3, <2>4, <3>1, <3>2, <3>3
  <2> QED BY <2>1, <2>3, <2>4
<1> QED BY <1>1, <1>4, <1>5

-----------------------------------------------------------------------------
(* Committing a frame, and writing where nothing is committed. *)

\* The release store of a length at the frontier extends the log and the memory
\* consistently, when the place for the frame after it holds no length yet.
LEMMA CommitLog ==
  ASSUME TypeInv, LogInv, NEW rec \in Record,
         currentPage \in PageIds, Frontier(currentPage, currentFrameAddress),
         rec.page = currentPage, rec.off = currentFrameAddress,
         SizeofFrameHeader <= rec.length, rec.length <= PageSize,
         rec.off + framePhysicalLength(rec.length) <= PageSize,
         NextPage(rec) \in PageIds, NextOff(rec) \in Offsets,
         rec.seq = Len(log), log' = Append(log, rec)
  PROVE  LogInv'
<1> DEFINE n == Len(log)
<1>1. /\ n \in Nat /\ Len(log') = n + 1 /\ log'[n + 1] = rec /\ n + 1 \in 1 .. Len(log')
      /\ \A i \in 1 .. n : log'[i] = log[i] /\ i \in 1 .. Len(log')
      /\ \A i \in 1 .. Len(log') : i \in 1 .. n \/ i = n + 1
  <2>1. log \in Seq(Record)
    BY DEF TypeInv, TypeOK, WriterTypeOK
  <2> QED BY <2>1
<1>2. currentFrameAddress \in Offsets
  BY DEF TypeInv, TypeOK, WriterTypeOK
<1>3. \A i \in 1 .. n :
        \/ log[i].page < rec.page
        \/ /\ log[i].page = rec.page /\ log[i].msg_type # PageEnd
           /\ NextOff(log[i]) <= rec.off
  BY <1>2, BeforeFrontier
<1> HIDE DEF n
<1>4. \A i \in 1 .. Len(log') :
        /\ SizeofFrameHeader <= log'[i].length
        /\ log'[i].length <= PageSize
        /\ log'[i].off + framePhysicalLength(log'[i].length) <= PageSize
        /\ NextPage(log'[i]) \in PageIds
        /\ NextOff(log'[i]) \in Offsets
  BY <1>1 DEF LogInv, n
<1>5. ASSUME NEW i \in 1 .. Len(log'), NEW j \in 1 .. Len(log'), i < j
      PROVE  \/ log'[i].page < log'[j].page
             \/ /\ log'[i].page = log'[j].page
                /\ log'[i].msg_type # PageEnd
                /\ NextOff(log'[i]) <= log'[j].off
  <2>1. CASE j = n + 1
    <3>1. i \in 1 .. n
      BY <1>1, <1>5, <2>1
    <3> QED BY <1>1, <1>3, <2>1, <3>1
  <2>2. CASE j \in 1 .. n
    <3>1. i \in 1 .. n
      BY <1>1, <1>5, <2>2
    <3> QED BY <1>1, <1>5, <2>2, <3>1 DEF LogInv, n
  <2> QED BY <1>1, <2>1, <2>2
<1>6. ASSUME NEW i \in 1 .. Len(log')
      PROVE  \E k \in 1 .. Len(log') :
               log'[k].page = log'[i].page /\ log'[k].off = FirstFrame
  <2>1. CASE i \in 1 .. n
    <3>1. PICK k \in 1 .. n : log[k].page = log[i].page /\ log[k].off = FirstFrame
      BY <2>1 DEF LogInv, n
    <3> QED BY <1>1, <2>1, <3>1
  <2>2. CASE i = n + 1 /\ rec.off = FirstFrame
    BY <1>1, <2>2
  <2>3. CASE i = n + 1 /\ rec.off # FirstFrame
    <3>1. /\ n \in 1 .. n /\ rec.page = NextPage(log[n]) /\ rec.off = NextOff(log[n])
      BY <1>1, <2>3 DEF Frontier, n
    <3>2. log[n].page = rec.page
      BY <2>3, <3>1, NextIsLater DEF n
    <3>3. PICK k \in 1 .. n : log[k].page = log[n].page /\ log[k].off = FirstFrame
      BY <3>1 DEF LogInv, n
    <3> QED BY <1>1, <2>3, <3>2, <3>3
  <2> QED BY <1>1, <2>1, <2>2, <2>3
<1>7. log'[1].page = 1 /\ log'[1].off = FirstFrame
  <2>1. CASE n = 0
    <3>1. log = <<>>
      BY <2>1 DEF n, TypeInv, TypeOK, WriterTypeOK
    <3> QED BY <1>1, <2>1, <3>1 DEF Frontier
  <2>2. CASE n # 0
    <3>1. log # <<>> /\ 1 \in 1 .. n
      BY <1>1, <2>2 DEF n
    <3> QED BY <1>1, <3>1 DEF LogInv
  <2> QED BY <2>1, <2>2
<1>8. \A i \in 1 .. Len(log') : log'[i].seq = i - 1
  BY <1>1 DEF LogInv, SequencesContiguous, n
<1> QED
  BY <1>4, <1>5, <1>6, <1>7, <1>8 DEF LogInv, SequencesContiguous

\* The same step leaves the older frames, and the places where readers wait, as
\* they were.
LEMMA CommitMem ==
  ASSUME TypeInv, LogInv, MemInv, NEW rec \in Record, NEW f \in FrameType,
         currentPage \in PageIds, Frontier(currentPage, currentFrameAddress),
         rec.page = currentPage, rec.off = currentFrameAddress,
         f.length = rec.length, f.msg_type = rec.msg_type, f.seq = rec.seq,
         PayloadOf(f.length, f.data) = rec.data,
         NextPage(rec) \in PageIds, NextOff(rec) \in Offsets,
         NextPage(rec) # currentPage \/ NextOff(rec) # currentFrameAddress,
         LengthAt(NextPage(rec), NextOff(rec)) = 0,
         StoreFrame(f), log' = Append(log, rec), UNCHANGED currentPage
  PROVE  MemInv'
<1> DEFINE n == Len(log)
<1>1. /\ n \in Nat /\ Len(log') = n + 1 /\ log'[n + 1] = rec
      /\ \A i \in 1 .. n : log'[i] = log[i] /\ i \in 1 .. Len(log')
      /\ \A i \in 1 .. Len(log') : i \in 1 .. n \/ i = n + 1
  <2>1. log \in Seq(Record)
    BY DEF TypeInv, TypeOK, WriterTypeOK
  <2> QED BY <2>1
<1>2. /\ currentFrameAddress \in Offsets
      /\ mem \in [PageIds -> [Offsets -> FrameType]]
  BY DEF TypeInv, TypeOK, WriterTypeOK, PagesTypeOK
<1>3. /\ mem'[currentPage][currentFrameAddress] = f
      /\ \A p \in PageIds, o \in Offsets :
           (p # currentPage \/ o # currentFrameAddress) => mem'[p][o] = mem[p][o]
  BY <1>2 DEF StoreFrame
<1>4. ASSUME NEW i \in 1 .. n
      PROVE  /\ log[i].page \in PageIds /\ log[i].off \in Offsets
             /\ log[i].page # currentPage \/ log[i].off # currentFrameAddress
             /\ NextPage(log[i]) \in PageIds /\ NextOff(log[i]) \in Offsets
             /\ NextPage(log[i]) <= currentPage
  <2>1. /\ \/ log[i].page < currentPage
           \/ log[i].page = currentPage /\ log[i].off < currentFrameAddress
        /\ NextPage(log[i]) <= currentPage
    BY <1>2, BeforeFrontier
  <2>2. /\ log[i].page \in PageIds /\ log[i].off \in Offsets
        /\ log[i].page \in Nat /\ log[i].off \in Nat
    BY LogTypes
  <2>3. NextPage(log[i]) \in PageIds /\ NextOff(log[i]) \in Offsets
    BY NextIsLater
  <2>4. currentPage \in Nat /\ currentFrameAddress \in Nat
    BY <1>2, OffsetsType DEF PageIds
  <2> QED BY <2>1, <2>2, <2>3, <2>4
<1>5. ASSUME NEW i \in 1 .. Len(log')
      PROVE  (FrameAt(log[i]) = log[i])'
  <2>1. CASE i \in 1 .. n
    <3>1. mem'[log[i].page][log[i].off] = mem[log[i].page][log[i].off]
      BY <1>3, <1>4, <2>1
    <3>2. FrameAt(log[i]) = log[i]
      BY <2>1 DEF MemInv, CommittedFramesIntact
    <3> QED BY <1>1, <2>1, <3>1, <3>2 DEF FrameAt
  <2>2. CASE i = n + 1
    <3>1. rec = [page |-> rec.page, off |-> rec.off, length |-> rec.length,
                 msg_type |-> rec.msg_type, seq |-> rec.seq, data |-> rec.data]
      BY DEF Record
    <3> QED BY <1>1, <1>3, <2>2, <3>1 DEF FrameAt
  <2> QED BY <1>1, <2>1, <2>2
<1>6. ASSUME NEW i \in 1 .. Len(log')
      PROVE  \/ i < Len(log') /\ Follows(log'[i + 1], log'[i])
             \/ /\ mem'[NextPage(log'[i])][NextOff(log'[i])].length = 0
                /\ i < Len(log') => NextPage(log'[i]) < log'[i + 1].page
  <2>1. CASE i = n + 1
    BY <1>1, <1>3, <2>1 DEF LengthAt
  <2>2. CASE i \in 1 .. n /\ i < n
    <3>1. i + 1 \in 1 .. n /\ log'[i] = log[i] /\ log'[i + 1] = log[i + 1]
          /\ i < Len(log')
      BY <1>1, <2>2
    <3>2. CASE Follows(log[i + 1], log[i])
      BY <3>1, <3>2
    <3>3. CASE ~Follows(log[i + 1], log[i])
      <4>1. /\ LengthAt(NextPage(log[i]), NextOff(log[i])) = 0
            /\ NextPage(log[i]) < log[i + 1].page
        BY <2>2, <3>3 DEF MemInv
      <4>2. log[i + 1].page <= currentPage
        BY <1>2, <3>1, BeforeFrontier, LogTypes DEF PageIds
      <4>3. NextPage(log[i]) # currentPage
        BY <1>4, <2>2, <3>1, <4>1, <4>2, LogTypes DEF PageIds
      <4> QED BY <1>3, <1>4, <2>2, <3>1, <4>1, <4>3 DEF LengthAt
    <3> QED BY <3>2, <3>3
  <2>3. CASE i = n /\ n > 0
    <3>1. i \in 1 .. n /\ log'[i] = log[i] /\ log'[i + 1] = rec /\ i < Len(log')
      BY <1>1, <2>3
    <3>2. \/ currentPage = NextPage(log[n]) /\ currentFrameAddress = NextOff(log[n])
          \/ NextPage(log[n]) < currentPage
      BY <1>1, <2>3 DEF Frontier
    <3>3. CASE currentPage = NextPage(log[n]) /\ currentFrameAddress = NextOff(log[n])
      BY <2>3, <3>1, <3>3 DEF Follows
    <3>4. CASE NextPage(log[n]) < currentPage
      <4>1. LengthAt(NextPage(log[n]), NextOff(log[n])) = 0
        BY <2>3, <3>1 DEF MemInv
      <4>2. NextPage(log[n]) # currentPage
        BY <1>4, <2>3, <3>1, <3>4 DEF PageIds
      <4> QED BY <1>3, <1>4, <2>3, <3>1, <3>4, <4>1, <4>2 DEF LengthAt
    <3> QED BY <3>2, <3>3, <3>4
  <2> QED BY <1>1, <2>1, <2>2, <2>3
<1>7. ASSUME NEW p \in PageIds, p # currentPage,
             \A i \in 1 .. Len(log') : log'[i].page # p, NEW o \in Offsets
      PROVE  mem'[p][o].length = 0
  <2>1. \A i \in 1 .. n : log[i].page # p
    BY <1>1, <1>7
  <2>2. LengthAt(p, o) = 0
    BY <1>7, <2>1 DEF MemInv
  <2> QED BY <1>3, <1>7, <2>2 DEF LengthAt
<1> HIDE DEF n
<1> QED
  BY <1>5, <1>6, <1>7 DEF MemInv, CommittedFramesIntact, LengthAt, Follows

\* Writing at or after the frontier, without a length in the frontier's own
\* slot, touches nothing that is committed and no place where a reader waits.
LEMMA Scribble ==
  ASSUME TypeInv, LogInv, MemInv, currentPage \in PageIds,
         Frontier(currentPage, currentFrameAddress),
         \A p \in PageIds, o \in Offsets :
           (p # currentPage \/ o < currentFrameAddress) => mem'[p][o] = mem[p][o],
         mem'[currentPage][currentFrameAddress].length = 0,
         UNCHANGED <<log, currentPage>>
  PROVE  MemInv'
<1>1. currentFrameAddress \in Offsets /\ currentFrameAddress \in Nat /\ currentPage \in Nat
  BY OffsetsType DEF TypeInv, TypeOK, WriterTypeOK, PageIds
<1>2. ASSUME NEW i \in 1 .. Len(log)
      PROVE  /\ mem'[log[i].page][log[i].off] = mem[log[i].page][log[i].off]
             /\ LengthAt(NextPage(log[i]), NextOff(log[i])) = 0 =>
                  mem'[NextPage(log[i])][NextOff(log[i])].length = 0
  <2>1. /\ \/ log[i].page < currentPage
           \/ log[i].page = currentPage /\ log[i].off < currentFrameAddress
        /\ NextPage(log[i]) <= currentPage
        /\ NextPage(log[i]) = currentPage => NextOff(log[i]) <= currentFrameAddress
    BY <1>1, BeforeFrontier
  <2>2. /\ log[i].page \in PageIds /\ log[i].off \in Offsets
        /\ log[i].page \in Nat /\ log[i].off \in Nat
    BY LogTypes
  <2>3. /\ NextPage(log[i]) \in PageIds /\ NextOff(log[i]) \in Offsets
        /\ NextPage(log[i]) \in Nat /\ NextOff(log[i]) \in Nat
    BY NextIsLater
  <2>4. mem'[log[i].page][log[i].off] = mem[log[i].page][log[i].off]
    BY <1>1, <2>1, <2>2
  <2>5. CASE NextPage(log[i]) = currentPage /\ NextOff(log[i]) = currentFrameAddress
    BY <2>4, <2>5
  <2>6. CASE NextPage(log[i]) # currentPage \/ NextOff(log[i]) < currentFrameAddress
    BY <2>3, <2>4, <2>6 DEF LengthAt
  <2> QED BY <1>1, <2>1, <2>3, <2>5, <2>6
<1>3. CommittedFramesIntact'
  BY <1>2 DEF MemInv, CommittedFramesIntact, FrameAt
<1>4. ASSUME NEW i \in 1 .. Len(log)
      PROVE  \/ i < Len(log) /\ Follows(log[i + 1], log[i])
             \/ /\ mem'[NextPage(log[i])][NextOff(log[i])].length = 0
                /\ i < Len(log) => NextPage(log[i]) < log[i + 1].page
  BY <1>2 DEF MemInv
<1>5. ASSUME NEW p \in PageIds, p # currentPage,
             \A i \in 1 .. Len(log) : log[i].page # p, NEW o \in Offsets
      PROVE  mem'[p][o].length = 0
  BY <1>5 DEF MemInv, LengthAt
<1> QED BY <1>3, <1>4, <1>5 DEF MemInv, LengthAt, Follows

\* A page without committed frames is empty when a writer ends where the resume
\* scan is reliable.
LEMMA EndsClean ==
  ASSUME TypeInv, FileInv, LogInv, MemInv, LastInv, Disciplined, MayEnd,
         NEW p \in PageIds, \A i \in 1 .. Len(log) : log[i].page # p,
         NEW o \in Offsets
  PROVE  LengthAt(p, o) = 0
<1>1. ResumeIsReliable
  BY DEF MayEnd, Disciplined
<1>2. CASE p = currentPage
  <2>1. p \in Nat /\ p # 0
    BY DEF PageIds
  <2>2. IsReady(p)
    BY <1>2, <2>1 DEF FileInv
  <2>3. lastPos[p] = FirstFrame
    BY <2>2 DEF LastInv, LastPositionCommitted
  <2>4. ~HasWrittenFrames(p)
    BY <2>3 DEF HasWrittenFrames, FirstFrame, SizeofPageHeader
  <2> QED BY <1>1, <2>2, <2>4 DEF ResumeIsReliable, LengthAt
<1>3. CASE p # currentPage
  BY <1>3 DEF MemInv
<1> QED BY <1>2, <1>3

\* A caller's frame is never taken for the sentinel.
LEMMA NoSentinelType ==
  ASSUME Disciplined, TypeInv
  PROVE  toUint16(req.msg_type) # PageEnd
<1>1. req.msg_type \in MsgTypes \cup {0}
  BY DEF TypeInv, TypeOK, WriterTypeOK, Requests
<1>2. toUint16(0) # PageEnd
  BY DEF toUint16, PageEnd
<1> QED BY <1>1, <1>2 DEF Disciplined

\* The commit of a caller's frame (closeFrame).
LEMMA LengthStep ==
  ASSUME Disciplined, TypeInv, TypeInv', JournalInv, StoreLength
  PROVE  LogInv' /\ MemInv'
<1> DEFINE len == SizeofFrameHeader + req.size
           rec == NewRecord(len, toUint16(req.msg_type), req.data)
           f == [mem[currentPage][currentFrameAddress] EXCEPT !.length = len]
<1>1. /\ wpc = "length" /\ StoreFrame(f) /\ log' = Append(log, rec)
      /\ UNCHANGED currentPage
  BY DEF StoreLength
<1>2. /\ currentPage \in PageIds /\ currentPage # 0
      /\ currentFrameAddress \in Offsets /\ currentFrameAddress \in Nat
      /\ mem[currentPage][currentFrameAddress] \in FrameType
  BY <1>1, OffsetsType
  DEF TypeInv, TypeOK, PcInv, WriterTypeOK, PagesTypeOK, PageIds
<1>3. /\ req.size \in Nat /\ req.msg_type \in Nat /\ req.data \in Data \cup {NoData}
  BY ReqTypes DEF TypeInv, TypeOK
<1>4. /\ len \in Nat /\ SizeofFrameHeader <= len /\ f \in FrameType
      /\ f.length = len
      /\ f.msg_type = mem[currentPage][currentFrameAddress].msg_type
      /\ f.seq = mem[currentPage][currentFrameAddress].seq
      /\ f.data = mem[currentPage][currentFrameAddress].data
  BY <1>2, <1>3 DEF FrameType, SizeofFrameHeader
<1>5. rec \in Record
  <2>1. log' \in Seq(Record) /\ log \in Seq(Record)
    BY DEF TypeInv, TypeOK, WriterTypeOK
  <2>2. Len(log') \in 1 .. Len(log') /\ log'[Len(log')] = rec
    BY <1>1, <2>1
  <2> QED BY <2>1, <2>2
<1>6. toUint16(req.msg_type) # PageEnd
  BY NoSentinelType
<1>7. /\ rec.page = currentPage /\ rec.off = currentFrameAddress /\ rec.length = len
      /\ rec.msg_type = toUint16(req.msg_type) /\ rec.seq = currentSequence - 1
      /\ rec.data = req.data
  BY DEF NewRecord
<1>8. /\ Stride(req.size) = framePhysicalLength(len) /\ Stride(req.size) \in Nat
      /\ Stride(req.size) >= len /\ Stride(req.size) > 0
  BY <1>3, <1>4, StrideType, PhysicalLength DEF FRAME_ALIGNMENT
<1> HIDE DEF len, f, rec
<1>9. /\ currentFrameAddress + Stride(req.size) <= Border
      /\ currentFrameAddress + Stride(req.size) \in Offsets
  BY <1>1, <1>2, <1>3, AddressMoves DEF TypeInv, PcInv
<1>10. /\ Border = PageSize - 64 /\ PageSize \in Nat
  BY PageSizeAssumption DEF Border, FRAME_ALIGNMENT
<1>11. /\ rec.length <= PageSize
       /\ rec.off + framePhysicalLength(rec.length) <= PageSize
  BY <1>2, <1>4, <1>7, <1>8, <1>9, <1>10
<1>12. /\ NextPage(rec) = currentPage
       /\ NextOff(rec) = currentFrameAddress + Stride(req.size)
  BY <1>6, <1>7, <1>8 DEF NextPage, NextOff
<1>13. Frontier(currentPage, currentFrameAddress)
  BY <1>1, <1>2 DEF JournalInv, PosInv
<1>14. LengthAt(NextPage(rec), NextOff(rec)) = 0
  <2>1. currentFrameAddress + Stride(req.size) <= currentFrameAddress + Stride(req.size)
    BY <1>2, <1>8
  <2> QED BY <1>1, <1>2, <1>9, <1>12, <2>1 DEF JournalInv, ClearInv
<1>15. rec.seq = Len(log)
  BY <1>1, <1>7, LogTypes DEF JournalInv, SeqInv
<1>16. LogInv'
  BY <1>1, <1>2, <1>4, <1>5, <1>7, <1>9, <1>11, <1>12, <1>13, <1>15, CommitLog
  DEF JournalInv
<1>17. /\ f.msg_type = rec.msg_type /\ f.seq = rec.seq
       /\ PayloadOf(f.length, f.data) = rec.data
  BY <1>1, <1>4, <1>7 DEF JournalInv, HeaderInv, len
<1>18. NextOff(rec) # currentFrameAddress
  BY <1>2, <1>8, <1>12
<1>19. MemInv'
  BY <1>1, <1>2, <1>4, <1>5, <1>7, <1>9, <1>12, <1>13, <1>14, <1>17, <1>18, CommitMem
  DEF JournalInv
<1> QED BY <1>16, <1>19
\* All committed frames lie on pages up to the writer's.
LEMMA LogUpTo ==
  ASSUME TypeInv, LogInv, currentPage \in PageIds,
         Frontier(currentPage, currentFrameAddress),
         NEW i \in 1 .. Len(log)
  PROVE  log[i].page <= currentPage
<1>1. currentFrameAddress \in Offsets
  BY DEF TypeInv, TypeOK, WriterTypeOK
<1>2. log[i].page < currentPage \/ log[i].page = currentPage
  BY <1>1, BeforeFrontier
<1>3. log[i].page \in Nat
  BY LogTypes
<1>4. currentPage \in Nat
  BY DEF PageIds
<1> QED BY <1>2, <1>3, <1>4

\* The commit of the sentinel, which sends readers to the head of the next page
\* (rotatePage).
LEMMA SentinelStep ==
  ASSUME TypeInv, TypeInv', JournalInv, SentinelLength
  PROVE  LogInv' /\ MemInv'
<1> DEFINE rec == NewRecord(SizeofFrameHeader, PageEnd, NoData)
           f == [mem[currentPage][currentFrameAddress]
                   EXCEPT !.length = SizeofFrameHeader]
<1>1. /\ wpc = "sentinelLength" /\ StoreFrame(f) /\ log' = Append(log, rec)
      /\ UNCHANGED currentPage
  BY DEF SentinelLength
<1>2. /\ currentPage \in PageIds /\ currentPage # 0 /\ currentPage \in Nat
      /\ currentFrameAddress \in Offsets /\ currentFrameAddress \in Nat
      /\ currentFrameAddress <= Border
      /\ mem[currentPage][currentFrameAddress] \in FrameType
  BY <1>1, OffsetsType
  DEF TypeInv, TypeOK, PcInv, WriterTypeOK, PagesTypeOK, PageIds
<1>3. /\ SizeofFrameHeader \in Nat /\ f \in FrameType
      /\ f.length = SizeofFrameHeader
      /\ f.msg_type = mem[currentPage][currentFrameAddress].msg_type
      /\ f.seq = mem[currentPage][currentFrameAddress].seq
  BY <1>2 DEF FrameType, SizeofFrameHeader
<1>4. rec \in Record
  <2>1. log' \in Seq(Record) /\ log \in Seq(Record)
    BY DEF TypeInv, TypeOK, WriterTypeOK
  <2>2. Len(log') \in 1 .. Len(log') /\ log'[Len(log')] = rec
    BY <1>1, <2>1
  <2> QED BY <2>1, <2>2
<1>5. /\ rec.page = currentPage /\ rec.off = currentFrameAddress
      /\ rec.length = SizeofFrameHeader /\ rec.msg_type = PageEnd
      /\ rec.seq = currentSequence - 1 /\ rec.data = NoData
  BY DEF NewRecord
<1>6. PayloadOf(f.length, f.data) = NoData
  BY <1>3 DEF PayloadOf, SizeofFrameHeader
<1> HIDE DEF f, rec
<1>7. /\ SizeofFrameHeader <= PageSize
      /\ currentFrameAddress + framePhysicalLength(SizeofFrameHeader) <= PageSize
      /\ SizeofFrameHeader <= SizeofFrameHeader
  BY <1>2, PageSizeAssumption
  DEF Border, FRAME_ALIGNMENT, framePhysicalLength, alignUp, SizeofFrameHeader
<1>8. /\ currentPageId = currentPage + 1 /\ currentPageId \in PageIds
  BY <1>1, <1>2 DEF JournalInv, PosInv, TypeInv, PcInv
<1>9. NextPage(rec) = currentPageId /\ NextOff(rec) = FirstFrame
  BY <1>5, <1>8 DEF NextPage, NextOff
<1>10. FirstFrame \in Offsets
  BY OffsetsType
<1>11. Frontier(currentPage, currentFrameAddress)
  BY <1>1, <1>2 DEF JournalInv, PosInv
<1>12. LengthAt(currentPageId, FirstFrame) = 0
  <2>1. \A i \in 1 .. Len(log) : log[i].page # currentPageId
    <3>1. \A i \in 1 .. Len(log) : log[i].page <= currentPage /\ log[i].page \in Nat
      BY <1>2, <1>11, LogUpTo, LogTypes DEF JournalInv
    <3> QED BY <1>2, <1>8, <3>1
  <2>2. currentPageId # currentPage
    BY <1>2, <1>8
  <2> QED BY <1>8, <1>10, <2>1, <2>2 DEF JournalInv, MemInv
<1>13. rec.seq = Len(log)
  BY <1>1, <1>5, LogTypes DEF JournalInv, SeqInv
<1>14. LogInv'
  BY <1>1, <1>2, <1>4, <1>5, <1>7, <1>8, <1>9, <1>10, <1>11, <1>13, CommitLog
  DEF JournalInv
<1>15. f.msg_type = rec.msg_type /\ f.seq = rec.seq
  BY <1>1, <1>3, <1>5 DEF JournalInv, HeaderInv
<1>16. NextPage(rec) # currentPage
  BY <1>2, <1>8, <1>9
<1>17. MemInv'
  BY <1>1, <1>2, <1>3, <1>4, <1>5, <1>6, <1>8, <1>9, <1>10, <1>11, <1>12, <1>15,
     <1>16, CommitMem
  DEF JournalInv
<1> QED BY <1>14, <1>17

-----------------------------------------------------------------------------
(* The steps of a disciplined writer. *)

\* A write call whose arguments go together.
AnyCall ==
  \E op \in Ops, m \in MsgTypes, s \in PayloadSizes \cup {0},
     d \in Data \cup {NoData} :
       /\ Call(op, m, s, d)
       /\ op = "mark" <=> s = 0
       /\ op = "mark" => d = NoData

\* The writer ends where the resume scan is reliable.
Ends == ForgetWriter /\ MayEnd

\* findLastSequenceNumber returns from its loop.
ScanDone ==
  /\ wpc = "scan"
  /\ ~FrameUnderScan
  /\ ResumeAfter(scan.seq)
  /\ UNCHANGED <<pagesVars, currentPage, currentFrameAddress, req, scan,
                 sessions, log>>

DisciplinedStep ==
  \/ Construct \/ FindUnready \/ FindReady \/ FindNone \/ ScanFrame \/ ScanDone
  \/ LoadPage \/ LoadedInitial \/ AnyCall
  \/ OpenFrame \/ FillPayload \/ StoreLength \/ SetLastFramePosition
  \/ SentinelHeader \/ SentinelLength \/ SentinelPos \/ Ends

\* Without faults loads do not fail and no frame is abandoned.
LEMMA DisciplinedSteps ==
  ASSUME Disciplined, WriterStep
  PROVE  DisciplinedStep
<1>1. ~LoadFails /\ ~Abandon /\ ~FindFails
  BY DEF Disciplined, LoadFails, Abandon, FindFails
<1>2. openData => AnyCall
  BY DEF openData, AnyCall, Ops
<1>3. writeBytes => AnyCall
  BY DEF writeBytes, AnyCall, Ops
<1>4. mark => AnyCall
  BY DEF mark, AnyCall, Ops
<1>5. Destroy \/ Crash => Ends
  BY DEF Destroy, Crash, Ends
<1>6. ScanEnd => ScanDone
  BY DEF Disciplined, ScanEnd, ScanDone
<1> QED BY <1>1, <1>2, <1>3, <1>4, <1>5, <1>6 DEF WriterStep, DisciplinedStep

\* A page file that exists goes on existing, and a ready page stays ready.
LEMMA FilesGrow ==
  ASSUME TypeInv,
         \/ DisciplinedStep
         \/ \E r \in Readers : AnyReaderStep(r)
  PROVE  \A p \in PageIds : /\ IsReady(p) => IsReady(p)'
                            /\ file[p] # "absent" => file'[p] # "absent"
<1> USE DEF IsReady
<1>0. file \in [PageIds -> FileStates]
  BY DEF TypeInv, TypeOK, PagesTypeOK
<1>1. CASE UNCHANGED file
  BY <1>1
<1>2. CASE FindUnready
  BY <1>0, <1>2 DEF FindUnready, LoadAsMaster, LoadReadOnly, FileStates
<1>3. CASE LoadPage
  BY <1>0, <1>3 DEF LoadPage, LoadStepAsMaster, FileStates
<1>4. ASSUME NEW r \in Readers, AnyReaderStep(r) PROVE
        UNCHANGED file \/ \E p : LoadReadOnly(p)
  BY <1>4 DEF AnyReaderStep, Join, LoadLength, Dispatch, MoveToNext, LoadNextPage,
              LoadForReading, pagesVars
<1>5. ASSUME NEW p, LoadReadOnly(p) PROVE
        \A q \in PageIds : /\ IsReady(q) => IsReady(q)'
                           /\ file[q] # "absent" => file'[q] # "absent"
  BY <1>0, <1>5 DEF LoadReadOnly, FileStates
<1>6. ASSUME DisciplinedStep PROVE UNCHANGED file \/ FindUnready \/ LoadPage
  BY <1>6 DEF DisciplinedStep, Construct, FindReady, FindNone, ScanFrame, ScanDone,
     LoadedInitial, AnyCall, Call, OpenFrame, FillPayload, StoreLength,
     SetLastFramePosition, SentinelHeader, SentinelLength, SentinelPos, Ends,
     ForgetWriter, pagesVars
<1> QED BY <1>1, <1>2, <1>3, <1>4, <1>5, <1>6

-----------------------------------------------------------------------------
(* The log and the memory. *)

\* When neither the log, the memory nor the writer's page changes, LogInv and
\* MemInv stay.
LEMMA MemStutter ==
  ASSUME LogInv, MemInv, UNCHANGED <<mem, log, currentPage>>
  PROVE  LogInv' /\ MemInv'
<1>1. LogInv'
  BY DEF LogInv, SequencesContiguous
<1>2. CommittedFramesIntact'
  BY DEF MemInv, CommittedFramesIntact, FrameAt
<1>3. (MemInv!2)'
  BY DEF MemInv, LengthAt, Follows
<1>4. (MemInv!3)'
  BY DEF MemInv, LengthAt
<1> QED BY <1>1, <1>2, <1>3, <1>4 DEF MemInv

\* Moving to a page that holds no frame yet keeps MemInv.
LEMMA MemTurn ==
  ASSUME LogInv, MemInv, UNCHANGED <<mem, log>>,
         \A p \in PageIds :
           (p # currentPage' /\ \A i \in 1 .. Len(log) : log[i].page # p)
             => \A o \in Offsets : LengthAt(p, o) = 0
  PROVE  LogInv' /\ MemInv'
<1>1. LogInv'
  BY DEF LogInv, SequencesContiguous
<1>2. CommittedFramesIntact'
  BY DEF MemInv, CommittedFramesIntact, FrameAt
<1>3. (MemInv!2)'
  BY DEF MemInv, LengthAt, Follows
<1>4. (MemInv!3)'
  BY DEF MemInv, LengthAt
<1> QED BY <1>1, <1>2, <1>3, <1>4 DEF MemInv

\* Every step of the writer keeps the log well-formed and in memory.
LEMMA MemWriterStep ==
  ASSUME Disciplined, TypeInv, TypeInv', JournalInv, DisciplinedStep
  PROVE  LogInv' /\ MemInv'
<1>0. LogInv /\ MemInv /\ PosInv /\ FileInv /\ LastInv
  BY DEF JournalInv
<1>t. /\ mem \in [PageIds -> [Offsets -> FrameType]]
      /\ currentFrameAddress \in Offsets /\ currentFrameAddress \in Nat
  BY OffsetsType DEF TypeInv, TypeOK, PagesTypeOK, WriterTypeOK
<1>1. CASE \/ Construct \/ FindUnready \/ FindReady \/ FindNone \/ ScanFrame
           \/ ScanDone \/ LoadPage \/ AnyCall \/ SetLastFramePosition
  <2>1. UNCHANGED <<mem, log, currentPage>>
    BY <1>1
    DEF Construct, FindUnready, FindReady, FindNone, ScanFrame, ScanDone, LoadPage,
        AnyCall, Call, SetLastFramePosition, LoadAsMaster, LoadReadOnly,
        LoadStepAsMaster, pagesVars, writerVars
  <2> QED BY <1>0, <2>1, MemStutter
<1>2. CASE LoadedInitial
  <2>1. UNCHANGED <<mem, log>> /\ currentPage = 0
    BY <1>2 DEF LoadedInitial, pagesVars
  <2>2. \A p \in PageIds : p # currentPage
    BY <2>1 DEF PageIds
  <2> QED BY <1>0, <2>1, <2>2, MemTurn DEF MemInv
<1>3. CASE OpenFrame \/ SentinelHeader
  <2> DEFINE g == IF OpenFrame
                    THEN [length |-> 0, msg_type |-> toUint16(req.msg_type),
                          seq |-> currentSequence,
                          data |-> mem[currentPage][currentFrameAddress].data]
                    ELSE [length |-> 0, msg_type |-> PageEnd,
                          seq |-> currentSequence,
                          data |-> mem[currentPage][currentFrameAddress].data]
  <2>1. StoreFrame(g) /\ UNCHANGED <<log, currentPage>>
    BY <1>3 DEF OpenFrame, SentinelHeader
  <2>2. g.length = 0
    OBVIOUS
  <2>3. /\ wpc \notin {"pos", "sentinelPos"} /\ currentPage \in PageIds
        /\ currentPage # 0
    BY <1>3 DEF OpenFrame, SentinelHeader, TypeInv, PcInv, TypeOK, WriterTypeOK,
                PageIds
  <2>4. Frontier(currentPage, currentFrameAddress)
    BY <1>0, <2>3 DEF PosInv
  <2> HIDE DEF g
  <2>5. /\ mem'[currentPage][currentFrameAddress] = g
        /\ \A p \in PageIds, o \in Offsets :
             (p # currentPage \/ o # currentFrameAddress) => mem'[p][o] = mem[p][o]
    BY <1>t, <2>1, <2>3 DEF StoreFrame
  <2>6. \A p \in PageIds, o \in Offsets :
          (p # currentPage \/ o < currentFrameAddress) => mem'[p][o] = mem[p][o]
    BY <1>t, <2>5, OffsetsType
  <2>7. MemInv'
    BY <1>0, <2>1, <2>2, <2>3, <2>4, <2>5, <2>6, Scribble
  <2> QED BY <1>0, <2>1, <2>7 DEF LogInv, SequencesContiguous
<1>4. CASE FillPayload
  <2>1. /\ wpc = "fill" /\ UNCHANGED <<log, currentPage>>
        /\ currentPage \in PageIds /\ currentPage # 0
    BY <1>4 DEF FillPayload, TypeInv, PcInv, PageIds
  <2>2. Frontier(currentPage, currentFrameAddress)
    BY <1>0, <2>1 DEF PosInv
  <2> DEFINE g == [o \in Offsets |->
         CASE o = currentFrameAddress -> [mem[currentPage][o] EXCEPT !.data = req.data]
           [] o \in Covered(req.size) -> PayloadImage(req.data)
           [] OTHER -> mem[currentPage][o]]
  <2>3. mem' = [mem EXCEPT ![currentPage] = g]
    BY <1>4 DEF FillPayload
  <2>4. \A o \in Offsets : o < currentFrameAddress => g[o] = mem[currentPage][o]
    <3>1. \A o \in Offsets :
            o < currentFrameAddress => o # currentFrameAddress /\ o \notin Covered(req.size)
      BY <1>t, OffsetsType DEF Covered
    <3> QED BY <3>1
  <2>5. g[currentFrameAddress] =
          [mem[currentPage][currentFrameAddress] EXCEPT !.data = req.data]
    <3>1. currentFrameAddress \notin Covered(req.size)
      BY <1>t DEF Covered
    <3> QED BY <1>t, <3>1
  <2> HIDE DEF g
  <2>6. mem'[currentPage] = g /\ \A p \in PageIds : p # currentPage => mem'[p] = mem[p]
    BY <1>t, <2>1, <2>3
  <2>7. \A p \in PageIds, o \in Offsets :
          (p # currentPage \/ o < currentFrameAddress) => mem'[p][o] = mem[p][o]
    BY <2>4, <2>6
  <2>8. mem'[currentPage][currentFrameAddress].length = 0
    <3>1. mem[currentPage][currentFrameAddress] \in FrameType
      BY <1>t, <2>1
    <3>2. LengthAt(currentPage, currentFrameAddress) = 0
      BY <1>t, <2>1 DEF JournalInv, ClearInv
    <3> QED BY <2>5, <2>6, <3>1, <3>2 DEF LengthAt, FrameType
  <2>9. MemInv'
    BY <1>0, <2>1, <2>2, <2>7, <2>8, Scribble
  <2> QED BY <1>0, <2>1, <2>9 DEF LogInv, SequencesContiguous
<1>5. CASE StoreLength
  BY <1>5, LengthStep
<1>6. CASE SentinelLength
  BY <1>6, SentinelStep
<1>7. CASE SentinelPos
  <2>1. /\ UNCHANGED <<mem, log>> /\ currentPage' = currentPageId
        /\ wpc = "sentinelPos"
    BY <1>7 DEF SentinelPos
  <2>2. Len(log) \in 1 .. Len(log) /\ log[Len(log)].page = currentPage
    BY <1>0, <2>1, LogTypes DEF PosInv, TypeInv, TypeOK, WriterTypeOK
  <2> QED BY <1>0, <2>1, <2>2, MemTurn DEF MemInv
<1>8. CASE Ends
  <2>1. UNCHANGED <<mem, log>> /\ MayEnd
    BY <1>8 DEF Ends, ForgetWriter, pagesVars
  <2> QED BY <1>0, <2>1, MemTurn, EndsClean
<1> QED
  BY <1>1, <1>2, <1>3, <1>4, <1>5, <1>6, <1>7, <1>8 DEF DisciplinedStep

\* Readers write nothing.
LEMMA ReadersWriteNothing ==
  ASSUME NEW r \in Readers, AnyReaderStep(r)
  PROVE  UNCHANGED <<mem, lastPos>>
BY DEF AnyReaderStep, Join, LoadLength, Dispatch, MoveToNext, LoadNextPage,
       LoadForReading, LoadReadOnly, pagesVars

-----------------------------------------------------------------------------
(* The page files. *)

\* Page 1 exists as soon as a page that anyone loads next does: pages are
\* created in order.
LEMMA FirstPageExists ==
  ASSUME TypeInv, LogInv, FileInv, PosInv,
         wpc = "load", currentPageId # 1
  PROVE  file[1] # "absent"
<1>1. CASE currentPage = 0
  <2>1. Frontier(currentPageId, FirstFrame)
    BY <1>1 DEF PosInv
  <2>2. log # <<>>
    BY <2>1 DEF Frontier
  <2>3. 1 \in 1 .. Len(log) /\ log[1].page = 1
    BY <2>2, LogTypes DEF LogInv, TypeInv, TypeOK, WriterTypeOK
  <2> QED BY <2>3 DEF FileInv, IsReady
<1>2. CASE currentPage # 0
  <2>1. currentPage \in PageIds /\ file[currentPage] = "ready"
    BY <1>2 DEF FileInv, IsReady
  <2>2. currentPage \in listPageId
    BY <2>1 DEF listPageId
  <2> QED BY <2>2 DEF FileInv
<1> QED BY <1>1, <1>2

\* Creating file p, when page 1 exists or p is page 1.
LEMMA FirstStaysFirst ==
  ASSUME TypeInv, FileInv!1, NEW p \in PageIds, p # 1 => file[1] # "absent",
         \A q \in PageIds : /\ q # p => file'[q] = file[q]
                            /\ file[q] # "absent" => file'[q] # "absent"
  PROVE  (FileInv!1)'
<1>1. 1 \in PageIds
  BY PagesAssumption DEF PageIds
<1>2. CASE file'[1] = "absent"
  <2>1. file[1] = "absent" /\ p = 1
    BY <1>1, <1>2
  <2>2. \A q \in PageIds : file'[q] = "absent"
    BY <1>1, <1>2, <2>1 DEF listPageId
  <2> QED BY <2>2 DEF listPageId
<1>3. CASE file'[1] # "absent"
  BY <1>3
<1> QED BY <1>2, <1>3

\* The writer creates pages in order, has the next page ready before it commits
\* the sentinel, and writes only into ready pages.
LEMMA FileWriterStep ==
  ASSUME Disciplined, TypeInv, TypeInv', JournalInv, DisciplinedStep
  PROVE  FileInv'
<1>0. LogInv /\ PosInv /\ FileInv /\ ScanInv /\ PcInv
  BY DEF JournalInv
<1>1. \A p \in PageIds : /\ IsReady(p) => IsReady(p)'
                         /\ file[p] # "absent" => file'[p] # "absent"
  BY FilesGrow
<1>2. (FileInv!1)'
  <2>0. UNCHANGED file => (FileInv!1)'
    BY <1>0 DEF FileInv, listPageId
  <2>1. CASE FindUnready
    <3>1. scan.page \in PageIds /\ file[1] # "absent"
      BY <1>0, <2>1 DEF FindUnready, ScanInv, TypeInv, TypeOK, WriterTypeOK, PageIds
    <3>2. \A q \in PageIds : q # scan.page => file'[q] = file[q]
      BY <2>1 DEF FindUnready, LoadAsMaster, LoadReadOnly, TypeInv, TypeOK, PagesTypeOK
    <3> QED BY <1>0, <1>1, <3>1, <3>2, FirstStaysFirst DEF FileInv
  <2>2. CASE LoadPage
    <3>1. currentPageId \in PageIds /\ wpc = "load"
      BY <1>0, <2>2 DEF LoadPage, PcInv
    <3>2. \A q \in PageIds : q # currentPageId => file'[q] = file[q]
      BY <2>2 DEF LoadPage, LoadStepAsMaster, TypeInv, TypeOK, PagesTypeOK
    <3> QED BY <1>0, <1>1, <3>1, <3>2, FirstPageExists, FirstStaysFirst DEF FileInv
  <2> QED
    BY <2>0, <2>1, <2>2
    DEF DisciplinedStep, Construct, FindReady, FindNone, ScanFrame, ScanDone,
        LoadedInitial, AnyCall, Call, OpenFrame, FillPayload, StoreLength,
        SetLastFramePosition, SentinelHeader, SentinelLength, SentinelPos, Ends,
        ForgetWriter, pagesVars
<1>3. (FileInv!2)'
  <2>1. CASE UNCHANGED log
    <3>1. ASSUME NEW i \in 1 .. Len(log)
          PROVE  IsReady(log[i].page)' /\ IsReady(NextPage(log[i]))'
      <4>1. IsReady(log[i].page) /\ IsReady(NextPage(log[i]))
        BY <1>0 DEF FileInv
      <4>2. log[i].page \in PageIds /\ NextPage(log[i]) \in PageIds
        BY <4>1 DEF IsReady
      <4>3. log'[i].page = log[i].page /\ NextPage(log[i])' = NextPage(log[i])
        BY <2>1 DEF NextPage
      <4> QED BY <1>1, <4>1, <4>2, <4>3 DEF IsReady
    <3> QED BY <2>1, <3>1
  <2>2. ASSUME NEW rec, log' = Append(log, rec), IsReady(rec.page)',
               IsReady(NextPage(rec))', UNCHANGED file
        PROVE  (FileInv!2)'
    <3>1. log \in Seq(Record)
      BY DEF TypeInv, TypeOK, WriterTypeOK
    <3>2. ASSUME NEW i \in 1 .. Len(log')
          PROVE  IsReady(log[i].page)' /\ IsReady(NextPage(log[i]))'
      <4>1. CASE i \in 1 .. Len(log)
        BY <1>0, <2>2, <3>1, <4>1 DEF FileInv, IsReady, NextPage
      <4>2. CASE i = Len(log) + 1
        BY <2>2, <3>1, <4>2 DEF NextPage, IsReady
      <4> QED BY <2>2, <3>1, <4>1, <4>2
    <3> QED BY <3>2
  <2>3. CASE StoreLength
    <3> DEFINE rec == NewRecord(SizeofFrameHeader + req.size,
                                toUint16(req.msg_type), req.data)
    <3>1. /\ log' = Append(log, rec) /\ UNCHANGED file /\ currentPage \in PageIds
          /\ currentPage # 0
      BY <1>0, <2>3 DEF StoreLength, PcInv, PageIds
    <3>2. rec.page = currentPage /\ rec.msg_type = toUint16(req.msg_type)
      BY DEF NewRecord
    <3>3. toUint16(req.msg_type) # PageEnd
      BY NoSentinelType
    <3> HIDE DEF rec
    <3>4. NextPage(rec) = currentPage
      BY <3>2, <3>3 DEF NextPage
    <3>5. IsReady(currentPage)
      BY <1>0, <3>1 DEF FileInv
    <3> QED BY <2>2, <3>1, <3>2, <3>4, <3>5 DEF IsReady
  <2>4. CASE SentinelLength
    <3> DEFINE rec == NewRecord(SizeofFrameHeader, PageEnd, NoData)
    <3>1. /\ log' = Append(log, rec) /\ UNCHANGED file /\ currentPage \in PageIds
          /\ currentPage # 0 /\ wpc = "sentinelLength"
      BY <1>0, <2>4 DEF SentinelLength, PcInv, PageIds
    <3>2. rec.page = currentPage /\ rec.msg_type = PageEnd
      BY DEF NewRecord
    <3> HIDE DEF rec
    <3>3. NextPage(rec) = currentPageId
      BY <1>0, <3>1, <3>2 DEF NextPage, PosInv
    <3>4. IsReady(currentPage) /\ IsReady(currentPageId)
      BY <1>0, <3>1 DEF FileInv
    <3> QED BY <2>2, <3>1, <3>2, <3>3, <3>4 DEF IsReady
  <2> QED
    BY <2>1, <2>3, <2>4
    DEF DisciplinedStep, Construct, FindUnready, FindReady, FindNone, ScanFrame,
        ScanDone, LoadPage, LoadedInitial, AnyCall, Call, OpenFrame, FillPayload,
        SetLastFramePosition, SentinelHeader, SentinelPos, Ends, ForgetWriter,
        writerVars
<1>4. (FileInv!3)'
  <2>1. CASE UNCHANGED currentPage
    BY <1>0, <1>1, <2>1 DEF FileInv, IsReady
  <2>2. CASE LoadedInitial
    BY <2>2 DEF LoadedInitial, IsReady, pagesVars
  <2>3. CASE SentinelPos
    BY <1>0, <2>3 DEF SentinelPos, FileInv, IsReady
  <2>4. CASE Ends
    BY <2>4 DEF Ends, ForgetWriter
  <2> QED
    BY <2>1, <2>2, <2>3, <2>4
    DEF DisciplinedStep, Construct, FindUnready, FindReady, FindNone, ScanFrame,
        ScanDone, LoadPage, AnyCall, Call, OpenFrame, FillPayload, StoreLength,
        SetLastFramePosition, SentinelHeader, SentinelLength, writerVars
<1>5. (FileInv!4)'
  <2>1. CASE SentinelHeader
    BY <2>1 DEF SentinelHeader, IsReady
  <2>2. CASE SentinelLength
    BY <1>0, <2>2 DEF SentinelLength, FileInv, IsReady
  <2>3. CASE LoadPage
    BY <2>3 DEF LoadPage, writerVars
  <2>4. CASE wpc' \notin {"sentinelLength", "sentinelPos"}
    BY <2>4
  <2> QED
    BY <2>1, <2>2, <2>3, <2>4
    DEF DisciplinedStep, Construct, FindUnready, FindReady, FindNone, ScanFrame,
        ScanDone, ResumeAfter, LoadedInitial, AnyCall, Call, OpenFrame, FillPayload,
        StoreLength, SetLastFramePosition, SentinelPos, Ends, ForgetWriter
<1> QED BY <1>2, <1>3, <1>4, <1>5 DEF FileInv

-----------------------------------------------------------------------------
(* The resume scan. *)

\* Every page with a committed frame has one in its first slot, and the slot
\* after a committed frame holds the next one of the page or nothing: the scan
\* sees exactly the page's committed frames.
LEMMA ScanSees ==
  ASSUME TypeInv, LogInv, MemInv, ScanInv, wpc = "scan", FrameUnderScan
  PROVE  \E k \in 1 .. Len(log) :
           /\ log[k].page = scan.page /\ log[k].off = scan.off
           /\ mem[scan.page][scan.off].length = log[k].length
           /\ mem[scan.page][scan.off].msg_type = log[k].msg_type
           /\ mem[scan.page][scan.off].seq = log[k].seq
<1>1. PICK k \in 1 .. Len(log) : log[k].page = scan.page /\ log[k].off = scan.off
  <2>1. CASE scan.off = FirstFrame
    <3>1. PICK i \in 1 .. Len(log) : log[i].page = scan.page
      BY DEF ScanInv
    <3>2. PICK k \in 1 .. Len(log) : log[k].page = log[i].page /\ log[k].off = FirstFrame
      BY <3>1 DEF LogInv
    <3> QED BY <2>1, <3>1, <3>2
  <2>2. CASE scan.off # FirstFrame
    <3>1. PICK j \in 1 .. Len(log) :
            /\ log[j].page = scan.page /\ log[j].msg_type # PageEnd
            /\ scan.off = NextOff(log[j])
      BY <2>2 DEF ScanInv
    <3>2. NextPage(log[j]) = scan.page
      BY <3>1 DEF NextPage
    <3>3. LengthAt(NextPage(log[j]), NextOff(log[j])) # 0
      BY <3>1, <3>2 DEF FrameUnderScan, LengthAt, SizeofFrameHeader
    <3>4. j < Len(log) /\ Follows(log[j + 1], log[j])
      BY <3>3 DEF MemInv
    <3>5. j + 1 \in 1 .. Len(log)
      BY <3>4, LogTypes
    <3> QED BY <3>1, <3>2, <3>4, <3>5 DEF Follows
  <2> QED BY <2>1, <2>2
<1>2. FrameAt(log[k]) = log[k]
  BY DEF MemInv, CommittedFramesIntact
<1>3. /\ FrameAt(log[k]).length = mem[scan.page][scan.off].length
      /\ FrameAt(log[k]).msg_type = mem[scan.page][scan.off].msg_type
      /\ FrameAt(log[k]).seq = mem[scan.page][scan.off].seq
  BY <1>1 DEF FrameAt
<1> QED BY <1>1, <1>2, <1>3

\* A committed frame satisfies the scan's tests.
LEMMA CommittedIsScanned ==
  ASSUME TypeInv, LogInv, MemInv, NEW k \in 1 .. Len(log),
         log[k].page = scan.page, log[k].off = scan.off
  PROVE  FrameUnderScan
<1>1. FrameAt(log[k]) = log[k]
  BY DEF MemInv, CommittedFramesIntact
<1>2. FrameAt(log[k]).length = mem[scan.page][scan.off].length
  BY DEF FrameAt
<1>3. /\ SizeofFrameHeader <= log[k].length /\ log[k].length <= PageSize
      /\ log[k].off + framePhysicalLength(log[k].length) <= PageSize
  BY DEF LogInv
<1>4. log[k].off \in Offsets
  BY LogTypes
<1> QED BY <1>1, <1>2, <1>3, <1>4 DEF FrameUnderScan

\* No page beyond the one under the scan holds a committed frame, so a frame
\* nothing follows on this page is the last of the log.
LEMMA LastOfPageIsLast ==
  ASSUME TypeInv, LogInv, ScanInv, wpc = "scan", NEW k \in 1 .. Len(log),
         log[k].page = scan.page, log[k].msg_type = PageEnd
  PROVE  k = Len(log)
<1>1. ASSUME k < Len(log) PROVE FALSE
  <2>1. k + 1 \in 1 .. Len(log) /\ k < k + 1
    BY <1>1, LogTypes
  <2>2. log[k].page < log[k + 1].page
    BY <2>1 DEF LogInv
  <2>3. log[k + 1].page <= scan.page
    BY <2>1 DEF ScanInv
  <2>4. log[k].page \in Nat /\ log[k + 1].page \in Nat
    BY <2>1, LogTypes
  <2> QED BY <2>2, <2>3, <2>4
<1> QED BY <1>1, LogTypes

\* Where the scan stops, it holds the last sequence number (ScanDone).
LEMMA ScanEndsAtLast ==
  ASSUME TypeInv, LogInv, MemInv, ScanInv, wpc = "scan", ~FrameUnderScan
  PROVE  Len(log) > 0 /\ scan.seq = Len(log) - 1
<1>1. PICK i \in 1 .. Len(log) : log[i].page = scan.page
  BY DEF ScanInv
<1>2. scan.off # FirstFrame
  <2>1. PICK k \in 1 .. Len(log) : log[k].page = log[i].page /\ log[k].off = FirstFrame
    BY <1>1 DEF LogInv
  <2> QED BY <1>1, <2>1, CommittedIsScanned
<1>3. PICK j \in 1 .. Len(log) :
        /\ log[j].page = scan.page /\ log[j].msg_type # PageEnd
        /\ scan.off = NextOff(log[j]) /\ scan.seq = log[j].seq
  BY <1>2 DEF ScanInv
<1>4. NextPage(log[j]) = scan.page
  BY <1>3 DEF NextPage
<1>5. ASSUME j < Len(log) PROVE FALSE
  <2>1. j + 1 \in 1 .. Len(log)
    BY <1>5, LogTypes
  <2>2. CASE Follows(log[j + 1], log[j])
    BY <1>3, <1>4, <2>1, <2>2, CommittedIsScanned DEF Follows
  <2>3. CASE ~Follows(log[j + 1], log[j])
    <3>1. NextPage(log[j]) < log[j + 1].page
      BY <1>5, <2>3 DEF MemInv
    <3>2. log[j + 1].page <= scan.page
      BY <2>1 DEF ScanInv
    <3>3. log[j].page \in Nat /\ log[j + 1].page \in Nat
      BY <2>1, LogTypes
    <3> QED BY <1>3, <1>4, <3>1, <3>2, <3>3
  <2> QED BY <2>2, <2>3
<1>6. j = Len(log) /\ Len(log) > 0
  BY <1>5, LogTypes
<1> QED BY <1>3, <1>6 DEF LogInv, SequencesContiguous

\* The page after the one under the scan is a place to go on.
LEMMA ResumePlace ==
  ASSUME TypeInv, LogInv, ScanInv, wpc = "scan"
  PROVE  Frontier(scan.page + 1, FirstFrame)
<1> DEFINE n == Len(log)
<1>1. n \in 1 .. Len(log) /\ log # <<>>
  BY LogTypes DEF ScanInv
<1>2. log[n].page <= scan.page /\ log[n].page \in Nat /\ scan.page \in Nat
  BY <1>1, LogTypes DEF ScanInv, TypeInv, TypeOK, WriterTypeOK, PageIds
<1>3. /\ NextPage(log[n]) = log[n].page \/ NextPage(log[n]) = log[n].page + 1
      /\ NextPage(log[n]) = log[n].page + 1 => NextOff(log[n]) = FirstFrame
  BY <1>1, <1>2 DEF NextPage, NextOff
<1> QED BY <1>1, <1>2, <1>3 DEF Frontier

\* The scans of the constructor keep their place relative to the log.
LEMMA ScanWriterStep ==
  ASSUME Disciplined, TypeInv, TypeInv', JournalInv, DisciplinedStep
  PROVE  ScanInv'
<1>0. LogInv /\ PosInv /\ FileInv /\ ScanInv /\ MemInv /\ LastInv /\ PcInv
  BY DEF JournalInv
<1>1. \A p \in PageIds : file[p] # "absent" => file'[p] # "absent"
  BY FilesGrow
<1>t. scan \in [page : {0} \cup PageIds, off : Nat, seq : Nat]
  BY DEF TypeInv, TypeOK, WriterTypeOK
<1>p. 1 \in PageIds /\ PageIds \subseteq Nat
  BY PagesAssumption DEF PageIds
<1>s. ASSUME wpc = "find", scan' = [scan EXCEPT !.page = @ - 1], wpc' = "find",
             UNCHANGED log, scan.page \in PageIds,
             \A i \in 1 .. Len(log) : log[i].page # scan.page
      PROVE  ScanInv'
  <2>1. scan'.page = scan.page - 1 /\ scan'.off = scan.off /\ scan.page \in Nat
    BY <1>s, <1>t, <1>p
  <2>2. \A i \in 1 .. Len(log) : log[i].page <= scan.page - 1
    BY <1>0, <1>s, <2>1, LogTypes DEF ScanInv
  <2>3. scan.off = FirstFrame /\ file[1] # "absent"
    BY <1>0, <1>s, <1>p DEF ScanInv, PageIds
  <2> QED BY <1>1, <1>p, <1>s, <2>1, <2>2, <2>3 DEF ScanInv
<1>2. CASE Construct
  <2>1. /\ wpc' = "find" /\ UNCHANGED <<log, file>>
        /\ \/ listPageId = {} /\ scan' = NoScan
           \/ \E highest \in listPageId :
                /\ \A p \in listPageId : p <= highest
                /\ scan' = [NoScan EXCEPT !.page = highest]
    BY <1>2 DEF Construct, pagesVars
  <2>2. \A i \in 1 .. Len(log) : log[i].page \in listPageId
    BY <1>0 DEF FileInv, IsReady, listPageId
  <2>3. CASE listPageId = {} /\ scan' = NoScan
    <3>1. \A i \in 1 .. Len(log) : FALSE
      BY <2>2, <2>3
    <3> QED BY <2>1, <2>3, <3>1 DEF ScanInv, NoScan
  <2>4. ASSUME NEW highest \in listPageId, \A p \in listPageId : p <= highest,
               scan' = [NoScan EXCEPT !.page = highest]
        PROVE  ScanInv'
    <3>1. scan'.page = highest /\ scan'.off = FirstFrame
      BY <2>4 DEF NoScan
    <3>2. file[1] # "absent"
      BY <1>0, <2>4 DEF FileInv
    <3>3. \A i \in 1 .. Len(log) : log[i].page <= highest
      BY <2>2, <2>4
    <3> QED BY <2>1, <3>1, <3>2, <3>3 DEF ScanInv
  <2> QED BY <2>1, <2>3, <2>4
<1>3. CASE FindUnready
  <2>1. wpc = "find" /\ scan.page > 0 /\ ~IsReady(scan.page) /\ UNCHANGED log
    BY <1>3 DEF FindUnready
  <2>2. scan.page \in PageIds
    BY <1>t, <2>1
  <2>3. \A i \in 1 .. Len(log) : log[i].page # scan.page
    BY <1>0, <2>1 DEF FileInv
  <2>4. CASE WriterPrefault
    BY <1>3, <1>s, <2>1, <2>2, <2>3, <2>4 DEF FindUnready
  <2>5. CASE ~WriterPrefault
    BY <1>3, <2>5 DEF FindUnready, ScanInv
  <2> QED BY <2>4, <2>5
<1>4. CASE FindReady
  <2>1. /\ wpc = "find" /\ IsReady(scan.page) /\ UNCHANGED <<log, file>>
        /\ scan.page \in PageIds /\ currentPage = 0
    BY <1>0, <1>4 DEF FindReady, IsReady, pagesVars, PosInv
  <2>2. CASE HasWrittenFrames(scan.page)
    <3>1. lastPos[scan.page] # FirstFrame
      BY <2>2 DEF HasWrittenFrames, FirstFrame, SizeofPageHeader
    <3>2. \E i \in 1 .. Len(log) : log[i].page = scan.page
      BY <1>0, <2>1, <3>1 DEF LastInv, LastPositionCommitted
    <3>3. wpc' = "scan" /\ UNCHANGED scan
      BY <1>4, <2>2 DEF FindReady
    <3> QED BY <1>0, <2>1, <3>2, <3>3 DEF ScanInv
  <2>3. CASE ~HasWrittenFrames(scan.page)
    <3>1. ASSUME NEW i \in 1 .. Len(log) PROVE log[i].page # scan.page
      <4>1. FrameAt(log[i]) = log[i]
        BY <1>0 DEF MemInv, CommittedFramesIntact
      <4>2. FrameAt(log[i]).length = mem[log[i].page][log[i].off].length
        BY DEF FrameAt
      <4>3. log[i].length # 0 /\ log[i].off \in Offsets
        BY <1>0, LogTypes DEF LogInv, SizeofFrameHeader
      <4> QED BY <1>0, <2>1, <2>3, <4>1, <4>2, <4>3 DEF LastInv, ResumeIsReliable
    <3> QED BY <1>4, <1>s, <2>1, <2>3, <3>1 DEF FindReady
  <2> QED BY <2>2, <2>3
<1>5. CASE ScanFrame
  <2> DEFINE f == mem[scan.page][scan.off]
  <2>1. wpc = "scan" /\ FrameUnderScan /\ UNCHANGED log
    BY <1>5 DEF ScanFrame
  <2>2. CASE f.msg_type = PageEnd
    BY <1>5, <2>2 DEF ScanFrame, ResumeAfter, ScanInv
  <2>3. CASE f.msg_type # PageEnd
    <3>1. PICK k \in 1 .. Len(log) :
            /\ log[k].page = scan.page /\ log[k].off = scan.off
            /\ f.length = log[k].length /\ f.msg_type = log[k].msg_type
            /\ f.seq = log[k].seq
      BY <1>0, <2>1, ScanSees
    <3>2. scan' = [scan EXCEPT !.off = @ + framePhysicalLength(f.length), !.seq = f.seq]
          /\ wpc' = "scan"
      BY <1>5, <2>1, <2>3 DEF ScanFrame
    <3>3. /\ scan'.page = scan.page /\ scan'.seq = log[k].seq
          /\ scan'.off = NextOff(log[k])
      BY <1>t, <2>3, <3>1, <3>2 DEF NextOff
    <3>4. \A i \in 1 .. Len(log) : log[i].page <= scan.page
      BY <1>0, <2>1 DEF ScanInv
    <3>5. log[k].msg_type # PageEnd
      BY <2>3, <3>1
    <3> HIDE DEF f
    <3>6. \E j \in 1 .. Len(log) :
             /\ log[j].page = scan'.page /\ log[j].msg_type # PageEnd
             /\ scan'.off = NextOff(log[j]) /\ scan'.seq = log[j].seq
      BY <3>1, <3>3, <3>5
    <3>7. \E i \in 1 .. Len(log) : log[i].page = scan'.page
      BY <3>6
    <3> QED BY <2>1, <3>2, <3>3, <3>4, <3>6, <3>7 DEF ScanInv
  <2> QED BY <2>2, <2>3
<1>6. CASE wpc' \notin {"find", "scan"}
  BY <1>6 DEF ScanInv
<1> QED
  BY <1>2, <1>3, <1>4, <1>5, <1>6
  DEF DisciplinedStep, FindNone, ScanDone, ResumeAfter, LoadPage, LoadedInitial,
      AnyCall, Call, OpenFrame, FillPayload, StoreLength, SetLastFramePosition,
      SentinelHeader, SentinelLength, SentinelPos, Ends, ForgetWriter, writerVars

-----------------------------------------------------------------------------
(* The writer's position, its counter and its slots. *)

\* A step that leaves the log and the writer's place alone keeps the frontier.
LEMMA FrontierKept ==
  ASSUME UNCHANGED log, NEW p, NEW o, Frontier(p, o)
  PROVE  \A q, u : (q = p /\ u = o) => Frontier(q, u)'
BY DEF Frontier, NextPage, NextOff

\* The writer stays at the frontier of the log.
LEMMA PosWriterStep ==
  ASSUME Disciplined, TypeInv, TypeInv', JournalInv, DisciplinedStep
  PROVE  PosInv'
<1>0. LogInv /\ PosInv /\ ScanInv /\ PcInv
  BY DEF JournalInv
<1>p. PageIds \subseteq Nat /\ 0 \notin PageIds
  BY DEF PageIds
<1>1. CASE Construct \/ FindReady \/ FindUnready
  BY <1>0, <1>1 DEF Construct, FindReady, FindUnready, PosInv, Frontier
<1>2. CASE FindNone
  <2>1. /\ wpc = "find" /\ scan.page = 0 /\ currentPageId' = 1 /\ wpc' = "load"
        /\ UNCHANGED <<log, currentPage, currentSequence>>
    BY <1>2 DEF FindNone
  <2>2. log = <<>>
    <3>1. ASSUME NEW i \in 1 .. Len(log) PROVE FALSE
      BY <1>0, <1>p, <2>1, LogTypes DEF ScanInv
    <3> QED BY <3>1, LogTypes DEF TypeInv, TypeOK, WriterTypeOK
  <2> QED BY <1>0, <2>1, <2>2 DEF PosInv, Frontier
<1>3. ASSUME wpc = "scan", UNCHANGED <<log, currentPage>>, wpc' = "load",
             currentPageId' = scan.page + 1
      PROVE  PosInv'
  <2>1. Frontier(scan.page + 1, FirstFrame)
    BY <1>0, <1>3, ResumePlace
  <2>2. Frontier(currentPageId, FirstFrame)'
    BY <1>3, <2>1 DEF Frontier, NextPage, NextOff
  <2>3. currentPage' = 0
    BY <1>0, <1>3 DEF PosInv
  <2> QED BY <1>3, <2>2, <2>3 DEF PosInv
<1>4. CASE ScanFrame
  <2>1. CASE mem[scan.page][scan.off].msg_type = PageEnd
    BY <1>3, <1>4, <2>1 DEF ScanFrame, ResumeAfter
  <2>2. CASE mem[scan.page][scan.off].msg_type # PageEnd
    BY <1>0, <1>4, <2>2 DEF ScanFrame, PosInv
  <2> QED BY <2>1, <2>2
<1>5. CASE ScanDone
  BY <1>3, <1>5 DEF ScanDone, ResumeAfter
<1>6. CASE LoadPage
  BY <1>0, <1>6 DEF LoadPage, writerVars, PosInv, Frontier, NextPage, NextOff
<1>7. CASE LoadedInitial
  BY <1>0, <1>7 DEF LoadedInitial, PosInv, Frontier, NextPage, NextOff
<1>8. CASE AnyCall
  <2>1. /\ wpc = "idle" /\ UNCHANGED <<log, currentPage, currentFrameAddress>>
        /\ \/ wpc' = "load" /\ currentPageId' = currentPageId + 1
           \/ wpc' = "open" /\ currentPageId' = currentPageId
    BY <1>8 DEF AnyCall, Call
  <2> QED BY <1>0, <1>p, <2>1 DEF PosInv, PcInv, Frontier, NextPage, NextOff
<1>9. CASE OpenFrame \/ FillPayload
  BY <1>0, <1>9 DEF OpenFrame, FillPayload, PosInv, Frontier, NextPage, NextOff
<1>10. CASE StoreLength
  <2> DEFINE rec == NewRecord(SizeofFrameHeader + req.size,
                              toUint16(req.msg_type), req.data)
  <2>1. /\ wpc = "length" /\ wpc' = "pos" /\ log' = Append(log, rec)
        /\ UNCHANGED <<currentPage, currentPageId, currentFrameAddress, req>>
    BY <1>10 DEF StoreLength
  <2>2. /\ rec.page = currentPage /\ rec.off = currentFrameAddress
        /\ rec.msg_type # PageEnd /\ rec.length = SizeofFrameHeader + req.size
    BY NoSentinelType DEF NewRecord
  <2> HIDE DEF rec
  <2>3. log' # <<>> /\ log'[Len(log')] = rec
    BY <2>1 DEF TypeInv, TypeOK, WriterTypeOK
  <2> QED BY <1>0, <2>1, <2>2, <2>3 DEF PosInv
<1>11. CASE SetLastFramePosition
  <2>1. /\ wpc = "pos" /\ wpc' = "idle"
        /\ currentFrameAddress' = currentFrameAddress + Stride(req.size)
        /\ UNCHANGED <<log, currentPage, currentPageId>>
    BY <1>11 DEF SetLastFramePosition
  <2>2. Frontier(currentPage, currentFrameAddress + Stride(req.size))
    BY <1>0, <2>1 DEF PosInv, Frontier, NextPage, NextOff, Stride
  <2>3. Frontier(currentPage, currentFrameAddress)'
    BY <2>1, <2>2, FrontierKept
  <2> QED BY <1>0, <2>1, <2>3 DEF PosInv
<1>12. CASE SentinelHeader
  BY <1>0, <1>12 DEF SentinelHeader, PosInv, Frontier, NextPage, NextOff
<1>13. CASE SentinelLength
  <2> DEFINE rec == NewRecord(SizeofFrameHeader, PageEnd, NoData)
  <2>1. /\ wpc = "sentinelLength" /\ wpc' = "sentinelPos" /\ log' = Append(log, rec)
        /\ UNCHANGED <<currentPage, currentPageId, currentFrameAddress>>
    BY <1>13 DEF SentinelLength
  <2>2. /\ rec.page = currentPage /\ rec.off = currentFrameAddress
        /\ rec.msg_type = PageEnd
    BY DEF NewRecord
  <2> HIDE DEF rec
  <2>3. log' # <<>> /\ log'[Len(log')] = rec
    BY <2>1 DEF TypeInv, TypeOK, WriterTypeOK
  <2> QED BY <1>0, <2>1, <2>2, <2>3 DEF PosInv
<1>14. CASE SentinelPos
  <2>1. /\ wpc = "sentinelPos" /\ wpc' = "open" /\ currentPage' = currentPageId
        /\ currentFrameAddress' = FirstFrame /\ UNCHANGED <<log, currentPageId>>
    BY <1>14 DEF SentinelPos
  <2>2. currentPage # 0
    BY <1>0, <1>p, <2>1 DEF PcInv
  <2>3. Frontier(currentPageId, FirstFrame)
    BY <1>0, <2>1, <2>2 DEF PosInv, Frontier, NextPage, NextOff
  <2>4. Frontier(currentPage, currentFrameAddress)'
    BY <2>1, <2>3, FrontierKept
  <2> QED BY <2>1, <2>4 DEF PosInv
<1>15. CASE Ends
  BY <1>15 DEF Ends, ForgetWriter, PosInv
<1> QED
  BY <1>1, <1>2, <1>4, <1>5, <1>6, <1>7, <1>8, <1>9, <1>10, <1>11, <1>12, <1>13,
     <1>14, <1>15
  DEF DisciplinedStep

\* The writer's counter follows the log, also when it is restored from a page.
LEMMA SeqWriterStep ==
  ASSUME Disciplined, TypeInv, TypeInv', JournalInv, DisciplinedStep
  PROVE  SeqInv'
<1>0. LogInv /\ PosInv /\ ScanInv /\ MemInv /\ SeqInv
  BY DEF JournalInv
<1>n. Len(log) \in Nat /\ log \in Seq(Record)
  BY LogTypes DEF TypeInv, TypeOK, WriterTypeOK
<1>1. CASE FindNone
  <2>1. /\ wpc = "find" /\ scan.page = 0 /\ wpc' = "load"
        /\ UNCHANGED <<log, currentSequence>>
    BY <1>1 DEF FindNone
  <2>2. ASSUME NEW i \in 1 .. Len(log) PROVE FALSE
    BY <1>0, <2>1, LogTypes DEF ScanInv, PageIds
  <2>3. Len(log) = 0
    BY <1>n, <2>2
  <2> QED BY <1>0, <2>1, <2>3 DEF SeqInv, PosInv
<1>2. CASE ScanFrame
  <2> DEFINE f == mem[scan.page][scan.off]
  <2>1. wpc = "scan" /\ FrameUnderScan /\ UNCHANGED log
    BY <1>2 DEF ScanFrame
  <2>2. CASE f.msg_type = PageEnd
    <3>1. PICK k \in 1 .. Len(log) :
            /\ log[k].page = scan.page /\ log[k].off = scan.off
            /\ f.msg_type = log[k].msg_type /\ f.seq = log[k].seq
      BY <1>0, <2>1, ScanSees
    <3>2. k = Len(log)
      BY <1>0, <2>1, <2>2, <3>1, LastOfPageIsLast
    <3>3. f.seq = Len(log) - 1
      BY <1>0, <3>1, <3>2 DEF LogInv, SequencesContiguous
    <3>4. wpc' = "load" /\ currentSequence' = f.seq + 1
      BY <1>2, <2>2 DEF ScanFrame, ResumeAfter
    <3> QED BY <1>n, <2>1, <3>3, <3>4 DEF SeqInv
  <2>3. CASE f.msg_type # PageEnd
    BY <1>2, <2>3 DEF ScanFrame, SeqInv
  <2> QED BY <2>2, <2>3
<1>3. CASE ScanDone
  <2>1. scan.seq = Len(log) - 1
    BY <1>0, <1>3, ScanEndsAtLast DEF ScanDone
  <2> QED BY <1>3, <1>n, <2>1 DEF ScanDone, ResumeAfter, SeqInv
<1>4. CASE StoreLength \/ SentinelLength
  BY <1>0, <1>4, <1>n DEF StoreLength, SentinelLength, SeqInv
<1>5. CASE OpenFrame \/ SentinelHeader
  BY <1>0, <1>5, <1>n DEF OpenFrame, SentinelHeader, SeqInv
<1>6. CASE \/ Construct \/ FindReady \/ FindUnready \/ LoadPage \/ LoadedInitial
           \/ AnyCall \/ FillPayload \/ SetLastFramePosition \/ SentinelPos
  BY <1>0, <1>6
  DEF Construct, FindReady, FindUnready, LoadPage, LoadedInitial, AnyCall, Call,
      FillPayload, SetLastFramePosition, SentinelPos, writerVars, SeqInv
<1>7. CASE Ends
  BY <1>7 DEF Ends, ForgetWriter, SeqInv
<1> QED
  BY <1>1, <1>2, <1>3, <1>4, <1>5, <1>6, <1>7 DEF DisciplinedStep

\* The slots ahead of the writer stay empty until it moves on.
LEMMA ClearWriterStep ==
  ASSUME Disciplined, TypeInv, TypeInv', JournalInv, DisciplinedStep
  PROVE  ClearInv'
<1>0. LogInv /\ PosInv /\ MemInv /\ ClearInv /\ PcInv
  BY DEF JournalInv
<1>t. /\ mem \in [PageIds -> [Offsets -> FrameType]]
      /\ currentFrameAddress \in Offsets /\ currentFrameAddress \in Nat
      /\ Stride(req.size) \in Nat /\ Stride(req.size) > 0
      /\ Offsets \subseteq Nat /\ FirstFrame \in Offsets
      /\ PageIds \subseteq Nat /\ 0 \notin PageIds
  <2>1. WriterTypeOK /\ PagesTypeOK
    BY DEF TypeInv, TypeOK
  <2>2. req.size \in Nat
    BY <2>1, ReqTypes
  <2>3. Stride(req.size) \in Nat /\ Stride(req.size) > 0
    BY <2>2, StrideType
  <2> QED BY <2>1, <2>3, OffsetsType DEF PagesTypeOK, WriterTypeOK, PageIds
<1>f. ASSUME UNCHANGED mem, NEW p \in PageIds, currentPage' = p, p # currentPage,
             \A i \in 1 .. Len(log) : log[i].page # p
      PROVE  ClearInv'
  <2>1. \A o \in Offsets : LengthAt(p, o) = 0
    BY <1>0, <1>f DEF MemInv
  <2> QED BY <1>f, <2>1 DEF ClearInv, LengthAt
<1>s. ASSUME NEW g, g.length = 0, StoreFrame(g), wpc \in {"open", "load"},
             currentPage \in PageIds,
             UNCHANGED <<currentPage, currentFrameAddress, req>>,
             wpc' \in {"fill", "length", "sentinelLength"}
      PROVE  ClearInv'
  <2>1. \A o \in Offsets : mem'[currentPage][o] =
          IF o = currentFrameAddress THEN g ELSE mem[currentPage][o]
    BY <1>s, <1>t DEF StoreFrame
  <2>2. ASSUME NEW o \in Offsets, currentFrameAddress <= o
        PROVE  mem'[currentPage][o].length = 0
    <3>1. LengthAt(currentPage, o) = 0
      BY <1>0, <1>s, <1>t, <2>2 DEF ClearInv
    <3> QED BY <1>s, <2>1, <3>1 DEF LengthAt
  <2>3. ASSUME NEW o \in Offsets, currentFrameAddress + Stride(req.size) <= o
        PROVE  currentFrameAddress <= o
    BY <1>t, <2>3
  <2> QED BY <1>s, <1>t, <2>2, <2>3 DEF ClearInv, LengthAt
<1>1. CASE \/ Construct \/ FindUnready \/ FindReady \/ FindNone \/ ScanFrame
           \/ ScanDone \/ Ends
  <2>1. currentPage' = 0
    BY <1>0, <1>1
    DEF Construct, FindUnready, FindReady, FindNone, ScanFrame, ScanDone, Ends,
        ForgetWriter, PosInv
  <2> QED BY <2>1 DEF ClearInv
<1>2. CASE LoadPage
  BY <1>0, <1>2 DEF LoadPage, LoadStepAsMaster, writerVars, ClearInv, LengthAt
<1>3. CASE LoadedInitial
  <2>1. /\ currentPageId \in PageIds /\ currentPage' = currentPageId
        /\ currentPage = 0 /\ UNCHANGED mem /\ Frontier(currentPageId, FirstFrame)
    BY <1>0, <1>3 DEF LoadedInitial, pagesVars, PosInv, PcInv
  <2>2. ASSUME NEW i \in 1 .. Len(log) PROVE log[i].page # currentPageId
    <3>1. \/ log[i].page < currentPageId
          \/ log[i].off < FirstFrame
      BY <1>0, <1>t, <2>1, BeforeFrontier
    <3>2. FirstFrame <= log[i].off /\ log[i].off \in Nat /\ FirstFrame \in Nat
      BY <1>t, LogTypes, OffsetsType
    <3> QED BY <1>t, <2>1, <3>1, <3>2
  <2> QED BY <1>f, <1>t, <2>1, <2>2
<1>4. CASE AnyCall
  <2>1. /\ wpc = "idle" /\ wpc' \in {"load", "open"}
        /\ UNCHANGED <<mem, currentPage, currentFrameAddress>>
    BY <1>4 DEF AnyCall, Call, pagesVars
  <2> QED BY <1>0, <2>1 DEF ClearInv, LengthAt
<1>5. CASE OpenFrame
  <2> DEFINE g == [length |-> 0, msg_type |-> toUint16(req.msg_type),
                   seq |-> currentSequence,
                   data |-> mem[currentPage][currentFrameAddress].data]
  <2>1. /\ StoreFrame(g) /\ wpc = "open" /\ wpc' \in {"fill", "length"}
        /\ UNCHANGED <<currentPage, currentFrameAddress, req>>
    BY <1>5 DEF OpenFrame
  <2>2. g.length = 0
    OBVIOUS
  <2> HIDE DEF g
  <2> QED BY <1>0, <1>s, <2>1, <2>2 DEF PcInv
<1>6. CASE FillPayload
  <2> DEFINE old == mem[currentPage]
             g == [o \in Offsets |->
         CASE o = currentFrameAddress -> [old[o] EXCEPT !.data = req.data]
           [] o \in Covered(req.size) -> PayloadImage(req.data)
           [] OTHER -> old[o]]
  <2>1. /\ wpc = "fill" /\ wpc' = "length" /\ currentPage \in PageIds
        /\ UNCHANGED <<currentPage, currentFrameAddress, req>>
        /\ mem' = [mem EXCEPT ![currentPage] = g]
    BY <1>0, <1>6 DEF FillPayload, PcInv
  <2>2. \A o \in Offsets :
          currentFrameAddress + Stride(req.size) <= o => g[o] = old[o]
    <3>1. \A o \in Offsets : currentFrameAddress + Stride(req.size) <= o =>
            o # currentFrameAddress /\ o \notin Covered(req.size)
      BY <1>t DEF Covered
    <3> QED BY <3>1
  <2>3. g[currentFrameAddress].length = old[currentFrameAddress].length
    <3>1. currentFrameAddress \notin Covered(req.size)
      BY <1>t DEF Covered
    <3>2. old[currentFrameAddress] \in FrameType
      BY <1>t, <2>1
    <3>3. g[currentFrameAddress] = [old[currentFrameAddress] EXCEPT !.data = req.data]
      BY <1>t, <3>1
    <3> QED BY <3>2, <3>3 DEF FrameType
  <2>4. \A o \in Offsets :
          (o = currentFrameAddress \/ currentFrameAddress + Stride(req.size) <= o)
            => old[o].length = 0
    BY <1>0, <1>t, <2>1 DEF ClearInv, LengthAt
  <2> HIDE DEF g
  <2>5. mem'[currentPage] = g
    BY <1>t, <2>1
  <2> QED BY <2>1, <2>2, <2>3, <2>4, <2>5 DEF ClearInv, LengthAt
<1>7. CASE StoreLength
  <2> DEFINE g == [mem[currentPage][currentFrameAddress]
                     EXCEPT !.length = SizeofFrameHeader + req.size]
  <2>1. /\ StoreFrame(g) /\ wpc = "length" /\ wpc' = "pos" /\ currentPage \in PageIds
        /\ UNCHANGED <<currentPage, currentFrameAddress, req>>
    BY <1>0, <1>7 DEF StoreLength, PcInv
  <2> HIDE DEF g
  <2>2. \A o \in Offsets :
          o # currentFrameAddress => mem'[currentPage][o] = mem[currentPage][o]
    BY <1>t, <2>1 DEF StoreFrame
  <2>3. \A o \in Offsets : currentFrameAddress + Stride(req.size) <= o =>
          o # currentFrameAddress /\ LengthAt(currentPage, o) = 0
    BY <1>0, <1>t, <2>1 DEF ClearInv
  <2> QED BY <2>1, <2>2, <2>3 DEF ClearInv, LengthAt
<1>8. CASE SetLastFramePosition
  <2>1. /\ wpc = "pos" /\ wpc' = "idle" /\ UNCHANGED <<mem, currentPage>>
        /\ currentFrameAddress' = currentFrameAddress + Stride(req.size)
    BY <1>8 DEF SetLastFramePosition
  <2> QED BY <1>0, <2>1 DEF ClearInv, LengthAt
<1>9. CASE SentinelHeader
  <2> DEFINE g == [length |-> 0, msg_type |-> PageEnd, seq |-> currentSequence,
                   data |-> mem[currentPage][currentFrameAddress].data]
  <2>1. /\ StoreFrame(g) /\ wpc = "load" /\ wpc' = "sentinelLength"
        /\ currentPage # 0
        /\ UNCHANGED <<currentPage, currentFrameAddress, req>>
    BY <1>9 DEF SentinelHeader
  <2>2. g.length = 0
    OBVIOUS
  <2>3. currentPage \in PageIds
    BY <2>1 DEF TypeInv, TypeOK, WriterTypeOK
  <2> HIDE DEF g
  <2> QED BY <1>s, <2>1, <2>2, <2>3
<1>10. CASE SentinelLength
  BY <1>10 DEF SentinelLength, ClearInv
<1>11. CASE SentinelPos
  <2>1. /\ wpc = "sentinelPos" /\ UNCHANGED mem /\ currentPage' = currentPageId
        /\ currentPageId \in PageIds
    BY <1>0, <1>11 DEF SentinelPos, PcInv
  <2>2. currentPageId = currentPage + 1 /\ currentPage \in Nat
        /\ log[Len(log)].page = currentPage /\ log # <<>>
    BY <1>0, <1>t, <2>1 DEF PosInv, PcInv
  <2>3. ASSUME NEW i \in 1 .. Len(log) PROVE log[i].page <= currentPage
    <3>1. Len(log) \in 1 .. Len(log) /\ log[i].page \in Nat
      BY LogTypes
    <3>2. CASE i = Len(log)
      BY <2>2, <3>1, <3>2
    <3>3. CASE i < Len(log)
      <4>1. log[i].page < log[Len(log)].page \/ log[i].page = log[Len(log)].page
        BY <1>0, <3>1, <3>3 DEF LogInv
      <4> QED BY <2>2, <3>1, <4>1
    <3> QED BY <3>1, <3>2, <3>3
  <2>4. \A i \in 1 .. Len(log) : log[i].page # currentPageId
    BY <2>2, <2>3, LogTypes
  <2> QED BY <1>f, <2>1, <2>2, <2>4
<1> QED
  BY <1>1, <1>2, <1>3, <1>4, <1>5, <1>6, <1>7, <1>8, <1>9, <1>10, <1>11
  DEF DisciplinedStep

\* The header of the frame being written carries what will be committed.
LEMMA HeaderWriterStep ==
  ASSUME Disciplined, TypeInv, TypeInv', JournalInv, DisciplinedStep
  PROVE  HeaderInv'
<1>0. HeaderInv /\ PcInv
  BY DEF JournalInv
<1>t. /\ mem \in [PageIds -> [Offsets -> FrameType]]
      /\ currentFrameAddress \in Offsets
      /\ currentSequence \in Nat /\ req.size \in Nat
  <2>1. WriterTypeOK /\ PagesTypeOK
    BY DEF TypeInv, TypeOK
  <2> QED BY <2>1, ReqTypes DEF PagesTypeOK, WriterTypeOK
<1>1. CASE \/ Construct \/ FindUnready \/ FindReady \/ FindNone \/ ScanFrame
           \/ ScanDone \/ LoadPage \/ LoadedInitial
  <2>1. /\ UNCHANGED req
        /\ wpc' \in {"find", "scan", "load", "idle", "fault"}
    BY <1>1
    DEF Construct, FindUnready, FindReady, FindNone, ScanFrame, ScanDone, LoadPage,
        LoadedInitial, ResumeAfter, writerVars
  <2> QED BY <1>0, <2>1 DEF HeaderInv
<1>2. CASE SetLastFramePosition \/ Ends
  BY <1>2 DEF SetLastFramePosition, Ends, ForgetWriter, NoReq, HeaderInv
<1>3. CASE AnyCall
  <2>1. PICK op \in Ops, m \in MsgTypes, s \in PayloadSizes \cup {0},
             d \in Data \cup {NoData} :
          /\ Call(op, m, s, d)
          /\ op = "mark" <=> s = 0
          /\ op = "mark" => d = NoData
    BY <1>3 DEF AnyCall
  <2>2. /\ wpc' \in {"load", "open"}
        /\ req' = [op |-> op, msg_type |-> m, size |-> s, data |-> d]
    BY <2>1 DEF Call
  <2>3. req'.op = op /\ req'.size = s /\ req'.data = d
    BY <2>2
  <2> QED BY <2>1, <2>2, <2>3 DEF HeaderInv
<1>4. CASE OpenFrame
  <2> DEFINE g == [length |-> 0, msg_type |-> toUint16(req.msg_type),
                   seq |-> currentSequence,
                   data |-> mem[currentPage][currentFrameAddress].data]
  <2>1. /\ StoreFrame(g) /\ wpc' = IF req.op = "mark" THEN "length" ELSE "fill"
        /\ currentPage \in PageIds /\ currentSequence' = currentSequence + 1
        /\ UNCHANGED <<currentPage, currentFrameAddress, req>>
    BY <1>0, <1>4 DEF OpenFrame, PcInv
  <2>2. g.msg_type = toUint16(req.msg_type) /\ g.seq = currentSequence
    OBVIOUS
  <2> HIDE DEF g
  <2>3. mem'[currentPage][currentFrameAddress] = g
    BY <1>t, <2>1 DEF StoreFrame
  <2>4. ASSUME req.op = "mark"
        PROVE  PayloadOf(SizeofFrameHeader + req.size, g.data) = req.data
    <3>1. req.size = 0 /\ req.data = NoData
      BY <1>0, <2>4 DEF HeaderInv
    <3> QED BY <3>1 DEF PayloadOf, SizeofFrameHeader
  <2>5. (currentSequence + 1) - 1 = currentSequence
    BY <1>t
  <2> QED BY <1>0, <2>1, <2>2, <2>3, <2>4, <2>5 DEF HeaderInv
<1>5. CASE FillPayload
  <2> DEFINE old == mem[currentPage][currentFrameAddress]
             g == [o \in Offsets |->
         CASE o = currentFrameAddress -> [mem[currentPage][o] EXCEPT !.data = req.data]
           [] o \in Covered(req.size) -> PayloadImage(req.data)
           [] OTHER -> mem[currentPage][o]]
  <2>1. /\ wpc = "fill" /\ wpc' = "length" /\ currentPage \in PageIds
        /\ UNCHANGED <<currentPage, currentFrameAddress, currentSequence, req>>
        /\ mem' = [mem EXCEPT ![currentPage] = g]
    BY <1>0, <1>5 DEF FillPayload, PcInv
  <2>2. g[currentFrameAddress] = [old EXCEPT !.data = req.data]
    <3>1. currentFrameAddress \notin Covered(req.size)
      BY <1>t, OffsetsType DEF Covered
    <3> QED BY <1>t, <3>1
  <2> HIDE DEF g
  <2>3. mem'[currentPage][currentFrameAddress] = [old EXCEPT !.data = req.data]
    BY <1>t, <2>1, <2>2
  <2>4. old \in FrameType
    BY <1>t, <2>1
  <2>5. LET h == mem'[currentPage][currentFrameAddress]
        IN  h.msg_type = old.msg_type /\ h.seq = old.seq /\ h.data = req.data
    BY <2>3, <2>4 DEF FrameType
  <2>6. PayloadOf(SizeofFrameHeader + req.size, req.data) = req.data
    <3>1. CASE req.size = 0
      BY <1>0, <3>1 DEF PayloadOf, HeaderInv
    <3>2. CASE req.size > 0
      BY <1>t, <3>2 DEF PayloadOf, SizeofFrameHeader
    <3> QED BY <1>t, <3>1, <3>2
  <2>7. old.msg_type = toUint16(req.msg_type) /\ old.seq = currentSequence - 1
    BY <1>0, <2>1 DEF HeaderInv
  <2> HIDE DEF old
  <2> QED BY <1>0, <2>1, <2>5, <2>6, <2>7 DEF HeaderInv
<1>6. CASE SentinelHeader
  <2> DEFINE g == [length |-> 0, msg_type |-> PageEnd, seq |-> currentSequence,
                   data |-> mem[currentPage][currentFrameAddress].data]
  <2>1. /\ StoreFrame(g) /\ wpc' = "sentinelLength" /\ currentPage # 0
        /\ currentSequence' = currentSequence + 1
        /\ UNCHANGED <<currentPage, currentFrameAddress, req>>
    BY <1>6 DEF SentinelHeader
  <2>2. g.msg_type = PageEnd /\ g.seq = currentSequence
    OBVIOUS
  <2>3. currentPage \in PageIds
    BY <2>1 DEF TypeInv, TypeOK, WriterTypeOK
  <2> HIDE DEF g
  <2>4. mem'[currentPage][currentFrameAddress] = g
    BY <1>t, <2>1, <2>3 DEF StoreFrame
  <2>5. (currentSequence + 1) - 1 = currentSequence
    BY <1>t
  <2> QED BY <1>0, <2>1, <2>2, <2>4, <2>5 DEF HeaderInv
<1>7. CASE StoreLength \/ SentinelLength \/ SentinelPos
  BY <1>0, <1>7 DEF StoreLength, SentinelLength, SentinelPos, HeaderInv
<1> QED
  BY <1>1, <1>2, <1>3, <1>4, <1>5, <1>6, <1>7 DEF DisciplinedStep

\* The writer only ever appends to the log.
LEMMA LogGrows ==
  ASSUME TypeInv, DisciplinedStep
  PROVE  /\ Len(log) <= Len(log') /\ Len(log') \in Nat
         /\ \A i \in 1 .. Len(log) : i \in 1 .. Len(log') /\ log'[i] = log[i]
<1>0. log \in Seq(Record) /\ Len(log) \in Nat
  BY LogTypes DEF TypeInv, TypeOK, WriterTypeOK
<1>1. UNCHANGED log \/ \E rec : log' = Append(log, rec)
  BY DEF DisciplinedStep, Construct, FindUnready, FindReady, FindNone, ScanFrame,
     ScanDone, LoadPage, LoadedInitial, AnyCall, Call, OpenFrame, FillPayload,
     StoreLength, SetLastFramePosition, SentinelHeader, SentinelLength, SentinelPos,
     Ends, ForgetWriter, writerVars
<1> QED BY <1>0, <1>1

\* When a page becomes ready it is empty, and its position says so.
LEMMA FreshPage ==
  ASSUME TypeInv, FileInv, MemInv, NEW p \in PageIds, p # currentPage, ~IsReady(p)
  PROVE  \A o \in Offsets : mem[p][o].length = 0
BY DEF FileInv, MemInv, LengthAt

\* last_frame_position stays behind the commits, and no page ever looks empty
\* to a future resume while it holds a frame.
LEMMA LastWriterStep ==
  ASSUME Disciplined, TypeInv, TypeInv', JournalInv, DisciplinedStep
  PROVE  LastInv'
<1>0. LogInv /\ PosInv /\ FileInv /\ MemInv /\ LastInv /\ PcInv
  BY DEF JournalInv
<1>t. /\ file \in [PageIds -> FileStates]
      /\ lastPos \in [PageIds -> {0} \cup Offsets]
      /\ SizeofPageHeader = FirstFrame
      /\ PageIds \subseteq Nat /\ 0 \notin PageIds
  BY DEF TypeInv, TypeOK, PagesTypeOK, PageIds, FirstFrame
<1>g. \A i \in 1 .. Len(log) : i \in 1 .. Len(log') /\ log'[i] = log[i]
  BY LogGrows
<1>k. ASSUME \A p \in PageIds : IsReady(p)' =>
               \/ IsReady(p) /\ lastPos'[p] = lastPos[p]
               \/ lastPos'[p] = FirstFrame
               \/ \E i \in 1 .. Len(log) : log[i].page = p /\ log[i].off = lastPos'[p]
      PROVE  LastPositionCommitted'
  <2>1. ASSUME NEW p \in PageIds, IsReady(p)'
        PROVE  \/ lastPos'[p] = FirstFrame
               \/ \E i \in 1 .. Len(log) : log[i].page = p /\ log[i].off = lastPos'[p]
    BY <1>0, <1>k, <2>1 DEF LastInv, LastPositionCommitted
  <2>2. ASSUME NEW p \in PageIds, NEW i \in 1 .. Len(log), log[i].page = p,
               log[i].off = lastPos'[p]
        PROVE  \E j \in 1 .. Len(log') : log'[j].page = p /\ log'[j].off = lastPos'[p]
    BY <1>g, <2>2
  <2> QED BY <2>1, <2>2 DEF LastPositionCommitted
<1>l. ASSUME NEW q \in PageIds, UNCHANGED <<mem, currentPage>>, q # currentPage,
             ~IsReady(q),
             \A p \in PageIds : p # q => file'[p] = file[p] /\ lastPos'[p] = lastPos[p],
             IsReady(q)' => lastPos'[q] = FirstFrame
      PROVE  LastInv'
  <2>1. LastPositionCommitted'
    <3>1. \A p \in PageIds : IsReady(p)' =>
               \/ IsReady(p) /\ lastPos'[p] = lastPos[p]
               \/ lastPos'[p] = FirstFrame
      BY <1>l DEF IsReady
    <3> QED BY <1>k, <3>1
  <2>2. ASSUME currentPage' = 0 PROVE ResumeIsReliable'
    <3>1. \A o \in Offsets : mem'[q][o].length = 0
      BY <1>0, <1>l, FreshPage
    <3>2. ResumeIsReliable
      BY <1>0, <1>l, <2>2 DEF LastInv
    <3>3. ASSUME NEW p \in PageIds, IsReady(p)', ~HasWrittenFrames(p)', p # q
          PROVE  \A o \in Offsets : mem'[p][o].length = 0
      BY <1>l, <3>2, <3>3 DEF ResumeIsReliable, IsReady, HasWrittenFrames
    <3> QED BY <3>1, <3>3 DEF ResumeIsReliable
  <2> QED BY <2>1, <2>2 DEF LastInv
<1>u. ASSUME UNCHANGED <<file, lastPos>> PROVE LastPositionCommitted'
  <2>1. \A p \in PageIds : IsReady(p)' => IsReady(p) /\ lastPos'[p] = lastPos[p]
    BY <1>u DEF IsReady
  <2> QED BY <1>k, <2>1
<1>1. CASE Construct \/ FindReady \/ FindNone \/ ScanFrame \/ ScanDone \/ AnyCall
  <2>1. UNCHANGED <<file, lastPos, mem, currentPage>>
    BY <1>1 DEF Construct, FindReady, FindNone, ScanFrame, ScanDone, AnyCall, Call,
                pagesVars
  <2>2. currentPage' = 0 => ResumeIsReliable'
    BY <1>0, <2>1 DEF LastInv, ResumeIsReliable, IsReady, HasWrittenFrames
  <2> QED BY <1>u, <2>1, <2>2 DEF LastInv
<1>2. CASE FindUnready
  <2>1. /\ scan.page \in PageIds /\ ~IsReady(scan.page) /\ currentPage = 0
        /\ UNCHANGED <<mem, currentPage>>
    BY <1>0, <1>2
    DEF FindUnready, LoadAsMaster, LoadReadOnly, PosInv, TypeInv, TypeOK, WriterTypeOK
  <2>2. CASE WriterPrefault
    <3>1. LoadAsMaster(scan.page)
      BY <1>2, <2>2 DEF FindUnready
    <3> QED BY <1>l, <1>t, <2>1, <3>1 DEF LoadAsMaster, IsReady
  <2>3. CASE ~WriterPrefault
    <3>1. LoadReadOnly(scan.page)
      BY <1>2, <2>3 DEF FindUnready
    <3>2. \A p \in PageIds :
            p # scan.page => file'[p] = file[p] /\ lastPos'[p] = lastPos[p]
      BY <1>t, <2>1, <3>1 DEF LoadReadOnly
    <3>3. \A q \in PageIds : q = scan.page => ~IsReady(q)'
      BY <1>t, <2>1, <3>1 DEF LoadReadOnly, IsReady
    <3> QED BY <1>l, <1>t, <2>1, <3>2, <3>3
  <2> QED BY <2>2, <2>3
<1>3. CASE LoadPage
  <2>1. /\ currentPageId \in PageIds /\ ~IsReady(currentPageId)
        /\ LoadStepAsMaster(currentPageId) /\ UNCHANGED currentPage /\ wpc = "load"
    BY <1>0, <1>3 DEF LoadPage, writerVars, PcInv
  <2>2. currentPageId # currentPage
    BY <1>0, <1>t, <2>1 DEF FileInv
  <2>3. /\ UNCHANGED mem
        /\ \A p \in PageIds :
             p # currentPageId => file'[p] = file[p] /\ lastPos'[p] = lastPos[p]
        /\ file'[currentPageId] = "ready" => lastPos'[currentPageId] = FirstFrame
    BY <1>t, <2>1 DEF LoadStepAsMaster, IsReady, FileStates
  <2>4. \A q \in PageIds :
          q = currentPageId => (IsReady(q)' => lastPos'[q] = FirstFrame)
    BY <2>3 DEF IsReady
  <2> QED BY <1>l, <2>1, <2>2, <2>3, <2>4
<1>4. CASE \/ LoadedInitial \/ OpenFrame \/ FillPayload \/ StoreLength
           \/ SentinelHeader \/ SentinelLength
  <2>1. UNCHANGED <<file, lastPos>> /\ currentPage' # 0
    BY <1>0, <1>4, <1>t
    DEF LoadedInitial, OpenFrame, FillPayload, StoreLength, SentinelHeader,
        SentinelLength, PcInv, pagesVars
  <2> QED BY <1>u, <2>1 DEF LastInv
<1>5. CASE SetLastFramePosition \/ SentinelPos
  <2>1. /\ wpc \in {"pos", "sentinelPos"} /\ UNCHANGED file /\ currentPage' # 0
        /\ currentPage \in PageIds
        /\ lastPos' = [lastPos EXCEPT ![currentPage] = currentFrameAddress]
    BY <1>0, <1>5, <1>t DEF SetLastFramePosition, SentinelPos, PcInv
  <2>2. /\ Len(log) \in 1 .. Len(log) /\ log[Len(log)].page = currentPage
        /\ log[Len(log)].off = currentFrameAddress
    BY <1>0, <2>1, LogTypes DEF PosInv, TypeInv, TypeOK, WriterTypeOK
  <2>3. \A p \in PageIds : lastPos'[p] =
          IF p = currentPage THEN currentFrameAddress ELSE lastPos[p]
    BY <1>t, <2>1
  <2>4. \A p \in PageIds : IsReady(p)' =>
               \/ IsReady(p) /\ lastPos'[p] = lastPos[p]
               \/ \E i \in 1 .. Len(log) : log[i].page = p /\ log[i].off = lastPos'[p]
    BY <2>1, <2>2, <2>3 DEF IsReady
  <2> QED BY <1>k, <2>1, <2>4 DEF LastInv
<1>6. CASE Ends
  <2>1. UNCHANGED <<file, lastPos, mem>> /\ ResumeIsReliable
    BY <1>6 DEF Ends, ForgetWriter, pagesVars, MayEnd, Disciplined
  <2>2. ResumeIsReliable'
    BY <2>1 DEF ResumeIsReliable, IsReady, HasWrittenFrames
  <2> QED BY <1>u, <2>1, <2>2 DEF LastInv
<1> QED
  BY <1>1, <1>2, <1>3, <1>4, <1>5, <1>6 DEF DisciplinedStep

-----------------------------------------------------------------------------
(* One reader at a time. *)

\* ReadInv for one reader.
ReaderInv(r) ==
  LET k == Len(delivered[r])
  IN  /\ k <= Len(log)
      /\ \A i \in 1 .. k : delivered[r][i] = log[i]
      /\ rpc[r] = "out" => k = 0
      /\ rpc[r] \in {"poll", "view"} => AtNext(r)
      /\ rpc[r] = "view" =>
           /\ k < Len(log)
           /\ log[k + 1].page = rpage[r] /\ log[k + 1].off = raddr[r]
           /\ log[k + 1].length = view[r].length
      /\ rpc[r] = "advance" =>
           /\ k > 0
           /\ log[k].page = rpage[r] /\ log[k].off = raddr[r]
           /\ log[k].length = view[r].length
           /\ log[k].msg_type = view[r].msg_type

\* The readers' invariant is about one reader at a time.
LEMMA ReadInvIsLocal == ReadInv <=> \A r \in Readers : ReaderInv(r)
BY DEF ReadInv, ReaderInv, DeliveredIsPrefixOfLog

\* What a reader has been given is a sequence.
LEMMA ReaderTypes ==
  ASSUME TypeInv, NEW r \in Readers
  PROVE  /\ delivered[r] \in Seq(Record) /\ Len(delivered[r]) \in Nat
         /\ rpc \in [Readers -> {"out", "poll", "view", "advance", "fault"}]
         /\ rpage \in [Readers -> {0} \cup PageIds]
         /\ raddr \in [Readers -> Nat]
         /\ view \in [Readers -> [length : Nat, msg_type : Nat]]
         /\ delivered \in [Readers -> Seq(Record)]
<1>1. ReaderTypeOK
  BY DEF TypeInv, TypeOK
<1>2. delivered[r] \in Seq(Record)
  BY <1>1 DEF ReaderTypeOK
<1> QED BY <1>1, <1>2 DEF ReaderTypeOK

\* A reader that does not move keeps its place while the log grows.
LEMMA ReaderWaits ==
  ASSUME TypeInv, NEW r \in Readers, ReaderInv(r),
         rpc'[r] = rpc[r], rpage'[r] = rpage[r], raddr'[r] = raddr[r],
         view'[r] = view[r], delivered'[r] = delivered[r],
         Len(log) <= Len(log'), Len(log') \in Nat,
         \A i \in 1 .. Len(log) : i \in 1 .. Len(log') /\ log'[i] = log[i]
  PROVE  ReaderInv(r)'
<1> DEFINE k == Len(delivered[r])
<1>1. k \in Nat /\ Len(log) \in Nat /\ k <= Len(log)
  BY ReaderTypes, LogTypes DEF ReaderInv
<1>2. \A i \in 1 .. k : delivered'[r][i] = log'[i]
  BY <1>1 DEF ReaderInv
<1>3. k > 0 => log'[k] = log[k]
  BY <1>1
<1>4. k < Len(log) => log'[k + 1] = log[k + 1] /\ k < Len(log')
  BY <1>1
<1>5. AtNext(r) => AtNext(r)'
  BY <1>1, <1>3 DEF AtNext, NextPage, NextOff
<1>6. k <= Len(log')
  BY <1>1
<1> QED BY <1>1, <1>2, <1>3, <1>4, <1>5, <1>6 DEF ReaderInv

\* Steps of the writer leave the readers where they are.
LEMMA ReadWriterStep ==
  ASSUME TypeInv, ReadInv, DisciplinedStep, UNCHANGED readerVars
  PROVE  ReadInv'
<1>1. ASSUME NEW r \in Readers PROVE ReaderInv(r)'
  <2>1. ReaderInv(r)
    BY ReadInvIsLocal
  <2>2. /\ rpc'[r] = rpc[r] /\ rpage'[r] = rpage[r] /\ raddr'[r] = raddr[r]
        /\ view'[r] = view[r] /\ delivered'[r] = delivered[r]
    BY DEF readerVars
  <2> QED BY <2>1, <2>2, ReaderWaits, LogGrows
<1>2. (ReadInv <=> \A r \in Readers : ReaderInv(r))'
  BY ReadInvIsLocal, PTL
<1> QED BY <1>1, <1>2

-----------------------------------------------------------------------------
(* The steps of a reader. *)

\* A length other than 0 under a polling reader is that of the next committed
\* frame (tryCurrentFrame).
LEMMA PolledFrame ==
  ASSUME TypeInv, LogInv, MemInv, PosInv, ClearInv, PcInv,
         NEW r \in Readers, ReaderInv(r),
         rpc[r] = "poll", mem[rpage[r]][raddr[r]].length # 0
  PROVE  LET k == Len(delivered[r])
         IN  /\ k < Len(log)
             /\ log[k + 1].page = rpage[r] /\ log[k + 1].off = raddr[r]
             /\ log[k + 1].length = mem[rpage[r]][raddr[r]].length
<1> DEFINE k == Len(delivered[r])
<1>1. k \in Nat /\ Len(log) \in Nat /\ k <= Len(log) /\ log \in Seq(Record)
  BY ReaderTypes, LogTypes DEF ReaderInv, TypeInv, TypeOK, WriterTypeOK
<1>2. AtNext(r)
  BY DEF ReaderInv
<1>3. ASSUME NEW i \in 1 .. Len(log)
      PROVE  log[i].length = mem[log[i].page][log[i].off].length
  <2>1. FrameAt(log[i]) = log[i]
    BY DEF MemInv, CommittedFramesIntact
  <2>2. FrameAt(log[i]).length = mem[log[i].page][log[i].off].length
    BY DEF FrameAt
  <2> QED BY <2>1, <2>2
<1>4. CASE k > 0
  <2>1. k \in 1 .. Len(log)
    BY <1>1, <1>4
  <2>2. rpage[r] = NextPage(log[k]) /\ raddr[r] = NextOff(log[k])
    BY <1>1, <1>2, <1>4 DEF AtNext
  <2>3. LengthAt(NextPage(log[k]), NextOff(log[k])) # 0
    BY <2>2 DEF LengthAt
  <2>4. k < Len(log) /\ Follows(log[k + 1], log[k])
    BY <2>1, <2>3 DEF MemInv
  <2>5. k + 1 \in 1 .. Len(log)
    BY <1>1, <2>4
  <2> QED BY <1>3, <2>2, <2>4, <2>5 DEF Follows
<1>5. CASE k = 0
  <2>1. rpage[r] = 1 /\ raddr[r] = FirstFrame
    BY <1>2, <1>5 DEF AtNext
  <2>2. CASE log # <<>>
    <3>1. 1 \in 1 .. Len(log) /\ log[1].page = 1 /\ log[1].off = FirstFrame
      BY <1>1, <2>2 DEF LogInv
    <3> QED BY <1>3, <1>5, <2>1, <3>1
  <2>3. CASE log = <<>>
    <3>1. 1 \in PageIds /\ FirstFrame \in Offsets /\ 1 # 0
      BY PagesAssumption, OffsetsType DEF PageIds
    <3>2. \A i \in 1 .. Len(log) : FALSE
      BY <2>3
    <3>3. currentPage = 1
      BY <2>1, <3>1, <3>2 DEF MemInv, LengthAt
    <3>4. wpc \in {"load", "sentinelLength", "idle", "open", "fill", "length"}
      BY <2>3, <3>3 DEF PosInv, TypeInv, TypeOK, WriterTypeOK, WriterPcs
    <3>5. currentFrameAddress = FirstFrame
      BY <2>3, <3>3, <3>4 DEF PosInv, Frontier
    <3>6. LengthAt(1, FirstFrame) = 0
      BY <3>1, <3>3, <3>4, <3>5, OffsetsType DEF ClearInv
    <3> QED BY <2>1, <3>6 DEF LengthAt
  <2> QED BY <2>2, <2>3
<1> QED BY <1>1, <1>4, <1>5

\* The page a reader is about to load: page 1, or the one that follows a
\* committed sentinel, which is ready.
LEMMA PageToLoad ==
  ASSUME TypeInv, LogInv, FileInv, NEW r \in Readers, ReaderInv(r)
  PROVE  /\ \A p \in listPageId : (\A q \in listPageId : p <= q) => p = 1
         /\ (rpc[r] = "advance" /\ view[r].msg_type = PageEnd) =>
              /\ IsReady(rpage[r] + 1)
              /\ file[1] # "absent"
<1>1. ASSUME NEW p \in listPageId, \A q \in listPageId : p <= q PROVE p = 1
  <2>1. 1 \in listPageId
    BY PagesAssumption, <1>1 DEF FileInv, listPageId, PageIds
  <2>2. p \in PageIds /\ p <= 1
    BY <1>1, <2>1 DEF listPageId
  <2> QED BY <2>2 DEF PageIds
<1>2. ASSUME rpc[r] = "advance", view[r].msg_type = PageEnd
      PROVE  IsReady(rpage[r] + 1) /\ file[1] # "absent"
  <2> DEFINE k == Len(delivered[r])
  <2>1. k \in 1 .. Len(log) /\ log[k].page = rpage[r] /\ log[k].msg_type = PageEnd
    BY <1>2, ReaderTypes, LogTypes DEF ReaderInv
  <2>2. IsReady(NextPage(log[k]))
    BY <2>1 DEF FileInv
  <2>3. NextPage(log[k]) = rpage[r] + 1
    BY <2>1 DEF NextPage
  <2>4. NextPage(log[k]) \in listPageId
    BY <2>2 DEF IsReady, listPageId
  <2> QED BY <2>2, <2>3, <2>4 DEF FileInv
<1> QED BY <1>1, <1>2

\* What a reader reads from a committed frame is the record as it was committed
\* (the dispatcher's reads after tryCurrentFrame).
ViewedRecord(r) ==
  LET f == mem[rpage[r]][raddr[r]]
  IN  [page |-> rpage[r], off |-> raddr[r], length |-> view[r].length,
       msg_type |-> f.msg_type, seq |-> f.seq,
       data |-> PayloadOf(view[r].length, f.data)]

\* What a reader views is the record of the log that is delivered to it next.
LEMMA ViewedFrame ==
  ASSUME TypeInv, MemInv, NEW r \in Readers, ReaderInv(r), rpc[r] = "view"
  PROVE  LET k == Len(delivered[r])
         IN  /\ k < Len(log) /\ k + 1 \in 1 .. Len(log)
             /\ log[k + 1].page = rpage[r] /\ log[k + 1].off = raddr[r]
             /\ log[k + 1].length = view[r].length
             /\ log[k + 1].msg_type = mem[rpage[r]][raddr[r]].msg_type
             /\ ViewedRecord(r) = log[k + 1]
<1> DEFINE k == Len(delivered[r])
           f == mem[rpage[r]][raddr[r]]
<1>1. /\ k < Len(log) /\ k + 1 \in 1 .. Len(log)
      /\ log[k + 1].page = rpage[r] /\ log[k + 1].off = raddr[r]
      /\ log[k + 1].length = view[r].length
  BY ReaderTypes, LogTypes DEF ReaderInv
<1>2. FrameAt(log[k + 1]) = log[k + 1]
  BY <1>1 DEF MemInv, CommittedFramesIntact
<1>3. FrameAt(log[k + 1]).length = f.length /\ FrameAt(log[k + 1]).msg_type = f.msg_type
  BY <1>1 DEF FrameAt
<1>4. f.length = view[r].length /\ f.msg_type = log[k + 1].msg_type
  BY <1>1, <1>2, <1>3
<1>5. FrameAt(log[k + 1]) = ViewedRecord(r)
  BY <1>1, <1>4 DEF FrameAt, ViewedRecord
<1> QED BY <1>1, <1>2, <1>4, <1>5

\* A reader's own step keeps its place in the log.
LEMMA OwnStep ==
  ASSUME TypeInv, JournalInv, NEW r \in Readers, ReaderInv(r),
         AnyReaderStep(r), UNCHANGED writerVars
  PROVE  ReaderInv(r)'
<1>0. LogInv /\ MemInv /\ PosInv /\ ClearInv /\ PcInv /\ FileInv
  BY DEF JournalInv
<1> DEFINE k == Len(delivered[r])
<1>t. /\ delivered[r] \in Seq(Record) /\ k \in Nat
      /\ rpc \in [Readers -> {"out", "poll", "view", "advance", "fault"}]
      /\ rpage \in [Readers -> {0} \cup PageIds]
      /\ raddr \in [Readers -> Nat]
      /\ view \in [Readers -> [length : Nat, msg_type : Nat]]
      /\ delivered \in [Readers -> Seq(Record)]
  BY ReaderTypes
<1>n. Len(log) \in Nat /\ k <= Len(log) /\ UNCHANGED log
  BY LogTypes DEF ReaderInv, writerVars
<1>1. CASE Join(r)
  <2>1. rpc[r] = "out" /\ UNCHANGED delivered /\ k = 0
    BY <1>1 DEF Join, ReaderInv
  <2>2. LoadForReading(r, 1)
    BY <1>0, <1>1, PageToLoad DEF Join
  <2>3. CASE IsReady(1)
    <3>1. rpc'[r] = "poll" /\ rpage'[r] = 1 /\ raddr'[r] = FirstFrame
      BY <1>t, <2>2, <2>3 DEF LoadForReading
    <3>2. AtNext(r)'
      BY <2>1, <3>1 DEF AtNext
    <3> QED BY <1>n, <2>1, <3>1, <3>2 DEF ReaderInv
  <2>4. CASE ~IsReady(1)
    <3>1. rpc'[r] = "fault"
      BY <1>t, <2>2, <2>4 DEF LoadForReading
    <3> QED BY <1>n, <2>1, <3>1 DEF ReaderInv
  <2> QED BY <2>3, <2>4
<1>2. CASE LoadLength(r)
  <2> DEFINE len == mem[rpage[r]][raddr[r]].length
  <2>1. /\ rpc[r] = "poll" /\ len > 0 /\ view' = [view EXCEPT ![r].length = len]
        /\ rpc' = [rpc EXCEPT ![r] = "view"] /\ UNCHANGED <<rpage, raddr, delivered>>
    BY <1>2 DEF LoadLength
  <2>2. /\ k < Len(log)
        /\ log[k + 1].page = rpage[r] /\ log[k + 1].off = raddr[r]
        /\ log[k + 1].length = len
    BY <1>0, <2>1, PolledFrame
  <2> HIDE DEF len
  <2>3. view'[r].length = len /\ rpc'[r] = "view"
    BY <1>t, <2>1
  <2>4. AtNext(r)'
    BY <1>n, <2>1 DEF ReaderInv, AtNext, NextPage, NextOff
  <2> QED BY <1>n, <2>1, <2>2, <2>3, <2>4 DEF ReaderInv
<1>3. CASE Dispatch(r)
  <2> DEFINE f == mem[rpage[r]][raddr[r]]
             len == view[r].length
             rec == ViewedRecord(r)
  <2>1. rpc[r] = "view" /\ UNCHANGED <<rpage, raddr>>
    BY <1>3 DEF Dispatch
  <2>2. /\ k < Len(log) /\ k + 1 \in 1 .. Len(log)
        /\ log[k + 1].page = rpage[r] /\ log[k + 1].off = raddr[r]
        /\ log[k + 1].length = len /\ log[k + 1].msg_type = f.msg_type
        /\ rec = log[k + 1]
    BY <1>0, <2>1, ViewedFrame
  <2>3. CASE hasData(len, f.msg_type)
    <3>1. /\ view' = [view EXCEPT ![r].msg_type = f.msg_type]
          /\ delivered' = [delivered EXCEPT ![r] = Append(@, rec)]
          /\ rpc' = [rpc EXCEPT ![r] = "advance"]
      BY <1>3, <2>3 DEF Dispatch, ViewedRecord
    <3>2. log[k + 1] \in Record
      BY <2>2, LogTypes
    <3> HIDE DEF rec, f
    <3>3. delivered'[r] = Append(delivered[r], log[k + 1])
      BY <1>t, <2>2, <3>1
    <3>4. view'[r].length = len /\ view'[r].msg_type = f.msg_type /\ rpc'[r] = "advance"
      BY <1>t, <3>1
    <3>5. Len(delivered'[r]) = k + 1
      BY <1>t, <3>2, <3>3
    <3>6. ASSUME NEW i \in 1 .. k + 1 PROVE delivered'[r][i] = log[i]
      <4>1. CASE i \in 1 .. k
        BY <1>t, <3>2, <3>3, <4>1 DEF ReaderInv
      <4>2. CASE i = k + 1
        BY <1>t, <3>2, <3>3, <4>2
      <4> QED BY <1>t, <4>1, <4>2
    <3> HIDE DEF len
    <3> QED BY <1>n, <1>t, <2>1, <2>2, <3>4, <3>5, <3>6 DEF ReaderInv
  <2>4. CASE ~hasData(len, f.msg_type)
    <3>1. rpc' = [rpc EXCEPT ![r] = "poll"] /\ UNCHANGED <<view, delivered>>
      BY <1>3, <2>4 DEF Dispatch
    <3>2. AtNext(r)'
      BY <1>n, <2>1, <3>1 DEF ReaderInv, AtNext, NextPage, NextOff
    <3>3. rpc'[r] = "poll"
      BY <1>t, <3>1
    <3> QED BY <1>n, <3>1, <3>2, <3>3 DEF ReaderInv
  <2> QED BY <2>3, <2>4
<1>4. CASE MoveToNext(r)
  <2>1. /\ rpc[r] = "advance" /\ view[r].msg_type # PageEnd
        /\ raddr'[r] = raddr[r] + framePhysicalLength(view[r].length)
        /\ rpc'[r] = "poll" /\ UNCHANGED <<rpage, view, delivered>>
    BY <1>4, <1>t DEF MoveToNext
  <2>2. /\ k > 0 /\ log[k].page = rpage[r] /\ log[k].off = raddr[r]
        /\ log[k].length = view[r].length /\ log[k].msg_type # PageEnd
    BY <2>1 DEF ReaderInv
  <2>3. AtNext(r)'
    BY <1>n, <2>1, <2>2 DEF AtNext, NextPage, NextOff
  <2> QED BY <1>n, <2>1, <2>3 DEF ReaderInv
<1>5. CASE LoadNextPage(r)
  <2>1. /\ rpc[r] = "advance" /\ view[r].msg_type = PageEnd
        /\ LoadForReading(r, rpage[r] + 1) /\ UNCHANGED <<view, delivered>>
    BY <1>5 DEF LoadNextPage
  <2>2. IsReady(rpage[r] + 1)
    BY <1>0, <2>1, PageToLoad
  <2>3. rpc'[r] = "poll" /\ rpage'[r] = rpage[r] + 1 /\ raddr'[r] = FirstFrame
    BY <1>t, <2>1, <2>2 DEF LoadForReading
  <2>4. k > 0 /\ log[k].page = rpage[r] /\ log[k].msg_type = PageEnd
    BY <2>1 DEF ReaderInv
  <2>5. AtNext(r)'
    BY <1>n, <2>1, <2>3, <2>4 DEF AtNext, NextPage, NextOff
  <2> QED BY <1>n, <2>1, <2>3, <2>5 DEF ReaderInv
<1> QED BY <1>1, <1>2, <1>3, <1>4, <1>5 DEF AnyReaderStep

\* A step of one reader does not move another, nor change the log.
LEMMA ReadReaderStep ==
  ASSUME TypeInv, JournalInv, NEW r \in Readers, AnyReaderStep(r),
         UNCHANGED writerVars
  PROVE  ReadInv'
<1>1. ASSUME NEW s \in Readers PROVE ReaderInv(s)'
  <2>0. ReaderInv(s)
    BY ReadInvIsLocal DEF JournalInv
  <2>1. CASE s = r
    BY <2>0, <2>1, OwnStep
  <2>2. CASE s # r
    <3>1. /\ rpc'[s] = rpc[s] /\ rpage'[s] = rpage[s] /\ raddr'[s] = raddr[s]
          /\ view'[s] = view[s] /\ delivered'[s] = delivered[s]
      BY <2>2, ReaderTypes
      DEF AnyReaderStep, Join, LoadLength, Dispatch, MoveToNext, LoadNextPage,
          LoadForReading
    <3>2. /\ Len(log) <= Len(log') /\ Len(log') \in Nat
          /\ \A i \in 1 .. Len(log) : i \in 1 .. Len(log') /\ log'[i] = log[i]
      BY LogTypes DEF writerVars
    <3> QED BY <2>0, <3>1, <3>2, ReaderWaits
  <2> QED BY <2>1, <2>2
<1>2. (ReadInv <=> \A s \in Readers : ReaderInv(s))'
  BY DEF ReadInv, ReaderInv, DeliveredIsPrefixOfLog, AtNext
<1> QED BY <1>1, <1>2

\* A reader creates at most page 1, and makes no page ready.
LEMMA ReaderFiles ==
  ASSUME TypeInv, JournalInv, NEW r \in Readers, AnyReaderStep(r)
  PROVE  /\ FileInv!1 => (FileInv!1)'
         /\ \A p \in PageIds : IsReady(p)' <=> IsReady(p)
<1>0. FileInv /\ LogInv /\ ReaderInv(r)
  BY ReadInvIsLocal DEF JournalInv
<1>t. file \in [PageIds -> FileStates]
  BY DEF TypeInv, TypeOK, PagesTypeOK
<1>1. \A p \in PageIds : file[p] # "absent" => file'[p] # "absent"
  BY FilesGrow
<1>2. CASE UNCHANGED file
  BY <1>2 DEF listPageId, IsReady
<1>3. ASSUME NEW p \in PageIds, LoadReadOnly(p), p # 1 => file[1] # "absent"
      PROVE  /\ FileInv!1 => (FileInv!1)'
             /\ \A q \in PageIds : IsReady(q)' <=> IsReady(q)
  <2>1. /\ \A q \in PageIds : q # p => file'[q] = file[q]
        /\ file'[p] = IF file[p] = "absent" THEN "empty" ELSE file[p]
    BY <1>3, <1>t DEF LoadReadOnly
  <2>2. (FileInv!1)'
    BY <1>0, <1>1, <1>3, <2>1, FirstStaysFirst DEF FileInv
  <2> QED BY <2>1, <2>2 DEF IsReady
<1>4. CASE Join(r)
  <2>1. LoadReadOnly(1)
    BY <1>0, <1>4, PageToLoad DEF Join, LoadForReading
  <2>2. 1 \in PageIds
    BY PagesAssumption DEF PageIds
  <2> QED BY <1>3, <2>1, <2>2
<1>5. CASE LoadNextPage(r)
  <2>1. /\ rpc[r] = "advance" /\ view[r].msg_type = PageEnd
        /\ LoadReadOnly(rpage[r] + 1)
    BY <1>5 DEF LoadNextPage, LoadForReading
  <2>2. IsReady(rpage[r] + 1) /\ file[1] # "absent"
    BY <1>0, <2>1, PageToLoad
  <2> QED BY <1>3, <2>1, <2>2 DEF IsReady
<1> QED
  BY <1>2, <1>4, <1>5
  DEF AnyReaderStep, LoadLength, Dispatch, MoveToNext, pagesVars

\* Readers disturb nothing the writer relies on.
LEMMA InvReaderStep ==
  ASSUME TypeInv, TypeInv', JournalInv, NEW r \in Readers, AnyReaderStep(r),
         UNCHANGED writerVars
  PROVE  JournalInv'
<1>0. /\ PcInv /\ FileInv /\ PosInv /\ LogInv /\ SeqInv /\ ClearInv /\ HeaderInv
      /\ MemInv /\ LastInv /\ ScanInv
  BY DEF JournalInv
<1>1. UNCHANGED <<mem, lastPos, writerVars>>
  BY ReadersWriteNothing
<1>2. /\ (FileInv!1)' /\ \A p \in PageIds : IsReady(p)' <=> IsReady(p)
  BY <1>0, ReaderFiles DEF FileInv
<1>3. \A p : IsReady(p)' <=> IsReady(p)
  BY <1>2 DEF IsReady
<1>4. FileInv'
  <2>1. (FileInv!2)'
    BY <1>0, <1>1, <1>3 DEF FileInv, writerVars, NextPage, IsReady
  <2>2. (FileInv!3)' /\ (FileInv!4)'
    BY <1>0, <1>1, <1>3 DEF FileInv, writerVars, IsReady
  <2> QED BY <1>2, <2>1, <2>2 DEF FileInv
<1>5. PosInv' /\ SeqInv'
  BY <1>0, <1>1 DEF PosInv, SeqInv, writerVars, Frontier, NextPage, NextOff
<1>6. LogInv' /\ MemInv'
  BY <1>0, <1>1, MemStutter DEF writerVars
<1>7. ClearInv' /\ HeaderInv'
  BY <1>0, <1>1 DEF ClearInv, HeaderInv, LengthAt, writerVars
<1>8. LastInv'
  <2>1. LastPositionCommitted'
    BY <1>0, <1>1, <1>3 DEF LastInv, LastPositionCommitted, writerVars
  <2>2. currentPage' = 0 => ResumeIsReliable'
    BY <1>0, <1>1, <1>3 DEF LastInv, ResumeIsReliable, HasWrittenFrames, writerVars
  <2> QED BY <2>1, <2>2 DEF LastInv
<1>9. ScanInv'
  <2>1. file[1] # "absent" => file'[1] # "absent"
    BY FilesGrow, PagesAssumption DEF PageIds
  <2> QED BY <1>0, <1>1, <2>1 DEF ScanInv, writerVars, NextOff
<1>10. ReadInv'
  BY ReadReaderStep
<1>11. PcInv'
  BY DEF TypeInv
<1> QED BY <1>4, <1>5, <1>6, <1>7, <1>8, <1>9, <1>10, <1>11 DEF JournalInv

-----------------------------------------------------------------------------
(* The theorems. *)

\* Before anything happened there is no page, no writer and no frame.
LEMMA InvInit == Init => JournalInv
<1> SUFFICES ASSUME Init PROVE JournalInv
  OBVIOUS
<1> USE DEF Init, PagesInit, WriterInit, ReaderInit
<1>0. TypeInv /\ log = <<>> /\ Len(log) = 0 /\ \A i \in 1 .. Len(log) : FALSE
  BY TypeInit
<1>1. PcInv
  BY <1>0 DEF TypeInv
<1>2. FileInv
  BY <1>0 DEF FileInv, listPageId
<1>3. PosInv /\ SeqInv /\ ClearInv /\ ScanInv
  BY DEF PosInv, SeqInv, ClearInv, ScanInv
<1>4. HeaderInv
  BY DEF HeaderInv, NoReq
<1>5. LogInv
  BY <1>0 DEF LogInv, SequencesContiguous
<1>6. MemInv
  <2>1. \A p \in PageIds : \A o \in Offsets : LengthAt(p, o) = 0
    BY DEF LengthAt, ZeroFrame
  <2> QED BY <1>0, <2>1 DEF MemInv, CommittedFramesIntact
<1>7. LastInv
  <2>1. \A p \in PageIds : ~IsReady(p)
    BY DEF IsReady
  <2> QED BY <2>1 DEF LastInv, LastPositionCommitted, ResumeIsReliable
<1>8. ReadInv
  <2>1. ASSUME NEW r \in Readers PROVE ReaderInv(r)
    <3>1. delivered[r] = <<>> /\ rpc[r] = "out" /\ Len(delivered[r]) = 0
      OBVIOUS
    <3> QED BY <1>0, <3>1 DEF ReaderInv
  <2> QED BY <2>1, ReadInvIsLocal
<1> QED BY <1>1, <1>2, <1>3, <1>4, <1>5, <1>6, <1>7, <1>8 DEF JournalInv

\* Nothing happens: nothing changes.
LEMMA InvStutter ==
  ASSUME JournalInv, UNCHANGED vars
  PROVE  JournalInv'
<1>0. /\ PcInv /\ FileInv /\ PosInv /\ LogInv /\ SeqInv /\ ClearInv /\ HeaderInv
      /\ MemInv /\ LastInv /\ ScanInv /\ ReadInv
  BY DEF JournalInv
<1> USE DEF vars, pagesVars, writerVars, readerVars
<1>1. PcInv' /\ SeqInv' /\ ClearInv' /\ HeaderInv'
  BY <1>0 DEF PcInv, SeqInv, ClearInv, HeaderInv, LengthAt
<1>2. FileInv'
  BY <1>0 DEF FileInv, IsReady, NextPage, listPageId
<1>3. PosInv' /\ ScanInv'
  BY <1>0 DEF PosInv, ScanInv, Frontier, NextPage, NextOff
<1>4. LogInv' /\ MemInv'
  BY <1>0, MemStutter
<1>5. LastInv'
  BY <1>0 DEF LastInv, LastPositionCommitted, ResumeIsReliable, IsReady,
              HasWrittenFrames
<1>6. ReadInv'
  BY <1>0 DEF ReadInv, DeliveredIsPrefixOfLog, AtNext, NextPage, NextOff
<1> QED BY <1>1, <1>2, <1>3, <1>4, <1>5, <1>6 DEF JournalInv

\* Every step of a disciplined writer or of a reader keeps the invariant.
LEMMA InvNext ==
  ASSUME Disciplined, TypeInv, TypeInv', JournalInv, [Next]_vars
  PROVE  JournalInv'
<1>1. ASSUME WriterStep, UNCHANGED readerVars PROVE JournalInv'
  <2>1. DisciplinedStep
    BY <1>1, DisciplinedSteps
  <2>2. PcInv' /\ ReadInv'
    BY <1>1, <2>1, ReadWriterStep DEF TypeInv, JournalInv
  <2>3. FileInv' /\ PosInv' /\ LogInv' /\ SeqInv' /\ MemInv'
    BY <2>1, FileWriterStep, PosWriterStep, SeqWriterStep, MemWriterStep
  <2>4. ClearInv' /\ HeaderInv' /\ LastInv' /\ ScanInv'
    BY <2>1, ClearWriterStep, HeaderWriterStep, LastWriterStep, ScanWriterStep
  <2> QED BY <2>2, <2>3, <2>4 DEF JournalInv
<1>2. ASSUME NEW r \in Readers, AnyReaderStep(r), UNCHANGED writerVars
      PROVE  JournalInv'
  BY <1>2, InvReaderStep
<1>3. CASE UNCHANGED vars
  BY <1>3, InvStutter
<1> QED BY <1>1, <1>2, <1>3, WhoSteps

\* The inductive invariant holds in every state, for every page size, number of
\* pages, readers, sessions and message sizes, when frames are closed, loads
\* succeed and writers end only where the resume scan is reliable.
THEOREM JournalInvariant == ASSUME Disciplined PROVE Spec => []JournalInv
<1>1. Init => JournalInv
  BY InvInit
<1>2. TypeInv /\ TypeInv' /\ JournalInv /\ [Next]_vars => JournalInv'
  BY InvNext
<1> QED BY <1>1, <1>2, TypeInvariant, PTL DEF Spec

\* Committed frames are never overwritten, nor torn by a rotation or a resumed
\* writer (closeFrame, rotatePage, loadInitialPage).
THEOREM FramesStay == ASSUME Disciplined PROVE Spec => []CommittedFramesIntact
<1>1. JournalInv => CommittedFramesIntact
  BY DEF JournalInv, MemInv
<1> QED BY <1>1, JournalInvariant, PTL

\* Sequence numbers have neither gaps nor repetitions, also over resumed writers
\* (findLastSequenceNumber).
THEOREM SequencesRise == ASSUME Disciplined PROVE Spec => []SequencesContiguous
<1>1. JournalInv => SequencesContiguous
  BY DEF JournalInv, LogInv
<1> QED BY <1>1, JournalInvariant, PTL

\* last_frame_position never names a frame that is not committed (closeFrame,
\* rotatePage).
THEOREM PositionsLag == ASSUME Disciplined PROVE Spec => []LastPositionCommitted
<1>1. JournalInv => LastPositionCommitted
  BY DEF JournalInv, LastInv
<1> QED BY <1>1, JournalInvariant, PTL

\* Frames lie inside their page and apart from each other (openFrame's border
\* test, which leaves room for rotatePage's sentinel).
THEOREM FramesApart == ASSUME Disciplined PROVE Spec => []FramesDisjoint
<1>1. TypeInv /\ JournalInv => FramesDisjoint
  <2> SUFFICES ASSUME TypeInv, JournalInv PROVE FramesDisjoint
    OBVIOUS
  <2>0. LogInv
    BY DEF JournalInv
  <2>1. ASSUME NEW i \in 1 .. Len(log)
        PROVE  /\ FirstFrame <= log[i].off
               /\ log[i].off + framePhysicalLength(log[i].length) <= PageSize
    BY <2>0, LogTypes, OffsetsType DEF LogInv
  <2>2. ASSUME NEW i \in 1 .. Len(log), NEW j \in 1 .. Len(log), i < j
        PROVE  \/ log[i].page < log[j].page
               \/ /\ log[i].page = log[j].page
                  /\ log[i].off + framePhysicalLength(log[i].length) <= log[j].off
    BY <2>0, <2>2 DEF LogInv, NextOff
  <2> QED BY <2>1, <2>2 DEF FramesDisjoint
<1> QED BY <1>1, JournalInvariant, TypeInvariant, PTL

\* No reader that has joined is killed by the page it moves on to
\* (loadNextPage after rotatePage).
THEOREM ReadersSurvive == ASSUME Disciplined PROVE Spec => JoinedReadersSurvive
<1> DEFINE Survive == \A r \in Readers :
                        rpc[r] # "out" => (rpc'[r] = "fault" => rpc[r] = "fault")
<1>1. ASSUME TypeInv, JournalInv, [Next]_vars PROVE Survive
  <2> SUFFICES ASSUME NEW r \in Readers, rpc[r] # "out", rpc'[r] = "fault"
               PROVE  rpc[r] = "fault"
    OBVIOUS
  <2>0. ReaderInv(r) /\ FileInv /\ LogInv
    BY <1>1, ReadInvIsLocal DEF JournalInv
  <2>1. CASE UNCHANGED rpc
    BY <2>1
  <2>2. ASSUME NEW s \in Readers, AnyReaderStep(s), s # r PROVE rpc'[r] = rpc[r]
    BY <1>1, <2>2, ReaderTypes
    DEF AnyReaderStep, Join, LoadLength, Dispatch, MoveToNext, LoadNextPage,
        LoadForReading
  <2>3. ASSUME AnyReaderStep(r) PROVE FALSE
    <3>0. rpc \in [Readers -> {"out", "poll", "view", "advance", "fault"}]
      BY <1>1, ReaderTypes
    <3>1. LoadNextPage(r)
      BY <2>3, <3>0 DEF AnyReaderStep, Join, LoadLength, Dispatch, MoveToNext
    <3>2. IsReady(rpage[r] + 1)
      BY <1>1, <2>0, <3>1, PageToLoad DEF LoadNextPage
    <3>3. rpc'[r] = "poll"
      BY <3>0, <3>1, <3>2 DEF LoadNextPage, LoadForReading
    <3> QED BY <3>3
  <2> QED BY <1>1, <2>1, <2>2, <2>3, WhoSteps DEF vars, readerVars
<1>2. TypeInv /\ JournalInv /\ [Next]_vars => [Survive]_vars
  BY <1>1
<1> QED
  BY <1>2, JournalInvariant, TypeInvariant, PTL DEF Spec, JoinedReadersSurvive

\* Committing a frame publishes its record.
LEMMA CommitPublishes ==
  ASSUME TypeInv, TypeInv', LogInv', StoreLength \/ SentinelLength,
         UNCHANGED readerVars
  PROVE  Log!Publish
<1>1. log \in Seq(Record) /\ log' \in Seq(Record)
  BY DEF TypeInv, TypeOK, WriterTypeOK
<1>2. PICK rec : log' = Append(log, rec)
  BY DEF StoreLength, SentinelLength
<1>3. /\ Len(log') = Len(log) + 1 /\ Len(log) \in Nat
      /\ \A i \in 1 .. Len(log) : log'[i] = log[i]
  BY <1>1, <1>2
<1>4. \A i \in 1 .. Len(log') : log'[i].seq = i - 1
  BY DEF LogInv, SequencesContiguous
<1>5. \A i \in 1 .. Len(log) : log[i].seq < log'[Len(log')].seq
  BY <1>3, <1>4
<1> QED BY <1>1, <1>3, <1>5 DEF Log!Publish, readerVars

\* A reader that takes a frame receives the record that follows those it has.
LEMMA DispatchDelivers ==
  ASSUME TypeInv, MemInv, NEW r \in Readers, ReaderInv(r), Dispatch(r),
         UNCHANGED writerVars
  PROVE  Log!Deliver(r) \/ UNCHANGED <<log, delivered>>
<1> DEFINE k == Len(delivered[r])
           f == mem[rpage[r]][raddr[r]]
<1>1. k < Len(log) /\ ViewedRecord(r) = log[k + 1]
  BY ViewedFrame DEF Dispatch
<1>2. CASE hasData(view[r].length, f.msg_type)
  <2>1. delivered' = [delivered EXCEPT ![r] = Append(@, ViewedRecord(r))]
    BY <1>2 DEF Dispatch, ViewedRecord
  <2>2. delivered' = [delivered EXCEPT ![r] = Append(@, log[Len(@) + 1])]
    BY <1>1, <2>1
  <2> QED BY <1>1, <2>2 DEF Log!Deliver, writerVars
<1>3. CASE ~hasData(view[r].length, f.msg_type)
  BY <1>3 DEF Dispatch, writerVars
<1> QED BY <1>2, <1>3

\* The journal implements the abstract log: its commits are the log's appends,
\* its dispatches the log's deliveries, and every other step is invisible.
THEOREM JournalImplementsLog ==
  ASSUME Disciplined PROVE Spec => ImplementsAppendLog
<1>1. Init => Log!Init
  BY DEF Init, WriterInit, ReaderInit, Log!Init
<1>2. ASSUME TypeInv, TypeInv', JournalInv, JournalInv', [Next]_vars
      PROVE  [Log!Next]_(Log!vars)
  <2>0. MemInv /\ LogInv' /\ \A r \in Readers : ReaderInv(r)
    BY <1>2, ReadInvIsLocal DEF JournalInv
  <2>1. CASE UNCHANGED <<log, delivered>>
    BY <2>1 DEF Log!vars
  <2>2. ASSUME WriterStep, UNCHANGED readerVars PROVE [Log!Next]_(Log!vars)
    <3>1. DisciplinedStep
      BY <2>2, DisciplinedSteps
    <3>2. CASE StoreLength \/ SentinelLength
      BY <1>2, <2>0, <2>2, <3>2, CommitPublishes DEF Log!Next
    <3>3. CASE UNCHANGED log
      BY <2>1, <2>2, <3>3 DEF readerVars
    <3> QED
      BY <3>1, <3>2, <3>3
      DEF DisciplinedStep, Construct, FindUnready, FindReady, FindNone, ScanFrame,
          ScanDone, LoadPage, LoadedInitial, AnyCall, Call, OpenFrame, FillPayload,
          SetLastFramePosition, SentinelHeader, SentinelPos, Ends, ForgetWriter,
          writerVars
  <2>3. ASSUME NEW r \in Readers, AnyReaderStep(r), UNCHANGED writerVars
        PROVE  [Log!Next]_(Log!vars)
    <3>1. CASE Dispatch(r)
      <4>1. Log!Deliver(r) \/ UNCHANGED <<log, delivered>>
        BY <1>2, <2>0, <2>3, <3>1, DispatchDelivers
      <4> QED BY <2>1, <4>1 DEF Log!Next
    <3>2. CASE UNCHANGED delivered
      BY <2>1, <2>3, <3>2 DEF writerVars
    <3> QED
      BY <2>3, <3>1, <3>2
      DEF AnyReaderStep, Join, LoadLength, MoveToNext, LoadNextPage
  <2> QED
    BY <1>2, <2>1, <2>2, <2>3, WhoSteps DEF vars, writerVars, readerVars
<1>3. TypeInv /\ TypeInv' /\ JournalInv /\ JournalInv' /\ [Next]_vars
        => [Log!Next]_(Log!vars)
  BY <1>2
<1> QED
  BY <1>1, <1>3, JournalInvariant, TypeInvariant, PTL
  DEF Spec, ImplementsAppendLog, Log!Spec
=============================================================================
