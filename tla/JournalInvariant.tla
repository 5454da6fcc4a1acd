-------------------------- MODULE JournalInvariant --------------------------
(***************************************************************************)
(* The inductive invariant of JournalSystem: why a reader that only looks  *)
(* at lengths, strides and sentinels sees exactly the committed frames.    *)
(* It holds when callers close every frame they open, page loads succeed   *)
(* and a writer ends only where the resume scan is reliable.               *)
(***************************************************************************)
EXTENDS JournalSystem

\* The conditions on the callers and on the environment.
Disciplined ==
  /\ Faults \subseteq {"stop"}
  /\ \A m \in MsgTypes : toUint16(m) # PageEnd

\* Where the frame after rec is looked for.
NextPage(rec) == IF rec.msg_type = PageEnd THEN rec.page + 1 ELSE rec.page
NextOff(rec) == IF rec.msg_type = PageEnd
                  THEN FirstFrame
                  ELSE rec.off + framePhysicalLength(rec.length)

Follows(rec, prev) == rec.page = NextPage(prev) /\ rec.off = NextOff(prev)

LengthAt(p, o) == mem[p][o].length

-----------------------------------------------------------------------------
\* What the program counters say about the other variables' types.
PcInv ==
  /\ wpc \in {"idle", "open", "fill", "length", "pos", "sentinelLength",
              "sentinelPos"} => currentPage \in PageIds
  /\ wpc \in {"load", "sentinelLength", "sentinelPos"} => currentPageId \in PageIds
  /\ wpc = "scan" => scan.page \in PageIds
  /\ wpc \in {"open", "fill", "length", "pos"} =>
       currentFrameAddress + Stride(req.size) <= Border
  /\ wpc \in {"fill", "length", "sentinelLength"} => currentSequence > 0
  /\ \A r \in Readers :
       /\ rpc[r] \in {"poll", "view", "advance"} => rpage[r] \in PageIds
       /\ rpc[r] \in {"view", "advance"} => raddr[r] \in Offsets

\* Which page files exist and are initialised.
FileInv ==
  /\ listPageId # {} => file[1] # "absent"
  /\ \A i \in 1 .. Len(log) : IsReady(log[i].page) /\ IsReady(NextPage(log[i]))
  /\ currentPage # 0 => IsReady(currentPage)
  /\ wpc \in {"sentinelLength", "sentinelPos"} => IsReady(currentPageId)

\* (p, o) is the place for the next frame: right after the last one, or, for a
\* resumed writer, the head of a later page.
Frontier(p, o) ==
  IF log = <<>>
    THEN p = 1 /\ o = FirstFrame
    ELSE LET last == log[Len(log)]
         IN  \/ p = NextPage(last) /\ o = NextOff(last)
             \/ o = FirstFrame /\ NextPage(last) < p

\* Where the writer stands relative to the log.
PosInv ==
  /\ wpc \in {"down", "find", "scan", "fault"} =>
       currentPage = 0 /\ currentSequence = 0
  /\ wpc \in {"idle", "open", "fill", "length", "pos"} =>
       currentPageId = currentPage
  /\ (wpc \in {"load", "sentinelLength", "sentinelPos"} /\ currentPage # 0) =>
       currentPageId = currentPage + 1
  /\ (wpc = "load" /\ currentPage = 0) => Frontier(currentPageId, FirstFrame)
  /\ (currentPage # 0 /\ wpc \notin {"pos", "sentinelPos"}) =>
       Frontier(currentPage, currentFrameAddress)
  /\ wpc \in {"pos", "sentinelPos"} =>
       /\ log # <<>>
       /\ log[Len(log)].page = currentPage
       /\ log[Len(log)].off = currentFrameAddress
  /\ wpc = "pos" => /\ log[Len(log)].msg_type # PageEnd
                    /\ log[Len(log)].length = SizeofFrameHeader + req.size
  /\ wpc = "sentinelPos" => log[Len(log)].msg_type = PageEnd

\* The shape of the log itself.
LogInv ==
  /\ \A i \in 1 .. Len(log) :
       /\ SizeofFrameHeader <= log[i].length
       /\ log[i].length <= PageSize
       /\ log[i].off + framePhysicalLength(log[i].length) <= PageSize
       /\ NextPage(log[i]) \in PageIds
       /\ NextOff(log[i]) \in Offsets
  /\ \A i, j \in 1 .. Len(log) :
       i < j => \/ log[i].page < log[j].page
                \/ /\ log[i].page = log[j].page
                   /\ log[i].msg_type # PageEnd
                   /\ NextOff(log[i]) <= log[j].off
  /\ \A i \in 1 .. Len(log) : \E k \in 1 .. Len(log) :
       log[k].page = log[i].page /\ log[k].off = FirstFrame
  /\ log # <<>> => log[1].page = 1 /\ log[1].off = FirstFrame
  /\ SequencesContiguous

\* The writer's sequence counter against the log.
SeqInv ==
  /\ wpc \in {"load", "idle", "open", "pos", "sentinelPos"} =>
       currentSequence = Len(log)
  /\ wpc \in {"fill", "length", "sentinelLength"} =>
       currentSequence = Len(log) + 1

\* The slots from which the writer has not yet moved on hold no length.
ClearInv ==
  currentPage # 0 =>
    \A o \in Offsets :
      \/ /\ wpc \in {"idle", "load", "open", "sentinelLength"}
         /\ currentFrameAddress <= o
      \/ /\ wpc \in {"fill", "length"}
         /\ o = currentFrameAddress
      \/ /\ wpc \in {"fill", "length", "pos"}
         /\ currentFrameAddress + Stride(req.size) <= o
      => LengthAt(currentPage, o) = 0

\* The header being completed carries what will be committed.
HeaderInv ==
  /\ wpc \in {"fill", "length"} =>
       LET f == mem[currentPage][currentFrameAddress]
       IN  f.msg_type = toUint16(req.msg_type) /\ f.seq = currentSequence - 1
  /\ wpc = "length" =>
       PayloadOf(SizeofFrameHeader + req.size,
                 mem[currentPage][currentFrameAddress].data) = req.data
  /\ wpc = "sentinelLength" =>
       LET f == mem[currentPage][currentFrameAddress]
       IN  f.msg_type = PageEnd /\ f.seq = currentSequence - 1
  /\ req.op = "mark" <=> req.size = 0
  /\ req.op = "mark" => req.data = NoData

\* Committed frames are in memory; the slot after each holds the next one, or
\* nothing; pages without a committed frame hold no length.
MemInv ==
  /\ CommittedFramesIntact
  /\ \A i \in 1 .. Len(log) :
       \/ i < Len(log) /\ Follows(log[i + 1], log[i])
       \/ /\ LengthAt(NextPage(log[i]), NextOff(log[i])) = 0
          /\ i < Len(log) => NextPage(log[i]) < log[i + 1].page
  /\ \A p \in PageIds :
       (p # currentPage /\ \A i \in 1 .. Len(log) : log[i].page # p)
         => \A o \in Offsets : LengthAt(p, o) = 0

\* last_frame_position and the reliability of the next resume scan.
LastInv ==
  /\ LastPositionCommitted
  /\ currentPage = 0 => ResumeIsReliable

\* Where the resume scan stands relative to the log.
ScanInv ==
  /\ wpc = "find" =>
       /\ \A i \in 1 .. Len(log) : log[i].page <= scan.page
       /\ scan.off = FirstFrame
       /\ scan.page > 0 => file[1] # "absent"
  /\ wpc = "scan" =>
       /\ \A i \in 1 .. Len(log) : log[i].page <= scan.page
       /\ \E i \in 1 .. Len(log) : log[i].page = scan.page
       /\ \/ scan.off = FirstFrame
          \/ \E j \in 1 .. Len(log) :
               /\ log[j].page = scan.page
               /\ log[j].msg_type # PageEnd
               /\ scan.off = NextOff(log[j])
               /\ scan.seq = log[j].seq

\* Where each reader stands relative to the log.
AtNext(r) ==
  LET k == Len(delivered[r])
  IN  IF k = 0 THEN rpage[r] = 1 /\ raddr[r] = FirstFrame
               ELSE rpage[r] = NextPage(log[k]) /\ raddr[r] = NextOff(log[k])

ReadInv ==
  /\ DeliveredIsPrefixOfLog
  /\ \A r \in Readers :
       LET k == Len(delivered[r])
       IN  /\ rpc[r] = "out" => k = 0
           /\ rpc[r] \in {"poll", "view"} => AtNext(r)
           /\ rpc[r] = "view" =>
                /\ k < Len(log)
                /\ log[k + 1].page = rpage[r] /\ log[k + 1].off = raddr[r]
                /\ log[k + 1].length = view[r].length
           /\ rpc[r] = "advance" =>
                /\ k > 0
                /\ log[k].page = rpage[r] /\ log[k].off = raddr[r]
                /\ log[k].length = view[r].length
                /\ log[k].msg_type = view[r].msg_type

\* The inductive invariant: how the page files, the writer's position, its resume
\* scan and every reader's position relate to the sequence of committed frames.
JournalInv ==
  /\ PcInv /\ FileInv /\ PosInv /\ LogInv /\ SeqInv /\ ClearInv /\ HeaderInv
  /\ MemInv /\ LastInv /\ ScanInv /\ ReadInv
=============================================================================
