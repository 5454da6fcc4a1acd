--------------------------- MODULE JournalReader ---------------------------
(***************************************************************************)
(* Readers that follow one journal from its first page: JournalReader with *)
(* a single joined journal (join with from_time 0, tryCurrentFrame, advance*)
(* as nextStatic calls them) and the Journal below it (next, loadPage),    *)
(* mapping the pages read-only (prefault = false).                         *)
(*                                                                         *)
(* rpc[r], what the reader does next:                                      *)
(*   out      join                      poll     load the frame length     *)
(*   view     read the committed frame  advance  Journal::next             *)
(*   fault    killed by a signal                                           *)
(***************************************************************************)
EXTENDS JournalPages

CONSTANT Readers

VARIABLES
  rpc,         \* see above
  rpage,       \* the id of Journal::current_page_
  raddr,       \* the offset of Journal::frame_
  view,        \* FrameView: the length and msg_type captured
  delivered    \* history: the frames handed to the dispatcher, in order

readerVars == <<rpc, rpage, raddr, view, delivered>>

ReaderInit ==
  /\ rpc = [r \in Readers |-> "out"]
  /\ rpage = [r \in Readers |-> 0]
  /\ raddr = [r \in Readers |-> FirstFrame]
  /\ view = [r \in Readers |-> [length |-> 0, msg_type |-> 0]]
  /\ delivered = [r \in Readers |-> <<>>]

\* Journal::loadPage: map page p and point the frame at its first slot.
LoadForReading(r, p) ==
  /\ LoadReadOnly(p)
  /\ IF IsReady(p)
       THEN /\ rpc' = [rpc EXCEPT ![r] = "poll"]
            /\ rpage' = [rpage EXCEPT ![r] = p]
            /\ raddr' = [raddr EXCEPT ![r] = FirstFrame]
       ELSE /\ rpc' = [rpc EXCEPT ![r] = "fault"]
            /\ UNCHANGED <<rpage, raddr>>

\* join(location, dest_id, 0): findPageId answers the lowest page file, or 1
\* when there is none, and no frame is older than time 0.
Join(r) ==
  /\ rpc[r] = "out"
  /\ \/ /\ listPageId = {}
        /\ LoadForReading(r, 1)
     \/ \E front \in listPageId :
          /\ \A p \in listPageId : front <= p
          /\ LoadForReading(r, front)
  /\ UNCHANGED <<view, delivered>>

\* tryCurrentFrame, the acquire load of the length.  A length of 0 means "no
\* frame yet": the caller polls again and nothing changes.
LoadLength(r) ==
  /\ rpc[r] = "poll"
  /\ raddr[r] \in Offsets
  /\ LET length == mem[rpage[r]][raddr[r]].length
     IN  /\ length > 0
         /\ view' = [view EXCEPT ![r].length = length]
  /\ rpc' = [rpc EXCEPT ![r] = "view"]
  /\ UNCHANGED <<pagesVars, rpage, raddr, delivered>>

\* tryCurrentFrame after the length, and the dispatcher's reads of the frame.
Dispatch(r) ==
  /\ rpc[r] = "view"
  /\ LET f == mem[rpage[r]][raddr[r]]
         length == view[r].length
     IN  IF hasData(length, f.msg_type)
           THEN /\ view' = [view EXCEPT ![r].msg_type = f.msg_type]
                /\ delivered' = [delivered EXCEPT ![r] =
                     Append(@, [page |-> rpage[r], off |-> raddr[r],
                                length |-> length, msg_type |-> f.msg_type,
                                seq |-> f.seq,
                                data |-> PayloadOf(length, f.data)])]
                /\ rpc' = [rpc EXCEPT ![r] = "advance"]
           ELSE /\ rpc' = [rpc EXCEPT ![r] = "poll"]
                /\ UNCHANGED <<view, delivered>>
  /\ UNCHANGED <<pagesVars, rpage, raddr>>

\* A slip: the stride is taken from the payload's length.
MoveToNextShort(r) ==
  /\ rpc[r] = "advance"
  /\ view[r].msg_type # PageEnd
  /\ raddr' = [raddr EXCEPT ![r] =
                 @ + framePhysicalLength(view[r].length - SizeofFrameHeader)]
  /\ rpc' = [rpc EXCEPT ![r] = "poll"]
  /\ UNCHANGED <<pagesVars, rpage, view, delivered>>

\* advance on a frame of the page: Frame::moveToNext.
MoveToNext(r) ==
  /\ rpc[r] = "advance"
  /\ view[r].msg_type # PageEnd
  /\ raddr' = [raddr EXCEPT ![r] = @ + framePhysicalLength(view[r].length)]
  /\ rpc' = [rpc EXCEPT ![r] = "poll"]
  /\ UNCHANGED <<pagesVars, rpage, view, delivered>>

\* advance on the sentinel: loadNextPage.
LoadNextPage(r) ==
  /\ rpc[r] = "advance"
  /\ view[r].msg_type = PageEnd
  /\ rpage[r] < MaxPages
  /\ LoadForReading(r, rpage[r] + 1)
  /\ UNCHANGED <<view, delivered>>

\* What a joined reader does on its own.
ReaderStep(r) == LoadLength(r) \/ Dispatch(r) \/ MoveToNext(r) \/ LoadNextPage(r)

ReaderTypeOK ==
  /\ rpc \in [Readers -> {"out", "poll", "view", "advance", "fault"}]
  /\ rpage \in [Readers -> {0} \cup PageIds]
  /\ raddr \in [Readers -> Nat]
  /\ view \in [Readers -> [length : Nat, msg_type : Nat]]
  /\ delivered \in [Readers -> Seq(Record)]
=============================================================================
