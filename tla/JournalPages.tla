--------------------------- MODULE JournalPages ----------------------------
(***************************************************************************)
(* The page files of one journal (one location and dest_id): what the      *)
(* writer and the readers share through MAP_SHARED mappings.  They outlive *)
(* the processes that map them.                                            *)
(***************************************************************************)
EXTENDS FrameLayout, Sequences

CONSTANTS
  MaxPages,      \* bound: page ids are 1..MaxPages
  Data,          \* the payloads callers write
  FrameLike,     \* the payloads whose later bytes look like a frame header
  NoData         \* the content of a zeroed payload area

ASSUME PagesAssumption ==
  /\ MaxPages \in Nat \ {0}
  /\ FrameLike \subseteq Data
  /\ NoData \notin Data

VARIABLES
  file,          \* page id -> how far the page file has been created
  lastPos,       \* page id -> PageHeader::last_frame_position
  mem            \* page id -> offset -> the frame header and payload there

pagesVars == <<file, lastPos, mem>>

PageIds == 1 .. MaxPages

\* No file; a file of size 0 (open with O_CREAT); allocated to its full size
\* and all zero; header initialised.
FileStates == {"absent", "empty", "sized", "ready"}

\* What 32 zeroed bytes mean as a frame header.
ZeroFrame == [length |-> 0, msg_type |-> 0, seq |-> 0, data |-> NoData]

\* What the bytes of a frame-like payload mean as a frame header.
JunkFrame ==
  [length |-> SizeofFrameHeader, msg_type |-> 1, seq |-> 0, data |-> NoData]

\* Large payloads cover the slots that follow their own header: this is what
\* a reader of such a slot would see.
PayloadImage(d) == IF d \in FrameLike THEN JunkFrame ELSE ZeroFrame

FrameType ==
  [length : Nat, msg_type : Nat, seq : Nat, data : Data \cup {NoData}]

\* A committed frame and where it lies.
Record ==
  [page : PageIds, off : Offsets, length : Nat, msg_type : Nat, seq : Nat,
   data : Data \cup {NoData}]

\* The payload bytes a frame of this length exposes: none for a marker.
PayloadOf(length, d) == IF length > SizeofFrameHeader THEN d ELSE NoData

\* ILocator::listPageId: the ids of the page files in the directory.
listPageId == {p \in PageIds : file[p] # "absent"}

\* The page can be mapped and its header passes Page::load's validation.
IsReady(p) == p \in PageIds /\ file[p] = "ready"

PagesInit ==
  /\ file = [p \in PageIds |-> "absent"]
  /\ lastPos = [p \in PageIds |-> 0]
  /\ mem = [p \in PageIds |-> [o \in Offsets |-> ZeroFrame]]

\* Page::load by a master (is_writing or prefault), one visible step of it:
\* open(O_CREAT), then fallocate, then the header initialisation.
LoadStepAsMaster(p) ==
  /\ file' = [file EXCEPT ![p] = CASE @ = "absent" -> "empty"
                                   [] @ = "empty"  -> "sized"
                                   [] @ = "sized"  -> "ready"]
  /\ lastPos' = [lastPos EXCEPT ![p] =
                   IF file[p] = "sized" THEN SizeofPageHeader ELSE @]
  /\ UNCHANGED mem

\* Page::load by a master, all of it at once.
LoadAsMaster(p) ==
  /\ file' = [file EXCEPT ![p] = "ready"]
  /\ lastPos' = [lastPos EXCEPT ![p] =
                   IF file[p] = "ready" THEN @ ELSE SizeofPageHeader]
  /\ UNCHANGED mem

\* Page::load by a process that maps read-only.  open still passes O_CREAT, so
\* an absent file is created with size 0; unless the page is ready the process
\* is then killed: SIGBUS on an empty file, SIGSEGV when it initialises the
\* zero header of a PROT_READ mapping.
LoadReadOnly(p) ==
  /\ file' = [file EXCEPT ![p] = IF @ = "absent" THEN "empty" ELSE @]
  /\ UNCHANGED <<lastPos, mem>>

\* Page::load throws and leaves the file as far as it got: open may have created
\* it, and for a master fallocate may have sized it.
LoadThrows(p, master) ==
  /\ \/ UNCHANGED file
     \/ file[p] = "absent" /\ file' = [file EXCEPT ![p] = "empty"]
     \/ /\ master
        /\ file[p] \in {"absent", "empty"}
        /\ file' = [file EXCEPT ![p] = "sized"]
  /\ UNCHANGED <<lastPos, mem>>

PagesTypeOK ==
  /\ file \in [PageIds -> FileStates]
  /\ lastPos \in [PageIds -> {0} \cup Offsets]
  /\ mem \in [PageIds -> [Offsets -> FrameType]]
=============================================================================
