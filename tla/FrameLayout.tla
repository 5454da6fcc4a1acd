---------------------------- MODULE FrameLayout ----------------------------
(***************************************************************************)
(* The geometry of a journal page: where frames may start, how far apart   *)
(* they are, and where the page ends.  Offsets are bytes from the start of *)
(* the mapping, as in the code.                                            *)
(*                                                                         *)
(*   0            64                                  PageSize-64  PageSize *)
(*   | PageHeader | frame | frame | ...  | PageEnd ...   | border  |        *)
(***************************************************************************)
EXTENDS Integers

CONSTANT PageSize          \* findPageSize(location, dest_id)

FRAME_ALIGNMENT == 64
SizeofPageHeader == 64
SizeofFrameHeader == 32

\* MsgType::PageEnd, the sentinel that closes a page.
PageEnd == 10000

\* static_cast<uint16_t>(msg_type): the header stores sixteen bits.
toUint16(m) == m % 65536

alignUp(value, alignment) ==
  ((value + alignment - 1) \div alignment) * alignment

framePhysicalLength(logical_length) == alignUp(logical_length, FRAME_ALIGNMENT)

\* The distance from a frame with this payload to the next one.  Taking it
\* from the payload alone would forget the header.
StrideOfPayloadAlone(payload_size) == framePhysicalLength(payload_size)
Stride(payload_size) == framePhysicalLength(SizeofFrameHeader + payload_size)

\* One past the last byte a frame may use: one alignment unit is reserved for
\* the PageEnd sentinel.
Border == PageSize - FRAME_ALIGNMENT

FirstFrame == SizeofPageHeader

\* The offsets at which a frame header can lie inside the page.
Offsets == {o \in FirstFrame .. (PageSize - FRAME_ALIGNMENT) :
              o % FRAME_ALIGNMENT = 0}

\* Frame::hasData(length, msg_type)
hasData(length, msg_type) == length > 0 /\ msg_type > 0

\* Pages are whole numbers of alignment units with room for the header, one
\* frame and the sentinel (the code's sizes are multiples of 2 MB).
ASSUME PageSizeAssumption ==
  /\ PageSize \in Nat
  /\ PageSize % FRAME_ALIGNMENT = 0
  /\ PageSize >= 4 * FRAME_ALIGNMENT
=============================================================================
