---------------------------- MODULE FrameStream -----------------------------
(***************************************************************************)
(* What a client of JournalReader sees of one joined journal: the frames   *)
(* committed so far.  JournalSystem shows that the pages provide this      *)
(* (AppendLog); here a frame is its number, type and payload size.         *)
(***************************************************************************)
EXTENDS Naturals, Sequences

CONSTANTS
  Types,      \* message types; "PageEnd" is the sentinel's
  written,    \* type -> the payload sizes its frames are written with
  MaxLog      \* bound: frames committed

ASSUME StreamAssumption ==
  written \in [Types -> SUBSET Nat] /\ "PageEnd" \in Types /\ written["PageEnd"] = {0}

VARIABLE log

Frame == [seq : Nat, msg_type : Types, size : Nat]

StreamInit == log = <<>>

\* Some writer commits a frame, or the sentinel of a page.
Commit ==
  /\ Len(log) < MaxLog
  /\ \E type \in Types : \E size \in written[type] :
       log' = Append(log, [seq |-> Len(log), msg_type |-> type, size |-> size])
=============================================================================
