----------------------------- MODULE AppendLog -----------------------------
(***************************************************************************)
(* What a journal promises: a log that only grows at its end, with rising  *)
(* sequence numbers, and readers that each receive it from the beginning,  *)
(* one record after the other, none skipped, repeated, torn or invented.   *)
(***************************************************************************)
EXTENDS Naturals, Sequences

CONSTANTS Readers, Record

VARIABLES log, delivered

vars == <<log, delivered>>

Init ==
  /\ log = <<>>
  /\ delivered = [r \in Readers |-> <<>>]

\* A writer commits a record.
Publish ==
  /\ log' \in Seq(Record)
  /\ Len(log') = Len(log) + 1
  /\ \A i \in 1 .. Len(log) :
       /\ log'[i] = log[i]
       /\ log[i].seq < log'[Len(log')].seq
  /\ UNCHANGED delivered

\* A reader receives the record that follows those it has.
Deliver(r) ==
  /\ Len(delivered[r]) < Len(log)
  /\ delivered' = [delivered EXCEPT ![r] = Append(@, log[Len(@) + 1])]
  /\ UNCHANGED log

Next == Publish \/ \E r \in Readers : Deliver(r)

Spec == Init /\ [][Next]_vars
=============================================================================
