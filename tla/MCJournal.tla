----------------------------- MODULE MCJournal -----------------------------
(***************************************************************************)
(* Small instances of JournalSystem for TLC.  With 256-byte pages the      *)
(* frames of a page start at 64 and 128 and the sentinel lies at 192 at    *)
(* the latest; payloads of 32 and 33 bytes are the two sides of a stride   *)
(* boundary (64 and 128 bytes).                                            *)
(***************************************************************************)
EXTENDS JournalInvariant
=============================================================================
