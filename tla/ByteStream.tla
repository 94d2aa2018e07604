------------------------------ MODULE ByteStream -----------------------------
(***************************************************************************)
(* What send and receiveAll promise together: the receiver is handed the   *)
(* bytes that the kernel took from the sender, in order, without a gap and *)
(* without a repetition, also when the connection breaks on the way.       *)
(***************************************************************************)
EXTENDS Naturals, Sequences

VARIABLES
  up,      \* the connection has not broken
  passed,  \* number of bytes taken from the sender: 1, 2, ..., passed
  got      \* the bytes handed to the receiver

svars == <<up, passed, got>>

SInit == up = TRUE /\ passed = 0 /\ got = <<>>

Pass ==
  /\ up
  /\ passed' \in Nat /\ passed' > passed
  /\ UNCHANGED <<up, got>>

Hand ==
  /\ \E n \in 1..(passed - Len(got)) : got' = got \o [i \in 1..n |-> Len(got) + i]
  /\ UNCHANGED <<up, passed>>

Break ==
  /\ up
  /\ up' = FALSE
  /\ UNCHANGED <<passed, got>>

SNext == Pass \/ Hand \/ Break
SSpec == SInit /\ [][SNext]_svars
=============================================================================
