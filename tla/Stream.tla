------------------------------- MODULE Stream -------------------------------
(***************************************************************************)
(* What a relayed connection promises in one direction, to the two ends:   *)
(* a byte stream, delivered in order and not beyond what was written, whose *)
(* end is delivered after the last byte and only if the writer ended it.   *)
(* A connection that is reset simply delivers no more.                     *)
(***************************************************************************)
EXTENDS Naturals

VARIABLES
  sent, shut,   \* bytes written, and whether the writer has ended the stream
  got, eof      \* bytes delivered, and whether the end was delivered

Init == sent = 0 /\ shut = FALSE /\ got = 0 /\ eof = FALSE

\* The writer writes some bytes, ends the stream, or both.
Write ==
  /\ ~shut
  /\ sent' \in Nat /\ sent' >= sent
  /\ shut' \in BOOLEAN
  /\ UNCHANGED <<got, eof>>

\* The reader is delivered some bytes, the end of the stream, or both.
Deliver ==
  /\ ~eof
  /\ got' \in got..sent
  /\ eof' \in BOOLEAN
  /\ eof' => shut /\ got' = sent
  /\ UNCHANGED <<sent, shut>>

Next == Write \/ Deliver

Spec == Init /\ [][Next]_<<sent, shut, got, eof>>
=============================================================================
