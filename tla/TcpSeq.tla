------------------------------- MODULE TcpSeq -------------------------------
(***************************************************************************)
(* Sequence numbers of lwip/include/lwip/priv/tcp_priv.h: unsigned numbers  *)
(* of a fixed width that wrap around, compared by the sign of their         *)
(* difference.  The width is a constant (2^32 values in the code).          *)
(***************************************************************************)
EXTENDS Integers, Sequences, SequencesExt, FiniteSets

CONSTANT SeqSpace  \* number of sequence numbers

ASSUME SeqSpaceAssumption == SeqSpace \in Nat /\ SeqSpace > 0 /\ SeqSpace % 2 = 0

SeqNo == 0 .. SeqSpace - 1

Plus(a, n) == (a + n) % SeqSpace
Minus(a, b) == (a - b) % SeqSpace

SEQ_LT(a, b) == Minus(a, b) >= SeqSpace \div 2
SEQ_LEQ(a, b) == a = b \/ SEQ_LT(a, b)
SEQ_BETWEEN(a, b, c) == SEQ_LEQ(b, a) /\ SEQ_LEQ(a, c)

\* ->len of a segment is the sum over its pbufs: the first holds the header.
Bytes(lens) == FoldLeft(LAMBDA n, l : n + l, 0, lens)
Least(a, b) == IF a < b THEN a ELSE b
=============================================================================
