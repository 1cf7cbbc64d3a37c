----------------------------- MODULE DnsAnswer -----------------------------
(***************************************************************************)
(* dns_response_add_direct_cidrs() of src/core.c: it walks over questions   *)
(* and answers of a DNS message and adds the addresses of a name with a     *)
(* rule to the table of blocks.  One step is one round of its two loops.    *)
(*                                                                          *)
(* A message is a sequence of cells behind the header.  A name that         *)
(* dns_read_name() (module DnsName) takes in place is one cell: 0 for one   *)
(* it refuses, 2 for one with a rule.  Type and class are one cell, too: 1  *)
(* for A, 2 for AAAA, 0 for any other.  The counts of the header, and       *)
(* lengths, are whatever the message says.                                  *)
(***************************************************************************)
EXTENDS Naturals, Sequences

CONSTANTS
  QFixed,        \* type and class of a question (4 bytes)
  RFixed,        \* type, class, TTL and length of a record (10 bytes)
  LenA, LenAAAA, \* lengths of the addresses (4 and 16)
  MaxSize,       \* bound: longest message
  MaxCount       \* bound: largest qdcount and ancount

Cells == 0 .. 2

VARIABLES
  hdr,       \* what is known before the loops: rules, size, flags and counts
  cells,     \* the message behind the header
  offset, i, matched,  \* the locals
  phase,     \* the loop it is in
  learned,   \* the addresses added
  readTo     \* cells of the message up to the last one read

vars == <<hdr, cells, offset, i, matched, phase, learned, readTo>>

size == Len(cells)

Init ==
  /\ hdr \in [rules : BOOLEAN, whole : BOOLEAN, response : BOOLEAN,
              qdcount : 0 .. MaxCount, ancount : 0 .. MaxCount]
  /\ cells \in UNION {[1 .. n -> Cells] : n \in 0 .. MaxSize}
  /\ ~(hdr.rules /\ hdr.whole /\ hdr.response) => cells = <<>>
  /\ offset = 0 /\ i = 0 /\ matched = FALSE
  /\ phase = IF hdr.rules /\ hdr.whole /\ hdr.response THEN "questions" ELSE "done"
  /\ learned = {} /\ readTo = 0

At(p) == IF p < size THEN cells[p + 1] ELSE 0

\* dns_read_name() succeeds.
dns_read_name(p) == p < size /\ At(p) # 0

Returns == phase' = "done" /\ UNCHANGED <<offset, i, matched, learned, readTo>>

\* Mutant of SomeMatch: the last question decides.
LastMatch(qmatched) == qmatched

SomeMatch(qmatched) == matched \/ qmatched

Question ==
  /\ phase = "questions" /\ i < hdr.qdcount
  /\ IF ~dns_read_name(offset) \/ offset + 1 + QFixed > size
     THEN Returns
     ELSE /\ matched' = SomeMatch(At(offset) = 2)
          /\ readTo' = offset + 1 + QFixed
          /\ offset' = offset + 1 + QFixed /\ i' = i + 1
          /\ UNCHANGED <<phase, learned>>

QuestionsOver ==
  /\ phase = "questions" /\ i = hdr.qdcount
  /\ IF matched THEN phase' = "answers" /\ i' = 0 ELSE phase' = "done" /\ UNCHANGED i
  /\ UNCHANGED <<offset, matched, learned, readTo>>

\* Type and length in the fixed part of the record whose name is at p, and the
\* first cell of its data.
Type(p) == At(p + 1)
rdlen(p) == At(p + RFixed)
rdata(p) == p + 1 + RFixed

\* The blocks nspconf_add_direct_cidr_raw() is called for.
Address(p) ==
  IF \/ Type(p) = 1 /\ rdlen(p) = LenA
     \/ Type(p) = 2 /\ rdlen(p) = LenAAAA
  THEN {[type |-> Type(p), addr |-> [k \in 1 .. rdlen(p) |-> At(rdata(p) + k - 1)]]}
  ELSE {}

Answer ==
  /\ phase = "answers" /\ i < hdr.ancount
  /\ IF \/ ~dns_read_name(offset)
        \/ rdata(offset) > size
        \/ rdata(offset) + rdlen(offset) > size
     THEN Returns
     ELSE /\ learned' = learned \cup Address(offset)
          /\ offset' = rdata(offset) + rdlen(offset) /\ readTo' = offset'
          /\ i' = i + 1
          /\ UNCHANGED <<phase, matched>>

AnswersOver ==
  /\ phase = "answers" /\ i = hdr.ancount
  /\ Returns

Next ==
  /\ Question \/ QuestionsOver \/ Answer \/ AnswersOver
  /\ UNCHANGED <<hdr, cells>>

Spec == Init /\ [][Next]_vars

----------------------------------------------------------------------------
(* The sections of a message by their layout: the places where an n-th entry *)
(* starts when all before it are whole.                                      *)

Whole(p, end) == p < size /\ At(p) # 0 /\ end <= size

Starts(from, End(_), count) ==
  LET starts[n \in 0 .. count] ==
        IF n = 0 THEN {from}
        ELSE {End(p) : p \in {q \in starts[n - 1] : Whole(q, End(q))}}
  IN starts

QuestionEnd(p) == p + 1 + QFixed
RecordEnd(p) == rdata(p) + (IF rdata(p) <= size THEN rdlen(p) ELSE 0)

Questions == Starts(0, QuestionEnd, hdr.qdcount)
Ruled == \E n \in 0 .. hdr.qdcount - 1 : \E p \in Questions[n] : At(p) = 2
Records ==
  UNION {Starts(from, RecordEnd, hdr.ancount)[n] :
           from \in Questions[hdr.qdcount], n \in 0 .. hdr.ancount - 1}

\* dns_response_add_direct_cidrs() adds the addresses of the whole records at
\* the head of the answer section, if all questions are whole and one of them
\* has a rule; nothing from a record that is cut off or behind one; and no read
\* is past the message, whatever its counts and lengths say.
RecordsLearned ==
  /\ readTo <= size
  /\ phase = "done" =>
       learned = IF hdr.rules /\ hdr.whole /\ hdr.response /\ Ruled
                 THEN UNION {Address(p) : p \in {q \in Records : Whole(q, RecordEnd(q))}}
                 ELSE {}
=============================================================================
