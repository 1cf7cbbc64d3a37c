------------------------------ MODULE DnsName ------------------------------
(***************************************************************************)
(* dns_read_name() of src/core.c: it reads one, possibly compressed, domain *)
(* name of a DNS message into a text buffer and moves *offset behind it.    *)
(* One step is one round of its loop.  Messages range over every byte       *)
(* sequence up to a length; the widths of a byte (256 values), of a label   *)
(* (63), of the loop (128 rounds) and of the buffer (256) are constants.    *)
(***************************************************************************)
EXTENDS Integers, Sequences, SequencesExt

CONSTANTS
  Base,      \* number of values of a byte
  MaxLabel,  \* length bytes 0..MaxLabel start a label, 0 ends the name
  PtrBase,   \* length bytes from here on start a pointer, those between are bad
  Dot,       \* the byte '.'
  Upper,     \* the bytes 'A'..'Z'
  Shift,     \* 'a' - 'A'
  MaxLen,    \* longest message
  Rounds,    \* rounds of the loop
  OutLen     \* size of the buffer

Byte == 0 .. Base - 1
Messages == UNION {[1 .. n -> Byte] : n \in 0 .. MaxLen}

VARIABLES
  msg, start,  \* the message and the caller's *offset
  offset,      \* *offset as the function leaves it
  pos, out, jumped, jumps,   \* its locals (nout is the length of out)
  ret,         \* "run", or the value returned: "ok" or "fail"
  readTo,      \* bytes of the message up to the last one read
  wroteTo      \* bytes of the buffer up to the last one written

vars == <<msg, start, offset, pos, out, jumped, jumps, ret, readTo, wroteTo>>

msglen == Len(msg)
nout == Len(out)

\* The byte at a place of the message; what lies behind it is never looked at,
\* see InBounds.
At(p) == IF p < msglen THEN msg[p + 1] ELSE 0

len == At(pos)

Init ==
  /\ msg \in Messages
  /\ start \in 0 .. Len(msg)
  /\ offset = start /\ pos = start
  /\ out = <<>> /\ jumped = FALSE /\ jumps = 0
  /\ ret = "run" /\ readTo = 0 /\ wroteTo = 0

Highest(a, b) == IF a > b THEN a ELSE b

\* A round reads the bytes up to the k-th and writes the buffer up to the n-th.
Touches(k, n) ==
  /\ readTo' = Highest(readTo, k)
  /\ wroteTo' = Highest(wroteTo, n)

Fails ==
  /\ ret' = "fail"
  /\ UNCHANGED <<msg, start, offset, pos, out, jumped, jumps>>

\* Labels and pointers both count as a round.
Counted == jumps' = jumps + 1

\* The in-place part of the name ends behind the first pointer or the root.
EndsAt(end) == IF jumped THEN UNCHANGED offset ELSE offset' = end

\* A pointer: two bytes, the second with the low part of the target.
ReadPointer ==
  /\ len >= PtrBase
  /\ IF pos + 1 >= msglen
     THEN Fails /\ Touches(pos + 1, 0)
     ELSE LET ptr == (len - PtrBase) * Base + At(pos + 1)
          IN /\ Touches(pos + 2, 0)
             /\ IF ptr >= msglen
                THEN Fails
                ELSE /\ EndsAt(pos + 2)
                     /\ jumped' = TRUE /\ pos' = ptr
                     /\ Counted
                     /\ UNCHANGED <<msg, start, out, ret>>

\* The two reserved forms of a length byte.
ReadReserved ==
  /\ len > MaxLabel /\ len < PtrBase
  /\ Fails /\ Touches(pos + 1, 0)

\* The root label ends the name, which is "." when nothing came before it.
ReadRoot ==
  /\ len = 0
  /\ EndsAt(pos + 1)
  /\ out' = IF out = <<>> THEN <<Dot>> ELSE out
  /\ ret' = IF Len(out') >= OutLen THEN "fail" ELSE "ok"
  /\ Touches(pos + 1, IF Len(out') >= OutLen THEN OutLen ELSE Len(out') + 1)
  /\ pos' = pos + 1
  /\ UNCHANGED <<msg, start, jumped, jumps>>

Lower(ch) == IF ch \in Upper THEN ch + Shift ELSE ch

LabelInside(p) == p + len <= msglen

TextFits(sep) == nout + sep + len < OutLen

\* A label, with a dot in front when it is not the first.
ReadLabel ==
  /\ len > 0 /\ len <= MaxLabel
  /\ LET sep == IF out = <<>> THEN 0 ELSE 1
     IN IF ~LabelInside(pos + 1) \/ ~TextFits(sep)
        THEN Fails /\ Touches(pos + 1, 0)
        ELSE /\ out' = out \o (IF sep = 1 THEN <<Dot>> ELSE <<>>)
                           \o [i \in 1 .. len |-> Lower(At(pos + i))]
             /\ Touches(pos + 1 + len, Len(out'))
             /\ pos' = pos + 1 + len
             /\ jumps' = jumps + 1
             /\ UNCHANGED <<msg, start, offset, jumped, ret>>

\* No rounds left, or nothing left to read.
GivesUp ==
  /\ jumps = Rounds \/ pos >= msglen
  /\ Fails /\ Touches(0, 0)

Round ==
  /\ ret = "run"
  /\ \/ GivesUp
     \/ /\ jumps < Rounds /\ pos < msglen
        /\ ReadPointer \/ ReadReserved \/ ReadRoot \/ ReadLabel

Next == Round

Spec == Init /\ [][Next]_vars

-----------------------------------------------------------------------------
(* The name that a message holds at a place, by the rules of RFC 1035 rather *)
(* than by the loop: its labels when it ends within n labels and pointers.   *)

Labels(m) ==
  LET name[n \in 0 .. Rounds, p \in 0 .. MaxLen] ==
        LET b == m[p + 1]
            tail(q) == IF q <= Len(m) THEN name[n - 1, q] ELSE {}
        IN CASE n = 0 \/ p >= Len(m) -> {}
             [] OTHER ->
                CASE b = 0 -> {<<>>}
                  [] b \in 1 .. MaxLabel ->
                       {<<SubSeq(m, p + 2, p + 1 + b)>> \o l : l \in tail(p + 1 + b)}
                  [] b >= PtrBase /\ p + 1 < Len(m) ->
                       tail((b - PtrBase) * Base + m[p + 2])
                  [] OTHER -> {}
  IN name

\* The labels with dots between them, in lower case.
Text(labels) ==
  IF labels = <<>> THEN <<Dot>>
  ELSE LET word(l) == [i \in DOMAIN l |-> Lower(l[i])]
       IN FoldLeft(LAMBDA t, l : t \o <<Dot>> \o word(l), word(labels[1]),
                   Tail(labels))

\* The texts of the name at start that the buffer holds with its NUL: at most one.
Expected ==
  {t \in {Text(l) : l \in Labels(msg)[Rounds, start]} : Len(t) < OutLen}

\* The first place behind start that is behind a pointer or a root label.
RECURSIVE InPlaceEnd(_, _)
InPlaceEnd(m, p) ==
  IF m[p + 1] >= PtrBase THEN p + 2
  ELSE IF m[p + 1] = 0 THEN p + 1 ELSE InPlaceEnd(m, p + 1 + m[p + 1])

-----------------------------------------------------------------------------
(* Properties *)

\* dns_read_name() reads inside the message and writes inside the buffer, for
\* every message, also one cut off inside a label or a pointer.
InBounds == readTo <= msglen /\ wroteTo <= OutLen

\* It accepts exactly the names the message holds that end in time and fit, with
\* their text in lower case, and leaves *offset behind the name where the caller
\* goes on reading.
DecodesName ==
  ret # "run" =>
    /\ (ret = "ok") = (Expected # {})
    /\ ret = "ok" => out \in Expected /\ offset = InPlaceEnd(msg, start)

\* Both, for every message; and the loop returns in Rounds rounds, a pointer to
\* itself included.
NameDecoded == InBounds /\ DecodesName /\ jumps <= Rounds
=============================================================================
