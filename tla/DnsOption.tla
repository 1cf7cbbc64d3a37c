----------------------------- MODULE DnsOption -----------------------------
(***************************************************************************)
(* The address of option -d after "tcp://" or "udp://", as main() parses it *)
(* (src/main.c).  The text is a sequence of characters, the parser one step *)
(* that returns or exits with an error.                                     *)
(***************************************************************************)
EXTENDS Integers, Sequences, SequencesExt

CONSTANTS
  Chars,     \* characters of the text
  MaxText,   \* bound: length of the text
  Digit,     \* digit character -> its value
  MaxPort,   \* 65535 in the code
  SERVNAME_MAXLEN,  \* 255 in the code
  DefaultPort

VARIABLES sv,      \* the text
          phase,   \* "parse", then "ok" or "exit"
          dnssrv, dnsport

vars == <<sv, phase, dnssrv, dnsport>>

Init ==
  /\ sv \in UNION {[1 .. n -> Chars] : n \in 0 .. MaxText}
  /\ phase = "parse" /\ dnssrv = <<>> /\ dnsport = 0

\* strchr() and strrchr(): the first or the last place from i on, 0 for NULL.
FirstFrom(i, ch) == SelectInSubSeq(sv, i, Len(sv), LAMBDA c : c = ch)
LastFrom(i, ch) == SelectLastInSubSeq(sv, i, Len(sv), LAMBDA c : c = ch)
Char(i) == IF i \in DOMAIN sv THEN sv[i] ELSE "NUL"

\* strtol() up to the end of the text: -1 when it stops before.
Number(i) ==
  LET text == SubSeq(sv, i, Len(sv))
  IN IF ToSet(text) \subseteq DOMAIN Digit
     THEN FoldLeft(LAMBDA n, c : 10 * n + Digit[c], 0, text)
     ELSE -1

GoodPort(n) == n > 0 /\ n <= MaxPort

Exits == phase' = "exit" /\ UNCHANGED <<sv, dnssrv, dnsport>>

GoodLength(iplen) == iplen # 0 /\ iplen <= SERVNAME_MAXLEN

\* The part after the address: [ipbegin, ipend) is the address, sep the colon.
ParseRest(ipbegin, ipend, sep) ==
  LET port == IF sep = 0 THEN DefaultPort ELSE Number(sep + 1)
  IN IF ~GoodLength(ipend - ipbegin) \/ ~GoodPort(port)
     THEN Exits
     ELSE /\ phase' = "ok" /\ UNCHANGED sv
          /\ dnssrv' = SubSeq(sv, ipbegin, ipend - 1) /\ dnsport' = port

\* What may follow the closing bracket, in the words of the condition.
BadAfterBracket(ch) == ch # "NUL" \/ ch # ":"

ParseBracketed ==
  /\ Char(1) = "["
  /\ LET ipend == FirstFrom(2, "]")
     IN IF ipend = 0 \/ BadAfterBracket(Char(ipend + 1))
        THEN Exits
        ELSE ParseRest(2, ipend, FirstFrom(ipend + 1, ":"))

TwoColons(sep) == sep # LastFrom(1, ":")

ParsePlain ==
  /\ Char(1) # "["
  /\ LET sep == FirstFrom(1, ":")
     IN IF TwoColons(sep)
        THEN Exits
        ELSE ParseRest(1, IF sep # 0 THEN sep ELSE Len(sv) + 1, sep)

Next == phase = "parse" /\ (ParseBracketed \/ ParsePlain)

Spec == Init /\ [][Next]_vars

-----------------------------------------------------------------------------
(* Properties *)

Words(S) == UNION {[1 .. n -> S] : n \in 1 .. SERVNAME_MAXLEN}
Port == {p \in Words(DOMAIN Digit) :
           LET n == FoldLeft(LAMBDA m, c : 10 * m + Digit[c], 0, p)
           IN n \in 1 .. MaxPort}

\* "IPv6 addresses must be enclosed in brackets (e.g. udp://[::1]:53)": an address
\* in brackets, alone or with a port, is accepted.
BracketedForm ==
  phase = "exit" =>
    ~\E h \in Words(Chars \ {"[", "]"}), p \in Port :
       sv \in {<<"[">> \o h \o <<"]">>, <<"[">> \o h \o <<"]", ":">> \o p}
=============================================================================
