---------------------------- MODULE MCDnsOption ----------------------------
(* Brackets, the colon, a letter and two digits; ports up to 20.              *)
EXTENDS DnsOption
MCChars == {"[", "]", ":", "a", "0", "2"}
MCDigit == [c \in {"0", "2"} |-> IF c = "0" THEN 0 ELSE 2]
=============================================================================
