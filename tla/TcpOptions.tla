----------------------------- MODULE TcpOptions -----------------------------
(***************************************************************************)
(* tcp_parseopt() of lwip/tcp_in.c: the options of a TCP header, which may  *)
(* go on in a second pbuf and end anywhere.  A new connection learns its    *)
(* segment size and its window scale from them.                             *)
(***************************************************************************)
EXTENDS Integers, Sequences, SequencesExt

CONSTANTS
  ByteRadix,        \* values of a byte: 256 in the code
  InitialMss,       \* INITIAL_MSS
  MaxMss,           \* TCP_MSS
  MaxScale,         \* the largest snd_scale, 14
  RcvScale,         \* TCP_RCV_SCALE
  FullWnd, ShortWnd \* TCP_WND, and what of it a pcb has without scaling

LWIP_TCP_OPT_EOL == 0
LWIP_TCP_OPT_NOP == 1
LWIP_TCP_OPT_MSS == 2
LWIP_TCP_OPT_WS == 3
LWIP_TCP_OPT_LEN_MSS == 4
LWIP_TCP_OPT_LEN_WS == 3
NULL == <<>>

VARIABLES
  opcb,  \* the fields of the struct tcp_pcb that options set
  segs   \* the segments that came in for it

vars == <<opcb, segs>>

----------------------------------------------------------------------------
\* A segment: its options as they were meant, the octets of the header behind
\* the fixed part and of the payload, how many of them the header length counts,
\* and how many lie in the first pbuf.
Opt(kind, value, octets) == [kind |-> kind, value |-> value, octets |-> octets]
Mss(n) == Opt("mss", n, <<2, 4, n \div ByteRadix, n % ByteRadix>>)
Scale(n) == Opt("scale", n, <<3, 3, n>>)

Options ==
  {Opt("end", 0, <<0>>), Opt("other", 0, <<1>>),      \* end, no operation
   Mss(0), Mss(MaxMss - 1), Mss(MaxMss + 1), Scale(1), Scale(MaxScale + 1),
   Opt("other", 0, <<5, 2>>), Opt("other", 0, <<5, 4, 3, 3>>),
   Opt("bad", 0, <<2, 3, 1, 1>>), Opt("bad", 0, <<3, 2, 1>>), Opt("bad", 0, <<5, 1>>),
   Opt("bad", 0, <<5, 0>>)}

Encoded(list) == FlattenSeq([k \in DOMAIN list |-> list[k].octets])

Segments(Lists) ==
  UNION {{[list |-> l, syn |-> syn, octets |-> Encoded(l), optlen |-> n, first |-> f] :
            syn \in BOOLEAN, n \in 0 .. Len(Encoded(l)), f \in {1, 3, Len(Encoded(l))}} :
         l \in Lists}

Lists == {<<a, b>> : a, b \in Options}
LaterLists == {<<Mss(1)>>, <<Scale(0)>>}

----------------------------------------------------------------------------
\* tcp_input(): the options are in the first pbuf, or go on in the second.
tcphdr_opt1len(g) == IF g.first >= g.optlen THEN g.optlen ELSE g.first
tcphdr_opt2(g) == IF g.first >= g.optlen THEN NULL ELSE SubSeq(g.octets, g.first + 1, Len(g.octets))

\* tcp_get_next_optbyte(): octet i, counted from 0.
Byte(g, i) ==
  IF tcphdr_opt2(g) = NULL \/ i < tcphdr_opt1len(g) THEN g.octets[i + 1]
  ELSE tcphdr_opt2(g)[i - tcphdr_opt1len(g) + 1]

SetMss(p, n) == [p EXCEPT !.mss = IF n > MaxMss \/ n = 0 THEN MaxMss ELSE n]

\* The scale is taken from the first SYN that has one; the window is whole then.
SetScale(p, g, n) ==
  IF g.syn /\ ~p.TF_WND_SCALE
  THEN [p EXCEPT !.snd_scale = IF n > MaxScale THEN MaxScale ELSE n,
                 !.rcv_scale = RcvScale, !.TF_WND_SCALE = TRUE, !.rcv_wnd = FullWnd,
                 !.sane = @ /\ p.rcv_wnd = ShortWnd]
  ELSE p

\* An option of a known kind at i has its length and ends inside the header.
Whole(g, i, len) == Byte(g, i + 1) = len /\ i + len <= g.optlen

\* Any other option is skipped by its length; one below 2 ends the parsing.
OtherBad(g, i) == Byte(g, i + 1) < 2
OtherEnd(g, i) == i + Byte(g, i + 1)

\* The loop of tcp_parseopt() from octet i on.
RECURSIVE ParseFrom(_, _, _)
ParseFrom(p, g, i) ==
  LET opt == Byte(g, i)
  IN IF i >= g.optlen \/ opt = LWIP_TCP_OPT_EOL THEN p
     ELSE IF opt = LWIP_TCP_OPT_NOP THEN ParseFrom(p, g, i + 1)
     ELSE IF opt = LWIP_TCP_OPT_MSS THEN
       IF Whole(g, i, LWIP_TCP_OPT_LEN_MSS)
       THEN ParseFrom(SetMss(p, Byte(g, i + 2) * ByteRadix + Byte(g, i + 3)), g, i + LWIP_TCP_OPT_LEN_MSS)
       ELSE p
     ELSE IF opt = LWIP_TCP_OPT_WS THEN
       IF Whole(g, i, LWIP_TCP_OPT_LEN_WS)
       THEN ParseFrom(SetScale(p, g, Byte(g, i + 2)), g, i + LWIP_TCP_OPT_LEN_WS)
       ELSE p
     ELSE IF OtherBad(g, i) THEN p
     ELSE ParseFrom(p, g, OtherEnd(g, i))

tcp_parseopt(p, g) == ParseFrom(p, g, 0)

\* tcp_alloc() and tcp_listen_input(), then tcp_process() while the connection
\* is not established: every segment is parsed.
Init ==
  /\ opcb = [mss |-> InitialMss, snd_scale |-> 0, rcv_scale |-> 0, TF_WND_SCALE |-> FALSE,
             rcv_wnd |-> ShortWnd, sane |-> TRUE]
  /\ segs = <<>>

Receive(g) ==
  /\ opcb' = tcp_parseopt(opcb, g)
  /\ segs' = Append(segs, g)

Next ==
  \/ segs = <<>> /\ \E g \in Segments(Lists) : g.syn /\ Receive(g)
  \/ Len(segs) = 1 /\ \E g \in Segments(LaterLists) : Receive(g)

----------------------------------------------------------------------------
\* The options that count: those before the first that ends the list, is
\* malformed or does not end inside the header.
Counted(g) ==
  {k \in DOMAIN g.list :
     /\ Len(Encoded(SubSeq(g.list, 1, k))) <= g.optlen
     /\ \A j \in 1 .. k : g.list[j].kind \notin {"end", "bad"}}

Values(kind, Of(_)) ==
  FlattenSeq([s \in DOMAIN segs |->
     FlattenSeq([k \in DOMAIN segs[s].list |->
        IF k \in Counted(segs[s]) /\ segs[s].list[k].kind = kind /\ Of(segs[s])
        THEN <<segs[s].list[k].value>> ELSE <<>>])])

\* tcp_parseopt() learns what the whole options of the header say, wherever the
\* header ends and its first pbuf does and whatever follows it: the segment size
\* from the last, never zero and never above the own, the scale from the first
\* in a SYN, and no assertion fails.
OptionsLearned ==
  LET sizes == Values("mss", LAMBDA g : TRUE)
      scales == Values("scale", LAMBDA g : g.syn)
      Limited(n) == IF n \in 1 .. MaxMss THEN n ELSE MaxMss
  IN /\ opcb.mss = IF sizes = <<>> THEN InitialMss ELSE Limited(Last(sizes))
     /\ opcb.TF_WND_SCALE = (scales # <<>>)
     /\ opcb.snd_scale = IF scales = <<>> THEN 0
                         ELSE IF Head(scales) > MaxScale THEN MaxScale ELSE Head(scales)
     /\ opcb.rcv_wnd = IF scales = <<>> THEN ShortWnd ELSE FullWnd
     /\ opcb.sane
=============================================================================
