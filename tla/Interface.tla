----------------------------- MODULE Interface -----------------------------
(***************************************************************************)
(* The one network interface of lwIP (netif.c), its IPv6 neighbour         *)
(* discovery (nd6.c), and how core_init and core_deinit bring it up and    *)
(* take it away.                                                           *)
(*                                                                         *)
(* The neighbour cache, the default routers, which point into it, and the  *)
(* on-link prefixes are arrays of fixed size.  Nothing fills the           *)
(* destination cache: only nd6_get_next_hop_entry makes its entries, for   *)
(* link layers that resolve addresses, and a TUN device does not.  Its     *)
(* zeroed entries are found for the unspecified address alone; a redirect  *)
(* or a "packet too big" writes a next hop or a path MTU there that nobody *)
(* reads.  Link-layer addresses (of length 0 here), the packets sent, the  *)
(* MTU and the advertised values of the two other timers are left out.     *)
(***************************************************************************)
EXTENDS Naturals, Sequences, FiniteSets

CONSTANTS Addrs,           \* addresses of neighbours, other than AnyAddr
          PrefixSet,        \* prefixes routers advertise
          Neighbors,       \* LWIP_ND6_NUM_NEIGHBORS
          Routers,         \* LWIP_ND6_NUM_ROUTERS
          PrefixSlots,     \* LWIP_ND6_NUM_PREFIXES
          MaxSolicit,      \* LWIP_ND6_MAX_MULTICAST_SOLICIT
          DelayTime,       \* LWIP_ND6_DELAY_FIRST_PROBE_TIME, in ticks
          ReachableTime,   \* LWIP_ND6_REACHABLE_TIME, in ticks
          Lifetime,        \* bound: an advertised router's lifetime, in ticks
          ValidLife        \* bound: an advertised prefix's lifetime

NULL == "NULL"
AnyAddr == "any"
Least(a, b) == IF a <= b THEN a ELSE b

\* Sizes and times are natural numbers.  Addrs are the specified addresses;
\* messages about the unspecified one, which is that of a free slot too, are
\* in Messages beside them.
NdAssumption ==
  /\ AnyAddr \notin Addrs
  /\ {Neighbors, Routers, MaxSolicit, DelayTime, ReachableTime, Lifetime} \subseteq Nat

NoEntry == [state |-> "NO_ENTRY", addr |-> AnyAddr, isrouter |-> FALSE,
            netif |-> FALSE, counter |-> 0]
NoRouter == [entry |-> 0, timer |-> 0]
NoPrefix == [prefix |-> NULL, netif |-> FALSE, timer |-> 0]

\* The state "s": the interface, the tables of neighbour discovery, and the
\* local addresses of connections that have no forward, open and reset.
Nothing ==
  [netif |-> [ip4 |-> AnyAddr, ip6 |-> AnyAddr, valid |-> FALSE, up |-> FALSE,
              link |-> FALSE, default |-> FALSE],
   nc |-> [i \in 1 .. Neighbors |-> NoEntry],
   dr |-> [r \in 1 .. Routers |-> NoRouter],
   pl |-> [p \in 1 .. PrefixSlots |-> NoPrefix],
   pcbs |-> {},
   reset |-> {}]

----------------------------------------------------------------------------
(* The neighbour cache.                                                    *)

Lowest(S) == CHOOSE i \in S : \A j \in S : i <= j
Highest(S) == CHOOSE i \in S : \A j \in S : i >= j
LowestOr0(S) == IF S = {} THEN 0 ELSE Lowest(S)
HighestOr0(S) == IF S = {} THEN 0 ELSE Highest(S)

\* State is not looked at: the unspecified address finds a free slot.
nd6_find_neighbor_cache_entry(s, a) ==
  LowestOr0({i \in 1 .. Neighbors : s.nc[i].addr = a})

nd6_free_neighbor_cache_entry(s, i) ==
  IF s.nc[i].isrouter THEN s ELSE [s EXCEPT !.nc[i] = NoEntry]

\* The entries that may be given up.
InState(s, q) == {i \in 1 .. Neighbors : s.nc[i].state = q /\ ~s.nc[i].isrouter}
LeastCount(s, S) == {i \in S : \A j \in S : s.nc[i].counter <= s.nc[j].counter}
MostCount(s, S) == {i \in S : \A j \in S : s.nc[i].counter >= s.nc[j].counter}

\* The slot for a new entry: a free one, or the least useful entry that is
\* not a router's, 0 if there is none.
Slot(s) ==
  LET choices == << LowestOr0({i \in 1 .. Neighbors : s.nc[i].state = "NO_ENTRY"}),
                    LowestOr0(InState(s, "STALE")),
                    LowestOr0(InState(s, "PROBE")),
                    LowestOr0(InState(s, "DELAY")),
                    LowestOr0(LeastCount(s, InState(s, "REACHABLE"))),
                    HighestOr0(MostCount(s, InState(s, "INCOMPLETE"))) >>
  IN  choices[LowestOr0({k \in 1 .. 5 : choices[k] # 0} \cup {6})]

FreedFor(s, i) ==
  [i |-> i, s |-> IF i = 0 THEN s ELSE nd6_free_neighbor_cache_entry(s, i)]

nd6_new_neighbor_cache_entry(s) == FreedFor(s, Slot(s))

Entry(s, i, a, state, counter) ==
  [s EXCEPT !.nc[i] = [state |-> state, addr |-> a, isrouter |-> @.isrouter,
                       netif |-> TRUE, counter |-> counter]]

----------------------------------------------------------------------------
(* Routers and prefixes.                                                   *)

nd6_get_router(s, a) ==
  LowestOr0({r \in 1 .. Routers :
               /\ s.dr[r].entry # 0
               /\ s.nc[s.dr[r].entry].netif
               /\ s.nc[s.dr[r].entry].addr = a})

\* The router's neighbour, found or made.
Made(n, a) ==
  IF n.i = 0 THEN n
  ELSE [n EXCEPT !.s = Entry(n.s, n.i, a, "INCOMPLETE", 1)]

Neighbor(s, a, old) ==
  IF old # 0 THEN [i |-> old, s |-> s]
  ELSE Made(nd6_new_neighbor_cache_entry(s), a)

\* Its slot in the list of routers: the one it has, or a free one.
RouterSlot(s, i) ==
  LET mine == {r \in 1 .. Routers : s.dr[r].entry = i}
      free == {r \in 1 .. Routers : s.dr[r].entry = 0}
  IN  IF mine # {} THEN Highest(mine) ELSE LowestOr0(free)

Listed(s, i, r) ==
  [r |-> r,
   s |-> IF r = 0 THEN [s EXCEPT !.nc[i].isrouter = FALSE]
         ELSE [s EXCEPT !.nc[i].isrouter = TRUE, !.dr[r].entry = i]]

AsRouter(n) ==
  IF n.i = 0 THEN [r |-> 0, s |-> n.s]
  ELSE Listed(n.s, n.i, RouterSlot(n.s, n.i))

nd6_new_router(s, a) ==
  AsRouter(Neighbor(s, a, nd6_find_neighbor_cache_entry(s, a)))

nd6_get_onlink_prefix(pl, x) ==
  LowestOr0({p \in 1 .. PrefixSlots : pl[p].prefix = x /\ pl[p].netif})

\* The slot for a new one, 0 if there is none.
nd6_new_onlink_prefix(pl) ==
  LowestOr0({p \in 1 .. PrefixSlots : ~pl[p].netif \/ pl[p].timer = 0})

----------------------------------------------------------------------------
(* The messages.  The lengths, the hop limit, the code and the source are   *)
(* checked first; a message that fails changes nothing.                    *)

\* A group advertisement changes link-layer addresses only.
nd6_input_NA(s, m) ==
  LET i == nd6_find_neighbor_cache_entry(s, m.target)
      wanted == m.override \/ s.nc[i].state = "INCOMPLETE"
  IN  IF m.group \/ i = 0 THEN s
      ELSE IF wanted /\ ~m.lladdr THEN s
      ELSE Entry(s, i, m.target, "REACHABLE", ReachableTime)

\* The neighbour that asked is about to be used.
Delayed(n, a) == IF n.i = 0 THEN n.s ELSE Entry(n.s, n.i, a, "DELAY", DelayTime)

Asked(s, a, i) ==
  CASE i = 0 -> Delayed(nd6_new_neighbor_cache_entry(s), a)
    [] i # 0 /\ s.nc[i].state = "INCOMPLETE" -> Entry(s, i, a, "DELAY", DelayTime)
    [] i # 0 /\ s.nc[i].state # "INCOMPLETE" -> s

\* The target must be the interface's address.  A question from nobody, and
\* one without a link-layer address, make no entry.
nd6_input_NS(s, m) ==
  IF \/ ~s.netif.valid \/ m.target # s.netif.ip6
     \/ m.src = AnyAddr \/ ~m.lladdr
    THEN s
    ELSE Asked(s, m.src, nd6_find_neighbor_cache_entry(s, m.src))

\* The options of a router advertisement.
SourceLladdr(s, r) ==
  LET i == s.dr[r].entry
  IN  IF i # 0 /\ s.nc[i].state = "INCOMPLETE"
        THEN [s EXCEPT !.nc[i].state = "REACHABLE", !.nc[i].counter = ReachableTime]
        ELSE s

PrefixInfo(pl, o) ==
  LET old == nd6_get_onlink_prefix(pl, o.prefix)
      p   == IF old = 0 /\ o.life > 0 THEN nd6_new_onlink_prefix(pl) ELSE old
  IN  IF p = 0 THEN pl
      ELSE [pl EXCEPT ![p] = [prefix |-> o.prefix, netif |-> TRUE, timer |-> o.life]]

\* The options are read in order; the first of a wrong length ends the
\* message, and what the ones before it changed stays.  A link-layer address
\* and a prefix change different tables, and a second address changes nothing.
Options(s, r, opts) ==
  LET n    == CHOOSE n \in 0 .. Len(opts) :
                /\ \A k \in 1 .. n : opts[k].kind # "lenerr"
                /\ n < Len(opts) => opts[n + 1].kind = "lenerr"
      slla == \E k \in 1 .. n : opts[k].kind = "slla"
      pl[k \in 0 .. n] ==
        IF k = 0 THEN s.pl
        ELSE IF opts[k].kind = "prefix" THEN PrefixInfo(pl[k - 1], opts[k])
        ELSE pl[k - 1]
  IN  [(IF slla THEN SourceLladdr(s, r) ELSE s) EXCEPT !.pl = pl[n]]

FromRouter(n, m) ==
  IF n.r = 0 THEN n.s
  ELSE Options([n.s EXCEPT !.dr[n.r].timer = m.lifetime], n.r, m.opts)

RouterFor(s, a, old) ==
  IF old # 0 THEN [r |-> old, s |-> s] ELSE nd6_new_router(s, a)

nd6_input_RA(s, m) ==
  FromRouter(RouterFor(s, m.src, nd6_get_router(s, m.src)), m)

\* Only the unspecified destination is found.  The target's link-layer address
\* makes it a neighbour, as if it had asked.
nd6_input_RD(s, m) ==
  IF m.dest # AnyAddr \/ ~m.lladdr THEN s
  ELSE Asked(s, m.target, nd6_find_neighbor_cache_entry(s, m.target))

\* A "packet too big" changes a path MTU at most, a malformed message nothing.
nd6_input(s, m) ==
  CASE m.type = "NA" -> nd6_input_NA(s, m)
    [] m.type = "NS" -> nd6_input_NS(s, m)
    [] m.type = "RA" -> nd6_input_RA(s, m)
    [] m.type = "RD" -> nd6_input_RD(s, m)
    [] m.type \in {"PTB", "malformed"} -> s

----------------------------------------------------------------------------
(* nd6_tmr, once a second: neighbours, routers, prefixes.  A router's      *)
(* probes are not limited; the count saturates at the bound.               *)

Probe(e) ==
  IF e.counter >= MaxSolicit /\ ~e.isrouter THEN NoEntry
  ELSE [e EXCEPT !.counter = Least(@ + 1, MaxSolicit)]

NeighborTick(e) ==
  CASE e.state \in {"INCOMPLETE", "PROBE"} -> Probe(e)
    [] e.state = "REACHABLE" ->
         IF e.counter <= 1 THEN [e EXCEPT !.state = "STALE", !.counter = 0]
         ELSE [e EXCEPT !.counter = @ - 1]
    [] e.state = "DELAY" ->
         IF e.counter <= 1 THEN [e EXCEPT !.state = "PROBE", !.counter = 0]
         ELSE [e EXCEPT !.counter = @ - 1]
    [] OTHER -> e

Expired(d) == d.entry # 0 /\ d.timer <= 1

RouterTick(d) ==
  IF d.entry = 0 THEN d
  ELSE IF Expired(d) THEN NoRouter ELSE [d EXCEPT !.timer = @ - 1]

\* Mutant: the cache entry of a router that expired stays marked.
UnlistedNone(s) == {}

\* The cache entries of the routers that expire: no longer isrouter.
Unlisted(s) ==
  {s.dr[r].entry : r \in {q \in 1 .. Routers : Expired(s.dr[q])}}

PrefixTick(x) ==
  IF ~x.netif THEN x
  ELSE IF x.timer <= 1 THEN [x EXCEPT !.timer = 0, !.netif = FALSE]
  ELSE [x EXCEPT !.timer = @ - 1]

nd6_tmr(s) ==
  LET gone == Unlisted(s)
      tick(i) == [NeighborTick(s.nc[i]) EXCEPT !.isrouter = @ /\ i \notin gone]
  IN  [s EXCEPT !.nc = [i \in 1 .. Neighbors |-> tick(i)],
                !.dr = [r \in 1 .. Routers |-> RouterTick(@[r])],
                !.pl = [p \in 1 .. PrefixSlots |-> PrefixTick(@[p])]]

\* Everything that refers to the interface goes with it.
nd6_cleanup_netif(s) ==
  LET gone(i) == s.nc[i].netif
  IN  [s EXCEPT
         !.pl = [p \in 1 .. PrefixSlots |->
                   [prefix |-> @[p].prefix, netif |-> FALSE, timer |-> @[p].timer]],
         !.dr = [r \in 1 .. Routers |->
                   IF @[r].entry # 0 /\ gone(@[r].entry)
                     THEN [@[r] EXCEPT !.entry = 0] ELSE @[r]],
         !.nc = [i \in 1 .. Neighbors |-> IF gone(i) THEN NoEntry ELSE @[i]]]

----------------------------------------------------------------------------
(* netif.c                                                                 *)

\* A connection from an address that is going away is aborted: its peer is
\* reset, if there is a route, and it leaves the list.
netif_do_ip_addr_changed(s, old) ==
  LET route == s.netif.default /\ s.netif.up /\ s.netif.link
  IN  IF old = AnyAddr \/ old \notin s.pcbs THEN s
      ELSE [s EXCEPT !.pcbs = @ \ {old},
                     !.reset = IF route THEN @ \cup {old} ELSE @]

netif_do_set_ipaddr(s, a) ==
  IF a = s.netif.ip4 THEN s
  ELSE [netif_do_ip_addr_changed(s, s.netif.ip4) EXCEPT !.netif.ip4 = a]

netif_add(s, a) ==
  netif_do_set_ipaddr(
    [s EXCEPT !.netif = [ip4 |-> AnyAddr, ip6 |-> AnyAddr, valid |-> FALSE, up |-> FALSE,
                         link |-> FALSE, default |-> @.default]], a)

netif_set_default(s, on) == [s EXCEPT !.netif.default = on]
netif_set_link_up(s) == [s EXCEPT !.netif.link = TRUE]
netif_set_up(s) == [s EXCEPT !.netif.up = TRUE]

netif_set_down(s) ==
  IF s.netif.up THEN nd6_cleanup_netif([s EXCEPT !.netif.up = FALSE]) ELSE s

netif_ip6_addr_set(s, a) ==
  [(IF s.netif.valid /\ a # s.netif.ip6
      THEN netif_do_ip_addr_changed(s, s.netif.ip6) ELSE s)
   EXCEPT !.netif.ip6 = a]

netif_ip6_addr_set_state(s, valid) ==
  [(IF s.netif.valid /\ ~valid THEN netif_do_ip_addr_changed(s, s.netif.ip6)
    ELSE s)
   EXCEPT !.netif.valid = valid]

netif_remove(s) ==
  LET four == netif_do_ip_addr_changed(s, s.netif.ip4)
      six  == IF four.netif.valid
                THEN netif_do_ip_addr_changed(four, four.netif.ip6) ELSE four
  IN  netif_set_default(netif_set_down(six), FALSE)

\* core_init: the interface is added, made the default, linked, brought up,
\* and given its IPv6 address with the option -6.
core_init(s, ipv6) ==
  LET up == netif_set_up(netif_set_link_up(
              netif_set_default(netif_add(s, "own4"), TRUE)))
  IN  IF ipv6 THEN netif_ip6_addr_set_state(netif_ip6_addr_set(up, "own6"), TRUE)
      ELSE up

----------------------------------------------------------------------------
VARIABLES phase,     \* "init", "run", "done"
          s,         \* the state
          outlived   \* the connections there were at the end

vars == <<phase, s, outlived>>

Options1 == [kind : {"slla"}]
            \cup [kind : {"prefix"}, prefix : PrefixSet, life : {0, ValidLife}]

Messages ==
  [type : {"NA"}, group : BOOLEAN, target : Addrs \cup {AnyAddr}, override : BOOLEAN,
   lladdr : BOOLEAN]
  \cup [type : {"NS"}, src : Addrs \cup {AnyAddr}, target : {"own6", "other"},
        lladdr : BOOLEAN]
  \cup [type : {"RA"}, src : Addrs, lifetime : {0, Lifetime},
        opts : {<< >>, <<[kind |-> "slla"], [kind |-> "lenerr"]>>}
               \cup {<<o>> : o \in Options1}
               \cup {<<[kind |-> "lenerr"],
                       [kind |-> "prefix", prefix |-> x, life |-> ValidLife]>> :
                       x \in PrefixSet}]
  \cup [type : {"RD"}, dest : {AnyAddr, "other"}, target : Addrs \cup {AnyAddr},
        lladdr : BOOLEAN]
  \cup [type : {"PTB", "malformed"}]

Init ==
  /\ phase = "init"
  /\ s = Nothing
  /\ outlived = {}

Setup ==
  /\ phase = "init"
  /\ \E ipv6 \in BOOLEAN : s' = core_init(s, ipv6)
  /\ phase' = "run"
  /\ UNCHANGED outlived

Message ==
  /\ phase = "run"
  /\ \E m \in Messages : s' = nd6_input(s, m)
  /\ UNCHANGED <<phase, outlived>>

Tick ==
  /\ phase = "run"
  /\ s' = nd6_tmr(s)
  /\ UNCHANGED <<phase, outlived>>

\* core_deinit, the forwards being destroyed.  Connections that a forward
\* closed stay in the list until their peers have closed too.
Deinit ==
  /\ phase = "run"
  /\ outlived' \in SUBSET {"own4", "own6", "host"}
  /\ "own6" \in outlived' => s.netif.valid
  /\ s' = netif_remove([s EXCEPT !.pcbs = outlived'])
  /\ phase' = "done"

Next == Setup \/ Message \/ Tick \/ Deinit

\* The timer fires while the loop runs.
Spec == Init /\ [][Next]_vars /\ ([]<>(phase # "run") \/ []<><<Tick>>_vars)

----------------------------------------------------------------------------
Live(i) == s.nc[i].state # "NO_ENTRY"

\* The default routers point to live cache entries, each router to its own,
\* and exactly those entries are protected from recycling; a live entry has
\* the interface its probes are sent on, and an address is that of one live
\* entry.  An advertisement or a redirect for the unspecified address may
\* bring entries that have no address to life, but never a router's.
\* Recycling, expiry and messages in any order keep it so.
NeighborsSound ==
  /\ \A i \in 1 .. Neighbors :
       /\ s.nc[i].addr # AnyAddr => Live(i)
       /\ Live(i) <=> s.nc[i].netif
       /\ s.nc[i].isrouter <=> \E r \in 1 .. Routers : s.dr[r].entry = i
       /\ s.nc[i].isrouter => Live(i) /\ s.nc[i].addr # AnyAddr
       /\ \A j \in 1 .. Neighbors :
            s.nc[i].addr # AnyAddr /\ s.nc[i].addr = s.nc[j].addr => i = j
  /\ \A q, r \in 1 .. Routers :
       s.dr[q].entry # 0 /\ s.dr[q].entry = s.dr[r].entry => q = r

\* Once core_deinit is done, no table refers to the interface, which is freed
\* with the core, and the peers of the connections from its addresses have
\* been reset while it could still send.
RemovedClean ==
  phase = "done" =>
    /\ ~s.netif.default /\ ~s.netif.up
    /\ \A i \in 1 .. Neighbors : ~s.nc[i].netif
    /\ \A r \in 1 .. Routers : s.dr[r].entry = 0
    /\ \A p \in 1 .. PrefixSlots : ~s.pl[p].netif
    /\ s.pcbs = outlived \cap {"host"}
    /\ s.reset = outlived \ {"host"}

\* No table refers to an entry or an interface that is gone: NeighborsSound
\* while nsproxy runs, RemovedClean after core_deinit().
NoDanglingReference == NeighborsSound /\ RemovedClean

\* An entry that waits for its neighbour's answer does not wait for ever: it
\* is confirmed, gives its slot up or becomes a router's.  (A STALE entry waits
\* for nothing, and stays until its slot is needed.)
SilentNeighborLeaves ==
  \A i \in 1 .. Neighbors, a \in Addrs \cup {AnyAddr} :
    LET waiting == /\ s.nc[i].addr = a /\ ~s.nc[i].isrouter
                   /\ s.nc[i].state \in {"INCOMPLETE", "DELAY", "PROBE"}
    IN  waiting ~> ~waiting
=============================================================================
