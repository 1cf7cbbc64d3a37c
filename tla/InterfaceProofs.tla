--------------------------- MODULE InterfaceProofs ---------------------------
(***************************************************************************)
(* NoDanglingReference of Interface, for tables of any size: a default       *)
(* router always points to a live entry of the neighbour cache, no entry     *)
(* that a router points to is recycled, and nothing refers to the interface  *)
(* once it is gone.                                                          *)
(*                                                                           *)
(* Good(t) is NeighborsSound for any state t, with the shape of the tables;  *)
(* there is a lemma for what each operation of nd6.c does to a good state.   *)
(***************************************************************************)
EXTENDS Interface, NatLemmas

LiveStates == {"INCOMPLETE", "REACHABLE", "STALE", "DELAY", "PROBE"}
Slots == 1 .. Neighbors
Lists == 1 .. Routers

Cache == [Slots -> [state : LiveStates \cup {"NO_ENTRY"}, addr : Addrs \cup {AnyAddr},
                    isrouter : BOOLEAN, netif : BOOLEAN, counter : Nat]]
List == [Lists -> [entry : Slots \cup {0}, timer : Nat]]

\* A record with these fields; nothing is said of prefixes and connections.
IsState(t) ==
  t = [netif |-> t.netif, nc |-> t.nc, dr |-> t.dr, pl |-> t.pl, pcbs |-> t.pcbs,
       reset |-> t.reset]

\* NeighborsSound of a cache nc and a list of routers dr.
EntrySound(e) ==
  /\ e.addr # AnyAddr => e.state # "NO_ENTRY"
  /\ (e.state # "NO_ENTRY") <=> e.netif
  /\ e.isrouter => e.state # "NO_ENTRY" /\ e.addr # AnyAddr

Marked(nc, dr) == \A i \in Slots : nc[i].isrouter <=> \E r \in Lists : dr[r].entry = i
Distinct(nc) ==
  \A i, j \in Slots : nc[i].addr # AnyAddr /\ nc[i].addr = nc[j].addr => i = j
Single(dr) == \A q, r \in Lists : dr[q].entry # 0 /\ dr[q].entry = dr[r].entry => q = r

Sound(nc, dr) ==
  /\ nc \in Cache /\ dr \in List
  /\ \A i \in Slots : EntrySound(nc[i])
  /\ Marked(nc, dr) /\ Distinct(nc) /\ Single(dr)

Good(t) == IsState(t) /\ Sound(t.nc, t.dr)

\* The interface as core_init() leaves it.
UpAndRunning(t) ==
  /\ t.netif = [ip4 |-> "own4", ip6 |-> t.netif.ip6, valid |-> t.netif.valid, up |-> TRUE,
                link |-> TRUE, default |-> TRUE]
  /\ t.netif.valid \in BOOLEAN /\ (t.netif.valid => t.netif.ip6 = "own6")
  /\ t.reset = {}

\* What nd6_input() and nd6_tmr() leave alone.
Kept(t, u) == u.netif = t.netif /\ u.reset = t.reset

IInv ==
  /\ phase \in {"init", "run", "done"}
  /\ Good(s)
  /\ phase = "init" => s = Nothing
  /\ phase = "run" => UpAndRunning(s)
  /\ RemovedClean

------------------------------------------------------------------------------
(* Slots of the tables *)

\* The lowest of a set of slots is one of them.
LEMMA LowestIn ==
  ASSUME NEW S \in SUBSET Nat, 0 \notin S
  PROVE  /\ S # {} => LowestOr0(S) \in S
         /\ S = {} <=> LowestOr0(S) = 0
<1>1. S # {} => \E i \in S : \A j \in S : i <= j
  BY LeastNat
<1> QED BY <1>1 DEF LowestOr0, Lowest

\* And the highest of a set of slots of a table.
LEMMA HighestIn ==
  ASSUME NEW S \in SUBSET Slots, Neighbors \in Nat
  PROVE  HighestOr0(S) \in S \cup {0}
<1>1. S # {} => \E i \in S : \A j \in S : j <= i
  <2>1. S \in SUBSET Nat /\ \A x \in S : x <= Neighbors
    BY DEF Slots
  <2> QED BY <2>1, GreatestNat
<1>2. S # {} => \E i \in S : \A j \in S : i >= j
  BY <1>1 DEF Slots
<1> QED BY <1>2 DEF HighestOr0, Highest

\* nd6_find_neighbor_cache_entry()
LEMMA FindGives ==
  ASSUME NdAssumption, NEW t, Good(t), NEW a \in Addrs \cup {AnyAddr}
  PROVE  LET i == nd6_find_neighbor_cache_entry(t, a) IN
         /\ i # 0 => /\ i \in Slots /\ t.nc[i].addr = a
                     /\ a # AnyAddr => t.nc[i].state # "NO_ENTRY"
         /\ i = 0 => \A j \in Slots : t.nc[j].addr # a
<1> DEFINE S == {i \in Slots : t.nc[i].addr = a}
<1>1. S \in SUBSET Nat /\ 0 \notin S
  BY DEF Slots, NdAssumption
<1>2. nd6_find_neighbor_cache_entry(t, a) = LowestOr0(S)
  BY DEF nd6_find_neighbor_cache_entry, Slots
<1>3. a # AnyAddr => \A i \in S : t.nc[i].state # "NO_ENTRY"
  BY DEF Good, Sound, EntrySound
<1> HIDE DEF S
<1>4. /\ S # {} => LowestOr0(S) \in S
      /\ S = {} <=> LowestOr0(S) = 0
  BY <1>1, LowestIn
<1> QED BY <1>1, <1>2, <1>3, <1>4 DEF S

\* The slot that nd6_new_neighbor_cache_entry() picks is no router's.
LEMMA SlotIsFree ==
  ASSUME NdAssumption, NEW t, Good(t)
  PROVE  Slot(t) = 0 \/ (Slot(t) \in Slots /\ ~t.nc[Slot(t)].isrouter)
<1> DEFINE Free == {i \in Slots : ~t.nc[i].isrouter}
           choice == << LowestOr0({i \in 1 .. Neighbors : t.nc[i].state = "NO_ENTRY"}),
                        LowestOr0(InState(t, "STALE")),
                        LowestOr0(InState(t, "PROBE")),
                        LowestOr0(InState(t, "DELAY")),
                        LowestOr0(LeastCount(t, InState(t, "REACHABLE"))),
                        HighestOr0(MostCount(t, InState(t, "INCOMPLETE"))) >>
<1>1. ASSUME NEW S \in SUBSET Free PROVE LowestOr0(S) \in Free \cup {0}
  <2>1. S \in SUBSET Nat /\ 0 \notin S
    BY DEF Slots, NdAssumption
  <2> QED BY <2>1, LowestIn
<1>2. ASSUME NEW S \in SUBSET Free PROVE HighestOr0(S) \in Free \cup {0}
  BY HighestIn DEF NdAssumption
<1>3. {i \in 1 .. Neighbors : t.nc[i].state = "NO_ENTRY"} \in SUBSET Free
  BY DEF Slots, Good, Sound, EntrySound
<1>4. \A q : InState(t, q) \in SUBSET Free
  BY DEF InState, Slots
<1>5. \A S : LeastCount(t, S) \subseteq S /\ MostCount(t, S) \subseteq S
  BY DEF LeastCount, MostCount
<1>6. \A k \in 1 .. 6 : choice[k] \in Free \cup {0}
  <2> HIDE DEF Free
  <2>1. choice[1] \in Free \cup {0}
    BY <1>1, <1>3
  <2>2. choice[2] \in Free \cup {0} /\ choice[3] \in Free \cup {0} /\ choice[4] \in Free \cup {0}
    BY <1>1, <1>4
  <2>3. LeastCount(t, InState(t, "REACHABLE")) \in SUBSET Free
    BY <1>4, <1>5
  <2>4. choice[5] \in Free \cup {0}
    BY <1>1, <2>3
  <2>5. MostCount(t, InState(t, "INCOMPLETE")) \in SUBSET Free
    BY <1>4, <1>5
  <2>6. choice[6] \in Free \cup {0}
    BY <1>2, <2>5
  <2> HIDE DEF choice
  <2> QED BY <2>1, <2>2, <2>4, <2>6
<1>7. Slot(t) = choice[LowestOr0({k \in 1 .. 5 : choice[k] # 0} \cup {6})]
  BY DEF Slot
<1> HIDE DEF choice, Free
<1>8. LowestOr0({k \in 1 .. 5 : choice[k] # 0} \cup {6}) \in 1 .. 6
  <2> DEFINE K == {k \in 1 .. 5 : choice[k] # 0} \cup {6}
  <2>1. K \in SUBSET Nat /\ 0 \notin K /\ K # {} /\ K \subseteq 1 .. 6
    OBVIOUS
  <2> HIDE DEF K
  <2>2. LowestOr0(K) \in K
    BY <2>1, LowestIn
  <2> QED BY <2>1, <2>2 DEF K
<1> QED BY <1>6, <1>7, <1>8 DEF Free

------------------------------------------------------------------------------
(* Entries of the cache *)

\* Writing one entry: enough that it is sound, shares its address, if it has
\* one, with no other, and stays marked as a router or not.
LEMMA WriteEntry ==
  ASSUME NEW nc, NEW dr, Sound(nc, dr), NEW i \in Slots, NEW e,
         e \in [state : LiveStates \cup {"NO_ENTRY"}, addr : Addrs \cup {AnyAddr},
                isrouter : BOOLEAN, netif : BOOLEAN, counter : Nat],
         EntrySound(e), e.isrouter = nc[i].isrouter,
         e.addr # AnyAddr => \A j \in Slots : nc[j].addr = e.addr => j = i
  PROVE  Sound([nc EXCEPT ![i] = e], dr)
<1> DEFINE new == [nc EXCEPT ![i] = e]
<1>1. new \in Cache /\ \A j \in Slots : new[j] = IF j = i THEN e ELSE nc[j]
  BY DEF Sound, Cache
<1> HIDE DEF new
<1>2. \A j \in Slots : EntrySound(new[j])
  BY <1>1 DEF Sound
<1>3. Marked(new, dr)
  BY <1>1 DEF Sound, Marked
<1>4. Distinct(new)
  <2> SUFFICES ASSUME NEW j \in Slots, NEW k \in Slots, new[j].addr # AnyAddr,
                      new[j].addr = new[k].addr
               PROVE  j = k
    BY DEF Distinct
  <2>1. CASE j = i /\ k # i
    BY <1>1, <2>1
  <2>2. CASE k = i /\ j # i
    BY <1>1, <2>2
  <2>3. CASE j # i /\ k # i
    BY <1>1, <2>3 DEF Sound, Distinct
  <2> QED BY <2>1, <2>2, <2>3
<1> QED BY <1>1, <1>2, <1>3, <1>4 DEF Sound, new

\* Entry(): an entry gets an address that no other has, or none if it is not
\* a router's.
LEMMA EntryGood ==
  ASSUME NdAssumption, NEW t, Good(t), NEW i \in Slots, NEW a \in Addrs \cup {AnyAddr},
         NEW st \in LiveStates, NEW c \in Nat,
         a # AnyAddr => \A j \in Slots : t.nc[j].addr = a => j = i,
         a = AnyAddr => ~t.nc[i].isrouter
  PROVE  LET u == Entry(t, i, a, st, c) IN
         /\ Good(u) /\ Kept(t, u) /\ u.dr = t.dr
         /\ u.nc[i].state # "NO_ENTRY" /\ u.nc[i].isrouter = t.nc[i].isrouter
         /\ u.nc[i].addr = a
<1> DEFINE u == Entry(t, i, a, st, c)
           e == [state |-> st, addr |-> a, isrouter |-> t.nc[i].isrouter, netif |-> TRUE,
                 counter |-> c]
<1>1. /\ t.nc \in Cache /\ t.nc[i].isrouter \in BOOLEAN /\ IsState(t)
      /\ t.nc[i] \in [state : LiveStates \cup {"NO_ENTRY"}, addr : Addrs \cup {AnyAddr},
                      isrouter : BOOLEAN, netif : BOOLEAN, counter : Nat]
  BY DEF Good, Sound, Cache
<1> DEFINE nc == [t.nc EXCEPT ![i] = e]
<1>0. u = [netif |-> t.netif, nc |-> nc, dr |-> t.dr, pl |-> t.pl, pcbs |-> t.pcbs,
           reset |-> t.reset]
  <2>1. u = [t EXCEPT !.nc = nc]
    BY <1>1 DEF Entry, IsState, Cache
  <2> HIDE DEF nc
  <2> QED BY <1>1, <2>1 DEF IsState
<1>2. u.nc = [t.nc EXCEPT ![i] = e]
  BY <1>0
<1>3. u.dr = t.dr /\ Kept(t, u) /\ IsState(u)
  BY <1>0 DEF IsState, Kept
<1>4. EntrySound(e) /\ e.state # "NO_ENTRY"
  BY DEF EntrySound, NdAssumption, LiveStates
<1>5. e \in [state : LiveStates \cup {"NO_ENTRY"}, addr : Addrs \cup {AnyAddr},
             isrouter : BOOLEAN, netif : BOOLEAN, counter : Nat]
  BY <1>1
<1>6. e.isrouter = t.nc[i].isrouter /\ e.addr = a
  OBVIOUS
<1> HIDE DEF u, e
<1>7. Sound(u.nc, u.dr)
  BY <1>2, <1>3, <1>4, <1>5, <1>6, WriteEntry DEF Good
<1>8. u.nc[i] = e
  BY <1>1, <1>2 DEF Cache
<1> QED BY <1>3, <1>4, <1>6, <1>7, <1>8 DEF Good, u

\* nd6_new_neighbor_cache_entry(): an empty entry, or none.
LEMMA NewEntry ==
  ASSUME NdAssumption, NEW t, Good(t)
  PROVE  LET n == nd6_new_neighbor_cache_entry(t) IN
         /\ Good(n.s) /\ Kept(t, n.s)
         /\ n.i # 0 => n.i \in Slots /\ ~n.s.nc[n.i].isrouter
         /\ \A a \in Addrs : (\A j \in Slots : t.nc[j].addr # a) =>
                             (\A j \in Slots : n.s.nc[j].addr # a)
<1> DEFINE i == Slot(t)
           n == nd6_new_neighbor_cache_entry(t)
<1>1. n = [i |-> i, s |-> IF i = 0 THEN t ELSE nd6_free_neighbor_cache_entry(t, i)]
  BY DEF nd6_new_neighbor_cache_entry, FreedFor
<1>2. i = 0 \/ (i \in Slots /\ ~t.nc[i].isrouter)
  BY SlotIsFree
<1> HIDE DEF i
<1>3. CASE i = 0
  BY <1>1, <1>3 DEF Kept
<1>4. CASE i # 0
  <2>1. i \in Slots /\ n.i = i /\ n.s = [t EXCEPT !.nc[i] = NoEntry]
    BY <1>1, <1>2, <1>4 DEF nd6_free_neighbor_cache_entry
  <2>2. IsState(t) /\ Sound(t.nc, t.dr) /\ t.nc \in Cache /\ t.nc[i].isrouter \in BOOLEAN
    BY <2>1 DEF Good, Sound, Cache
  <2>3. n.s.nc = [t.nc EXCEPT ![i] = NoEntry] /\ n.s.dr = t.dr /\ Kept(t, n.s) /\ IsState(n.s)
    BY <2>1, <2>2 DEF IsState, Kept
  <2>4. /\ NoEntry \in [state : LiveStates \cup {"NO_ENTRY"}, addr : Addrs \cup {AnyAddr},
                        isrouter : BOOLEAN, netif : BOOLEAN, counter : Nat]
        /\ EntrySound(NoEntry) /\ NoEntry.isrouter = t.nc[i].isrouter
        /\ NoEntry.state = "NO_ENTRY" /\ NoEntry.addr = AnyAddr /\ ~NoEntry.isrouter
    BY <1>2, <1>4, <2>2 DEF NoEntry, EntrySound
  <2>5. Sound(n.s.nc, n.s.dr)
    <3> HIDE DEF n
    <3> QED BY <2>1, <2>2, <2>3, <2>4, WriteEntry
  <2>6. \A j \in Slots : n.s.nc[j] = IF j = i THEN NoEntry ELSE t.nc[j]
    BY <2>2, <2>3 DEF Cache
  <2> HIDE DEF n
  <2>7. \A a \in Addrs : (\A j \in Slots : t.nc[j].addr # a) =>
                         (\A j \in Slots : n.s.nc[j].addr # a)
    BY <2>4, <2>6 DEF NdAssumption
  <2>8. ~n.s.nc[i].isrouter
    BY <2>1, <2>4, <2>6
  <2> QED BY <2>1, <2>3, <2>5, <2>7, <2>8 DEF Good, n
<1> QED BY <1>3, <1>4

------------------------------------------------------------------------------
(* Routers *)

\* Neighbor(): the router's entry, found or made, is live.
LEMMA NeighborGood ==
  ASSUME NdAssumption, NEW t, Good(t), NEW a \in Addrs
  PROVE  LET n == Neighbor(t, a, nd6_find_neighbor_cache_entry(t, a)) IN
         /\ Good(n.s) /\ Kept(t, n.s)
         /\ n.i # 0 => /\ n.i \in Slots /\ n.s.nc[n.i].state # "NO_ENTRY"
                       /\ n.s.nc[n.i].addr # AnyAddr
<1> DEFINE old == nd6_find_neighbor_cache_entry(t, a)
           new == nd6_new_neighbor_cache_entry(t)
<1>0. a # AnyAddr /\ a \in Addrs \cup {AnyAddr}
  BY DEF NdAssumption
<1>1. CASE old # 0
  <2>1. Neighbor(t, a, old) = [i |-> old, s |-> t]
    BY <1>1 DEF Neighbor
  <2>2. old \in Slots /\ t.nc[old].state # "NO_ENTRY" /\ t.nc[old].addr # AnyAddr
    BY <1>0, <1>1, FindGives
  <2> HIDE DEF old
  <2> QED BY <2>1, <2>2 DEF Kept, old
<1>2. CASE old = 0
  <2>1. Neighbor(t, a, old) = Made(new, a)
    BY <1>2 DEF Neighbor
  <2>2. \A j \in Slots : t.nc[j].addr # a
    BY <1>0, <1>2, FindGives
  <2>3. /\ Good(new.s) /\ Kept(t, new.s)
        /\ new.i # 0 => new.i \in Slots
        /\ \A j \in Slots : new.s.nc[j].addr # a
    BY <2>2, NewEntry
  <2>4. new = [i |-> new.i, s |-> new.s]
    BY DEF nd6_new_neighbor_cache_entry, FreedFor
  <2> HIDE DEF new, old
  <2>5. CASE new.i = 0
    BY <2>1, <2>3, <2>5 DEF Made, old
  <2>6. CASE new.i # 0
    <3> DEFINE u == Entry(new.s, new.i, a, "INCOMPLETE", 1)
    <3>1. Made(new, a) = [i |-> new.i, s |-> u]
      BY <2>4, <2>6 DEF Made
    <3>2. /\ Good(u) /\ Kept(new.s, u) /\ u.nc[new.i].state # "NO_ENTRY"
          /\ u.nc[new.i].addr = a
      <4>1. "INCOMPLETE" \in LiveStates /\ 1 \in Nat
        BY DEF LiveStates
      <4>2. \A j \in Slots : new.s.nc[j].addr = a => j = new.i
        BY <2>3
      <4> QED BY <1>0, <2>3, <2>6, <4>1, <4>2, EntryGood
    <3> HIDE DEF u
    <3> QED BY <1>0, <2>1, <2>3, <2>6, <3>1, <3>2 DEF Kept, old
  <2> QED BY <2>5, <2>6
<1> QED BY <1>1, <1>2

\* RouterSlot(): no other slot of the list points to the entry.
LEMMA RouterSlotGives ==
  ASSUME NdAssumption, NEW t, Good(t), NEW i \in Slots
  PROVE  LET r == RouterSlot(t, i) IN
         /\ r # 0 => /\ r \in Lists /\ t.dr[r].entry \in {0, i}
                     /\ \A q \in Lists : t.dr[q].entry = i => q = r
         /\ r = 0 => \A q \in Lists : t.dr[q].entry # i
<1> DEFINE mine == {r \in Lists : t.dr[r].entry = i}
           free == {r \in Lists : t.dr[r].entry = 0}
<1>1. RouterSlot(t, i) = IF mine # {} THEN Highest(mine) ELSE LowestOr0(free)
  BY DEF RouterSlot, Lists
<1>2. 0 \notin Slots /\ 0 \notin Lists
  BY DEF Slots, Lists, NdAssumption
<1>3. CASE mine # {}
  <2>1. PICK r \in Lists : mine = {r} /\ t.dr[r].entry = i
    BY <1>2, <1>3 DEF Good, Sound, Single
  <2>2. Highest(mine) = r
    <3>1. r >= r
      BY DEF Lists, NdAssumption
    <3> HIDE DEF mine
    <3> QED BY <2>1, <3>1 DEF Highest
  <2>3. \A q \in Lists : t.dr[q].entry = i => q = r
    BY <2>1
  <2> HIDE DEF mine
  <2> QED BY <1>1, <1>2, <1>3, <2>1, <2>2, <2>3
<1>4. CASE mine = {}
  <2>1. \A q \in Lists : t.dr[q].entry # i
    BY <1>4
  <2>2. free \in SUBSET Nat /\ 0 \notin free
    BY <1>2 DEF Lists, NdAssumption
  <2>3. \A r \in free : r \in Lists /\ t.dr[r].entry = 0
    OBVIOUS
  <2> HIDE DEF mine, free
  <2>4. free # {} => LowestOr0(free) \in free
    BY <2>2, LowestIn
  <2>5. free = {} => LowestOr0(free) = 0
    BY DEF LowestOr0
  <2> QED BY <1>1, <1>4, <2>1, <2>3, <2>4, <2>5
<1> QED BY <1>3, <1>4

\* A live entry with an address, and the only slot that points to it.
LEMMA ListRouter ==
  ASSUME NdAssumption, NEW nc, NEW dr, Sound(nc, dr), NEW i \in Slots, nc[i].state # "NO_ENTRY",
         nc[i].addr # AnyAddr, NEW r \in Lists, dr[r].entry \in {0, i}, \A q \in Lists : dr[q].entry = i => q = r
  PROVE  Sound([nc EXCEPT ![i].isrouter = TRUE], [dr EXCEPT ![r].entry = i])
<1> DEFINE nc2 == [nc EXCEPT ![i].isrouter = TRUE]
           dr2 == [dr EXCEPT ![r].entry = i]
<1>1. 0 \notin Slots
  BY DEF Slots
<1>2. /\ nc2 \in Cache /\ nc2[i].isrouter = TRUE
      /\ \A j \in Slots : /\ nc2[j].state = nc[j].state /\ nc2[j].addr = nc[j].addr
                          /\ nc2[j].netif = nc[j].netif
                          /\ j # i => nc2[j].isrouter = nc[j].isrouter
  BY DEF Sound, Cache
<1>3. dr2 \in List /\ \A q \in Lists : dr2[q].entry = IF q = r THEN i ELSE dr[q].entry
  BY DEF Sound, List
<1> HIDE DEF nc2, dr2
<1>4. \A j \in Slots : EntrySound(nc2[j])
  BY <1>2 DEF Sound, EntrySound
<1>5. Marked(nc2, dr2)
  <2> SUFFICES ASSUME NEW j \in Slots
               PROVE  nc2[j].isrouter <=> \E q \in Lists : dr2[q].entry = j
    BY DEF Marked
  <2>1. CASE j = i
    BY <1>2, <1>3, <2>1
  <2>2. CASE j # i
    <3>1. nc2[j].isrouter = nc[j].isrouter /\ (nc[j].isrouter <=> \E q \in Lists : dr[q].entry = j)
      BY <1>2, <2>2 DEF Sound, Marked
    <3>2. (\E q \in Lists : dr2[q].entry = j) <=> \E q \in Lists : dr[q].entry = j
      BY <1>1, <1>3, <2>2
    <3> QED BY <3>1, <3>2
  <2> QED BY <2>1, <2>2
<1>6. Distinct(nc2)
  BY <1>2 DEF Sound, Distinct
<1>7. Single(dr2)
  BY <1>1, <1>3 DEF Sound, Single
<1> QED BY <1>2, <1>3, <1>4, <1>5, <1>6, <1>7 DEF Sound, nc2, dr2

\* nd6_new_router(): a slot whose entry is live, or none.
LEMMA NewRouter ==
  ASSUME NdAssumption, NEW t, Good(t), NEW a \in Addrs
  PROVE  LET n == nd6_new_router(t, a) IN
         /\ Good(n.s) /\ Kept(t, n.s)
         /\ n.r # 0 => n.r \in Lists
<1> DEFINE n == Neighbor(t, a, nd6_find_neighbor_cache_entry(t, a))
           u == n.s
           i == n.i
           r == RouterSlot(u, i)
<1>1. nd6_new_router(t, a) = AsRouter(n)
  BY DEF nd6_new_router
<1>2. /\ Good(u) /\ Kept(t, u)
      /\ i # 0 => i \in Slots /\ u.nc[i].state # "NO_ENTRY" /\ u.nc[i].addr # AnyAddr
  BY NeighborGood
<1> HIDE DEF n
<1>3. CASE i = 0
  BY <1>1, <1>2, <1>3 DEF AsRouter
<1>4. CASE i # 0
  <2>1. AsRouter(n) = Listed(u, i, r)
    BY <1>4 DEF AsRouter
  <2>2. /\ r # 0 => /\ r \in Lists /\ u.dr[r].entry \in {0, i}
                    /\ \A q \in Lists : u.dr[q].entry = i => q = r
        /\ r = 0 => \A q \in Lists : u.dr[q].entry # i
    BY <1>2, <1>4, RouterSlotGives
  <2>3. /\ IsState(u) /\ Sound(u.nc, u.dr) /\ i \in Slots /\ u.nc[i].state # "NO_ENTRY"
        /\ u.nc[i].addr # AnyAddr
    BY <1>2, <1>4 DEF Good
  <2> HIDE DEF r, u, i
  <2>4. CASE r = 0
    <3>1. u.nc[i].isrouter = FALSE
      BY <2>2, <2>3, <2>4 DEF Sound, Marked, Cache
    <3>2. [u.nc EXCEPT ![i].isrouter = FALSE] = u.nc
      <4>1. [u.nc[i] EXCEPT !.isrouter = FALSE] = u.nc[i]
        BY <2>3, <3>1 DEF Sound, Cache
      <4> QED BY <2>3, <4>1 DEF Sound, Cache
    <3>3. Listed(u, i, r) = [r |-> 0, s |-> [u EXCEPT !.nc = [u.nc EXCEPT ![i].isrouter = FALSE]]]
      BY <2>4 DEF Listed
    <3>4. [u EXCEPT !.nc = u.nc] = u
      BY <2>3 DEF IsState
    <3>5. nd6_new_router(t, a) = [r |-> 0, s |-> u]
      BY <1>1, <2>1, <3>2, <3>3, <3>4
    <3> QED BY <1>2, <3>5 DEF u
  <2>5. CASE r # 0
    <3> DEFINE nc2 == [u.nc EXCEPT ![i].isrouter = TRUE]
               dr2 == [u.dr EXCEPT ![r].entry = i]
               v == [u EXCEPT !.nc[i].isrouter = TRUE, !.dr[r].entry = i]
    <3>1. Listed(u, i, r) = [r |-> r, s |-> v]
      BY <2>5 DEF Listed
    <3>2. Sound(nc2, dr2)
      BY <2>2, <2>3, <2>5, ListRouter
    <3>3. v = [netif |-> u.netif, nc |-> nc2, dr |-> dr2, pl |-> u.pl, pcbs |-> u.pcbs,
               reset |-> u.reset]
      <4>1. v = [u EXCEPT !.nc = nc2, !.dr = dr2]
        BY <2>3 DEF IsState
      <4> HIDE DEF nc2, dr2, v
      <4> QED BY <2>3, <4>1 DEF IsState
    <3> HIDE DEF nc2, dr2, v
    <3>4. Good(v) /\ Kept(u, v)
      BY <3>2, <3>3 DEF Good, IsState, Kept
    <3> QED BY <1>1, <1>2, <2>1, <2>2, <2>5, <3>1, <3>4 DEF Kept
  <2> QED BY <2>4, <2>5
<1> QED BY <1>3, <1>4

\* RouterFor(): the slot of a router that is known, or that of a new one.
LEMMA RouterForGood ==
  ASSUME NdAssumption, NEW t, Good(t), NEW a \in Addrs
  PROVE  LET n == RouterFor(t, a, nd6_get_router(t, a)) IN
         /\ Good(n.s) /\ Kept(t, n.s)
         /\ n.r # 0 => n.r \in Lists
<1> DEFINE S == {r \in Lists : /\ t.dr[r].entry # 0
                               /\ t.nc[t.dr[r].entry].netif
                               /\ t.nc[t.dr[r].entry].addr = a}
           old == nd6_get_router(t, a)
<1>1. old = LowestOr0(S)
  BY DEF nd6_get_router, Lists
<1>2. S \in SUBSET Nat /\ 0 \notin S /\ S \subseteq Lists
  BY DEF Lists, NdAssumption
<1> HIDE DEF S
<1>3. old # 0 => old \in Lists
  BY <1>1, <1>2, LowestIn DEF LowestOr0
<1> HIDE DEF old
<1>4. CASE old = 0
  <2>1. RouterFor(t, a, old) = nd6_new_router(t, a)
    BY <1>4 DEF RouterFor
  <2> QED BY <2>1, NewRouter DEF old
<1>5. CASE old # 0
  <2>1. RouterFor(t, a, old) = [r |-> old, s |-> t]
    BY <1>5 DEF RouterFor
  <2> QED BY <1>3, <1>5, <2>1 DEF Kept, old
<1> QED BY <1>4, <1>5

\* The lifetime of a router.
LEMMA LifetimeGood ==
  ASSUME NEW t, Good(t), NEW r \in Lists, NEW life \in Nat
  PROVE  LET u == [t EXCEPT !.dr[r].timer = life] IN Good(u) /\ Kept(t, u)
<1> DEFINE dr2 == [t.dr EXCEPT ![r].timer = life]
           u == [t EXCEPT !.dr[r].timer = life]
<1>1. IsState(t) /\ Sound(t.nc, t.dr)
  BY DEF Good
<1>2. dr2 \in List /\ \A q \in Lists : dr2[q].entry = t.dr[q].entry
  BY <1>1 DEF Sound, List
<1>3. u = [t EXCEPT !.dr = dr2]
  BY <1>1 DEF IsState
<1> HIDE DEF dr2, u
<1>4. u = [netif |-> t.netif, nc |-> t.nc, dr |-> dr2, pl |-> t.pl, pcbs |-> t.pcbs,
           reset |-> t.reset]
  BY <1>1, <1>3 DEF IsState
<1>5. Sound(t.nc, dr2)
  <2>1. Marked(t.nc, dr2)
    BY <1>1, <1>2 DEF Sound, Marked
  <2>2. Single(dr2)
    BY <1>1, <1>2 DEF Sound, Single
  <2> QED BY <1>1, <1>2, <2>1, <2>2 DEF Sound
<1>6. Good(u) /\ Kept(t, u)
  BY <1>4, <1>5 DEF Good, IsState, Kept
<1> QED BY <1>6 DEF u

\* SourceLladdr(): the router's entry becomes reachable.
LEMMA SourceLladdrGood ==
  ASSUME NdAssumption, NEW t, Good(t), NEW r \in Lists
  PROVE  LET u == SourceLladdr(t, r) IN Good(u) /\ Kept(t, u)
<1> DEFINE i == t.dr[r].entry
           u == SourceLladdr(t, r)
<1>1. IsState(t) /\ Sound(t.nc, t.dr) /\ i \in Slots \cup {0}
  BY DEF Good, Sound, List
<1> HIDE DEF i
<1>2. CASE i # 0 /\ t.nc[i].state = "INCOMPLETE"
  <2> DEFINE e == [state |-> "REACHABLE", addr |-> t.nc[i].addr, isrouter |-> t.nc[i].isrouter,
                   netif |-> t.nc[i].netif, counter |-> ReachableTime]
             nc2 == [t.nc EXCEPT ![i] = e]
  <2>1. /\ i \in Slots /\ t.nc \in Cache
        /\ t.nc[i] \in [state : LiveStates \cup {"NO_ENTRY"}, addr : Addrs \cup {AnyAddr},
                        isrouter : BOOLEAN, netif : BOOLEAN, counter : Nat]
    BY <1>1, <1>2 DEF Sound, Cache
  <2>2. /\ EntrySound(t.nc[i])
        /\ t.nc[i].addr # AnyAddr => \A j \in Slots : t.nc[j].addr = t.nc[i].addr => j = i
    BY <1>1, <1>2, <2>1 DEF Sound, Distinct
  <2>3. EntrySound(e)
    BY <1>2, <2>2 DEF EntrySound
  <2>4. e \in [state : LiveStates \cup {"NO_ENTRY"}, addr : Addrs \cup {AnyAddr},
               isrouter : BOOLEAN, netif : BOOLEAN, counter : Nat]
    <3>1. ReachableTime \in Nat /\ "REACHABLE" \in LiveStates
      BY DEF NdAssumption, LiveStates
    <3> QED BY <2>1, <3>1
  <2>5. e.isrouter = t.nc[i].isrouter /\ e.addr = t.nc[i].addr
    OBVIOUS
  <2>6. u = [t EXCEPT !.nc = nc2]
    <3>1. u = [t EXCEPT !.nc[i].state = "REACHABLE", !.nc[i].counter = ReachableTime]
      BY <1>2 DEF SourceLladdr, i
    <3>2. [[t.nc[i] EXCEPT !.state = "REACHABLE"] EXCEPT !.counter = ReachableTime] = e
      <4>1. ASSUME NEW d \in [state : LiveStates \cup {"NO_ENTRY"}, addr : Addrs \cup {AnyAddr},
                              isrouter : BOOLEAN, netif : BOOLEAN, counter : Nat]
            PROVE  [[d EXCEPT !.state = "REACHABLE"] EXCEPT !.counter = ReachableTime] =
                   [state |-> "REACHABLE", addr |-> d.addr, isrouter |-> d.isrouter,
                    netif |-> d.netif, counter |-> ReachableTime]
        <5>1. d = [state |-> d.state, addr |-> d.addr, isrouter |-> d.isrouter,
                   netif |-> d.netif, counter |-> d.counter]
          OBVIOUS
        <5> DEFINE d1 == [d EXCEPT !.state = "REACHABLE"]
        <5>2. d1 = [state |-> "REACHABLE", addr |-> d.addr, isrouter |-> d.isrouter,
                    netif |-> d.netif, counter |-> d.counter]
          BY <5>1
        <5> HIDE DEF d1
        <5>3. [d1 EXCEPT !.counter = ReachableTime] =
                   [state |-> "REACHABLE", addr |-> d.addr, isrouter |-> d.isrouter,
                    netif |-> d.netif, counter |-> ReachableTime]
          BY <5>2
        <5> QED BY <5>3 DEF d1
      <4> QED BY <2>1, <4>1
    <3>3. [[t.nc EXCEPT ![i].state = "REACHABLE"] EXCEPT ![i].counter = ReachableTime] = nc2
      <4> HIDE DEF e
      <4> QED BY <2>1, <3>2 DEF Cache
    <3> HIDE DEF nc2, u
    <3> QED BY <1>1, <3>1, <3>3 DEF IsState
  <2> HIDE DEF e, u
  <2>7. Sound(nc2, t.dr)
    BY <1>1, <2>1, <2>2, <2>3, <2>4, <2>5, WriteEntry
  <2> HIDE DEF nc2
  <2>8. u = [netif |-> t.netif, nc |-> nc2, dr |-> t.dr, pl |-> t.pl, pcbs |-> t.pcbs,
             reset |-> t.reset]
    BY <1>1, <2>6 DEF IsState
  <2>9. Good(u) /\ Kept(t, u)
    BY <2>7, <2>8 DEF Good, IsState, Kept
  <2> QED BY <2>9 DEF u
<1>3. CASE ~(i # 0 /\ t.nc[i].state = "INCOMPLETE")
  <2>1. u = t
    BY <1>3 DEF SourceLladdr, i
  <2> QED BY <2>1 DEF Kept
<1> QED BY <1>2, <1>3

\* Options(): prefixes are in a table of their own.
LEMMA OptionsGood ==
  ASSUME NdAssumption, NEW t, Good(t), NEW r \in Lists, NEW opts
  PROVE  LET u == Options(t, r, opts) IN Good(u) /\ Kept(t, u)
<1>1. PICK b \in BOOLEAN : \E x :
        Options(t, r, opts) = [(IF b THEN SourceLladdr(t, r) ELSE t) EXCEPT !.pl = x]
  BY DEF Options
<1>5. PICK x : Options(t, r, opts) = [(IF b THEN SourceLladdr(t, r) ELSE t) EXCEPT !.pl = x]
  BY <1>1
<1> DEFINE v == IF b THEN SourceLladdr(t, r) ELSE t
           u == [v EXCEPT !.pl = x]
<1>2. Good(v) /\ Kept(t, v)
  BY SourceLladdrGood DEF Kept
<1> HIDE DEF v
<1>3. u = [netif |-> v.netif, nc |-> v.nc, dr |-> v.dr, pl |-> x, pcbs |-> v.pcbs,
           reset |-> v.reset]
  BY <1>2 DEF Good, IsState
<1> HIDE DEF u
<1>4. Good(u) /\ Kept(t, u)
  BY <1>2, <1>3 DEF Good, IsState, Kept
<1> QED BY <1>5, <1>4 DEF u, v

------------------------------------------------------------------------------
(* Messages and time *)

\* nd6_input_NA(): the slot that is found becomes reachable.
LEMMA AdvertisementGood ==
  ASSUME NdAssumption, NEW t, Good(t), NEW m, m.target \in Addrs \cup {AnyAddr}
  PROVE  LET u == nd6_input_NA(t, m) IN Good(u) /\ Kept(t, u)
<1> DEFINE i == nd6_find_neighbor_cache_entry(t, m.target)
           u == nd6_input_NA(t, m)
<1>1. u = t \/ (i # 0 /\ u = Entry(t, i, m.target, "REACHABLE", ReachableTime))
  BY DEF nd6_input_NA
<1>2. i # 0 => i \in Slots /\ t.nc[i].addr = m.target
  BY FindGives
<1> HIDE DEF i, u
<1>3. CASE u = t
  BY <1>3 DEF Kept, u
<1>4. CASE i # 0 /\ u = Entry(t, i, m.target, "REACHABLE", ReachableTime)
  <2>1. /\ m.target # AnyAddr => \A j \in Slots : t.nc[j].addr = m.target => j = i
        /\ m.target = AnyAddr => ~t.nc[i].isrouter
    BY <1>2, <1>4 DEF Good, Sound, Distinct, EntrySound
  <2>2. "REACHABLE" \in LiveStates /\ ReachableTime \in Nat
    BY DEF LiveStates, NdAssumption
  <2>3. Good(u) /\ Kept(t, u)
    BY <1>2, <1>4, <2>1, <2>2, EntryGood
  <2> QED BY <2>3 DEF u
<1> QED BY <1>1, <1>3, <1>4

\* Asked(): the neighbour gets an entry, or keeps its own.
LEMMA AskedGood ==
  ASSUME NdAssumption, NEW t, Good(t), NEW a \in Addrs \cup {AnyAddr}
  PROVE  LET u == Asked(t, a, nd6_find_neighbor_cache_entry(t, a)) IN Good(u) /\ Kept(t, u)
<1> DEFINE i == nd6_find_neighbor_cache_entry(t, a)
           n == nd6_new_neighbor_cache_entry(t)
           u == Asked(t, a, i)
<1>1. "DELAY" \in LiveStates /\ DelayTime \in Nat
  BY DEF LiveStates, NdAssumption
<1>2. /\ i # 0 => i \in Slots /\ t.nc[i].addr = a
      /\ i = 0 => \A j \in Slots : t.nc[j].addr # a
  BY FindGives
<1>3. \/ i = 0 /\ n.i = 0 /\ u = n.s
      \/ i = 0 /\ n.i # 0 /\ u = Entry(n.s, n.i, a, "DELAY", DelayTime)
      \/ i # 0 /\ u = Entry(t, i, a, "DELAY", DelayTime)
      \/ u = t
  BY DEF Asked, Delayed
<1>4. /\ Good(n.s) /\ Kept(t, n.s)
      /\ n.i # 0 => n.i \in Slots /\ ~n.s.nc[n.i].isrouter
      /\ a \in Addrs /\ (\A j \in Slots : t.nc[j].addr # a) =>
           \A j \in Slots : n.s.nc[j].addr # a
  BY NewEntry
<1> HIDE DEF i, u, n
<1>5. CASE i = 0 /\ n.i = 0 /\ u = n.s
  BY <1>4, <1>5 DEF u, i
<1>6. CASE i = 0 /\ n.i # 0 /\ u = Entry(n.s, n.i, a, "DELAY", DelayTime)
  <2>1. a # AnyAddr => \A j \in Slots : n.s.nc[j].addr = a => j = n.i
    BY <1>2, <1>4, <1>6
  <2>2. Good(u) /\ Kept(n.s, u)
    BY <1>1, <1>4, <1>6, <2>1, EntryGood
  <2> QED BY <1>4, <2>2 DEF Kept, u, i
<1>7. CASE i # 0 /\ u = Entry(t, i, a, "DELAY", DelayTime)
  <2>1. /\ a # AnyAddr => \A j \in Slots : t.nc[j].addr = a => j = i
        /\ a = AnyAddr => ~t.nc[i].isrouter
    BY <1>2, <1>7 DEF Good, Sound, Distinct, EntrySound
  <2>2. Good(u) /\ Kept(t, u)
    BY <1>1, <1>2, <1>7, <2>1, EntryGood
  <2> QED BY <2>2 DEF u, i
<1>8. CASE u = t
  BY <1>8 DEF Kept, u, i
<1> QED BY <1>3, <1>5, <1>6, <1>7, <1>8

\* nd6_input_NS(): the neighbour that asks.
LEMMA SolicitationGood ==
  ASSUME NdAssumption, NEW t, Good(t), NEW m, m.src \in Addrs \cup {AnyAddr}
  PROVE  LET u == nd6_input_NS(t, m) IN Good(u) /\ Kept(t, u)
<1>1. \/ nd6_input_NS(t, m) = t
      \/ nd6_input_NS(t, m) = Asked(t, m.src, nd6_find_neighbor_cache_entry(t, m.src))
  BY DEF nd6_input_NS
<1> QED BY <1>1, AskedGood DEF Kept

\* nd6_input_RD(): the neighbour that packets are redirected to.
LEMMA RedirectGood ==
  ASSUME NdAssumption, NEW t, Good(t), NEW m, m.target \in Addrs \cup {AnyAddr}
  PROVE  LET u == nd6_input_RD(t, m) IN Good(u) /\ Kept(t, u)
<1>1. \/ nd6_input_RD(t, m) = t
      \/ nd6_input_RD(t, m) = Asked(t, m.target, nd6_find_neighbor_cache_entry(t, m.target))
  BY DEF nd6_input_RD
<1> QED BY <1>1, AskedGood DEF Kept

\* nd6_input_RA(): the router is listed, and its options are read.
LEMMA RouterAdvertisementGood ==
  ASSUME NdAssumption, NEW t, Good(t), NEW m, m.src \in Addrs, m.lifetime \in Nat
  PROVE  LET u == nd6_input_RA(t, m) IN Good(u) /\ Kept(t, u)
<1> DEFINE n == RouterFor(t, m.src, nd6_get_router(t, m.src))
           v == [n.s EXCEPT !.dr[n.r].timer = m.lifetime]
           u == nd6_input_RA(t, m)
<1>1. u = IF n.r = 0 THEN n.s ELSE Options(v, n.r, m.opts)
  BY DEF nd6_input_RA, FromRouter
<1>2. Good(n.s) /\ Kept(t, n.s) /\ (n.r # 0 => n.r \in Lists)
  BY RouterForGood
<1> HIDE DEF n, u
<1>3. CASE n.r = 0
  BY <1>1, <1>2, <1>3 DEF u
<1>4. CASE n.r # 0
  <2>1. Good(v) /\ Kept(n.s, v)
    BY <1>2, <1>4, LifetimeGood
  <2> HIDE DEF v
  <2>2. Good(u) /\ Kept(v, u)
    BY <1>1, <1>2, <1>4, <2>1, OptionsGood
  <2> QED BY <1>2, <2>1, <2>2 DEF Kept, u
<1> QED BY <1>3, <1>4

\* nd6_input()
LEMMA InputGood ==
  ASSUME NdAssumption, NEW t, Good(t), NEW m \in Messages
  PROVE  LET u == nd6_input(t, m) IN Good(u) /\ Kept(t, u)
<1> DEFINE u == nd6_input(t, m)
<1>1. \/ m.type = "NA" /\ m.target \in Addrs \cup {AnyAddr}
      \/ m.type = "NS" /\ m.src \in Addrs \cup {AnyAddr}
      \/ m.type = "RA" /\ m.src \in Addrs /\ m.lifetime \in Nat
      \/ m.type = "RD" /\ m.target \in Addrs \cup {AnyAddr}
      \/ m.type \in {"PTB", "malformed"}
  BY DEF Messages, NdAssumption
<1>2. CASE m.type = "NA" /\ m.target \in Addrs \cup {AnyAddr}
  <2>1. u = nd6_input_NA(t, m)
    BY <1>2 DEF nd6_input
  <2> QED BY <1>2, <2>1, AdvertisementGood
<1>3. CASE m.type = "NS" /\ m.src \in Addrs \cup {AnyAddr}
  <2>1. u = nd6_input_NS(t, m)
    BY <1>3 DEF nd6_input
  <2> QED BY <1>3, <2>1, SolicitationGood
<1>4. CASE m.type = "RA" /\ m.src \in Addrs /\ m.lifetime \in Nat
  <2>1. u = nd6_input_RA(t, m)
    BY <1>4 DEF nd6_input
  <2> QED BY <1>4, <2>1, RouterAdvertisementGood
<1>5. CASE m.type = "RD" /\ m.target \in Addrs \cup {AnyAddr}
  <2>1. u = nd6_input_RD(t, m)
    BY <1>5 DEF nd6_input
  <2> QED BY <1>5, <2>1, RedirectGood
<1>6. CASE m.type \in {"PTB", "malformed"}
  <2>1. u = t
    BY <1>6 DEF nd6_input
  <2> QED BY <2>1 DEF Kept
<1> QED BY <1>1, <1>2, <1>3, <1>4, <1>5, <1>6

\* NeighborTick(): an entry keeps its address and its mark; only one that is
\* no router's is given up.
LEMMA NeighborTicks ==
  ASSUME NdAssumption, NEW e, EntrySound(e),
         e \in [state : LiveStates \cup {"NO_ENTRY"}, addr : Addrs \cup {AnyAddr},
                isrouter : BOOLEAN, netif : BOOLEAN, counter : Nat]
  PROVE  LET k == NeighborTick(e) IN
         /\ k \in [state : LiveStates \cup {"NO_ENTRY"}, addr : Addrs \cup {AnyAddr},
                   isrouter : BOOLEAN, netif : BOOLEAN, counter : Nat]
         /\ EntrySound(k) /\ k.isrouter = e.isrouter
         /\ k = NoEntry \/ (k.addr = e.addr /\ (k.state # "NO_ENTRY" <=> e.state # "NO_ENTRY"))
<1> DEFINE k == NeighborTick(e)
           R == [state : LiveStates \cup {"NO_ENTRY"}, addr : Addrs \cup {AnyAddr},
                 isrouter : BOOLEAN, netif : BOOLEAN, counter : Nat]
<1>1. CASE k = NoEntry /\ ~e.isrouter
  <2>1. NoEntry \in R /\ EntrySound(NoEntry) /\ NoEntry.isrouter = FALSE
    BY DEF NoEntry, EntrySound
  <2>2. e.isrouter = FALSE
    BY <1>1
  <2> HIDE DEF k
  <2> QED BY <1>1, <2>1, <2>2 DEF k
<1>2. ASSUME NEW st \in LiveStates \cup {"NO_ENTRY"}, NEW c \in Nat,
             st # "NO_ENTRY" <=> e.state # "NO_ENTRY",
             k = [state |-> st, addr |-> e.addr, isrouter |-> e.isrouter, netif |-> e.netif,
                  counter |-> c]
      PROVE  /\ k \in R /\ EntrySound(k) /\ k.isrouter = e.isrouter
             /\ k.addr = e.addr /\ (k.state # "NO_ENTRY" <=> e.state # "NO_ENTRY")
  <2> HIDE DEF k
  <2>1. k.state = st /\ k.addr = e.addr /\ k.isrouter = e.isrouter /\ k.netif = e.netif
    BY <1>2
  <2>2. EntrySound(k)
    BY <1>2, <2>1 DEF EntrySound
  <2> QED BY <1>2, <2>1, <2>2
<1>3. e = [state |-> e.state, addr |-> e.addr, isrouter |-> e.isrouter, netif |-> e.netif,
           counter |-> e.counter]
  OBVIOUS
<1>4. CASE e.state \in {"INCOMPLETE", "PROBE"}
  <2>1. k = Probe(e)
    BY <1>4 DEF NeighborTick
  <2>2. CASE e.counter >= MaxSolicit /\ ~e.isrouter
    BY <1>1, <2>1, <2>2 DEF Probe
  <2>3. CASE ~(e.counter >= MaxSolicit /\ ~e.isrouter)
    <3>1. Least(e.counter + 1, MaxSolicit) \in Nat
      BY DEF Least, NdAssumption
    <3>2. k = [e EXCEPT !.counter = Least(e.counter + 1, MaxSolicit)]
      BY <2>1, <2>3 DEF Probe
    <3>3. k = [state |-> e.state, addr |-> e.addr, isrouter |-> e.isrouter, netif |-> e.netif,
               counter |-> Least(e.counter + 1, MaxSolicit)]
      BY <1>3, <3>2
    <3> HIDE DEF k
    <3> QED BY <1>2, <3>1, <3>3 DEF k
  <2> QED BY <2>2, <2>3
<1>5. CASE e.state \in {"REACHABLE", "DELAY"}
  <2> DEFINE next == IF e.state = "REACHABLE" THEN "STALE" ELSE "PROBE"
  <2>1. CASE e.counter <= 1
    <3>1. k = [e EXCEPT !.state = next, !.counter = 0]
      BY <1>5, <2>1 DEF NeighborTick
    <3>2. next \in LiveStates /\ next # "NO_ENTRY" /\ 0 \in Nat
      BY DEF LiveStates
    <3> HIDE DEF next, k
    <3>3. k = [state |-> next, addr |-> e.addr, isrouter |-> e.isrouter, netif |-> e.netif,
               counter |-> 0]
      <4> DEFINE d1 == [e EXCEPT !.state = next]
      <4>1. d1 = [state |-> next, addr |-> e.addr, isrouter |-> e.isrouter,
                  netif |-> e.netif, counter |-> e.counter]
        BY <1>3
      <4>2. k = [d1 EXCEPT !.counter = 0]
        BY <3>1
      <4> HIDE DEF d1
      <4> QED BY <4>1, <4>2
    <3> QED BY <1>2, <1>5, <3>2, <3>3 DEF k
  <2>2. CASE ~(e.counter <= 1)
    <3>1. k = [e EXCEPT !.counter = e.counter - 1]
      BY <1>5, <2>2 DEF NeighborTick
    <3>2. e.counter - 1 \in Nat
      BY <2>2
    <3>3. k = [state |-> e.state, addr |-> e.addr, isrouter |-> e.isrouter, netif |-> e.netif,
               counter |-> e.counter - 1]
      BY <1>3, <3>1
    <3> HIDE DEF k
    <3> QED BY <1>2, <3>2, <3>3 DEF k
  <2> QED BY <2>1, <2>2
<1>6. CASE e.state \notin {"INCOMPLETE", "PROBE", "REACHABLE", "DELAY"}
  <2>1. k = e
    BY <1>6 DEF NeighborTick
  <2> QED BY <2>1
<1> QED BY <1>4, <1>5, <1>6

\* RouterTick(): a router that expires leaves the list.
LEMMA RouterTicks ==
  ASSUME NEW d \in [entry : Slots \cup {0}, timer : Nat]
  PROVE  /\ RouterTick(d) \in [entry : Slots \cup {0}, timer : Nat]
         /\ RouterTick(d).entry = IF Expired(d) THEN 0 ELSE d.entry
<1>1. CASE d.entry = 0
  BY <1>1 DEF RouterTick, Expired
<1>2. CASE d.entry # 0 /\ Expired(d)
  BY <1>2 DEF RouterTick, NoRouter
<1>3. CASE d.entry # 0 /\ ~Expired(d)
  <2>1. RouterTick(d) = [d EXCEPT !.timer = d.timer - 1] /\ d.timer - 1 \in Nat
    BY <1>3 DEF RouterTick, Expired
  <2> QED BY <1>3, <2>1
<1> QED BY <1>1, <1>2, <1>3

\* nd6_tmr(): the marks go with the routers.
LEMMA TickGood ==
  ASSUME NdAssumption, NEW t, Good(t)
  PROVE  LET u == nd6_tmr(t) IN Good(u) /\ Kept(t, u)
<1> DEFINE gone == Unlisted(t)
           tick(i) == [NeighborTick(t.nc[i]) EXCEPT !.isrouter = @ /\ i \notin gone]
           nc2 == [i \in 1 .. Neighbors |-> tick(i)]
           dr2 == [r \in 1 .. Routers |-> RouterTick(t.dr[r])]
           u == nd6_tmr(t)
<1>1. IsState(t) /\ Sound(t.nc, t.dr)
  BY DEF Good
<1>2. \E x : u = [t EXCEPT !.nc = nc2, !.dr = dr2, !.pl = x]
  BY DEF nd6_tmr
<1>3. ASSUME NEW i \in Slots
      PROVE  LET k == NeighborTick(t.nc[i]) IN
             /\ k \in [state : LiveStates \cup {"NO_ENTRY"}, addr : Addrs \cup {AnyAddr},
                       isrouter : BOOLEAN, netif : BOOLEAN, counter : Nat]
             /\ EntrySound(k) /\ k.isrouter = t.nc[i].isrouter
             /\ \/ k = NoEntry
                \/ k.addr = t.nc[i].addr /\ (k.state # "NO_ENTRY" <=> t.nc[i].state # "NO_ENTRY")
  <2>1. EntrySound(t.nc[i]) /\
        t.nc[i] \in [state : LiveStates \cup {"NO_ENTRY"}, addr : Addrs \cup {AnyAddr},
                     isrouter : BOOLEAN, netif : BOOLEAN, counter : Nat]
    BY <1>1 DEF Sound, Cache
  <2> QED BY <2>1, NeighborTicks
<1>4. ASSUME NEW i \in Slots
      PROVE  LET k == NeighborTick(t.nc[i]) IN
             /\ nc2[i] \in [state : LiveStates \cup {"NO_ENTRY"}, addr : Addrs \cup {AnyAddr},
                            isrouter : BOOLEAN, netif : BOOLEAN, counter : Nat]
             /\ nc2[i].state = k.state /\ nc2[i].addr = k.addr /\ nc2[i].netif = k.netif
             /\ nc2[i].isrouter <=> t.nc[i].isrouter /\ i \notin gone
  <2> DEFINE k == NeighborTick(t.nc[i])
  <2>1. /\ k \in [state : LiveStates \cup {"NO_ENTRY"}, addr : Addrs \cup {AnyAddr},
                  isrouter : BOOLEAN, netif : BOOLEAN, counter : Nat]
        /\ k.isrouter = t.nc[i].isrouter
    BY <1>3
  <2>2. nc2[i] = [k EXCEPT !.isrouter = k.isrouter /\ i \notin gone]
    BY DEF Slots
  <2> HIDE DEF nc2, gone, k
  <2>3. (k.isrouter /\ i \notin gone) \in BOOLEAN
    OBVIOUS
  <2>4. PICK b \in BOOLEAN : (b <=> k.isrouter /\ i \notin gone) /\ nc2[i] = [k EXCEPT !.isrouter = b]
    BY <2>2, <2>3
  <2>5. /\ nc2[i] \in [state : LiveStates \cup {"NO_ENTRY"}, addr : Addrs \cup {AnyAddr},
                       isrouter : BOOLEAN, netif : BOOLEAN, counter : Nat]
        /\ nc2[i].state = k.state /\ nc2[i].addr = k.addr /\ nc2[i].netif = k.netif
        /\ nc2[i].isrouter = b
    BY <2>1, <2>4
  <2> QED BY <2>1, <2>4, <2>5 DEF k
<1>5. \A r \in Lists : /\ dr2[r] \in [entry : Slots \cup {0}, timer : Nat]
                       /\ dr2[r].entry = IF Expired(t.dr[r]) THEN 0 ELSE t.dr[r].entry
  <2> SUFFICES ASSUME NEW r \in Lists
               PROVE  /\ dr2[r] \in [entry : Slots \cup {0}, timer : Nat]
                      /\ dr2[r].entry = IF Expired(t.dr[r]) THEN 0 ELSE t.dr[r].entry
    OBVIOUS
  <2>1. dr2[r] = RouterTick(t.dr[r])
    BY DEF Lists
  <2>2. t.dr[r] \in [entry : Slots \cup {0}, timer : Nat]
    BY <1>1 DEF Sound, List
  <2> HIDE DEF dr2
  <2> QED BY <2>1, <2>2, RouterTicks
<1>6. \A i : i \in gone <=> \E q \in Lists : Expired(t.dr[q]) /\ t.dr[q].entry = i
  BY DEF Unlisted, Lists
<1>7. nc2 = [i \in Slots |-> nc2[i]] /\ dr2 = [r \in Lists |-> dr2[r]]
  BY DEF Slots, Lists
<1> HIDE DEF nc2, dr2, gone, u
<1>8. nc2 \in Cache /\ dr2 \in List
  BY <1>4, <1>5, <1>7 DEF Cache, List
<1>9. \A i \in Slots : EntrySound(nc2[i])
  BY <1>3, <1>4 DEF EntrySound
<1>10. Marked(nc2, dr2)
  <2> SUFFICES ASSUME NEW i \in Slots
               PROVE  nc2[i].isrouter <=> \E r \in Lists : dr2[r].entry = i
    BY DEF Marked
  <2>1. i # 0
    BY DEF Slots
  <2>2. nc2[i].isrouter <=> t.nc[i].isrouter /\ i \notin gone
    BY <1>4
  <2>3. t.nc[i].isrouter <=> \E r \in Lists : t.dr[r].entry = i
    BY <1>1 DEF Sound, Marked
  <2>4. \A q, r \in Lists : t.dr[q].entry = i /\ t.dr[r].entry = i => q = r
    BY <1>1, <2>1 DEF Sound, Single
  <2> QED BY <1>5, <1>6, <2>1, <2>2, <2>3, <2>4
<1>11. Distinct(nc2)
  <2> SUFFICES ASSUME NEW i \in Slots, NEW j \in Slots, nc2[i].addr # AnyAddr,
                      nc2[i].addr = nc2[j].addr
               PROVE  i = j
    BY DEF Distinct
  <2>1. ASSUME NEW l \in Slots, nc2[l].addr # AnyAddr
        PROVE  nc2[l].addr = t.nc[l].addr
    BY <1>3, <1>4, <2>1 DEF NoEntry
  <2> QED BY <1>1, <2>1 DEF Sound, Distinct
<1>12. Single(dr2)
  BY <1>1, <1>5 DEF Sound, Single
<1>13. \E x : u = [netif |-> t.netif, nc |-> nc2, dr |-> dr2, pl |-> x, pcbs |-> t.pcbs,
                   reset |-> t.reset]
  BY <1>1, <1>2 DEF IsState
<1>14. Good(u) /\ Kept(t, u)
  BY <1>8, <1>9, <1>10, <1>11, <1>12, <1>13 DEF Good, Sound, IsState, Kept
<1> QED BY <1>14 DEF u

------------------------------------------------------------------------------
(* The interface *)

\* nd6_cleanup_netif(): every entry has the interface, so the cache and the
\* list of routers are empty.
LEMMA CleanupGood ==
  ASSUME NdAssumption, NEW t, Good(t)
  PROVE  LET u == nd6_cleanup_netif(t) IN
         /\ Good(u) /\ Kept(t, u) /\ u.pcbs = t.pcbs
         /\ \A i \in Slots : ~u.nc[i].netif
         /\ \A r \in Lists : u.dr[r].entry = 0
         /\ \A p \in 1 .. PrefixSlots : ~u.pl[p].netif
<1> DEFINE gone(i) == t.nc[i].netif
           nc2 == [i \in 1 .. Neighbors |-> IF gone(i) THEN NoEntry ELSE t.nc[i]]
           dr2 == [r \in 1 .. Routers |->
                     IF t.dr[r].entry # 0 /\ gone(t.dr[r].entry)
                       THEN [t.dr[r] EXCEPT !.entry = 0] ELSE t.dr[r]]
           pl2 == [p \in 1 .. PrefixSlots |->
                     [prefix |-> t.pl[p].prefix, netif |-> FALSE, timer |-> t.pl[p].timer]]
           u == nd6_cleanup_netif(t)
<1>1. IsState(t) /\ Sound(t.nc, t.dr)
  BY DEF Good
<1>2. u = [t EXCEPT !.pl = pl2, !.dr = dr2, !.nc = nc2]
  BY DEF nd6_cleanup_netif
<1>3. \A i \in Slots : /\ nc2[i] \in [state : LiveStates \cup {"NO_ENTRY"},
                                      addr : Addrs \cup {AnyAddr},
                                      isrouter : BOOLEAN, netif : BOOLEAN, counter : Nat]
                       /\ nc2[i].netif = FALSE /\ EntrySound(nc2[i])
  <2> SUFFICES ASSUME NEW i \in Slots
               PROVE  /\ nc2[i] \in [state : LiveStates \cup {"NO_ENTRY"},
                                     addr : Addrs \cup {AnyAddr},
                                     isrouter : BOOLEAN, netif : BOOLEAN, counter : Nat]
                      /\ nc2[i].netif = FALSE /\ EntrySound(nc2[i])
    OBVIOUS
  <2>1. nc2[i] = IF t.nc[i].netif THEN NoEntry ELSE t.nc[i]
    BY DEF Slots
  <2>2. EntrySound(t.nc[i]) /\
        t.nc[i] \in [state : LiveStates \cup {"NO_ENTRY"}, addr : Addrs \cup {AnyAddr},
                     isrouter : BOOLEAN, netif : BOOLEAN, counter : Nat]
    BY <1>1 DEF Sound, Cache
  <2>3. /\ NoEntry \in [state : LiveStates \cup {"NO_ENTRY"}, addr : Addrs \cup {AnyAddr},
                        isrouter : BOOLEAN, netif : BOOLEAN, counter : Nat]
        /\ EntrySound(NoEntry) /\ NoEntry.netif = FALSE
    BY DEF NoEntry, EntrySound
  <2> HIDE DEF nc2
  <2> QED BY <2>1, <2>2, <2>3
<1>4. \A r \in Lists : /\ dr2[r] \in [entry : Slots \cup {0}, timer : Nat]
                       /\ dr2[r].entry = 0
  <2> SUFFICES ASSUME NEW r \in Lists
               PROVE  /\ dr2[r] \in [entry : Slots \cup {0}, timer : Nat]
                      /\ dr2[r].entry = 0
    OBVIOUS
  <2>1. t.dr[r] \in [entry : Slots \cup {0}, timer : Nat]
    BY <1>1 DEF Sound, List
  <2>2. t.dr[r].entry # 0 => t.nc[t.dr[r].entry].netif
    BY <1>1, <2>1 DEF Sound, Marked, EntrySound
  <2>3. dr2[r] = IF t.dr[r].entry # 0 THEN [t.dr[r] EXCEPT !.entry = 0] ELSE t.dr[r]
    BY <2>2 DEF Lists
  <2> HIDE DEF dr2
  <2> QED BY <2>1, <2>3
<1>5. /\ nc2 = [i \in Slots |-> nc2[i]] /\ dr2 = [r \in Lists |-> dr2[r]]
      /\ \A p \in 1 .. PrefixSlots : ~pl2[p].netif
  BY DEF Slots, Lists
<1> HIDE DEF nc2, dr2, pl2, u
<1>6. Sound(nc2, dr2)
  <2>1. nc2 \in Cache /\ dr2 \in List
    BY <1>3, <1>4, <1>5 DEF Cache, List
  <2>2. Marked(nc2, dr2)
    <3>1. 0 \notin Slots
      BY DEF Slots
    <3> QED BY <1>3, <1>4, <3>1 DEF Marked, EntrySound
  <2>3. Distinct(nc2) /\ Single(dr2)
    BY <1>3, <1>4 DEF Distinct, Single, EntrySound
  <2> QED BY <1>3, <2>1, <2>2, <2>3 DEF Sound
<1>7. u = [netif |-> t.netif, nc |-> nc2, dr |-> dr2, pl |-> pl2, pcbs |-> t.pcbs,
           reset |-> t.reset]
  BY <1>1, <1>2 DEF IsState
<1>8. Good(u) /\ Kept(t, u) /\ u.nc = nc2 /\ u.dr = dr2 /\ u.pl = pl2 /\ u.pcbs = t.pcbs
  BY <1>6, <1>7 DEF Good, IsState, Kept
<1> QED BY <1>3, <1>4, <1>5, <1>8 DEF u

\* netif_do_ip_addr_changed() of an interface with a route: the connection
\* from the address is reset.
LEMMA ChangedResets ==
  ASSUME NEW t, Good(t), UpAndRunning([t EXCEPT !.reset = {}]), NEW old, old # AnyAddr
  PROVE  LET u == netif_do_ip_addr_changed(t, old) IN
         /\ Good(u) /\ u.netif = t.netif
         /\ u.pcbs = t.pcbs \ {old}
         /\ u.reset = t.reset \cup (t.pcbs \cap {old})
<1> DEFINE u == netif_do_ip_addr_changed(t, old)
<1>1. IsState(t) /\ t.netif.default /\ t.netif.up /\ t.netif.link
  BY DEF Good, UpAndRunning, IsState
<1>2. CASE old \notin t.pcbs
  <2>1. u = t
    BY <1>2 DEF netif_do_ip_addr_changed
  <2> QED BY <1>2, <2>1
<1>3. CASE old \in t.pcbs
  <2>1. u = [t EXCEPT !.pcbs = t.pcbs \ {old}, !.reset = t.reset \cup {old}]
    BY <1>1, <1>3 DEF netif_do_ip_addr_changed
  <2>2. u = [netif |-> t.netif, nc |-> t.nc, dr |-> t.dr, pl |-> t.pl, pcbs |-> t.pcbs \ {old},
             reset |-> t.reset \cup {old}]
    BY <1>1, <2>1 DEF IsState
  <2> HIDE DEF u
  <2> QED BY <1>3, <2>2 DEF Good, IsState, u
<1> QED BY <1>2, <1>3

\* The truth values as the fields of a record.
Yes == TRUE
No == FALSE

\* One field of the interface is written.
Net(i4, i6, va, up, li, de) ==
  [ip4 |-> i4, ip6 |-> i6, valid |-> va, up |-> up, link |-> li, default |-> de]
With(t, n) ==
  [netif |-> n, nc |-> t.nc, dr |-> t.dr, pl |-> t.pl, pcbs |-> t.pcbs, reset |-> t.reset]

WithIp4(t, x) == [t EXCEPT !.netif.ip4 = x]
WithIp6(t, x) == [t EXCEPT !.netif.ip6 = x]
WithValid(t, x) == [t EXCEPT !.netif.valid = x]
WithUp(t, x) == [t EXCEPT !.netif.up = x]
WithLink(t, x) == [t EXCEPT !.netif.link = x]
WithDefault(t, x) == [t EXCEPT !.netif.default = x]

\* The fields of an interface.
LEMMA NetFields ==
  ASSUME NEW i4, NEW i6, NEW va, NEW up, NEW li, NEW de, NEW x, NEW n,
         n = Net(i4, i6, va, up, li, de)
  PROVE  /\ n.ip4 = i4 /\ n.ip6 = i6 /\ n.valid = va /\ n.up = up /\ n.link = li /\ n.default = de
         /\ [n EXCEPT !.ip4 = x] = Net(x, i6, va, up, li, de)
         /\ [n EXCEPT !.ip6 = x] = Net(i4, x, va, up, li, de)
         /\ [n EXCEPT !.valid = x] = Net(i4, i6, x, up, li, de)
         /\ [n EXCEPT !.up = x] = Net(i4, i6, va, x, li, de)
         /\ [n EXCEPT !.link = x] = Net(i4, i6, va, up, x, de)
         /\ [n EXCEPT !.default = x] = Net(i4, i6, va, up, li, x)
  BY DEF Net

\* Writing a field of the interface leaves the tables alone.
LEMMA NetWrites ==
  ASSUME NEW t, IsState(t), NEW i4, NEW i6, NEW va, NEW up, NEW li, NEW de, NEW x,
         t.netif = Net(i4, i6, va, up, li, de)
  PROVE  /\ WithIp4(t, x) = With(t, Net(x, i6, va, up, li, de))
         /\ WithIp6(t, x) = With(t, Net(i4, x, va, up, li, de))
         /\ WithValid(t, x) = With(t, Net(i4, i6, x, up, li, de))
         /\ WithUp(t, x) = With(t, Net(i4, i6, va, x, li, de))
         /\ WithLink(t, x) = With(t, Net(i4, i6, va, up, x, de))
         /\ WithDefault(t, x) = With(t, Net(i4, i6, va, up, li, x))
<1>1. ASSUME NEW n PROVE [t EXCEPT !.netif = n] = With(t, n)
  BY DEF With, IsState
<1>2. /\ WithIp4(t, x) = [t EXCEPT !.netif = [t.netif EXCEPT !.ip4 = x]]
      /\ WithIp6(t, x) = [t EXCEPT !.netif = [t.netif EXCEPT !.ip6 = x]]
      /\ WithValid(t, x) = [t EXCEPT !.netif = [t.netif EXCEPT !.valid = x]]
      /\ WithUp(t, x) = [t EXCEPT !.netif = [t.netif EXCEPT !.up = x]]
      /\ WithLink(t, x) = [t EXCEPT !.netif = [t.netif EXCEPT !.link = x]]
      /\ WithDefault(t, x) = [t EXCEPT !.netif = [t.netif EXCEPT !.default = x]]
  BY DEF WithIp4, WithIp6, WithValid, WithUp, WithLink, WithDefault
<1>3. /\ [t.netif EXCEPT !.ip4 = x] = Net(x, i6, va, up, li, de)
      /\ [t.netif EXCEPT !.ip6 = x] = Net(i4, x, va, up, li, de)
      /\ [t.netif EXCEPT !.valid = x] = Net(i4, i6, x, up, li, de)
      /\ [t.netif EXCEPT !.up = x] = Net(i4, i6, va, x, li, de)
      /\ [t.netif EXCEPT !.link = x] = Net(i4, i6, va, up, x, de)
      /\ [t.netif EXCEPT !.default = x] = Net(i4, i6, va, up, li, x)
  BY NetFields
<1> QED BY <1>1, <1>2, <1>3

\* What With() gives.
LEMMA WithGives ==
  ASSUME NEW t, NEW n, NEW u, u = With(t, n)
  PROVE  /\ u.netif = n /\ u.nc = t.nc /\ u.dr = t.dr /\ u.pl = t.pl /\ u.pcbs = t.pcbs
         /\ u.reset = t.reset
         /\ IsState(u) /\ (Good(t) => Good(u))
         /\ \A n2 : With(u, n2) = With(t, n2)
  BY DEF With, IsState, Good

\* netif_remove(), with the connections o: those from the interface's
\* addresses are reset, and nothing refers to it.
LEMMA RemoveCleans ==
  ASSUME NdAssumption, NEW t, Good(t), UpAndRunning(t), NEW o \in SUBSET {"own4", "own6", "host"},
         "own6" \in o => t.netif.valid, NEW x, x = netif_remove([t EXCEPT !.pcbs = o])
  PROVE  /\ Good(x)
         /\ ~x.netif.default /\ ~x.netif.up
         /\ \A i \in Slots : ~x.nc[i].netif
         /\ \A r \in Lists : x.dr[r].entry = 0
         /\ \A p \in 1 .. PrefixSlots : ~x.pl[p].netif
         /\ x.pcbs = o \cap {"host"}
         /\ x.reset = o \ {"host"}
<1> DEFINE v == [t EXCEPT !.pcbs = o]
           four == netif_do_ip_addr_changed(v, v.netif.ip4)
           six == IF four.netif.valid
                    THEN netif_do_ip_addr_changed(four, four.netif.ip6) ELSE four
           low == WithUp(six, No)
           clean == nd6_cleanup_netif(low)
           u == WithDefault(clean, No)
<1>1. v = [netif |-> t.netif, nc |-> t.nc, dr |-> t.dr, pl |-> t.pl, pcbs |-> o,
           reset |-> {}]
  BY DEF Good, IsState, UpAndRunning
<1>2. /\ Good(v) /\ v.netif = t.netif /\ v.pcbs = o /\ v.reset = {}
      /\ v.netif.ip4 = "own4"
  <2> HIDE DEF v
  <2> QED BY <1>1 DEF Good, IsState, UpAndRunning
<1>3. \A w : Good(w) /\ w.netif = t.netif => UpAndRunning([w EXCEPT !.reset = {}])
  <2> SUFFICES ASSUME NEW w, Good(w), w.netif = t.netif
               PROVE  UpAndRunning([w EXCEPT !.reset = {}])
    OBVIOUS
  <2>1. [w EXCEPT !.reset = {}].netif = t.netif /\ [w EXCEPT !.reset = {}].reset = {}
    BY DEF Good, IsState
  <2> QED BY <2>1 DEF UpAndRunning
<1> HIDE DEF v
<1>4. Good(four) /\ four.netif = t.netif /\ four.pcbs = o \ {"own4"} /\ four.reset = o \cap {"own4"}
  <2>1. UpAndRunning([v EXCEPT !.reset = {}]) /\ v.netif.ip4 # AnyAddr
    BY <1>2, <1>3 DEF AnyAddr
  <2>2. /\ Good(four) /\ four.netif = v.netif
        /\ four.pcbs = v.pcbs \ {"own4"} /\ four.reset = v.reset \cup (v.pcbs \cap {"own4"})
    BY <1>2, <2>1, ChangedResets
  <2> HIDE DEF four
  <2> QED BY <1>2, <2>2
<1> HIDE DEF four
<1>5. /\ Good(six) /\ six.netif = t.netif
      /\ six.pcbs = o \cap {"host"} /\ six.reset = o \ {"host"}
  <2>1. CASE t.netif.valid
    <3>1. six = netif_do_ip_addr_changed(four, "own6")
      BY <1>4, <2>1 DEF UpAndRunning
    <3>2. UpAndRunning([four EXCEPT !.reset = {}]) /\ "own6" # AnyAddr
      BY <1>3, <1>4 DEF AnyAddr
    <3>3. /\ Good(six) /\ six.netif = four.netif
          /\ six.pcbs = four.pcbs \ {"own6"} /\ six.reset = four.reset \cup (four.pcbs \cap {"own6"})
      BY <1>4, <3>1, <3>2, ChangedResets
    <3> HIDE DEF six
    <3> QED BY <1>4, <3>3
  <2>2. CASE ~t.netif.valid
    <3>1. six = four /\ "own6" \notin o
      BY <1>4, <2>2
    <3> HIDE DEF six
    <3> QED BY <1>4, <3>1
  <2> QED BY <2>1, <2>2
<1>6. netif_remove(v) = netif_set_default(netif_set_down(six), FALSE)
  BY DEF netif_remove, four
<1> HIDE DEF six
<1>7. /\ netif_remove(v) = u
      /\ t.netif = Net("own4", t.netif.ip6, t.netif.valid, Yes, Yes, Yes)
  <2>1. t.netif = Net("own4", t.netif.ip6, t.netif.valid, Yes, Yes, Yes)
    BY DEF UpAndRunning, Net, Yes
  <2>2. six.netif.up = Yes
    BY <1>5, <2>1, NetFields
  <2>3. six.netif.up
    BY <2>2 DEF Yes
  <2>4. netif_set_down(six) = clean
    BY <2>3 DEF netif_set_down, WithUp, No
  <2>5. netif_set_default(clean, FALSE) = u
    BY DEF netif_set_default, WithDefault, No
  <2> QED BY <1>6, <2>1, <2>4, <2>5
<1>8. low = With(six, Net("own4", t.netif.ip6, t.netif.valid, No, Yes, Yes))
  <2>1. IsState(six)
    BY <1>5 DEF Good
  <2> QED BY <1>5, <1>7, <2>1, NetWrites
<1> HIDE DEF low
<1>9. /\ Good(low) /\ low.netif = Net("own4", t.netif.ip6, t.netif.valid, No, Yes, Yes)
      /\ low.pcbs = six.pcbs /\ low.reset = six.reset
  BY <1>5, <1>8, WithGives
<1>10. /\ Good(clean) /\ Kept(low, clean) /\ clean.pcbs = low.pcbs
       /\ \A i \in Slots : ~clean.nc[i].netif
       /\ \A r \in Lists : clean.dr[r].entry = 0
       /\ \A p \in 1 .. PrefixSlots : ~clean.pl[p].netif
  BY <1>9, CleanupGood
<1> HIDE DEF clean
<1>11. u = With(clean, Net("own4", t.netif.ip6, t.netif.valid, No, Yes, No))
  <2>1. IsState(clean) /\ clean.netif = Net("own4", t.netif.ip6, t.netif.valid, No, Yes, Yes)
    BY <1>9, <1>10 DEF Good, Kept
  <2> QED BY <2>1, NetWrites
<1> HIDE DEF u
<1>12. /\ Good(u) /\ u.netif = Net("own4", t.netif.ip6, t.netif.valid, No, Yes, No)
       /\ u.nc = clean.nc /\ u.dr = clean.dr /\ u.pl = clean.pl
       /\ u.pcbs = clean.pcbs /\ u.reset = clean.reset
  BY <1>10, <1>11, WithGives
<1>13. ~u.netif.default /\ ~u.netif.up
  <2>1. u.netif.default = No /\ u.netif.up = No
    BY <1>12, NetFields
  <2> QED BY <2>1 DEF No
<1>14. u.pcbs = o \cap {"host"} /\ u.reset = o \ {"host"}
  BY <1>5, <1>9, <1>10, <1>12 DEF Kept
<1> QED BY <1>7, <1>10, <1>12, <1>13, <1>14 DEF v

\* core_init() of the empty state.
LEMMA CoreInitGood ==
  ASSUME NdAssumption, NEW ipv6 \in BOOLEAN
  PROVE  LET u == core_init(Nothing, ipv6) IN Good(u) /\ UpAndRunning(u)
<1> DEFINE t == Nothing
           At(i4, i6, va, up, li, de) == With(t, Net(i4, i6, va, up, li, de))
<1>0. /\ IsState(t) /\ t = At(AnyAddr, AnyAddr, No, No, No, No)
      /\ t.pcbs = {} /\ t.reset = {}
  BY DEF Nothing, With, Net, IsState, No
<1> HIDE DEF t
<1>1. ASSUME NEW i4, NEW i6, NEW va, NEW up, NEW li, NEW de, NEW x
      PROVE  LET a == At(i4, i6, va, up, li, de) IN
             /\ a.netif = Net(i4, i6, va, up, li, de) /\ a.netif.ip4 = i4 /\ a.netif.valid = va
             /\ a.netif.default = de
             /\ WithIp4(a, x) = At(x, i6, va, up, li, de)
             /\ WithIp6(a, x) = At(i4, x, va, up, li, de)
             /\ WithValid(a, x) = At(i4, i6, x, up, li, de)
             /\ WithUp(a, x) = At(i4, i6, va, x, li, de)
             /\ WithLink(a, x) = At(i4, i6, va, up, x, de)
             /\ WithDefault(a, x) = At(i4, i6, va, up, li, x)
  <2> DEFINE a == At(i4, i6, va, up, li, de)
  <2>1. IsState(a) /\ a.netif = Net(i4, i6, va, up, li, de) /\ \A n : With(a, n) = With(t, n)
    BY WithGives
  <2> HIDE DEF a
  <2>2. a.netif.ip4 = i4 /\ a.netif.valid = va /\ a.netif.default = de
    BY <2>1, NetFields
  <2>3. /\ WithIp4(a, x) = With(a, Net(x, i6, va, up, li, de))
        /\ WithIp6(a, x) = With(a, Net(i4, x, va, up, li, de))
        /\ WithValid(a, x) = With(a, Net(i4, i6, x, up, li, de))
        /\ WithUp(a, x) = With(a, Net(i4, i6, va, x, li, de))
        /\ WithLink(a, x) = With(a, Net(i4, i6, va, up, x, de))
        /\ WithDefault(a, x) = With(a, Net(i4, i6, va, up, li, x))
    BY <2>1, NetWrites
  <2> QED BY <2>1, <2>2, <2>3 DEF a
<1>2. netif_add(t, "own4") = At("own4", AnyAddr, No, No, No, No)
  <2> DEFINE a == At(AnyAddr, AnyAddr, No, No, No, No)
             b == [t EXCEPT !.netif = [ip4 |-> AnyAddr, ip6 |-> AnyAddr, valid |-> No,
                                       up |-> No, link |-> No, default |-> t.netif.default]]
  <2> HIDE DEF At
  <2>1. /\ a.netif.ip4 = AnyAddr /\ a.netif.default = No
        /\ WithIp4(a, "own4") = At("own4", AnyAddr, No, No, No, No)
    BY <1>1
  <2>2. b = t
    <3>1. t.netif.default = No
      BY <1>0, <2>1
    <3>2. b = With(t, Net(AnyAddr, AnyAddr, No, No, No, No))
      BY <1>0, <3>1 DEF With, Net, IsState
    <3> QED BY <1>0, <3>2 DEF At
  <2>3. netif_add(t, "own4") = netif_do_set_ipaddr(b, "own4")
    BY DEF netif_add, No
  <2> HIDE DEF b, At
  <2>4. netif_do_set_ipaddr(t, "own4") = WithIp4(t, "own4")
    BY <1>0, <2>1 DEF netif_do_set_ipaddr, netif_do_ip_addr_changed, AnyAddr, WithIp4
  <2> QED BY <1>0, <2>1, <2>2, <2>3, <2>4
<1> HIDE DEF At
<1>3. netif_set_up(netif_set_link_up(netif_set_default(netif_add(t, "own4"), TRUE)))
      = At("own4", AnyAddr, No, Yes, Yes, Yes)
  <2>1. /\ \A a : netif_set_default(a, TRUE) = WithDefault(a, Yes)
        /\ \A a : netif_set_link_up(a) = WithLink(a, Yes)
        /\ \A a : netif_set_up(a) = WithUp(a, Yes)
    BY DEF netif_set_default, netif_set_link_up, netif_set_up, WithDefault, WithLink, WithUp, Yes
  <2>2. WithDefault(netif_add(t, "own4"), Yes) = At("own4", AnyAddr, No, No, No, Yes)
    BY <1>1, <1>2
  <2>3. WithLink(At("own4", AnyAddr, No, No, No, Yes), Yes) = At("own4", AnyAddr, No, No, Yes, Yes)
    BY <1>1
  <2>4. WithUp(At("own4", AnyAddr, No, No, Yes, Yes), Yes) = At("own4", AnyAddr, No, Yes, Yes, Yes)
    BY <1>1
  <2> QED BY <2>1, <2>2, <2>3, <2>4
<1>4. netif_ip6_addr_set_state(
        netif_ip6_addr_set(At("own4", AnyAddr, No, Yes, Yes, Yes), "own6"), TRUE)
      = At("own4", "own6", Yes, Yes, Yes, Yes)
  <2>1. netif_ip6_addr_set(At("own4", AnyAddr, No, Yes, Yes, Yes), "own6")
        = At("own4", "own6", No, Yes, Yes, Yes)
    <3> DEFINE a == At("own4", AnyAddr, No, Yes, Yes, Yes)
    <3>1. a.netif.valid = No /\ WithIp6(a, "own6") = At("own4", "own6", No, Yes, Yes, Yes)
      BY <1>1
    <3> HIDE DEF a
    <3>2. ~a.netif.valid
      BY <3>1 DEF No
    <3>3. netif_ip6_addr_set(a, "own6") = WithIp6(a, "own6")
      BY <3>2 DEF netif_ip6_addr_set, WithIp6
    <3> QED BY <3>1, <3>3 DEF a
  <2>2. netif_ip6_addr_set_state(At("own4", "own6", No, Yes, Yes, Yes), TRUE)
        = At("own4", "own6", Yes, Yes, Yes, Yes)
    <3> DEFINE a == At("own4", "own6", No, Yes, Yes, Yes)
    <3>1. a.netif.valid = No /\ WithValid(a, Yes) = At("own4", "own6", Yes, Yes, Yes, Yes)
      BY <1>1
    <3> HIDE DEF a
    <3>2. ~a.netif.valid
      BY <3>1 DEF No
    <3>3. netif_ip6_addr_set_state(a, TRUE) = WithValid(a, Yes)
      BY <3>2 DEF netif_ip6_addr_set_state, WithValid, Yes
    <3> QED BY <3>1, <3>3 DEF a
  <2> QED BY <2>1, <2>2
<1>5. core_init(t, ipv6) =
        IF ipv6 THEN At("own4", "own6", Yes, Yes, Yes, Yes)
        ELSE At("own4", AnyAddr, No, Yes, Yes, Yes)
  BY <1>3, <1>4 DEF core_init
<1>6. Sound(Nothing.nc, Nothing.dr)
  <2>1. \A i \in Slots : Nothing.nc[i] = NoEntry
    BY DEF Nothing, Slots
  <2>2. \A r \in Lists : Nothing.dr[r] = NoRouter
    BY DEF Nothing, Lists
  <2>3. Nothing.nc \in Cache /\ Nothing.dr \in List
    BY DEF Nothing, Slots, Lists, Cache, List, NoEntry, NoRouter
  <2>4. 0 \notin Slots
    BY DEF Slots
  <2> QED BY <2>1, <2>2, <2>3, <2>4 DEF Sound, EntrySound, Marked, Distinct, Single, NoEntry, NoRouter
<1>7. ASSUME NEW i6, NEW va \in BOOLEAN, va => i6 = "own6"
      PROVE  /\ Good(At("own4", i6, va, Yes, Yes, Yes))
             /\ UpAndRunning(At("own4", i6, va, Yes, Yes, Yes))
  <2> DEFINE n == Net("own4", i6, va, Yes, Yes, Yes)
             u == With(t, n)
  <2>1. u.netif = n /\ u.reset = {} /\ Good(u)
    <3>1. Good(t)
      BY <1>0, <1>6 DEF Good, t
    <3> QED BY <1>0, <3>1, WithGives
  <2>2. n.ip6 = i6 /\ n.valid = va
    BY NetFields
  <2>3. n = [ip4 |-> "own4", ip6 |-> n.ip6, valid |-> n.valid, up |-> TRUE, link |-> TRUE,
             default |-> TRUE]
    <3>1. n = Net("own4", n.ip6, n.valid, Yes, Yes, Yes)
      BY <2>2
    <3> HIDE DEF n
    <3> QED BY <3>1 DEF Net, Yes
  <2> HIDE DEF n, u
  <2>4. UpAndRunning(u)
    BY <1>7, <2>1, <2>2, <2>3 DEF UpAndRunning
  <2> QED BY <2>1, <2>4 DEF At, n, u
<1>8. /\ Good(At("own4", "own6", Yes, Yes, Yes, Yes))
      /\ UpAndRunning(At("own4", "own6", Yes, Yes, Yes, Yes))
  <2>1. Yes \in BOOLEAN
    BY DEF Yes
  <2> QED BY <1>7, <2>1
<1>9. /\ Good(At("own4", AnyAddr, No, Yes, Yes, Yes))
      /\ UpAndRunning(At("own4", AnyAddr, No, Yes, Yes, Yes))
  <2>1. No \in BOOLEAN /\ ~No
    BY DEF No
  <2> QED BY <1>7, <2>1
<1> QED BY <1>5, <1>8, <1>9 DEF t

------------------------------------------------------------------------------
(* The theorem *)

\* The empty state is sound.
LEMMA InitIInv ==
  ASSUME NdAssumption
  PROVE  Init => IInv
<1> SUFFICES ASSUME Init PROVE IInv
  OBVIOUS
<1>1. \A i \in Slots : Nothing.nc[i] = NoEntry
  BY DEF Nothing, Slots
<1>2. \A r \in Lists : Nothing.dr[r] = NoRouter
  BY DEF Nothing, Lists
<1>3. Nothing.nc \in Cache /\ Nothing.dr \in List /\ IsState(Nothing)
  BY DEF Nothing, Slots, Lists, Cache, List, NoEntry, NoRouter, IsState
<1>4. 0 \notin Slots
  BY DEF Slots
<1>5. Sound(Nothing.nc, Nothing.dr)
  BY <1>1, <1>2, <1>3, <1>4 DEF Sound, EntrySound, Marked, Distinct, Single, NoEntry, NoRouter
<1> QED BY <1>3, <1>5 DEF Init, IInv, Good, RemovedClean

\* Every step of the loop keeps the invariant.
LEMMA NextIInv ==
  ASSUME NdAssumption, IInv, [Next]_vars
  PROVE  IInv'
<1>1. CASE Setup
  <2>1. PICK ipv6 \in BOOLEAN : s' = core_init(Nothing, ipv6)
    BY <1>1 DEF Setup, IInv
  <2>2. Good(s') /\ UpAndRunning(s') /\ phase' = "run"
    BY <1>1, <2>1, CoreInitGood DEF Setup
  <2> QED BY <2>2 DEF IInv, RemovedClean, Good, UpAndRunning, IsState
<1>2. CASE Message
  <2>1. PICK m \in Messages : s' = nd6_input(s, m)
    BY <1>2 DEF Message
  <2>2. Good(s') /\ Kept(s, s')
    BY <2>1, InputGood DEF IInv
  <2>3. phase = "run" /\ phase' = "run" /\ UpAndRunning(s')
    BY <1>2, <2>2 DEF Message, IInv, Kept, UpAndRunning
  <2> QED BY <2>2, <2>3 DEF IInv, RemovedClean, Good, UpAndRunning, IsState
<1>3. CASE Tick
  <2>1. Good(s') /\ Kept(s, s')
    BY <1>3, TickGood DEF Tick, IInv
  <2>2. phase = "run" /\ phase' = "run" /\ UpAndRunning(s')
    BY <1>3, <2>1 DEF Tick, IInv, Kept, UpAndRunning
  <2> QED BY <2>1, <2>2 DEF IInv, RemovedClean, Good, UpAndRunning, IsState
<1>4. CASE Deinit
  <2>1. /\ Good(s) /\ UpAndRunning(s) /\ outlived' \in SUBSET {"own4", "own6", "host"}
        /\ "own6" \in outlived' => s.netif.valid
        /\ s' = netif_remove([s EXCEPT !.pcbs = outlived']) /\ phase' = "done"
    BY <1>4 DEF Deinit, IInv
  <2>2. /\ Good(s') /\ ~s'.netif.default /\ ~s'.netif.up
        /\ \A i \in Slots : ~s'.nc[i].netif
        /\ \A r \in Lists : s'.dr[r].entry = 0
        /\ \A p \in 1 .. PrefixSlots : ~s'.pl[p].netif
        /\ s'.pcbs = outlived' \cap {"host"} /\ s'.reset = outlived' \ {"host"}
    BY <2>1, RemoveCleans
  <2>3. RemovedClean'
    BY <2>2 DEF RemovedClean, Slots, Lists
  <2> QED BY <2>1, <2>2, <2>3 DEF IInv
<1>5. CASE UNCHANGED vars
  BY <1>5 DEF vars, IInv, RemovedClean
<1> QED BY <1>1, <1>2, <1>3, <1>4, <1>5 DEF Next

\* The inductive invariant: the tables are sound, and the interface is up
\* from core_init() to core_deinit().
THEOREM Invariance ==
  ASSUME NdAssumption
  PROVE  Spec => []IInv
<1>1. Init => IInv
  BY InitIInv
<1>2. IInv /\ [Next]_vars => IInv'
  BY NextIInv
<1> QED BY <1>1, <1>2, PTL DEF Spec

\* Neighbour discovery never leaves a default router without its entry, or
\* an entry, a prefix or a connection that refers to an interface that
\* netif_remove() took away, in whatever order messages, ticks and shutdown
\* come and however small the tables are.
THEOREM NothingDangles ==
  ASSUME NdAssumption
  PROVE  Spec => []NoDanglingReference
<1>1. IInv => NoDanglingReference
  <2> SUFFICES ASSUME IInv PROVE NoDanglingReference
    OBVIOUS
  <2>1. Sound(s.nc, s.dr) /\ RemovedClean
    BY DEF IInv, Good
  <2>2. NeighborsSound
    BY <2>1 DEF NeighborsSound, Live, Sound, EntrySound, Marked, Distinct, Single, Slots, Lists
  <2> QED BY <2>1, <2>2 DEF NoDanglingReference
<1> QED BY <1>1, Invariance, PTL
==============================================================================
