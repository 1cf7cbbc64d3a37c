# A TLA+ model of nsproxy

nsproxy runs a command in a network namespace of its own whose only interface is
a TUN device. The parent process terminates every connection of the command with a
modified lwIP stack and relays it over a SOCKS5 or an HTTP proxy, or directly. These
modules model that relay, the stack below it, the protocols it speaks, the rules it
routes by and the life of its processes; `PROJECT.json` maps every definition to the
lines it models.

## The system and its parts

The parent is one thread around `epoll_wait()` (`src/loop.c`), which is asked for
one event at a time. A handler runs to its end before the next one starts; what
goes on meanwhile is the application, the kernel, the proxy and the name server.
So the hard part is not shared memory. It is the order in which callbacks of lwIP,
packets, socket events, timers and signals arrive, and what each of them may still
rely on.

| Part | Source | Module |
|---|---|---|
| TCP forward: `struct tcp_forward`, its callbacks, its socket | `src/core.c`, `skutils.c`, `direct.c` | `TcpForward` |
| lwIP TCP control block, as core.c sees it | `lwip/tcp.c`, `tcp_in.c`, `tcp_out.c` | `TcpForward` |
| What one direction of a connection promises | | `Stream` |
| lwIP TCP with sequence numbers: sending and receiving half | `lwip/tcp.c`, `tcp_in.c`, `tcp_out.c` | `TcpSender`, `TcpReceiver`, `TcpSeq` |
| Options of a TCP header | `lwip/tcp_in.c` | `TcpOptions` |
| UDP forwards, UDP association, learned addresses | `src/core.c` | `UdpForward` |
| Packets in: IP, ICMP, demultiplexing of UDP and TCP; answers and UDP out | `lwip/ip.c`, `ipv4/ip4.c`, `ipv4/icmp.c`, `ipv6/ip6.c`, `ipv6/icmp6.c`, `udp.c`, `tcp_in.c` | `IpInput` |
| Reassembly and fragmentation | `lwip/ipv4/ip4_frag.c`, `ipv6/ip6_frag.c` | `Reassembly`, `Fragments` |
| Packet buffers, and who holds them | `lwip/pbuf.c`, `src/core.c` | `Pbuf`, `PbufQueues` |
| The interface and neighbour discovery | `lwip/netif.c`, `ipv6/nd6.c` | `Interface` |
| Checksums; text of addresses | `lwip/inet_chksum.c`, `udp.c`; `ip4_addr.c`, `ip6_addr.c` | `Checksum`; `AddressText` |
| DNS over TCP: master, workers, eventfd | `src/tcpdns.c` | `TcpDns` |
| Handshake with the proxy | `src/socks.c`, `src/http.c` | `Handshake` |
| Datagrams of a SOCKS5 association | `src/socks.c` | `SocksDatagram` |
| Start-up, signals, reaping, exit | `src/main.c`, `src/loop.c` | `Lifecycle` |
| DNS messages: names, records | `src/core.c` | `DnsName`, `DnsAnswer` |
| Direct address blocks; direct domain rules | `src/main.c`, `src/core.c` | `CidrRules`; `DomainRules` |
| Address of option -d | `src/main.c` | `DnsOption` |

How they interact: a packet from the TUN device is put together (`Reassembly`),
checked and given to its flow (`IpInput`). A SYN makes a TCP forward, whose proxy
connection goes through `Handshake` before it forwards (`handshake_done` and
`handshake_failed` in `TcpForward` are its two outcomes, and `HandshakeEnds` says
that one of them comes). `TcpForward` uses the control block as an in-order stream
that is acknowledged piece by piece; `TcpSender` and `TcpReceiver` show, for the two
directions, that loss, reordering and retransmission make such a stream
(`RetransmitQueue`, `ReceivedExactly`, `Delivered`, `AllReceived`). The byte counts
that `TcpForward` keeps of its queues are pbuf chains in `PbufQueues`, with their
reference counts and 16-bit lengths. A datagram makes a UDP forward; over SOCKS5 it
waits for the one association, whose connection is a `Handshake` too
(`assoc_handshaked`, `udp_assoc_lost`). A datagram to the resolver on the gateway
goes to a `TcpDns` master instead. Answers of name servers are read by `DnsName` and
`DnsAnswer` and change the address rules that new and pending flows are routed by
(`Learned` in `UdpForward`); the rule lists that `UdpForward` uses as a set are what
`CidrRules` and `DomainRules` show them to be.

## The modules

**TcpForward** is one connection. Data are byte counts: both queues are pbuf chains
filled at the tail and freed at the head, so a count says which bytes they hold.
A handler of lwIP that makes several callbacks (`tcp_input()` calls sent, recv and
closed in turn, `tcp_proxy_io_event()` does EPOLLIN before EPOLLOUT) is cut at the
callbacks; `stage` names the part still to run, and no other part of the process
runs before it. The actions are the callbacks of core.c, the two timers,
`tcp_input()` for a segment or a reset, and the steps of the application, of the
peer and of the kernel. Option -N (no half-close towards the proxy) is the
variable `option`, chosen in `Init`. The SYN|ACK that the modified lwIP keeps back
until the proxy is connected is `proxyestab`. A control block that is used after it
was released makes an unpredictable step (`use_freed_pcb`, history variable `wild`).
A proxy connection is closed in the ways of `Closing`: with a reset or in order as
`tcp_forward_destroy()` asks, but during the handshake with the proxy the forced
shutdown is refused (`src/socks.c:620`) and the socket just closed. Until it is over the
proxy is no end of a stream yet, so what is said of the peer is said from `peerup` on.

**Stream** is the abstract specification: bytes are delivered in order, never more
than were written, and the end after the last byte. `TcpForward` implements it once
for each direction (`BothStreams`) through `INSTANCE ... WITH`.

**TcpSender** is a `struct tcp_pcb` with its queues of segments unsent and unacked,
window, congestion window, duplicate acknowledgements, retransmission and persist
timer. Sequence numbers are taken modulo `SeqSpace` and start just below it, so that
they wrap inside the first segments. Its actions are the events of the proxy connection
(`ProxyEstab` for the first, `Write`, `Shutdown`), `tcp_input()` of an acknowledgement,
with the data that `tcp_lwip_sent()` then asks the proxy for, or of
another SYN (`Input`, `InputSyn`), the slow timer (`Tick`, `SynRcvdTimeout`), and
the receiver at the other side of the device: it takes bytes in any order
(`Arrive`), acknowledges, reads, and what is on the way is lost. **TcpReceiver** is
the other half: the ooseq queue with its trimming, the receive window and what of it
was announced, the delayed acknowledgement. A window is announced in units of the
scale (`Scaled`), so the edge that the application is told (`wire`) can lie just below
the one the control block notes. The sender there cuts its stream into any segments and
sends any of them again.

**UdpForward** is all flows and the shared association. A flow is pending
(`proxy[f] = "NULL"`), has a proxy, or has no forward. Datagrams of a flow are
numbered. History variables: `tried` and `waited` (attempts to associate), `known`
(addresses the application was told) and `last` (the last datagram sent).

**IpInput** follows one packet at a time through `ip_input()`. A packet is a record of
what the code tells apart (version, first defect, classes of its addresses, fragment
state, extension headers, protocol, ports, ICMP type or TCP flags). The state is the
lists of control blocks in their order, the buffers held, and what is answered.
**Reassembly** is the list of datagrams under way with both codes, `ip` says which.
**Fragments** computes the fragments of a packet given as a chain of lengths.
**Interface** is the one `struct netif` with neighbour cache, routers and prefixes, as
arrays with indices where the code has pointers.

**Pbuf** has the operations of pbuf.c on a heap; an assertion that fails, or a use
after free, makes the heap insane. **PbufQueues** drives it: sndq and rcvq of a forward,
ooseq, the chain `tcp_input()` hands over, the fragments of a datagram.

**TcpDns** is one master with a worker per query; a message is a number of bytes
behind its two length bytes, and the buffer of a worker holds first the query, then
the answer. **Handshake** is the machine that socks.c and http.c share: a message is
its length, and the socket holds bytes of the answer and, behind them, bytes of the
application. Both leave it open how the streams are cut into pieces.

**Lifecycle** follows parent and child from `fork()` to exit: the descriptor passed
over the socketpair, the byte that lets the child go on, blocking of SIGCHLD, the
waitpid() loop, and the application, which forks and dies as it likes. Pending
signals merge, orphans fall to the subreaper or to the host's init.

**DnsName**, **DnsAnswer**, **TcpOptions**, **SocksDatagram**, **CidrRules**,
**DomainRules**, **DnsOption**, **Checksum** and **AddressText** are algorithms on bytes
and characters. Their properties compare the code with a reference definition that works
differently: the name found by following pointers as a relation, records found by their
layout, the options known from the list that was encoded, the payload found as the part
of a datagram behind a header that fits, blocks compared bit by bit, domains label by
label, the checksum summed over the words of the message instead of the memory, the
address read back as `inet_pton()` does. Widths (bits of a
byte, of an address, of an int, the number of rounds) are constants.

## The runs

Several components share a run: a variable `which` says which of them moves, and the
others stay in an initial state. The parts of a run do not interact.

| Run | Module | Checks | Distinct states |
|---|---|---|---|
| `tcp_safety` | `MCTcpForward` | five invariants and both refinements, with errors, resets, timers and a resent SYN\|ACK everywhere | 262797 |
| `tcp_live` | `MCTcpForward` | both ends of stream and the answer to a SYN arrive | 32413 |
| `tcp_stack` | `MCTcpStack` | sender and receiver of lwIP over a lossy, reordering device: queues, wire, reception, windows, delivery | 103982 |
| `udp` | `MCUdpForward` | queues, order, association, backoff, rules, no flow pending forever | 89824 |
| `helpers` | `MCHelpers` | DNS over TCP, handshakes, processes | 36471 |
| `algo` | `MCAlgo` | the algorithms on bytes against their references | 633433 |
| `net` | `MCNet` | reassembly, buffers, packets, interface | 70744 |
| `tcp_timewait`, `tcp_synack`, `tcp_persist`, `ip6_hbh`, `dnsopt_ipv6` | | one statement of a comment, an assertion or the README each, violated | |

What the passing runs show is stated at each property; in short:

- TCP forward: nobody sees the end of a stream without the whole stream
  (`BothStreams`); a forward that is destroyed with undelivered data of an established
  connection resets the side that loses it (`LossIsReported`); whichever callback meets the last condition for an
  end of stream forwards it, and no forward waits for an event it has not asked for
  (`NothingStuck`); lwIP's contract with callbacks that abort is kept
  (`CallbackContract`); unsent payload is not freed (`PayloadHeld`); the application
  gets no SYN|ACK for a proxy connection that is not up (`SynAckAfterProxy`).
- TCP below it: unacked and unsent together are, segment by segment, what was written
  and not acknowledged (`RetransmitQueue`), what is on the wire is what was written at
  its sequence number, also after a segment was split for a small window
  (`WireSound`), what is written arrives, and the end behind it, through lost windows
  and probes (`Delivered`). In the other direction every byte reaches core.c once and in order
  whatever the segments overlap, and no assertion of `tcp_receive()` fails
  (`ReceivedExactly`); an announced window is not taken back but for less than a unit of
  the scale, and what was announced always fits the buffer (`WindowNeverShrinks`);
  neither window nor acknowledgements come to rest too early (`AllReceived`).
- UDP: the queue of a pending flow holds the newest datagrams, is sent in order and at
  most once, and off port 53 is not given up before an attempt was made (`QueueKept`);
  the association is not used while it is gone; attempts respect the backoff; rules
  learned while a flow is pending apply to it; no flow stays pending forever, even with
  a proxy that never answers.
- Network layer: a datagram that leaves reassembly is one that was sent, whole and with
  each fragment once (`DatagramWhole`); the list of those under way is counted, bounded and holds nothing finished
  (`QueueSound`) and forgets what is not completed; no entry of the
  neighbour cache waits for an answer for ever (`StaleStateExpires`). A packet reaches the flow with its addresses
  and ports, the lists of flows lose none, and every buffer is given away once
  (`FlowExact`); what the stack answers goes to the packet's source and comes from the
  address the packet was sent to, or from the interface's own for errors and groups
  (`AnswersAddressed`). Reference counts, lengths
  and contents of all pbuf chains are exact, past 16 bits too (`PbufsCounted`). No
  router, prefix, address or connection refers to an entry or an interface that is
  gone (`NoDanglingReference`).
- The others: see the comments at the properties.

### Findings

- `tcp_timewait`: `tcp_slowtmr()` frees a control block whose TIME_WAIT is over
  without the err callback (`lwip/tcp.c:1450`), while the forward may still wait for
  the proxy to take the rest of rcvq. The comment at `src/core.c:1163` says the
  callback comes when the connection is destroyed. `OutlivedOnlyInTimeWait`, which is
  proved, says that this is the only case.
- `tcp_synack`: `tcp_process()` subtracts one for the SYN from the acknowledged bytes,
  which count data only (`lwip/tcp_in.c:993`). When the first ACK covers data, which
  takes a resent SYN|ACK, one acknowledged byte stays in sndq and the end of the
  proxy's stream is not forwarded. `src/core.c:1009` says data is freed after its ACK.
- `tcp_persist`: the assertion at `lwip/tcp.c:1237` says that the persist timer runs
  only with something to send. A zero-window probe carries a byte. When the update that
  opened the window was lost and the byte is accepted, its acknowledgement empties the
  queue; `tcp_output()` returns for an empty queue (`lwip/tcp_out.c:1271`) before it
  resets the timer (line 1329).
- `ip6_hbh`: `lwip/ipv6/ip6.c:1033` says that a Hop-by-Hop header comes only first. After
  reassembly `ip6_input()` reads the headers again from the first one (line 1012), so
  that one in the right place is taken for a late one; the datagram is dropped and its
  sender told of a parameter problem.
- `dnsopt_ipv6`: the test behind a closing bracket (`src/main.c:1176`) is true for
  every character, so the form the README (line 69) requires for IPv6 is rejected.

Seen while modelling and not checked by a run:

- `add_direct_cidr()` cuts the parsed prefix length to an int before it checks it
  (`src/main.c:196`; `ToInt` models it, and the lengths of run `algo` are all too small
  to be changed by it).
- A forward that is destroyed by force while the handshake with its proxy runs closes the
  connection in order: `socks_shutdown()` and `http_shutdown()` refuse, and
  `tcp_forward_destroy()` does not look at the result (`Closing`; `src/proxy.h:35` says
  that the connection will be forcefully closed).
- A segment that was sent, waits in unsent after a timeout and is filled up meanwhile can
  be acknowledged in part. If the persist timer then splits it for a window smaller than
  the acknowledged part (`lwip/tcp.c:1254`), its first half is all acknowledged, its
  distance from `lastack` wraps around, and `tcp_output()` never finds it to fit.
  `HeadSendable` excludes that, and `Delivered` allows for it. TLC reaches it with segments
  of 4 bytes, a buffer and a window of 8, in a search too long for a run.
- `tcp_split_unsent_seg()` leaves a FIN on the first half too, since `TCPH_SET_FLAG()` only
  adds flags (`lwip/tcp_out.c:934`). core.c never meets it: it passes an end on when all
  data is acknowledged (`Reads`), so no FIN shares a segment with data.
- `ip6_reass_free_complete_datagram()` restores the bytes of the header it used for its
  own notes with the size of a pointer (`lwip/ipv6/ip6_frag.c:165`), less than the
  comment above it says; only the ICMP message it then sends would show it.
- The TUN interface has no broadcast flag, so a subnet broadcast is an ordinary address;
  the limited broadcast matches any IPv4 flow with the same ports (`FlowExact` says so).
- A UDP answer too large for a datagram of lwIP ends the forward, one that is too large
  for the fragments is dropped and the forward stays (`Reply` in `IpInput`).
- `ip6addr_ntoa_r()` looks one block behind the last (`lwip/ipv6/ip6_addr.c:272`), where
  the type of the address is; a single zero block at the end is therefore printed as a
  zero and not as `::`. Both read back as the same address (`AddressesReadBack`).

### Bounds

Every bound is a constant named in its module or a width made small. They are chosen so that the limits of the code are reached:

- TCP forward: segments of 2 bytes and a send buffer of two segments, so that reading
  stops at the limit with 5 bytes from the peer; a window of 2 and a socket buffer of 1,
  so that rcvq fills and the socket refuses; idle timeout of one tick. In `tcp_live` the
  streams are 2 and 3 bytes, still past the socket buffer and the first segment.
- TCP sender: 3 bytes with SYN and FIN in a sequence space of 16 that wraps inside them; a
  receiver that holds 1 byte, so that the window closes, a segment is split and the
  persist timer runs; 2 retransmissions, so that one is answered and the next gives up;
  4 duplicate acknowledgements, one more than fast retransmission needs. Receiver: 7
  bytes through a window of 6 in segments of up to 2, so that three segments can be out
  of sequence and a late one overlaps two of them; the window is announced in units of 2
  and by the SYN|ACK as 5, so that both roundings happen. One acknowledgement is on the way at
  a time (`MaxAcks`); it can stay there while the other side goes on, and arrive late.
- UDP: queue of 2 with 3 datagrams, so that a datagram is dropped; two flows, so that
  one sees what the other's attempts do; backoffs of 1 and 2 ticks against an idle
  timeout of 3, on port 53 of 1, so that one outlasts the backoff and the other does
  not. Flows to the gateway, blacklist mode and more flows are covered by the theorems.
- DNS over TCP: a buffer of 4 bytes with a query and an answer that just fit, an answer
  that does not and a query that does not. Handshake: a buffer of 7, an answer of 4
  bytes with 3 of the application behind it. Processes: the command with two
  descendants, which can be child and grandchild.
- Names: every message of up to 5 bytes over 6 byte values, 4 rounds, a buffer of 4.
  Answers: every message of up to 8 cells with up to 2 questions and 2 records. Blocks:
  addresses of 2 and 4 bits in bytes of 2 bits, every prefix length and one too long,
  every table of two blocks, so that a prefix ends inside a byte and the table grows.
  Domains: every pair of lines out of the short ones, every name of up to four
  characters. Fragments: every chain of up to 8 bytes, in blocks of 2, with an MTU that
  leaves no whole number of blocks. Checksums: bytes of four values, chains with pieces of
  odd length at odd places. Addresses: 4 blocks, every pattern of zero ones. Options:
  every pair of 13 options, whole and malformed, with the end of the header and of the
  first pbuf anywhere in them, and a second segment. Datagrams: every one of up to 5
  octets behind the type of its address, with a good one behind it; targets up to the
  longest name, which just fits the buffer (the code has twice the room).
- Reassembly: three datagrams, one of three fragments, with room for 3 pbufs, so that
  one is evicted for another, and 2 ticks. Buffers: lengths of chains modulo 5 with
  queues of up to 6 bytes, so that they wrap. Packets: two ports and up to 3 control
  blocks, with packets of each version, defect, address class, chain of extension headers
  and protocol.
  Interface: 3 neighbours for a cache of 2, one router slot and one prefix slot, so that
  entries are recycled while they are referred to.

Symmetry is not used: flows, queries, datagrams and processes differ in the constants.

### Fairness

Only of steps the program or a live partner owes:

- `tcp_live`: handlers of ready events run; `connect(2)` and the handshake end (the
  kernel's timeout, `HandshakeEnds`); the application's stack acknowledges; the peer
  reads. Nothing is assumed of timers or resets, or of either side sending or closing.
  It assumes that no SYN|ACK is resent (`SynAckLost = FALSE`): with one, the finding of
  `tcp_synack` makes `EofsArrive` false.
- `tcp_stack`: the timer that is due ticks (core.c calls it from a timerfd);
  acknowledgements that keep coming are received; a byte that is sent again and again
  arrives at last (strong fairness: the device may lose any packet, not every packet);
  the application acknowledges and reads; in the other direction its kernel sends again
  what is not acknowledged, probes a closed window, and the proxy takes data.
  `Delivered` allows the connection to be given up by its retransmission limit.
- `udp`: the timer ticks. Nothing is assumed of the proxy.
- `helpers`: ready descriptors are served; in the handshake the proxy answers what it
  gets and sends all of its answer. The code has no timer there: with a silent server a
  TCP forward ends when lwIP gives up SYN_RCVD (`tcp_slowtmr_active`, which the safety
  runs include and no fairness asks for), and pending UDP flows end by
  `PendingResolved`. Parent and child are scheduled. The application owes nothing.
- `net`: the timers of core.c tick while there is something to wait for.

Deadlock checking is off where the system really stops: a connection that is over,
all queries answered, processes gone, an interface removed, a function that returned.
It is on for `udp`.

## What is proved

TLAPS checks the proofs for every value of the constants that satisfies the named
assumptions, so for any number of flows and bytes, any buffer and any timeout.

**TCP forward** (`TcpForwardInv` has the invariant, `TcpInputProofs` and
`TcpForwardProofs` the proofs). Assumption: `SizesAssumption`, that segments have at least
two bytes and that the send buffer holds two of them. The properties relate ends of the system that are far apart,
so none is inductive. `IInv` adds:

- `Counts`: where every byte is. Each stream is the sum of what lies in the socket, the
  queue, the segment being processed and with its reader.
- `Ends`: what the state of the control block says about both ends of stream.
- `Staging`: what each part of a handler may rely on.
- `Connecting`: what holds until the proxy connection is up.
- `Wakeups`: which events are asked for, also in the middle of a handler.

There is a lemma per action (socket events, lwIP callbacks, the rest), with two common
lemmas for the ends of a forward (`ForwardReset`, `ForwardClosed`). From `Invariance`
follow `TypeCorrect`, `LossReported`, `NeverStuck` (from `EofsForwarded` and
`WakeupsKept`), `ContractKept`, `PayloadKept`, `SynAckDelayed`, `OutlivedOnce`,
`EndsAreWhole` and `ForwardIsTwoStreams` (from `PeerToAppRefines` and
`AppToPeerRefines`). The refinement towards the peer needs one more invariant,
`PeerTold`, because the peer may read on after the forward is gone.

**UDP** (`UdpForwardProofs`). Assumptions: `UdpAssumption` (types), `PowerAssumption`
(facts on powers of two, which the provers do not have), `IdleAssumption` (the idle
timeout is longer than the longest backoff, 302 and 32 in the code). `IInv` says
of each flow how its queue, the last datagram sent and the number of datagrams belong
together (`GoodFlow`), of the association that flag, phase and countdown agree
(`AssocInv`), and of time that an untried pending flow has more ticks left than the
countdown (`TriedInv`) and that elapsed and remaining backoff add up (`BackoffInv`).
The association and the flows change independently in most steps, so the proof has one
set of lemmas for what a step does to a flow and one for what it does to the
association. Proved: all invariants and action properties of the run `udp`
(`QueuesKept` from `QueueIsExact`, `OrderKept` and `NoneExpiresUntried`), and `TypeOK`.

**DNS over TCP** (`TcpDnsProofs`). Assumption: `DnsAssumption` (sizes, and a buffer that
holds the two length bytes). `Phases` says of each worker, by the phase it is in, whose
bytes its buffer holds, how many of them have been moved, and what the name server has;
`SemaphoreExact` is inductive beside it, since the eventfd and the set of answers that
wait change in the same steps; counting them takes the lemmas on cardinalities. Proved:
`SemaphoreIsExact`, `MessagesAreWhole`, and `AnsweredOnce`, an action property that no
run states.

**Handshake** (`HandshakeProofs`). Assumption: `SizesAssumption`, that each message fits
the buffer and an answer leaves room behind it (the messages of socks.c and http.c are
shorter than their buffers of 1024 and 4096 bytes). `IInv` adds to `StreamBoundary` where
the bytes of the message under way and of its answer are: in the buffer, in the socket, or
not yet sent. Proved: `BoundaryKept`.

**Processes** (`LifecycleProofs`). Assumption: `ProcsAssumption`, that nsproxy and the
host's init are not among the processes of the command. `Startup` orders the start-up of
parent and child; `Family` says that parents are processes that live or have been
replaced by the heir, without a cycle; `Waiting` says what the waitpid() loop still owes.
The family matters for the end: a subreaper without a child has no descendant
(`NobodyLeft`), because a process below it would have an ancestor that is its child.
Proved: `NoDeathIsLost`, `ApplicationServed` and, as an action property, `LastOut`.

**Interface** (`InterfaceProofs`, with `NatLemmas` for the least and the greatest element
of a set of slots). Assumption: `NdAssumption` (sizes and times are natural numbers, and
`Addrs` are the specified addresses). Messages about the unspecified address come in as
well. As the destination cache is all zeros, a redirect for it passes the lookup, and
such messages can bring an entry without an address to life. A router's entry has one,
which is what `NeighborsSound` keeps. `NoDanglingReference` is nearly inductive: `IInv`
adds types, that there is nothing before `core_init()`, and that the interface is up with
its addresses until `core_deinit()`, without which the resets of `netif_remove()` would
find no route. There is a lemma for each operation of nd6.c, stated for any state and
not for the variable `s`, so that handlers that call several of them are composed from
lemmas as in the code. Two facts carry the proof: the slot picked for a new entry is no
router's (`SlotIsFree`), and the list never points to one entry twice
(`RouterSlotGives`), so that a router that expires takes the only mark with it
(`TickGood`). Proved: `NothingDangles`.

Only model-checked: liveness (every `~>` and `<>` property), which this prover does not
handle; the algorithms and the rest of what lies below `TcpForward` (`TcpSender`,
`TcpReceiver`, `Pbuf`, `Reassembly`, `IpInput` and the like). Most of those statements are
about folds and recursive definitions over sequences. The library's induction theorems
take an operator as a parameter, which the provers cannot instantiate; `NatLemmas` has an
induction over sets of numbers instead, but what a recursive definition computes needs a
proof of its own for each one.

## Not modelled, and why

- In lwIP's TCP: active open, the estimate of the round trip time (a timer may fire at
  any time it runs), keepalive, SACK and timestamps (not compiled in), `refused_data`
  (core.c never refuses data), the limits on ooseq as limits (`FreeOoseq` drops it at any
  time instead). `TcpSender` counts the other side's window in bytes, after scaling.
- Paths the code cannot take: data after `TF_RXCLOSED`, `tcp_close()` with an unread
  window, a failing eventfd write, a zero-length answer in tcpdns.c, EPOLLOUT of a UDP
  forward with a queue; `tcp_write()`'s assertion on a changing maximum window
  (`lwip/tcp_out.c:486`); in `ip4_frag()` a payload whose last fragment would be empty
  (`lwip/ipv4/ip4_frag.c:852`), which the MTU of the device does not give.
- Limits that are not the tighter ones: `TCP_SND_QUEUELEN / 2` pbufs in
  `tcp_proxy_input()` and `tcp_lwip_sent()` (`src/core.c:986`, `1129`). Only tens of
  thousands of very short reads meet it before the limit on bytes; reading then stops
  earlier, and the acknowledgement of the last piece, which leaves no pbuf queued, asks
  for more all the same.
- Running out of memory (`ERR_MEM`, `malloc`): the program exits or drops the packet.
- Errors of the device: `tun_output()` returns `ERR_IF` for a packet above the MTU or a
  broken descriptor, and for a full one drops the packet, which is `Lose` in `TcpSender`.
  So the error return of `tcp_output()` (`lwip/tcp_out.c:1366`), after which the segment
  stays in unsent for the timer, is not there; in `IpInput` a sender meets `ERR_BUF` and
  `ERR_RTE`, which it treats alike.
- Fragments that are malformed in length, or reach past 16 bits (`ip4_frag.c:357`, `373`,
  `528`, `589`; `ip6_frag.c:304`): `Reassembly` gets pieces of whole packets.
- In nd6: what serves link layers that resolve addresses (filling the destination cache,
  queued packets, solicitations), duplicate address detection and autoconfiguration; a TUN
  device has no link-layer addresses. In IP: forwarding, several interfaces, multicast
  groups (MLD, IGMP), which core.c does not use.
- Routines that only move bytes: copying of pbufs, also between them and the device
  (`IpInput` has `tun_output()` as the place where packets leave), base64, `ip_addr`
  comparisons. Fragments read from the device come in one pbuf each.
- The relay address that a UDP forward keeps when its association is lost: nothing in
  the repository says what should become of such a forward.
- The other checksum algorithms, and headers with declarations and configuration only,
  which are much of the tree.
- Namespace and mount set-up: one step of `Lifecycle` that may fail. Option parsing other
  than -d, reading of rule files (comments, long lines), logs. An outside signal that
  kills the parent.
