# Formal models of Tstat

Tstat watches the packets of a link, follows every TCP connection and UDP flow it sees, and writes
one line per flow and one set of histograms per period. This directory holds TLA+ models of its
core, TLC configurations that check them, and proofs checked by TLAPS. The models are translated
from `tstat/*.c`, as the default build compiles it: `WIPE_TCP_SINGLETONS`, `WIPE_UDP_SINGLETONS`,
`CHECK_TCP_DUP`, `CHECK_UDP_DUP`, `SEVERE_DEBUG`, `BUFFERBLOAT_ANALYSIS` and the classifiers are
defined; `LOG_HALFDUPLEX`, `LOG_UNKNOWN`, `SUPPORT_IPV6` and `PACKET_STATS` are not.
Paths below are relative to `tstat/` unless they say otherwise.

Contents: [The system](#the-system) · [Modules](#modules) · [Runs](#runs) ·
[Fairness](#fairness) · [Proofs](#proofs) · [Where code and documents disagree](#where-code-and-documents-disagree) ·
[Not modelled](#not-modelled) · [What could come next](#what-could-come-next)

## The system

### Parts, their state and how they interact

| Part | State | Operations | Talks to |
|---|---|---|---|
| Packet loop, `tstat.c` | `current_time`, `file_count`, `step`, `outdir`, `threaded`, `con_cat`, the runtime configuration | `ProcessFile`, `ProcessPacket`, `ProcessFileCompleted`, the library calls `tstat_*` | calls everything below; owns the threads |
| Capture formats, `tcpdump.c`, `snoop.c`, `erf*.c`, ... | a read position | `pread_*`: the next packet | packet loop |
| TCP flow table, `tcp.c:60-672, 1634-1830` | `ttp[]`, `ptp_hashtable[]`, `num_tcp_pairs`, `last_cleaned`, free lists | `FindTTP`, `NewTTP_2`, `trace_done_periodic`, `trace_done` | flow analysis, flow closing, logs |
| UDP flow table, `udp.c:52-327, 793-1164` | `utp[]`, `pup_hashtable[]`, `udp_pair_flist`, `tot_conn_UDP` | `FindUTP`, `NewUTP`, `udp_flow_stat`, `close_udp_flow`, `udptrace_done` | the same |
| Flow closing thread (`-p`), `tcp.c:400-460` | four mutexes, one condition | fire, wake, clean | both tables, shared memory |
| TCP flow analysis, `tcp.c:673-1633, 1840-4163` | per direction: sequence numbers, counters, flags, round trip times | `tcp_flow_stat`, `make_conn_stats` | sequence space, layer 7, queueing delay |
| TCP sequence space, `rexmit.c:1-796` | per direction: four quadrants of segment lists | `rexmit`, `ack_in` | flow analysis |
| Anomaly classification, `rexmit.c:797-1089` | times and IP numbers kept with the segments, counters | `real_rules_test`, called by `addseg` | sequence space, logs |
| Queueing delay, `bufferbloat.c`, `ledbat.c` | per direction: a base delay, gross delays, a window that is open or not | `bufferbloat_analysis`, `BitTorrent_flow_stat` | flow analysis, logs |
| UDP classifiers, `udp.c:328-792`, `rtp.c`, `skype.c`, `p2p.c` | per direction: a type, evidence of uTP, video and Kad; one `struct rtp` or `rtcp` | called for each packet, and once at the close, by the plugin list, `plugin.c` | UDP flow table, histograms |
| TCP classifiers, `tcpL7.c`, `web.c`, `videoL7.c`, `p2p.c`, `skype.c`, `naivebayes.c`, `ipp2p_tstat.c` | per connection: `con_type`, `state`, message sizes, the request's class; globals of the last YouTube request | the same | TCP flow analysis, histograms |
| Chat protocols, `msn.c`, `ymsg.c`, `jabber.c` | a flow type per connection; counts of people online | called by `tcpL7.c` and at the close | TCP classifiers |
| Internal networks, `tstat.c:2500-3300`, `misc.c` | lists of networks and of network cards | the options `-N`, `-M`, `-2`, `-C`; `internal_ip`, `in_out_loc` | decides in every other part what goes out, comes in or is not logged |
| Packet dumping, `dump.c` | one pcap file per protocol, a window | `dump_flow_stat`, `dump_flush` | runtime configuration, output directory |
| Statistics, `histo.c`, `addresses.c`, `rrd.c` | two copies of every histogram and of the address tables; counters of bitrates | add, swap, print, clear | every part adds; dumping prints |
| Statistics dumping, `tstat.c:3411-3628` | two mutexes, one condition, `step`, `outdir` | `flush_histo_engine`, `stats_dumping`, `stat_dumping_old_style` | statistics, packet loop |
| Runtime configuration, `tstat.c:1665-1705, 3540-3602`, `inireader.c` | modification time, counters, log switches | `ini_read` | dumping, logs |

Without `-p` everything happens in one thread, in the order of the packets. With `-p` there are
three: the packet thread, the thread that closes idle flows and the thread that prints
statistics. They share the tables and histograms, and hand work over by the same idiom twice: the
packet thread locks the mutex of a condition, signals it, unlocks, and then locks and unlocks a
second mutex which the other thread holds until it has begun. `HOWTO.pod:91-96` keeps `-p` for live
captures.

### What is hard, and what makes each part correct

* **Threads.** A signal must find its waiter, a firing must lead to a cleaning or a page, the
  packet thread must get back to its packets, and no two threads may be in one table at once. The
  locks are not nested in one order, an ERRORCHECK mutex is taken twice on purpose, and two sleeps
  of 200 microseconds are part of the protocol.
* **Tables.** Every open flow is found under its address, every closed one is gone from the list,
  the slot and the free list, each flow is counted and reported once, and idle flows do not stay.
  Cleaning is driven by packets: it happens when an unknown flow appears.
* **Sequence space.** Segments of a direction are split, merged, forgotten and numbered modulo
  2^32. What was sent must be remembered, and a round trip time must not come from a retransmission.
* **A probe in the middle.** Packets are seen late, twice, cut short or not at all, and what one
  direction says is explained by the other: measurements and labels must rest on what happened, in
  any order in which it is seen.
* **Labels that change.** Several analysers judge each packet and trust each other's marks; bytes and
  flows are counted under the label of the moment.
* **Periods.** Each page shows the traffic of its period, the whole of it, once.
* **Several input files and a configuration that changes.** The tables outlive a file, some counters
  do not; the output directory, the logs and the packet dumps follow rules of their own.

`PROJECT.json` lists these hazards at their lines, with the properties that look at them, and every
part of the repository with what is and is not modelled.

## Modules

| Module | Models | Proved about in |
|---|---|---|
| `SlotSearch` | the circular search for a free slot of `NewTTP_2` and `NewUTP`, in closed form | `SlotSearchProofs` |
| `SlotLoop` | the loop itself, compared with `SlotSearch` | `SlotSearchProofs` |
| `FlowClose` | the locking of the threaded engine | `EngineProofs` |
| `FlowLists` | the hash lists as sequences | `TcpProofs` |
| `FlowLog` | abstract: what a flow table promises | |
| `TcpTable` | the TCP flow table | `TcpProofs` |
| `UdpTable` | the UDP flow table, with and without threads | `UdpProofs` |
| `SeqSpace` | quadrants, segments, retransmissions, samples | `SeqSpaceProofs` |
| `Anomalies` | what became of each data packet, guessed from the segments | |
| `StatDump` | two copies of statistics, dumping, reloads, ends of files | `StatDumpProofs` |
| `Bufferbloat` | the queueing delay of a connection: samples, chances, windows, the windowed log, the checks | `MeasureProofs` |
| `TcpAnalysis`, `TcpOptions` | what is measured of a TCP flow, and the options of its SYNs | `MeasureProofs` |
| `TcpClass`, `TcpChat`, `Web` | what a TCP connection is called: all its analysers, its chat session, its web requests | `TcpProofs` |
| `Traffic`, `Networks` | where bytes and flows are counted, and which hosts are internal | |
| `UdpClass` | what a UDP flow is called: all its analysers | `UdpProofs` |
| `RtpWindow`, `RtpStream`, `RtcpStream` | the counters of a media stream and of its reports | `MediaProofs` |
| `Engine` | output directories, logs, packet dumps, the runtime configuration | `EngineProofs` |
| `MCTcpTable`, `MCUdpTable`, `MCSeqSpace`, `MCTcpAnalysis`, `MCTcpClass`, `MCUdpClass`, `MCRtp`, `MCEngine` | instances for TLC | |

`TcpTable` and `UdpTable` use `SlotSearch`, `FlowLists` and `FlowLog`; `TcpClass` extends `TcpChat`, `Web`
and `Networks` (which extends `Traffic`); `TcpAnalysis` extends `TcpOptions`; `RtpStream`
drives `RtpWindow`, and `MCRtp` joins it with `RtcpStream`; `MCSeqSpace`
joins `SeqSpace` with `Anomalies`. An analysis sees one flow, because the code
keeps its state in the flow's record; what flows share (tables, histograms, YouTube's globals, the
counts of people online) is in the module of the shared part, or enters as a step of another flow.

### SlotSearch, SlotLoop

`NewTTP_2` (`tcp.c:346-376`) and `NewUTP` (`udp.c:80-115`) look for a free slot from the one used
last, around the array, at most `LIST_SEARCH_DEPT` steps. `Landing(cur, taken)` is where the loop
stops and `Found` if that slot is free. `SlotLoop` runs the loop one turn per step from every table
and start, and `SlotSearchProofs` proves that it ends where the closed form says; the tables use the
closed form (`UdpTable` by `EXTENDS`, with `Pairs` slots and depth `SearchDept`).

### FlowClose

One control point (`mpc`, `cpc`) per lock operation of the two threads. `ttpLock` is the ERRORCHECK
mutex: taking it twice and giving it back unowned fail without effect, and the code relies on both
(`FindTTP` locks it again after a firing). The tables are the sets `tcp` and `udp` of taken slots:
what the table modules say about contents is not repeated. `due` stands for the elapsed time that
fires a cleaning. The packets are chosen freely: the first SYN of a flow, one that ends a flow, one
with data (`rexmit.c` takes the same mutex for its free lists), a datagram.

`SleepsSuffice` is an assumption of the code made visible: the two `usleep(200)` give the other
thread time for a few instructions. Without it the cleaner may finish its pass and take
`flow_close_started_mutex` again before the packet thread has taken it once; the packet thread then
waits for a firing that only itself can give. With `SleepsSuffice = FALSE` TLC finds `FireReturns`
violated; no run of the project does, because the sleep is there to prevent it.

`Firing` is a firing that can come to an end: one begun by `FindUTP` while the packet thread still owns
`ttp_lock_mutex` from a failed search of the TCP table cannot, and both threads stop (see below).
`Safe` holds there too.

### TcpTable, FlowLists, FlowLog

`TcpTable` is the sequential engine. `ttp` maps a slot to what of a `tcp_pair` decides its fate (the
sides that sent SYN and FIN, the sides whose FIN is acknowledged, whether only SYNs were seen, the
time since the last packet); `ptp_hashtable` maps a bucket to a sequence. Actions: `RecvFirstSyn` (and
`OpenFlow`) is `FindTTP` and `tcp_flow_stat` on an unknown flow, with the cleaning first if it is due
(`pending` is the flow that waits for it); `Recv` a packet of a known flow, which keeps or closes it
in one of three ways; `RecvDuplicate` a packet `dup_tcp_check` drops; `CleanSlot`/`CleanDone` the turns
of `trace_done_periodic`; `Tick` the time between packets; `EndOfFile` is `trace_done` and the start of
the next file. `tot_conn_TCP` is an `unsigned long` and wraps. `FlowLog` is the abstract promise: a set
of open flows, each of which is reported once when it leaves. `TcpTable` implements it with the
flows `FindTTP` finds as the open ones.

### UdpTable

`utp[]`, the hash lists and the free list share the pointer `next` of a `udp_pair`, so the module
keeps the pointers. With `-p` the packet thread walks and reorders a list without a lock while
the cleaner unlinks from it under one, so every turn of either loop is a step. Without `-p` the
packet thread waits for the cleaner (`pc = "clean"`).

`Apart` is an assumption about the traffic of the threaded engine that nothing in the code ensures: no two
open flows share a bucket and no packet comes for a flow that waits to be closed. `udp_table` checks everything under
`Apart` (and with any traffic for the sequential engine); with `Apart = FALSE` the lists break.

### SeqSpace

One direction of one connection. `pquad` holds the quadrants that exist, with their links as
pointers; `RecvData` and `RecvAck` are the entries of `rexmit` and `ack_in`, and each turn of the loops of
`addseg` and `collapse_quad` is a step (`WalkOn`, `InsertBefore`, `SplitBefore`, `WalkWithin`, `TackOn`,
...). `LastSeq` is the macro `LAST_SEQ` as it is written. The history variables `tx`, `sent`, `dup`
and `late` remember what was really sent, so that the results can be compared with it. Left out: the
statistics made from the samples.

### Anomalies

`rules_test` (`rexmit.c:941-1088`) counts each data packet as in sequence, retransmitted after a timeout or
by fast retransmit, with or without need, reordered, copied by the network, or a window probe.
`real_rules_test` decides by what the segments around it show: `Rule1b` and the others are the variables of
that name, `Guess` the cascade after them, `RealRulesTest` the whole with the label inherited from the packet
before (a batch). `TackedOn`, `PutBefore` and `FoundWithin` are the three ways through `addseg`, `LabelAck` is
`ack_in` with `collapse_quad`. Packets are units sent again as they were, in one quadrant without its limit of
segments: their splitting is in `SeqSpace`. The estimates of the round trip time are chosen from a set whenever
a half is sampled, within the bounds of the code (`RTO_MIN`, `INITIAL_RTO`, ...). `sight`, `told` and `topAck`
remember how every unit was seen and every ACK, and `AnomaliesTrue` compares each label with them:

* in sequence is what comes after everything seen, and nothing else;
* a retransmission is called unnecessary if an ACK had covered it, and the others are not;
* a timeout means that the packet, or the nearest one if it was never seen, was last seen longer ago than
  the estimated RTO;
* a fast retransmit follows more than `DupAcks` ACKs for what comes after the last packet before it, if ACKs
  come in order (a late one adds to the count of a merged segment);
* a network duplicate carries the IP identification of a packet seen before with the same data, unless the
  sender numbers all packets alike; and a copy of what was first sent, and is not acknowledged, is called one.
  A copy of a retransmission need not be: the segment keeps the identification of the first one;
* a reordered packet was never seen, and what overtook it has not been acknowledged since.

The type `UNKNOWN` cannot be reached; the types 8 to 13, which are counted as unknown, are one label here.

### StatDump

Histograms and address tables exist twice. A histogram is its number of samples: `ip` for those only
the packet thread feeds, `tcp` for those fed at the end of a flow, `rate` for bitrates, which
`update_fake_histos` sets at the dump. `add_histo` is three steps (pointer, load, store), because the
cleaner adds without a lock. `stats_dumping` is one step per lock operation, histogram and clearing;
`stat_dumping_old_style` is one step, since nothing runs beside it. `period` counts what really
happened since the last swap, `owed` what the page being printed should show, `page` what it does show.
Flushes come from the time step, from a reload that sets `histo_engine` to 0, from the end of a file
and, with `-c`, twice from the end of a file. `ThreadedFiles` is 1, as `-p` is for live captures: with a
second file the packet thread waits for a mutex it holds itself (see below).

### Bufferbloat

What an ACK does to the queueing delay of its connection, both directions together: `Sample` is
`rtt_ackin` with a round trip time (the ACK is `NORMAL`), `Chance` every other ACK
(`chance_is_not_valid`). `now` is the second of the current packet; packets come in time order, as the
checks of the code require. `tot` and `until` of a direction are its totals since the connection began
and up to the last closed window; `InWindow` is their difference, what the open window holds. The first
ACK of a later second closes the window of both directions before it is counted itself (`Windowed`,
`Close`), and prints it with a void window for each second in between (`Lines`). The checks of the
`SEVERE_DEBUG` build are predicates (`Consistent`, `Closable`, `Closed`, `LastCounted`, `AnalysisChecks`);
an ACK that fails one ends the program with `stopped = "check"`, so `ChecksHold` says that none fails.
The program can also end because the ACK has the time stamp of its segment (`"stamp"`) or because a
direction has had more than `ChanceLimit` (1000000) chances (`"chances"`): both are in the code. `hist` and
`low` are history: what really happened in each second, and the smallest gross delay.

### TcpAnalysis, TcpOptions

`tcp_flow_stat` on one flow, with what `make_conn_stats` makes of it at the end. A packet of the model is
named by positions in the stream of its sender; the header carries them modulo `SeqModulus`. The actions
are what a sender may do (`SendSyn`, `SendData`, `SendAck`, `SendFin`, `SendReset`), each of which is one
packet the sniffer sees, in any order, twice or never; `Idle` closes the flow after a silence. Below
`Measured`, one operator per paragraph of the function (`AckOfFin`, `Flight`, `SeqLimits`, `Options`,
`RateWindows`, `DataStats`, `Unique`, `Windows`, `AckNumber`, `CongestionWindow`, `Messages`), in its order.
`rexmit` enters as an answer: how many of the bytes it has seen and whether it has seen a later one, as
`SeqSpace` shows it away from the edges of its quadrants. `h` is history. `TcpOptions!ParseOptions` walks the
bytes of a header; `Sent` and `Scale` read the same off the list of options.

`SeqModulus` is 16, and streams start at 0, in the middle or just before the wrap. The properties compare
each column of the log with `h`; where they except something, the code does what the exception says.

### TcpClass, TcpChat, Web, Traffic, Networks

One connection and everything that looks at its segments: `P2pFlowStat`, `TcpL7`, `VideoFlowStat`, in the order
of `plugin.c`. A segment is a record of what the analysers can tell apart (a command, an offset, a size,
the path of a request). `TcpL7` is the `switch` over `state`, one operator per state (`Unknown`, `HttpCommand`,
`RtspResponse`, `MsnWait`, ...), beside the classifiers by size (`Ed2k`, `Rtmp`, `Mse`); `Label` is
`map_flow_type`. `Packet` sends any of the first segments again, late or out of order; `OtherRequest` is the
request of another connection between two of this one, which changes YouTube's globals; `Close` counts
the connection, with any verdict of the Bayesian classifier. `TcpChat` holds what `msn.c`, `ymsg.c` and `jabber.c`
keep: the commands seen on each side, the flow type, the contributions to the counts of people online.
`Web` has the rules of `web.c` as tables in the order of the code: `Classify` takes the first that fits,
`RulesMet` says what a path should get if the order did not matter; tails of a rule that have one class are one, `{listed}`. `TakenForFirst` says when `rtmp_handshake_check` takes a
segment for the first of its side: when the stream is then as long as the segment, which is so of the first, and of one
that comes back after another that ended there (`tcpL7.c:273`). `Traffic` says which rows of a table
a byte or flow is added to; `Networks` reads the options `-N`, `-M`, `-2` and `-C` and says which hosts are
inside (`PlaceOf`), and `PlacedAsAsked` says it again from the files alone.

### UdpClass

One flow, its two directions, and the analysers of a packet: `SkypeFlowStat`, `P2pFlowStat`, `RtpFlowStat`,
`Behavioural` (`CheckUtp`, `CheckVod`, `CheckObfuscate`). Each takes the flow and gives it back changed, so that a
packet is their composition (`Analysers`); `Close` is `ConnStats`. `counted` is the list of what `L7_UDP_num` was
given for a direction, and the ghost `dropped` the number of confirmed streams that were given up or overridden.
`CountedFor` says what each entry stands for: a stream, a judgement of Skype, or the label at the close. `Age` lets the first packet of a direction be old enough for early classification.
A packet is any member of `Payload`: lengths, numbers of sequence and acknowledgement, signatures and frames are
whatever they are, and `Confs` picks for TLC those that meet in one analyser.
The verdict of the Bayesian classifier is free.

### RtpWindow, RtpStream, RtcpStream

`RtpWindow` is `rtp_stat`: the window of slots, `BogusReset`, `FirstWindow`, `FullWindow`, and `RtpClose` for the last window.
`RtpStream` drives it with an encoder and a network: `Packet(k)` is any packet not too far ahead, or one seen
before; `Renumber` is an encoder that starts again. Ghost variables know what came: `early` that the first window
filled before the second began and each packet came `InTime` (not a window late, not again after half the number
space or `TsBack` ticks), `Forgotten` that a slot was missed five times in a row, `Ticking` that time stamps advance,
but not by `OVERFLOW_TH` while packets are lost. `RtcpStream` is the two directions of reports: the probe
sees a sender's report (`SenderReport`), the receiver may hear it (`Hear`) and answers (`Answer`), the probe sees the answer
later, again or never (`ReceiverReport`); `NoReport` is a packet without a block, `Tick` the clock. `Decode` walks
the blocks of a packet as far as it was captured.

### Engine

Where output goes. `w` holds the output directories made, the one in use, the log engine, the pcap files;
`ini` is the configuration file on disk, `poll` what `ProcessFile` knows of it (times seen, how often it looked).
`OpenFile`, `FlowPacket` (a packet that may lead to a line of a flow or of a delay), `OtherPacket`, `Check`, `NoCheck`,
`NoSuchFile` and `ReloadIni` (the looks at the file), `Flush` (a page, and for a capture maybe a new directory),
`EndOfFile`, `Quit` and `End` are the program; `Edit` and `Remove` are the user. Time is in minutes, since
directories are named by the minute. The program here is the one without `-p`. `EngineAssumption` has two
facts of the code that `Confs` must respect: a live capture is one call of `ProcessFile` (`tstat.c:762`), and an
output directory holds more than one page (`DIRS` is 12, `param.h:112`).

## Runs

TLC on two workers; the longest takes about a minute and a half.

| Run | Question | Bounds, and why they are enough |
|---|---|---|
| `flow_close` | exclusion, ownership, signals, progress of the threaded engine | 3 TCP and 2 UDP slots searched one deep, so that a search fails with and without a free slot left; 4 flows; spurious wakeups |
| `tcp_table` | the whole table over one file | 3 flows, two of them in one bucket; 2 slots, so that a flow is refused; limits 1 and 2, so that a singleton and a flow expire apart; 3 openings |
| `udp_table` | the whole UDP table, both engines | 3 flows, two in one bucket, 2 slots, 4 openings: pairs are recycled and a flow refused |
| `seq_space` | lists, links, counts and samples of one direction; do the labels of its packets say what happened? | quadrants of 8 numbers, 2 segments in each, so that one is forgotten; 5 packets from 8 (new, copied, repacketised, late, across the first boundary, far ahead) and 4 ACKs, 2 instants. For the labels 3 units, 5 packets and ACKs, 3 instants and `DupAcks` 1 (3 in the code): each label is reached, for packets seen and not seen before where both are possible |
| `stat_dump` | pages, directories, returns and losses of dumps | 2 (3 without threads) flushes, output directory full after 2; 2 or 3 packets to 2 addresses, 1 flow the cleaner closes, 2 files without threads |
| `bufferbloat` | can a check of the debug build fail, does the windowed log say what happened, is the base the minimum? | 5 ACKs in 4 seconds, any order of directions and of samples and chances; round trips of 0 (exit), below 1 ms, 2 and 5 ms; `ChanceLimit` 2, so that it is passed |
| `tcp_analysis` | are the columns of the log what the two ends did? | up to 6 packets; streams of 1 to 3 bytes that start at 0, at 5 or before the wrap at 16; seven kinds of flows (`MCTcpAnalysis`), because their dimensions do not interact: messages, a SYN missed before a number 0, ACKs and a second SYN, both FINs, window scales, options cut anywhere, gaps in time |
| `tcp_class` | do labels rest on evidence, does each byte count once, do the counts of people balance, are hosts placed as asked? | 5 segments from 19 families, each with the segments that meet in one part of the state machine; limits of 2 to 5 packets, so that they are passed; command lines of up to two options over addresses of 3 bits |
| `udp_class` | the same for UDP, and is the exit of `skype.c` reached? | 5 packets for 10 pairs of ports and families of payloads, 1 packet before early classification |
| `rtp_stream` | are losses, repeats and round trips what the network did? | windows of 3, numbers modulo 36 that wrap as the second window begins, 9 packets seen of 18 sent, so that a slot can be missed five times and be met again (8, `FastPackets`, where time stamps outrun `largest_ts`, which the exception `Followed` needs); losses of up to 2 in a row; a step of 1 or of 25 ticks, the second past `OverflowTh`; 2 packets of the sender of reports and 2 of the receiver, counters modulo 64 |
| `engine` | does output land where it should, is nothing overwritten, do edits take effect? | 2 files with equal or different names, with and without `-c`, or a capture of 6 minutes whose directory is full after 2 pages; 1 or 2 edits; reloads after 2 stable looks |
| `engine_logs_off` | does the program run with the logs off? It does not | the same |

`CHECK_DEADLOCK FALSE` is said by every run but `udp_table`, because the system stops: the input ends, a
bound is reached, the program exits (`bufferbloat`, `udp_class`, `engine`), or, in `flow_close`, the packet
thread and the cleaner wait for each other when a UDP flow comes while the TCP table is full.
The bounded quantities are constants whose names begin with `Max` or `Threaded`, `Files`, `FastPackets`, and the fields
`packets`, `edits`, `minutes` and `files` of a `conf`; each is a guard of the action that consumes it.

What the passing runs show: in the sequential engine the two tables are sound and implement
`FlowLog`, the sequence space is remembered faithfully in its first quadrant, and pages are exact.
In the threaded engine the flow closing handshake is sound and live as long as the sleeps suffice and
no UDP flow meets a full TCP table, and pages show their period for everything the packet thread
alone counts. The queueing delay analysis cannot trip over its own checks, and its log accounts for every
second. What is measured of a TCP flow is what its ends did, and labels of flows rest on what both sides
said, whatever the sniffer missed or saw twice; the exceptions are named in the properties and listed
under "Where code and documents disagree".

## Fairness

* `FlowClose!FairThreads`: weak fairness of each thread's own steps. The operating system runs both; nothing
  promises packets. Weak fairness is enough because each lock is held for finitely many steps of the
  other thread, and is then free until this thread takes it. Spurious wakeups are finitely many:
  POSIX allows them, and a wait that never stops waking for nothing would be no wait.
* `UdpTable!FairSpec`: weak fairness of the handling of a packet already received, and of the cleaner.
* `StatDump!FairSpec`: weak fairness of the packet thread within a packet and a flush, of the dumper, and
  of an addition the cleaner has begun. Packets and ends of files need not come.

* `Engine!FairSpec`: packets of flows keep coming (without them nothing looks at the configuration file),
  and what the code does after a packet is done. The look at the file has strong fairness, because
  it is due once a minute and not in between.

Liveness is model-checked only: `FireStartsCleaning`, `FireReturns`, `PacketHandled`, `FlushReturns`,
`PageForEveryFlush`, `EditsTakeEffect`.

## Proofs

Everything below is proved by TLAPS for all values of the constants that satisfy the named
`ASSUME`s of the modules. TLC evaluates those assumptions in the runs.

* **SlotSearchProofs** — the search stays within the array, a failed search has seen taken slots
  only, and one that gives up has seen more than `LIST_SEARCH_DEPT` taken slots, or all there are
  (`RefusalNeedsCrowd`). The argument is about modular distance from the start. The loop of `SlotLoop`, turn by turn, ends where `Landing` says
  (`LoopCorrect`): the invariant says how far it has gone and that every slot it has passed is taken; both ways
  to stop follow. No run repeats it.
* **EngineProofs**, the threads of `FlowClose` — types; `LocksOwned`: who holds which mutex at which control point
  (`Ownership`); `TableExclusion`; `IdleOwnerOnlyWhenFull`; with `SleepsSuffice` also `SignalFindsWaiter`
  and `HandshakeComplete`, and all of them together as `EngineSafe`, which is the run's `Safe`. The
  inductive invariant is `TypeOK`, `Ownership`, `Started` (the cleaner waits before the first packet is
  read) and `Carried` (if the packet thread holds `ttp_lock_mutex` outside the table, every slot its last
  search saw is taken). `Carried` is why the leak is harmless to exclusion: the mutex is only ever
  given up by steps that also free such a slot. It depends on what `SlotSearchProofs` says of failed
  searches.
* **EngineProofs**, the packet loop of `Engine` — the run's `OutputSound` (`OutputIsSound`) and `OutputKept`
  (`OutputStays`), for any files or length of a capture, any configuration, edits and reloads, any number of
  directories. The inductive invariant `RunInv` has four parts. `Typed`. `Whole`: while the program may go on, its
  outputs are `Fit`, that is, the directory in use is the last one made (`Rooted`), the logs opened with it are open in it
  (`Lined`), every open dump is of a protocol that is switched on and in that directory (`Opens`), the next trace
  directory of the same directory is a new one (`Counted`), and a file of the trace directory in use has been
  passed by its protocol's counter (`Dumps`). The last two are why no dump is created over another. A lemma per
  function of the code says that it keeps these (`new_tracedump`, the dump of a packet with its slices, a reload of
  the dump engine, a new output directory, the close). `OnTime` is for captures: directories are named by the minute, and
  a second one in one minute would remove the first; a minute has at most one look at the file and one page, of
  which a directory takes more than one, so `Pages` says that what is still possible in this minute does not fill
  the directory. It is false for `Dirs = 1`. `Begun`: there is no directory only before the first packet, or after the
  first file was empty, and which files can leave flows open.
* **TcpProofs**, the table of `TcpTable` — which entries `MoveToHead` and `Unlink` of `FlowLists` keep, and that they keep order
  and distinctness; then types (with the wrap of `tot_conn_TCP`), `ListsMatchTable`, `SortedByAccess`,
  `StaleBound`, the first three together as `TableKept`; for one input file `Conserved` and that `TcpTable` implements `FlowLog`. The invariants are
  proved in that order, each using those before it: lists and table agree, therefore closing the
  head of a list closes the right flow, therefore counts are conserved. During a cleaning `StaleBound`
  is strengthened by what the loop has already passed (`CleanedBehind`), and `ListsMatchTable` by the fact
  that the waiting flow is not in the table (`PendingUnknown`). `StepChange` reduces every action to four
  kinds of change (insert, refresh, remove, tick), so that each invariant is proved for the kinds.
* **TcpProofs**, the labels of `TcpClass` — `FlowSound` (`FlowsSound`), `OnlineCounts` (`SessionsCounted`), `Settles`
  (`LabelsSettle`) and `Evidence` (`LabelsEvident`), for any set of segments, any order, loss and repetition of them, any number
  of packets, any limits, any command line and any width of an address. About `Paths` it is assumed, and TLC finds it so, that each has a
  class of the tables of `Web` and none that of a video after a page (`YOUTUBE_VIDEO204`), which is what two requests make together;
  about the hosts, that they are where the options put them (`PlacesAssumption`); about the families of peer to peer protocols, that
  none is called `HTTP` or `SKYPE`. A packet passes through the analysers in a row, and a lemma per function says which fields it writes and
  how (`Arrived`, `Peered`, `Guesses`, `Turns`, `Labelled`; `Passes` is their composition); each state of the state machine
  has its own lemma, and all say the same (`Turns`): which protocol may be recognised in which state, by what
  (`Shown`), and what must have been said for the next state to be entered (`Entered`). Four invariants rest on it.
  `ClassInvariant` has the chat: `Session` says that the counts are those of the type, that a type belongs to the protocol of the
  state, and, of Yahoo, that a message seen of the other kind was seen as one. `Rises`: a type goes only when a certain one
  comes or when RTMP is given up, and the label is the greatest of the types in `Priority`, so it does not fall.
  `GroundInvariant` ties what is remembered to the segments: the state to its opening (`StateGround`), the sizes noted, the
  messages, the ends of the streams and the handshakes of RTMP to segments that were sent (`SizeGround`), each type to what it
  was recognised by (`Ground`), the variables of YouTube to the request of this connection (`WebGround`). An answer comes after
  the opening because the state was there before the packet. `Evidence` includes `RulesMet`, which speaks of the rules of
  `Web` and of no state: it is the hypothesis of `LabelsEvident`, and TLC finds it true in the run.
  `FlowInvariant`: the types fit the state (`Fits`: which protocols a connection may have in each state, what `Sound` needs
  before a protocol may be recognised inside another), and the rates balance (`Balanced`: every side by itself). A packet adds its bytes
  under one label to the rows of one side, all and its share (`RowsOK`, `KeysKnown`), so both sums of a balance grow alike;
  Skype adds to one side of it what it also adds to the exception. The sums are of the library (`SumFunctionOnSet`, a recursive function that
  chooses an element), and what they are is shown by least counterexample (`SumsExist`, `SumMore`). `Placed` is about no step: what the
  options have set after each of a command line (`OptionsAre`) gives what `PlacedAsAsked` reads off the files.
* **UdpProofs**, the table of `UdpTable` — `TableKept` and that `UdpTable` implements `FlowLog`, without threads for any
  traffic and, with the cleaner thread, only for the traffic of `Apart` (`Separate` says one or the other); `PacketsStampOwn`
  without threads only. With `-p` and other traffic all three are false, see the next section: `FindUTP` searches
  without a lock, and `Apart` assumes away the cases in which that matters. Here a list is what
  the pointers `next` make of it. The invariant says of
  every hash list and of the free list that it is the pairs it should hold in the order of a numbering `pos`,
  each pair's `next` being the one numbered next (`IsList`); `IInv` says that there is such a numbering. A
  move to the head, an opening and a release give one pair a smaller number (`Push`), and what `Chain`, `On` and `Ends` read
  off the pointers follows because numbers rise along a list, so that it ends within `MaxMade` steps. The rest of `IInv` is
  where `FindUTP` and the cleaner are: the pairs passed are of other flows, `pup_last` is the predecessor of `pup`
  (`Searching`), the walk of the cleaner has not passed its victim (`Walking`) and is in another list than
  the search (`KeptApart`, from `Apart`).
* **UdpProofs**, the labels of `UdpClass` — all that the run checks of a flow: `Sound` (`FlowSound`), `Evidence`
  (`GroundsFound`), `CountedFor` (`CountsExplained`) and `NoExit` (`NeverExits`), for any payloads, options and limits
  of the checks. The inductive invariant is `ClassInv`. `Pair`: the state of `check_uTP` is in both directions, and what one
  says was sent the other has seen. `UtpGrounds`, `KadGrounds` and `VodGrounds` tie the memory of each check to packets
  that were sent: the header that a state of uTP stands for, with the connection and number kept with it; the
  request that a Kad direction waits an answer for, and the last length before it; a signature counted `n` times is
  the one of the last `n` packets in a row. `Tallied` and `Balanced`: the entries of a direction are its streams, the one
  it is and those `dropped`, and an early judgement of Skype; the close adds at most a judgement and the label. `Judged`: a direction of a Skype type was
  judged early, so the classifier of Skype does not meet a flow it has no name for (`NoExit`). Each of the analysers has a
  lemma that says which of the fields it writes and that it keeps these parts, and a packet is their composition.
* **SeqSpaceProofs** — types, `LinksSound` and `SegmentsOrdered` (together `StructureKept`), for every size of the quadrants and any
  number of packets, under the assumption `CutRight`: packets that cross a boundary cross the first one.
  The assumption is needed because beyond the first quadrant `LAST_SEQ` cuts the first piece of such a packet
  short, and the second one, made longer to match, records bytes that may lie outside its quadrant.
  The inductive invariant adds what is true in the
  middle of a walk: where the piece lies relative to the segments before and after its position
  (`PieceSound`), and that the rest and the quadrants still to be collapsed exist (`RestSound`, `TodoSound`).
  On it rest the theorems about history. `NothingLost`: every byte sent is recorded or *pending*, that is, in the
  piece being placed or the rest; every step of `addseg` deals with a set of pending bytes, records it, and
  records nothing else that is still to come. `CountsRight`: then the bytes `addseg` counts are those it
  meets recorded already (`Counted`), and if there are any while the packet is not out of order, it has counted
  some (`LateKnown`). It needs `NoByteShared`, no packet or part of one ends with the byte another begins
  with, because the test for overlap (`rexmit.c:250`, `<=`) takes two segments with one byte in common
  for disjoint; then segments begin and end at edges of packets and are strictly apart (`EdgesKept`).
  `SamplesRight`: a segment that was not retransmitted consists of bytes sent once (`AllSentOnce`). It
  needs `RetransMod > MaxPackets`: `retrans` has eight bits, and after 256 retransmissions of a segment is 0 again
  (`NoWrap`). The traffic of the run satisfies `CutRight` and `NoByteShared`, and TLC has checked each part of the
  invariants on it.

* **MeasureProofs**, on `Bufferbloat` — types, `ChecksHold`, `WindowsTile`, `WindowsReportTheirSecond` and `BaseIsMinimum`, and
  the run's `ConnectionSound` (`AgreementKept`) and `LogTrue` (`LogIsTrue`), for any round trip times, any number
  of ACKs and any number of seconds. The inductive invariant `IInv` is `Agreed` (the directions share
  window and printed edge; in each the counts and sums of the open window are in order, the last sample
  is 0 if its sum is; an open window has seen a chance), `Printed` (the log ends where the open window
  begins and each line agrees with `hist`) and `Remembered` (the open window is its second of `hist`, later
  seconds are empty). `Agreed` is needed because a direction may close a window in which only the
  other one saw ACKs: that is where the last sample of the other side must be forgotten, and where the
  code does it by hand (`bufferbloat.c:1171`). One lemma per function of the code (`CloseFacts`,
  `WindowedFacts`, `NotValidFacts`, `AnalysedFacts`) says what it leaves behind. The base delay is followed
  through the same functions by `WindowedBase`, `AnalysedBase` and `BasedStep`. `TotalsCarried` (`CarriedOver`) is
  about the totals over windows: what is not in them yet is in the open window, and the number of windows
  that were not void only grows with a line of the log.
* **MeasureProofs**, on `TcpAnalysis` — the run's `Sound` (`AnalysisSound`), `Measures` (`AnalysisMeasures`, of which
  `AnalysisCounts` and `AnalysisFlight` are parts) and `MessagesSplit` (`AnalysisMessages`), for any two
  streams, any sizes and any number of packets, in any order, with repeats and losses. One assumption, `FlowsAssumption`, which TLC evaluates too: a stream, with its SYN and FIN, does not
  reach once round the sequence space (one of 4 GB does, and then two bytes have one number); a SYN that comes
  again with another number names a byte of a stream, and of both if FINs are sent; what `ParseOptions` finds
  in a SYN is a record of numbers (a fold over bytes: the prover cannot tell), and a window, scaled, a number.
  `AnalysisInv` has the types, paragraph by paragraph of `tcp_flow_stat`, and `Closing`: the numbers a side was seen to send
  lie in its stream, `fin_seqno` is the end of the stream, unless the FIN came with data or the numbers wrap, and
  `closed` is said exactly when the FIN was acknowledged. It is needed because the code compares a number
  with `fin_seqno`, and only the history of the stream says whose number that is. `SentInv` counts: each SYN and FIN is counted
  (`FlagsCounted`), the last one kept and compared with the next (`Judged`), and of a side that behaves the positions seen are its SYN,
  its FIN and the bytes counted (`Gathered`). The two `--len` and the two `--retrans` of `tcp.c:1280-1296` are right
  together only for that reason: a repeated SYN or FIN is at a position seen before. `FlightInv` says of one SYN and ACKs
  in order that `ack` of the other side is the last byte acknowledged, and, of a stream in order, `seq` the
  last byte sent (`Tracked`); arithmetic modulo `SeqModulus` (`ModBack`, `ModApartBy`) then gives the window. The proof showed what `CwinTrue`
  has to except: with half of the sequence space or more on its way, the difference is a negative `int32_t` and not counted
  (`tcp.c:1534`).
  `WindowInv` follows the windows: which scale is on (`Opened`, `Scaled`), that the first packets of a flow whose SYNs came once and
  first are those SYNs (`Begun`, `Whole`), and that the largest window is the largest of those meant (`WindowsMeant`). The options of a
  flow are those of its SYNs (`Agreed`), under the hypothesis of `AnalysisMeasures`, `OptionsParsed`: `ParseOptions` finds what
  the list says. That is a fold over the bytes of a header, which the prover cannot unfold; the run checks it of each of its
  flows (`OptionsKept`), and the proof showed that it is needed, since an MSS of 65535 is read as -1 and one of 0 is none.
  `LastRates` is about the close, where a last window that is not over enters with the time it lasted.
  `RateInv` says of the rate that with data in the windows `Slots` (numbered from the first byte's) the window open is the last of
  them, the empty ones below are counted, and the longest run of them (`RatedFrom`): `LongestStep` and
  `EmptyStep` say what a window beyond a gap adds. `TiledInv` is about the messages: before one has ended, `min_seq`
  is where the numbering starts, and afterwards the sizes add up to the distance to the end of the last one (`Tiled`). The
  sum of a list is a recursive function; that it exists, is unique, and grows by what is appended (`SumsExist`, `SumsUnique`,
  `TotalAppend`) is proved by least counterexample (`LeastOf`). The proof corrected what the messages count from: a stream
  whose SYN was missed, and whose first byte seen has the number 0, is numbered from the next packet, because
  0 stands for "not seen yet" in `min_seq` (`tcp.c:1164`).
* **StatDumpProofs** — the run's `PagesSound` (`PagesKept`), and `SwapWaitedFor` (`Swaps`): the copies are swapped only
  while the packet thread waits, so that a packet is counted in one copy. The inductive invariant has five
  parts. `Control`: who holds which mutex, and that from the signal until the dumper unlocks
  `stat_dump_mutex` the packet thread stays before that lock (`Rendezvous`); a packet is being counted in
  `mpc = "add"` only, in the current copy (`Adding`). `PagesCounted`: flushes asked for are the pages printed, the one
  to be signalled and the one at work. `Directories`: those left behind are used up and smaller, so no
  name is used twice. `Counts`, `Rates` and `Tables`: the current copy holds the period so far, the frozen one the
  period owed until it is cleared; the bitrates likewise, since their reset, which follows the swap. An
  address table is `Tidy`: no address twice, the cleared entries last, which is why a search that stops at
  the first free entry finds what is there. `Asked`: a flush by a reload is done while the engine is still on.
  `WritersStep` says which actions write which variable, and each part is proved for its writers only. Two
  hypotheses, and TLC shows that neither can go: `SleepsSuffice`, both naps of 200 microseconds are long
  enough (else a signal finds nobody waiting, and the page is never printed), and `ThreadedFiles = 1`, `-p`
  reads one input file (with `-p -c` and two, the packet thread swaps the copies by itself at the end of the
  first, while the dumper may be printing one, `tstat.c:1758`).

* **MediaProofs** — the run's `MediaSound` (`MediaKept`), `RtcpTrue` (`ReportsTrue`), `CleanStream` (`CleanStreams`) and
  `ChargesTrue` (`ChargesKept`), for
  windows, moduli and thresholds of any size that satisfy the assumptions (the slots divide the sequence space,
  which is more than twice the threshold of `rtp_stat`, itself more than five windows; the sender's
  counter does not wrap between two reports), any number of packets, losses, repeats and reports.
  `StreamInv` says that a record is `Whole`: the losses are those of the bursts, finished and open, which a loss or
  an arrival in `FullWindow` keeps; a lemma per function of `rtp.c`. `CleanInv` says of a stream that comes complete
  and in order what its record holds: with `off` packets since the last renumbering, the slots of the last `Win` hold
  their numbers and the others what `BogusReset` or `rtp_check` left there (`Held`), the window is full when `off` is a
  window, and so the next packet finds in its slot the one of a window before (`NextCounted`), where the distance is
  exactly `Win` and nothing is lost. That is arithmetic of two remainders, `Win` dividing `Mod`. `CleanStreams` has one
  hypothesis: the jump of an encoder that renumbers, if it does, is at least five windows, and more than
  a window short of a whole turn. A smaller one is no jump for `rtp_stat` (`rtp.c:773-775`): it is counted as a
  loss or as late packets, as it should be. `ChargeInv` is about streams that lose, repeat and reorder: each slot
  used holds the number of the packet that used it last (`Recorded`), so what the next one finds there says whether
  it is a repeat, was overtaken, or follows a gap (`Meeting`); the packets called lost are no more than those
  passed over, which did not come though a later one took their slot (`Gone`), and the end of the flow finds those
  that were not passed over yet, at most one for each slot up to the last (`Ending`). Why a number is taken for a new beginning
  is arithmetic of numbers and time stamps (`NoJump`). `RtcpInv` has, for each direction, what the record and the histograms say of
  each other (`Direction`), for each message in flight that the probe's last sender's report is no
  younger than it says (`Messages`, why a round trip is never negative), and for reports that come
  in order that bytes and packets between them add up to what was sent, though the counter wraps (`Tiled`).

**Model-checked only.**

* Liveness under fairness (in `FlowClose`, `StatDump`, `UdpTable` and `Engine`): out of the prover's reach.
* That `ParseOptions` of `TcpOptions` finds the options of a SYN (`OptionsParsed`): a fold over the bytes of a header.
* `RulesMet` compares two readings of a list of rules, and says nothing of a step.
* `AnomaliesTrue`: its clauses have exceptions that speak of the whole history of a unit (the packet before it, the
  nearest one seen), and TLC visits every history of five packets.

## Where code and documents disagree

Shown by a run of its own (`findings` in `PROJECT.json`):

1. The log engine can be switched off (`-L`, or `log_engine = 0` with `-T`), but the line of a queueing delay
   is written without asking for it, to a file that was never opened (`bufferbloat.c:900`). Run
   `engine_logs_off`.

Seen while modelling, and kept as the code has them. Many are exceptions named in a property; for
those in brackets, the constant named makes TLC show them.

*Threads*

* With `-p`, a full TCP table and a UDP flow, both threads stop for ever (`udp.c:265`): `FindUTP` waits for
  `flow_close_cond_mutex` with the `ttp_lock_mutex` that a failed search left locked (`tcp.c:632-648` returns before
  the unlock at 668), and the cleaner waits for that one. (`flow_close` reaches it: `Firing` excepts it.)
* With `-p` the UDP lists are reordered without a lock (`udp.c:198`) and can become cycles, as the comment
  at `udp.c:159` fears (`Apart = FALSE`). Single-packet UDP flows live for `UDP_IDLE_TIME`, not `UDP_SINGLETON_TIME`
  (`udp.c:1093`, `param.h:69`).
* `addseg` and `collapse_quad` give segments back to the free list without the mutex that `create_seg` takes for
  it (`rexmit.c:279`).
* With `-p`, disabling the histograms at run time loses the period that should be flushed first
  (`tstat.c:3568`, comment at 3565). The flows open at the end of the input are never reported
  (`tstat.c:1763-1772`), and a second input file makes the packet thread wait for its own mutex (`tstat.c:1766`;
  `ThreadedFiles = 2`). A new output directory is made by the dumper while others write (`tstat.c:3511`).
* The cleaner may add to a histogram that has been printed and cleared (`histo.c:388` against 565).
* A signal that ends the program locks `stat_dump_cond_mutex` in whatever thread receives it
  (`tstat.c:2157`).

*Flow tables, files and configuration*

* `tot_conn_TCP` is reset between files although the flows stay, and goes below zero (`tstat.c:1509`).
* `doc/HOWTO/HOWTO.pod:645` says a flow is complete if its three-way handshake was seen. In the code the
  path that closes it decides: at the end of the input every open flow is logged as not complete, a flow
  whose FINs are both acknowledged as complete, any other one by whether both sides sent a SYN.
* With `-c` the bitrates of a period are printed twice at the end of a file (`tstat.c:1758`); an empty first
  file is counted, so that no later file makes an output directory (nor does `-l -c`), and with an empty last
  file the open flows are never closed.
* Two files of one minute share an output directory, and the second removes what the first wrote
  (`tstat.c:881`). `!step % 1200` is `(!step) % 1200` (`tstat.c:3535`).
* With `histo_engine = 0` a page is flushed at each reload. Without a section `[dump]` the dump files of an older
  directory stay open. A log engine switched on writes nothing before the next directory; switched off,
  it leaves its files open at the end of the file. A log that cannot be opened ends in a NULL pointer
  (`tstat.c:836`).
* The warning about packets out of order (`tstat.c:1330`) is never given, because `elapsed` is never negative.
* A file of network cards that is empty, without `-N`, makes every host external; `-N` loses to `-M` with a
  warning and to `-2` without; a second `-N` replaces the first; `0.0.0.0/n` is everything.

*Sequence space and measurements*

* `LAST_SEQ` (`tstat.h:328`) is right for the first quadrant only; new data across 2^31, 3*2^30 or 2^32
  counts as retransmitted (`rexmit.c:126-134`). (`Data` with a packet across the second boundary.)
* `param.h:35` calls `MAX_SEG_PER_QUAD` the maximum of segments per quadrant, but only appending enforces
  it (`rexmit.c:202-230`). `addseg` tests for overlap with `<=`: one shared byte is not seen as retransmitted.
* An ACK with the same timestamp as its segment makes the `SEVERE_DEBUG` build exit (`rexmit.c:641`).
* A base delay of 0 stands for one never measured, but is also what a round trip below one millisecond
  gives (`bufferbloat.c:210`): the next sample then replaces it. `struct.h:372` says `qd_max_w1` is the maximum of
  the last window; nothing resets it with the window. A direction with more than 1000000 chances ends the
  debug build (`bufferbloat.c:1804`), and so does a connection whose packets go back to an earlier second.
* The smoothed round trip time adds the sample with `BETA`, a quarter, where RFC 2988, which the comment
  cites, has `ALPHA`, an eighth (`rexmit.c:585-591`): it settles at twice the true value. Only `LOG_OOO` prints it.
* `last_ack_type` is recorded before `ack_in` decides the type (`tcp.c:1327-1342`).
* `fin_seqno + 1` and `fin_seqno` are compared as plain numbers (`tcp.c:872`): with a bare FIN at the last number
  before the wrap any ACK closes the side, since the first is then 0, and a FIN with data across the wrap is not
  closed by the ACK for it. A FIN with data is taken to be acknowledged by an ACK of its first byte. A repeated
  FIN that crosses the wrap is bad behaviour, and makes the flight -1.
* The last window of a rate is divided by the time since it began if that is less than `RATE_SAMPLING`
  (`tcp.c:2349`, 2398): a flow that ends soon after its data has a mean and a maximum far above what was sent, or infinite
  ones if the packet that began the window ends the flow.
* A second SYN+ACK sets the acknowledged number back (`tcp.c:951`) and its window is scaled.
* The MSS is a signed short: 32768 and more become huge, 65535 looks absent; so does a shift of 255. EOL
  does not end the options; a one-byte option on the last captured byte counts the packet as truncated.
* The first message is one byte short if the SYN was not seen; after the wrap there are no more messages.
* The longest gap of the server's rate is stored with the client (`tcp.c:2438`, against
  `doc/log_video_complete_descr.txt:42`); a flow closed for idleness has empty windows until its closing.

*Media*

* A loss in the first window of an RTP stream leaves slots at 0, later taken for late or lost packets or
  for an encoder that started again; the number 0 in the first window looks like a duplicate, and a stream
  that begins with 65535 is never recognised. With time stamps that advance by `OVERFLOW_TH` or more per
  packet, any late packet looks like a new start (`rtp.c:831`). The "sudden jump in the sequence number" of
  `rtp.c:769` is one of a slot: a steady stream that loses packets 16, 32, 48, 64 and 80 starts again at
  96 (`Forgotten`), and so does one in which a packet comes again 65536 ticks late.
* A minimal sender report is taken for truncated (28 bytes; `sizeof` of the structure is 24 with 64-bit
  longs, of which 20 are decoded); truncated packets are decoded past their end without `-w`. Round trips
  of 0 before the first positive one are not in the minimum. More than 512 MB between two reports overflow
  the bit rate.

*Labels of UDP flows*

* A direction opposite to RTP, RTCP, SkypeE2E or SkypeOut is counted nowhere (`p2p.c:565`), nor is a
  Skype flow that Bayes does not confirm. No analyser withdraws what another has counted, so one direction may be
  counted several times: a stream whose RTP is lost and found again; one confirmed and then overridden by a
  BitTorrent label, which is counted at the close; early Skype followed by a late decision of the other side; a
  signature of Skype that Bayes confirms (`skype.c:828-914`) and the close counts as `SKYPE_SIG`.

*Labels of TCP connections*

* The constant for HEAD spells `HE@D`: such requests are not recognised. A chat that follows an MSN login or
  presence makes `msn_chat_number` drift. A Jabber payload that begins with a NUL counts as presence.
* `rtmp_handshake_check` takes any segment for the first of its side if the stream ends at its length: one that comes
  again after another that ended there is looked at, too (`tcpL7.c:273`).
* RTMP loses its label for good if the first two messages of each side do not have the sizes
  (`tcpL7.c:1440`). Skype over TCP is added to the rates again, and not to the shares of the clouds.
* A page of YouTube asked for by a later request keeps what another connection left in `yt_seek`,
  `yt_redirect`, `yt_mobile` and `yt_device`: only id and itag are reset (`tcpL7.c:1057`, 1112). The variables of a
  first POST are never copied.
* `/i/widget-logo.png` is hidden by `/i/`; `/ajax/photos` is compared over eight bytes including a NUL and
  never matches (`web.c:527`); `facepile.php?` over 12 of its 13; rules for `/club/`, `/user/` and
  `/listing/` apply to other first letters only; `/v/` with more than 15 bytes hides the rules after it.
* `make_udpL7_rate_stats` looks at `cloud_dst` for what comes in too (`tcpL7.c:1655`), and the statistics of
  Skype at the cloud of the sender (`skype.c:839`).

## Not modelled

* Formats, file and device input, decompression and RRD: input and output without decisions the
  models' properties depend on.
* Floating point: averages, jitter, `PSquare`, the Bayesian values.
* The smoothed estimates and deviations of round trip times (`rexmit.c:585-597`) and the log of every anomaly
  (`LOG_OOO`, off by default). `Anomalies` takes estimates from a set.
* Byte patterns of classifiers that keep no state between packets (`ipp2p_tstat.c`, the containers of
  `videoL7.c`): their verdicts are inputs.
* `ledbat.c`, compiled only with `BITTORRENT_CLASSIFIER`, and other code the default build leaves out: IPv6,
  half-duplex logging, packet statistics.
* In `StatDump`: global histograms (`-g`), RRD, internal addresses, signals, spurious wakeups of the
  dumper, and `-S`, which turns the histogram engine off for good.
* In `TcpTable` and `UdpTable`: the contents of a flow that do not decide its fate.
* In `Engine`: the threads of `-p`, the recursion of `-r`.
* Vendored libraries, scripts, experiments and build files.

## What could come next

1. The free lists of segments and quadrants, composed with `FlowClose` (`rexmit.c:279`).
2. The threads of `-p` in `Engine`: a new output directory made by the dumper while the packet thread writes.
3. Proofs: `OptionsParsed`, by least counterexample like the sums of `TcpAnalysis`.
