----------------------------- MODULE TcpAnalysis -----------------------------
(***************************************************************************)
(* What tcp_flow_stat measures of one flow, packet by packet, and what     *)
(* make_conn_stats makes of it at the end: bytes, windows, the congestion  *)
(* window, messages, rates, and when the flow is over.                     *)
(*                                                                         *)
(* A packet is named by positions: the SYN of a stream is position 0, its  *)
(* bytes 1 .. total, its FIN total + 1; the header carries them modulo     *)
(* SeqModulus.  rexmit answers as SeqSpace shows away from the edges       *)
(* of its quadrants: how many of the bytes it has seen, and whether it has *)
(* seen a later one.  The sniffer may see packets late, twice or not at    *)
(* all.  Averages, TTL and jitter are left out.                            *)
(***************************************************************************)
EXTENDS TcpOptions

CONSTANTS
  Confs,       \* flows: [isn, syn, cut, total, packets, lens, acks, pushes, gaps, wins, again]
  SeqModulus,  \* 2^32
  Sampling,    \* RATE_SAMPLING
  MaxMessages, \* MAX_COUNT_MESSAGES
  IdleTime     \* TCP_IDLE_TIME

ASSUME TcpAnalysisAssumption ==
  /\ SeqModulus \in Nat \ {0} /\ Sampling \in Nat \ {0} /\ MaxMessages \in Nat /\ IdleTime \in Nat

Dirs == {"c2s", "s2c"}
Other(d) == IF d = "c2s" THEN "s2c" ELSE "c2s"
None == -1
Mod(n) == n % SeqModulus
One(b) == IF b THEN 1 ELSE 0

(* The options of the SYN of d, as far as they are captured.               *)
SynOptions(c, d) ==
  LET b == Header(c.syn[d])
  IN ParseOptions(SubSeq(b, 1, Len(b) - c.cut), Len(b)).found

(* A flow does not reach round the sequence space.                         *)
ASSUME FlowsAssumption ==
  \A c \in Confs :
    /\ c.packets \in Nat /\ c.gaps \subseteq Nat /\ c.wins \subseteq Nat
    /\ c.pushes \subseteq BOOLEAN /\ c.fins \subseteq BOOLEAN
    /\ c.acks \in BOOLEAN /\ c.resets \in BOOLEAN
    /\ c.again \subseteq 1 .. SeqModulus - 1
    /\ \E d \in Dirs : c.again \subseteq 1 .. c.total[d]
    /\ \A d \in Dirs :
         /\ c.isn[d] \in 0 .. SeqModulus - 1
         /\ c.total[d] \in Nat /\ c.total[d] + 2 < SeqModulus
         /\ c.lens[d] \subseteq Nat \ {0}
         /\ TRUE \in c.fins => c.again \subseteq 1 .. c.total[d]
         /\ LET o == SynOptions(c, d)
            IN /\ o \in [mss : Int, ws : Nat \cup {Absent}, ts : BOOLEAN, sack_req : BOOLEAN,
                         sack_count : Nat \cup {Absent}, unknown : Nat]
               /\ \A w \in c.wins \cup {1}, n \in {0, o.ws} \ {Absent} : w * 2 ^ n \in Nat

VARIABLES
  conf,          \* the flow
  tcb,           \* the two tcb of the flow
  current_time,  \* in units of its own
  left,          \* packets still to come
  ended,         \* why the flow was closed, or "no"
  flight,        \* the last sample of the histogram tcp_cwnd
  h              \* history: what has really been sent

analysisVars == <<conf, tcb, current_time, left, ended, flight, h>>

(* A tcb as memset leaves it.                                              *)
Tcb == [syn_count |-> 0, fin_count |-> 0, reset_count |-> 0, syn |-> 0, fin |-> 0,
        fin_seqno |-> 0, seq |-> 0, ack |-> 0, min_seq |-> 0, closed |-> FALSE,
        bad_behavior |-> FALSE, window_scale |-> 0, f1323_ws |-> FALSE,
        mss |-> 0, f1323_ts |-> FALSE, fsack_req |-> FALSE, sacks_sent |-> 0,
        win_max |-> 0, win_min |-> 0, cwnd_flag |-> FALSE, data_acked |-> FALSE,
        initialwin_bytes |-> 0, cwin_max |-> 0, cwin_min |-> 0,
        data_bytes |-> 0, unique_bytes |-> 0, rexmit_bytes |-> 0,
        msg_count |-> 0, msg_last_seq |-> 0, msg_size |-> <<>>,
        rate_left_edge |-> None, rate_bytes |-> 0, rate_sum |-> 0, rate_short |-> 0,
        rate_span |-> Sampling, rate_samples |-> 0, rate_empty_samples |-> 0, rate_empty_streak |-> 0]

FlowTypes ==
  /\ conf \in Confs /\ DOMAIN tcb = Dirs /\ current_time \in Nat /\ left \in 0 .. conf.packets
  /\ ended \in {"no", "half", "reset", "complete", "idle"}
  /\ flight \in None .. SeqModulus - 1
  /\ \A d \in Dirs :
       /\ DOMAIN tcb[d] = DOMAIN Tcb
       /\ {tcb[d].syn, tcb[d].fin, tcb[d].fin_seqno, tcb[d].seq, tcb[d].ack, tcb[d].min_seq,
           tcb[d].msg_last_seq} \subseteq 0 .. SeqModulus - 1
       /\ tcb[d].cwin_max \in 0 .. SeqModulus \div 2 /\ tcb[d].cwin_min \in 0 .. tcb[d].cwin_max
       /\ tcb[d].win_min <= tcb[d].win_max /\ Len(tcb[d].msg_size) <= MaxMessages
       /\ h.seen[d] \subseteq Nat /\ h.acked[d] \in Nat

------------------------------
(* A packet: [dir, at, len, syn, fin, rst, psh, ackset, acks, win, opts].  *)
Seq0(p) == Mod(conf.isn[p.dir] + p.at)
Ack0(p) == Mod(conf.isn[Other(p.dir)] + p.acks)
Control(p) == p.syn \/ p.fin \/ p.rst
Range0(p) == p.at .. p.at + p.len + One(p.syn) + One(p.fin) - 1

(* rexmit: bytes seen before, and if a later one was (asked only of a       *)
(* packet that has none seen before).                                      *)
Again(p) == Cardinality(Range0(p) \cap h.seen[p.dir])
OutOrder(p) == Range0(p) # {} /\ \E b \in h.seen[p.dir] : b > Max(Range0(p))
FirstSeen(p) == Again(p) = 0 /\ ~OutOrder(p) /\ ~p.syn /\ ~p.rst

(* The counters of flags.                                                  *)
CountFlags(g, p) ==
  [g EXCEPT ![p.dir].syn_count = @ + One(p.syn), ![p.dir].reset_count = @ + One(p.rst),
            ![p.dir].fin_count = @ + One(p.fin),
            ![p.dir].fin_seqno = IF p.fin THEN Seq0(p) ELSE @]

(* Data of a client whose server has not been seen closes the flow.        *)
HalfDuplex(g, p) == p.dir = "c2s" /\ ~p.syn /\ g["s2c"].syn_count = 0

(* "This is the ACK to the FIN".  Mutant: any ACK after a FIN.             *)
AckOfFin_Bug(g, p) ==
  LET o == Other(p.dir)
  IN IF p.ackset /\ g[o].fin_count >= 1 /\ Ack0(p) >= g[o].fin_seqno
     THEN [g EXCEPT ![o].closed = TRUE] ELSE g
AckOfFin(g, p) ==
  LET o == Other(p.dir)
  IN IF p.ackset /\ g[o].fin_count >= 1 /\ Ack0(p) >= Mod(g[o].fin_seqno + 1)
     THEN [g EXCEPT ![o].closed = TRUE] ELSE g

(* The flight of the other side, once for every new data of it.            *)
FlightDue(g, p) == p.ackset /\ g[Other(p.dir)].cwnd_flag
Flight(g, p) == Mod(g[Other(p.dir)].seq - g[p.dir].ack)
FlightFlags(g, p) ==
  [g EXCEPT ![Other(p.dir)].cwnd_flag = @ /\ ~p.ackset,
            ![p.dir].cwnd_flag = @ \/ p.len # 0 \/ Control(p)]

(* The window as advertised, scaled once both sides have asked for it.     *)
EffWin(g, p) ==
  IF ~p.ackset /\ ~p.syn THEN 0
  ELSE IF \A d \in Dirs : g[d].f1323_ws THEN p.win * 2 ^ g[p.dir].window_scale ELSE p.win

(* "record sequence limits": the end of a FIN is not reduced before it is  *)
(* compared.                                                               *)
SynLimits(g, p) ==
  IF ~p.syn THEN g
  ELSE [g EXCEPT ![p.dir].bad_behavior = @ \/ (g[p.dir].syn_count > 1 /\ g[p.dir].syn # Seq0(p)),
                 ![p.dir].syn = Seq0(p), ![Other(p.dir)].ack = Seq0(p)]
FinLimits(g, p) ==
  IF ~p.fin THEN g
  ELSE [g EXCEPT ![p.dir].bad_behavior = @ \/ (g[p.dir].fin_count > 1 /\ g[p.dir].fin # Seq0(p) + p.len),
                 ![p.dir].fin = Mod(Seq0(p) + p.len)]
SeqLimits(g, p) == FinLimits(SynLimits(g, p), p)

(* The options.  mss is a u_int: a negative number stands for 2^32 more.   *)
TakeOptions(g, p) ==
  LET o == p.opts
  IN [g EXCEPT ![p.dir].window_scale = IF o.ws = Absent THEN @ ELSE o.ws,
               ![p.dir].f1323_ws = @ \/ o.ws # Absent,
               ![p.dir].mss = IF o.mss = Absent THEN @ ELSE o.mss,
               ![p.dir].f1323_ts = @ \/ o.ts, ![p.dir].fsack_req = @ \/ o.sack_req,
               ![p.dir].sacks_sent = @ + One(o.sack_count > 0)]

(* The scales of a flow that does not use them.                            *)
DropScales(g, p) ==
  IF ~p.syn /\ \E d \in Dirs : ~g[d].f1323_ws
  THEN [d \in Dirs |-> [g[d] EXCEPT !.window_scale = 0]] ELSE g
Options(g, p) == DropScales(TakeOptions(g, p), p)

(* The rate of the data, in windows of Sampling from the first byte: t is  *)
(* a tcb, and n windows of it are over.  What the code sums up, a double,  *)
(* is rate_sum / Sampling + rate_short / rate_span: the last window may    *)
(* have lasted for less, or for no time at all (LastWindows).              *)
(* Mutant: the window that is over is not moved behind the empty ones.     *)
RateWindows_Bug(t, n) ==
  LET empty == One(t.rate_bytes = 0) + n - 1
  IN [t EXCEPT !.rate_sum = @ + t.rate_bytes, !.rate_samples = @ + n,
               !.rate_empty_samples = @ + empty, !.rate_left_edge = @ + Sampling,
               !.rate_empty_streak = IF empty > @ THEN empty ELSE @]
RateWindows(t, n) ==
  LET empty == One(t.rate_bytes = 0) + n - 1
  IN [t EXCEPT !.rate_sum = @ + t.rate_bytes, !.rate_samples = @ + n,
               !.rate_empty_samples = @ + empty, !.rate_left_edge = @ + n * Sampling,
               !.rate_empty_streak = IF empty > @ THEN empty ELSE @]
Rate(t, len) ==
  LET a == IF t.rate_left_edge = None THEN [t EXCEPT !.rate_left_edge = current_time'] ELSE t
      n == (current_time' - a.rate_left_edge) \div Sampling
  IN IF n = 0 THEN [a EXCEPT !.rate_bytes = @ + len]
     ELSE [RateWindows(a, n) EXCEPT !.rate_bytes = len]

AddData(t, len) == [Rate(t, len) EXCEPT !.data_bytes = @ + len]
DataStats(g, p) == IF p.len = 0 THEN g ELSE [g EXCEPT ![p.dir] = AddData(@, p.len)]

MinSeq(g, p) == [g EXCEPT ![p.dir].min_seq = IF @ = 0 THEN Seq0(p) ELSE @]

(* "count anything NOT retransmitted as unique, exclude SYN and FIN".      *)
Retrans(g, p) == Again(p) - One(p.syn /\ g[p.dir].syn_count > 1)
                          - One(p.fin /\ g[p.dir].fin_count > 1)
Unique(g, p) ==
  IF Retrans(g, p) >= p.len THEN g
  ELSE [g EXCEPT ![p.dir].unique_bytes = @ + p.len - Retrans(g, p)]

(* seq is the end of the last packet without a retransmitted byte, which   *)
(* may be a late one.                                                      *)
SeqOrRexmit(g, p) ==
  [g EXCEPT ![p.dir].rexmit_bytes = @ + Again(p),
            ![p.dir].seq = IF Again(p) > 0 THEN @ ELSE Mod(Seq0(p) + p.len)]

Windows(g, p, eff) ==
  IF ~p.ackset /\ ~p.syn THEN g
  ELSE [g EXCEPT ![p.dir].win_max = IF eff > @ THEN eff ELSE @,
                 ![p.dir].win_min = IF eff > 0 /\ (@ = 0 \/ eff < @) THEN eff ELSE @]

AckNumber(g, p) == IF p.ackset THEN [g EXCEPT ![p.dir].ack = Ack0(p)] ELSE g

(* The initial window: what is sent before any data has been acknowledged. *)
DataAcked(g, p) ==
  LET o == Other(p.dir)
  IN [g EXCEPT ![o].data_acked = @ \/ (p.ackset /\ Mod(g[o].syn + 1) # Ack0(p))]
InitialWindow(g, p) ==
  IF g[p.dir].data_acked \/ Again(p) > 0 THEN g
  ELSE [g EXCEPT ![p.dir].initialwin_bytes = @ + p.len]

(* "the number of outstanding un-acked bytes", at a new packet in order.   *)
Outstanding(g, p) == Mod(Seq0(p) + p.len - g[Other(p.dir)].ack)
Advances(g, p) ==
  ~p.syn /\ ~OutOrder(p) /\ Again(p) = 0 /\ Outstanding(g, p) \in 1 .. SeqModulus \div 2 - 1
CongestionWindow(g, p) ==
  LET cwin == Outstanding(g, p)
  IN IF ~Advances(g, p) THEN g
     ELSE [g EXCEPT ![p.dir].cwin_max = IF cwin > @ THEN cwin ELSE @,
                    ![p.dir].cwin_min = IF @ = 0 \/ cwin < @ THEN cwin ELSE @]

(* Messages end at a PSH or FIN.  Mutant: a late end is an end too.        *)
MessageSize(t) ==
  Mod(IF t.msg_last_seq = 0 THEN t.seq - t.min_seq - 1 ELSE t.seq - t.msg_last_seq)
EndMessage(g, d) ==
  LET size == MessageSize(g[d])
  IN [g EXCEPT ![d].msg_size = IF g[d].msg_count < MaxMessages /\ size > 0 THEN Append(@, size) ELSE @,
               ![d].msg_count = @ + One(size > 0),
               ![d].msg_last_seq = g[d].seq]
Ends(p) == p.ackset /\ (p.psh \/ p.fin)
Messages_Bug(g, p) == IF Ends(p) THEN EndMessage(g, p.dir) ELSE g
Messages(g, p) ==
  IF Ends(p) /\ g[p.dir].msg_last_seq < g[p.dir].seq THEN EndMessage(g, p.dir) ELSE g

------------------------------
(* The history, in positions.  end, acked: how far a stream has been seen  *)
(* and acknowledged; back: an ACK of less came after one of more, or a SYN *)
(* after anything; late: bytes came again or too late; out: the most bytes   *)
(* on their way when a new one came; push: the end of the last message;    *)
(* first: where the numbering starts that the messages count from, which   *)
(* is the next packet's as long as it is 0 and no message has ended.       *)
Top(S) == IF S = {} THEN 0 ELSE Max(S) + 1

NoHistory ==
  LET all(x) == [d \in Dirs |-> x]
  IN [seen |-> all({}), first |-> all(None), end |-> all(0), acked |-> all(0),
      finacked |-> all(FALSE), back |-> all(FALSE), late |-> all(FALSE), out |-> all(0),
      push |-> all(0), syns |-> all(<<>>), fins |-> all(<<>>), win |-> all({}),
      data |-> all({}), flight |-> None]

Remember(p) ==
  LET d == p.dir  o == Other(d)
      end == p.at + p.len
      ackd == IF p.ackset THEN p.acks ELSE 0
  IN [seen |-> [h.seen EXCEPT ![d] = @ \cup Range0(p)],
      first |-> [h.first EXCEPT ![d] = IF /\ tcb[d].msg_last_seq = 0
                                          /\ @ = None \/ Mod(conf.isn[d] + @) = 0
                                       THEN p.at ELSE @],
      end |-> [h.end EXCEPT ![d] = Max({@, end})],
      acked |-> [h.acked EXCEPT ![o] = Max({@, ackd})],
      finacked |-> [h.finacked EXCEPT ![o] = @ \/ ackd = conf.total[o] + 2],
      back |-> [h.back EXCEPT ![d] = @ \/ (p.syn /\ (h.acked[d] > 0 \/ h.win[d] # {})),
                              ![o] = @ \/ (p.ackset /\ ackd < h.acked[o])],
      late |-> [h.late EXCEPT ![d] = @ \/ OutOrder(p) \/ Again(p) > 0],
      out |-> [h.out EXCEPT ![d] = IF FirstSeen(p) THEN Max({@, end - h.acked[d]}) ELSE @],
      push |-> [h.push EXCEPT ![d] = IF Ends(p) THEN Max({@, end}) ELSE @],
      syns |-> [h.syns EXCEPT ![d] = IF p.syn THEN Append(@, p.at) ELSE @],
      fins |-> [h.fins EXCEPT ![d] = IF p.fin THEN Append(@, [at |-> p.at, len |-> p.len]) ELSE @],
      win |-> [h.win EXCEPT ![d] = IF ~p.rst THEN @ \cup {[win |-> p.win, syn |-> p.syn]} ELSE @],
      data |-> [h.data EXCEPT ![d] = IF p.len > 0 THEN @ \cup {current_time'} ELSE @],
      flight |-> IF p.ackset /\ tcb[o].cwnd_flag THEN h.end[o] - h.acked[o] ELSE h.flight]

------------------------------
(* tcp_flow_stat up to the test for a reset, and behind it.                *)
Counted(g, p) ==
  LET a == FlightFlags(AckOfFin(g, p), p)
      b == DataStats(Options(SeqLimits(a, p), p), p)
  IN SeqOrRexmit(Unique(MinSeq(b, p), p), p)

Measured(g, p, eff) ==
  LET a == InitialWindow(DataAcked(AckNumber(Windows(g, p, eff), p), p), p)
  IN Messages(CongestionWindow(a, p), p)

ConnComplete(g) == \A d \in Dirs : g[d].closed

(* make_conn_stats ends the rates: the bytes of a window that is not over  *)
(* are divided by the time since it began, which is 0 if the packet that   *)
(* began it ends the flow.  What is found to be the longest streak of the  *)
(* server is noted for the client.                                         *)
ShortWindow(t, delta) ==
  [RateWindows(t, 1) EXCEPT !.rate_sum = t.rate_sum, !.rate_short = t.rate_bytes, !.rate_span = delta]
LastWindows(t) ==
  LET delta == current_time' - t.rate_left_edge
  IN IF t.rate_left_edge = None THEN t
     ELSE IF delta < Sampling THEN ShortWindow(t, delta)
     ELSE RateWindows(t, delta \div Sampling)
ConnStats(g) ==
  LET c == LastWindows(g["c2s"])
      s == LastWindows(g["s2c"])
      streak == s.rate_empty_samples - g["s2c"].rate_empty_samples
  IN [c2s |-> [c EXCEPT !.rate_empty_streak = IF streak > @ THEN streak ELSE @],
      s2c |-> [s EXCEPT !.rate_empty_streak = g["s2c"].rate_empty_streak]]

EndFlow(g, why) == tcb' = ConnStats(g) /\ ended' = why

Packet(p) ==
  /\ ended = "no" /\ left > 0
  /\ h.seen["c2s"] # {} \/ (p.dir = "c2s" /\ p.syn /\ p.at = 0)
  /\ left' = left - 1
  /\ \E gap \in conf.gaps : current_time' = current_time + gap
  /\ h' = Remember(p)
  /\ LET a == CountFlags(tcb, p)
         b == Counted(a, p)
     IN IF HalfDuplex(a, p) THEN EndFlow(a, "half") /\ UNCHANGED flight
        ELSE /\ flight' = IF FlightDue(a, p) THEN Flight(a, p) ELSE flight
             /\ IF p.rst THEN EndFlow(b, "reset")
                ELSE LET c == Measured(b, p, EffWin(a, p))
                     IN IF ConnComplete(c) THEN EndFlow(c, "complete")
                        ELSE tcb' = c /\ UNCHANGED ended
  /\ UNCHANGED conf

(* What the two ends send, as the sniffer sees it: a SYN, perhaps a second *)
(* one with another number; any part of the stream; an ACK of any part of  *)
(* what has been seen of the other stream; a reset.                        *)
Blank(d) == [dir |-> d, at |-> Top(h.seen[d]), len |-> 0, syn |-> FALSE, fin |-> FALSE,
             rst |-> FALSE, psh |-> FALSE, ackset |-> TRUE, acks |-> Max({1, Top(h.seen[Other(d)])}),
             win |-> 1, opts |-> NoOptions]

SendSyn(d) ==
  \E at \in {0} \cup IF h.syns[d] = <<>> THEN {} ELSE conf.again :
       Packet([Blank(d) EXCEPT !.syn = TRUE, !.at = at, !.ackset = (d = "s2c"),
                               !.acks = 1, !.opts = SynOptions(conf, d)])

SendData(d) ==
  \E len \in conf.lens[d], at \in 1 .. conf.total[d], psh \in conf.pushes :
    /\ at + len <= conf.total[d] + 1
    /\ \E fin \in IF at + len = conf.total[d] + 1 THEN conf.fins ELSE {FALSE} :
         Packet([Blank(d) EXCEPT !.at = at, !.len = len, !.psh = psh, !.fin = fin])

SendAck(d) ==
  \E acks \in 1 .. Max({1, Top(h.seen[Other(d)])}), win \in conf.wins :
    /\ conf.acks \/ acks = Max({1, Top(h.seen[Other(d)])})
    /\ Packet([Blank(d) EXCEPT !.at = Max({1, @}), !.acks = acks, !.win = win])

SendFin(d) ==
  /\ TRUE \in conf.fins
  /\ Packet([Blank(d) EXCEPT !.at = conf.total[d] + 1, !.fin = TRUE])

SendReset(d) == conf.resets /\ Packet([Blank(d) EXCEPT !.rst = TRUE])

(* trace_done_periodic finds the flow idle, or trace_done at the end.      *)
Idle ==
  /\ ended = "no"
  /\ current_time' \in {current_time, current_time + IdleTime}
  /\ EndFlow(tcb, "idle") /\ UNCHANGED <<conf, left, flight, h>>

(* The flow begins with the SYN of the client.                             *)
AnalysisInit ==
  /\ conf \in Confs
  /\ tcb = [d \in Dirs |-> Tcb] /\ h = NoHistory
  /\ current_time = 0 /\ left = conf.packets /\ ended = "no" /\ flight = None

AnalysisNext ==
  \/ \E d \in Dirs : SendSyn(d) \/ SendData(d) \/ SendAck(d) \/ SendFin(d) \/ SendReset(d)
  \/ Idle

AnalysisSpec == AnalysisInit /\ [][AnalysisNext]_analysisVars
------------------------------
Counting == ended # "half"
Captured(c, d) == Upto(c.syn[d], Len(c.syn[d])) - c.cut
ScaleOf(d) == Scale(conf.syn[d], Captured(conf, d))
Wraps(d) == conf.isn[d] + conf.total[d] + 2 >= SeqModulus

(* unique_bytes, "bytes sent (-FIN/SYN), excluding rexmits" (struct.h), is *)
(* the number of bytes of the stream that were seen, whatever came twice,  *)
(* in parts or late, of a flow that behaves.                               *)
UniqueBytes ==
  Counting => \A d \in Dirs : ~tcb[d].bad_behavior =>
    tcb[d].unique_bytes = Cardinality(h.seen[d] \cap 1 .. conf.total[d])

(* bad_behavior: "SYNs retransmitted with different sequence numbers, FINs *)
(* ..." (struct.h): the only others are repeated FINs whose data crosses   *)
(* the end of the sequence space.                                          *)
BadBehaviour ==
  Counting => \A d \in Dirs :
    tcb[d].bad_behavior <=> \/ \E i, j \in DOMAIN h.syns[d] : h.syns[d][i] # h.syns[d][j]
                          \/ \E i \in 2 .. Len(h.fins[d]) :
                               LET p == h.fins[d][i]
                               IN Mod(conf.isn[d] + p.at) + p.len >= SeqModulus

(* The sum of the elements of s.                                           *)
Total(s) ==
  LET upto[i \in 0 .. Len(s)] == IF i = 0 THEN 0 ELSE upto[i - 1] + s[i]
  IN upto[Len(s)]

(* The sizes of the messages add up to the bytes up to the end of the last *)
(* one: but for one byte if the SYN was not seen or has the number 0 (a    *)
(* FIN without data is a message of 2^32 - 1 bytes then).                  *)
MessagesTile ==
  Counting => \A d \in Dirs :
    LET t == tcb[d]
    IN t.msg_count <= MaxMessages =>
         Mod(Total(t.msg_size)) = IF t.msg_last_seq = 0 THEN 0
                                  ELSE Mod(t.msg_last_seq - conf.isn[d] - h.first[d] - 1)

(* Without retransmissions the last message ends at the last PSH or FIN,   *)
(* until the sequence numbers start again at 0.                            *)
MessagesFound ==
  Counting => \A d \in Dirs : ~h.late[d] /\ ~Wraps(d) /\ h.push[d] > 0 =>
    Mod(tcb[d].msg_last_seq - conf.isn[d]) = h.push[d]

(* cwin_max, "the difference between the largest sequence number so far,   *)
(* and the corresponding last ACK message on the reverse path"             *)
(* (log_tcp_complete_descr.txt), unless an ACK came after a later one, or  *)
(* a SYN after anything, or no SYN at all; and as long as less than half   *)
(* of the sequence space is on its way, more being a negative int32_t.     *)
CwinTrue ==
  Counting => \A d \in Dirs :
    Len(h.syns[d]) = 1 /\ ~h.back[d] /\ h.out[d] < SeqModulus \div 2 => tcb[d].cwin_max = h.out[d]

(* The flight is what has been sent and not yet acknowledged, unless the   *)
(* stream or its ACKs are out of order.                                    *)
FlightTrue ==
  Counting /\ (\A d \in Dirs : ~h.late[d] /\ ~h.back[d] /\ Len(h.syns[d]) = 1) =>
    flight = h.flight

(* A flow is complete when both FINs have been acknowledged, or too early  *)
(* if a FIN came with data (an ACK of the first byte will do), and stays   *)
(* open only if its numbers start again at 0.                              *)
ClosedWhenAcked ==
  /\ ended = "complete" => \A d \in Dirs :
       \/ h.finacked[d] \/ Wraps(d)
       \/ \E i \in DOMAIN h.fins[d] : h.fins[d][i].len > 0
  /\ ended = "no" /\ (\A d \in Dirs : h.finacked[d]) => \E d \in Dirs : Wraps(d)

(* The largest window is the largest of those that were meant, if each SYN *)
(* came once and first: a second SYN+ACK is taken to be scaled.            *)
WindowTrue ==
  (\A d \in Dirs : Len(h.syns[d]) = 1 /\ ~h.back[d]) /\ Counting =>
    \A d \in Dirs :
      tcb[d].win_max = Max({IF w.syn \/ \E x \in Dirs : ScaleOf(x) = Absent
                          THEN w.win ELSE w.win * 2 ^ ScaleOf(d) : w \in h.win[d]})

(* ParseOptions finds the options of the SYNs, if they can be told from    *)
(* none: an MSS of 65535 reads -1, and one of 0 is what a flow begins with.*)
OptionsParsed(c) ==
  \A d \in Dirs :
    LET list == c.syn[d]
        n == Captured(c, d)
    IN /\ list \in Seq(Seq(0 .. 255)) /\ OptionsFound(list, n)
       /\ Sent(list, n, MAXSEG) # <<>> => SynOptions(c, d).mss \notin {0, Absent}
       /\ Sent(list, n, WS) # <<>> => Scale(list, n) # Absent

(* The options of the SYNs are found, and the flow keeps them.             *)
OptionsKept ==
  /\ left = conf.packets => OptionsParsed(conf)
  /\ Counting => \A d \in Dirs :
       LET given(kind) == h.syns[d] # <<>> /\ Sent(conf.syn[d], Captured(conf, d), kind) # <<>>
       IN /\ tcb[d].mss # 0 <=> given(MAXSEG)
          /\ tcb[d].f1323_ws <=> given(WS)
          /\ tcb[d].f1323_ts <=> given(TS)
          /\ tcb[d].fsack_req <=> given(SACK_PERM)

(* The rate is measured in windows without a gap, and no byte is left out. *)
(* Its sum is that of all bytes, each window counted as whole, if the flow *)
(* goes on to the end of the last one; else the bytes of that one enter    *)
(* divided by the time from its start to the close, and the sum is more    *)
(* than was sent, or infinite if that time is 0.                           *)
Window(d, t) == (t - Min(h.data[d])) \div Sampling
Hit(d) == {Window(d, t) : t \in h.data[d]}
Longest(S, n) ==  \* the longest run of numbers below n that are not in S
  Max({0} \cup {k \in 1 .. n : \E i \in 0 .. n - k : (i .. i + k - 1) \cap S = {}})
RatesCover ==
  \A d \in Dirs : h.data[d] # {} /\ Counting =>
    LET t == tcb[d]
        over == Max(Hit(d))
        rest == current_time - Min(h.data[d]) - over * Sampling
        n == IF ended = "no" THEN over ELSE Max({over + 1, Window(d, current_time)})
    IN /\ t.rate_samples = n /\ t.rate_empty_samples = Cardinality((0 .. n - 1) \ Hit(d))
       /\ t.rate_sum + (IF ended = "no" THEN t.rate_bytes ELSE t.rate_short) = t.data_bytes
       /\ IF ended # "no" /\ rest < Sampling THEN t.rate_short > 0 /\ t.rate_span = rest
          ELSE t.rate_short = 0 /\ t.rate_span = Sampling
       /\ ended = "no" \/ d = "s2c" => t.rate_empty_streak = Longest(Hit(d), over)

(* TypeOK, and a flow ends when it should.                                 *)
Sound == FlowTypes /\ ClosedWhenAcked

(* The columns of the log that say how much was sent, and how fast, and    *)
(* what was on its way at every sample of it.                              *)
Measures ==
  UniqueBytes /\ BadBehaviour /\ WindowTrue /\ OptionsKept /\ RatesCover /\ CwinTrue /\ FlightTrue

(* The messages are all there and nothing is counted twice.                *)
MessagesSplit == MessagesTile /\ MessagesFound

==============================
