----------------------------- MODULE RtcpStream -----------------------------
(***************************************************************************)
(* The RTCP packets of a media flow as the probe sees them (rtp.c).  The   *)
(* sender's reports pass the probe, reach the receiver, or not, and are    *)
(* answered later by receiver reports that name the last one heard; the    *)
(* network loses, repeats and reorders both.  From the two directions      *)
(* rtp.c derives bit rates, losses and round trip times, and ghost         *)
(* variables hold what they should be.                                     *)
(***************************************************************************)
EXTENDS Integers, FiniteSets

CONSTANTS
    TxMod,       \* 2^32: the sender's counters and eight times their
                 \* difference are u_int32_t
    TxStep,      \* bytes of media between two sender reports
    TxStart,     \* what the sender had sent before the first one
    MaxReports,  \* bound: sender reports
    MaxClock,    \* bound: time
    MaxFromSender, MaxFromReceiver   \* bounds: packets of a direction

\* Between two sender reports the sender sends less than the counters can tell.
ASSUME RtcpAssumption ==
    /\ TxMod \in Nat /\ TxStep \in Nat /\ TxStart \in Nat /\ 8 * TxStep < TxMod
    /\ MaxReports \in Nat /\ MaxClock \in Nat \ {0}
    /\ MaxFromSender \in Nat /\ MaxFromReceiver \in Nat

Sides == {"sender", "receiver"}
MaxRtcp(s) == IF s = "sender" THEN MaxFromSender ELSE MaxFromReceiver
MaxPnum == MaxFromSender + MaxFromReceiver
Opposite(s) == IF s = "sender" THEN "receiver" ELSE "sender"
Errors == {"TRUNCATED", "TOOMANYRR"}
Never == 0

VARIABLES
    rtcp,      \* struct rtcp of the two directions, and their types
    hist,      \* sums of what each direction added to the histograms
    tooLong,   \* ghost: a round trip time was longer than the true one
    warn,      \* -w, warn_printtrunc
    snap,      \* how much of a packet is captured
    clock,
    toRcv,     \* ghost: sender reports between the probe and the receiver
    heard,     \* ghost: the last one the receiver got
    toProbe,   \* ghost: receiver reports on their way back
    cumLost,   \* the receiver's count of lost packets, repeats subtracted
    topSr,     \* ghost: the newest sender report that passed
    orderly,   \* ghost: they passed one after the other, at different times
    firstLost, \* ghost: the loss each direction began with
    totals     \* what was handed to the histograms at the end, or nothing yet

rtcpVars == <<rtcp, hist, tooLong, warn, snap, clock, toRcv, heard, toProbe, cumLost,
              topSr, orderly, firstLost, totals>>

NewRtcp == [type |-> "UNKNOWN", pnum |-> 0, last_SR |-> Never, last_SR_id |-> 0,
            tx_b |-> 0, jitter_samples |-> 0, c_lost |-> 0, rtt_sum |-> 0,
            rtt_min |-> 0, rtt_max |-> 0, rtt_samples |-> 0, errors |-> {}]
NoHist == [bits |-> 0, lost |-> 0, dup |-> 0]

(***************************************************************************)
(* A packet: its type, the number of report blocks (rc), whether it was    *)
(* captured to the end, the number and the bytes of a sender report and    *)
(* the first report block.                                                 *)
(***************************************************************************)
Block(lsr, dlsr, lost) == [lsr |-> lsr, dlsr |-> dlsr, c_lost |-> lost]
NoBlock == Block(0, 0, 0)

\* What is found past the end of a packet.
Stray == Block(0, 0, 2)

Sr(k, rc, block) == [pt |-> 200, rc |-> rc, cut |-> FALSE, id |-> k,
                     tx_b |-> (TxStart + k * TxStep) % TxMod, block |-> block]
Rr(rc, block) == [pt |-> 201, rc |-> rc, cut |-> FALSE, id |-> 0, tx_b |-> 0,
                  block |-> block]
Bye == [Rr(0, NoBlock) EXCEPT !.pt = 203]

\* With a short snap length the block after the sender's part is cut, with a
\* tiny one the sender's part and every block.
Captured(p) ==
    CASE snap = "tiny" -> [p EXCEPT !.cut = TRUE, !.id = 0, !.tx_b = 0, !.block = Stray]
      [] snap = "short" /\ p.pt = 200 -> [p EXCEPT !.cut = (p.rc > 0), !.block = Stray]
      [] OTHER -> p

\* A packet on its way through rtcp_stat: f is the record of its direction.
Begin(s) == [f |-> [rtcp[s] EXCEPT !.pnum = @ + 1], h |-> hist[s],
             rtt |-> -1, goesOn |-> TRUE]

(***************************************************************************)
(* A part cut short is noted, and decoded all the same without -w.         *)
(***************************************************************************)
Checked(x, missing) ==
    IF ~missing THEN x
    ELSE [x EXCEPT !.f.errors = @ \cup {"TRUNCATED"}, !.goesOn = ~warn]

\* Bits since the last sender report, kept in 32 bits.
Bits(f, p) == (8 * ((p.tx_b - f.tx_b) % TxMod)) % TxMod

\* A sender report: no rate without an earlier one at an earlier time.
SenderInfo(x, p) ==
    LET rated == x.f.last_SR # Never /\ clock > x.f.last_SR IN
    [x EXCEPT !.f.last_SR = clock, !.f.last_SR_id = p.id, !.f.tx_b = p.tx_b,
              !.h.bits = IF rated THEN @ + Bits(x.f, p) ELSE @]

\* The round trip between probe and receiver, when the block answers the last
\* sender report of the other direction; -1 for none.
RoundTrip(o, b) ==
    LET rtt == clock - o.last_SR - b.dlsr IN
    IF o.type # "UNKNOWN" /\ b.lsr # 0 /\ b.lsr = o.last_SR_id /\ rtt >= 0
    THEN rtt ELSE -1

Sampled(f, rtt) ==
    IF rtt < 0 THEN f
    ELSE [f EXCEPT !.rtt_min = IF @ > rtt \/ f.rtt_sum = 0 THEN rtt ELSE @,
                   !.rtt_max = IF @ < rtt \/ f.rtt_sum = 0 THEN rtt ELSE @,
                   !.rtt_sum = @ + rtt, !.rtt_samples = @ + 1]

\* What is lost since the last block, or lost less than before: repeated.
LossAdded(h, delta) == IF delta >= 0 THEN [h EXCEPT !.lost = @ + delta]
                                     ELSE [h EXCEPT !.dup = @ - delta]

\* Mutant: the losses of the first report are put into the histogram.
ReportBlock_Bug(x, o, b) ==
    [x EXCEPT !.f = [Sampled(x.f, RoundTrip(o, b)) EXCEPT !.c_lost = b.c_lost,
                                                       !.jitter_samples = @ + 1],
              !.h = LossAdded(x.h, b.c_lost - x.f.c_lost), !.rtt = RoundTrip(o, b)]

\* A report block; losses count from the second one on.
ReportBlock(x, o, b) ==
    LET rtt == RoundTrip(o, b) IN
    [x EXCEPT !.f = [Sampled(x.f, rtt) EXCEPT !.c_lost = b.c_lost,
                                              !.jitter_samples = @ + 1],
              !.h = IF x.f.jitter_samples >= 1
                    THEN LossAdded(x.h, b.c_lost - x.f.c_lost) ELSE @,
              !.rtt = rtt]

\* The report blocks: one is decoded, several are not.
Blocks(x, o, p) ==
    IF ~x.goesOn THEN x
    ELSE IF p.rc > 1 THEN [x EXCEPT !.f.errors = @ \cup {"TOOMANYRR"}]
    ELSE LET y == Checked(x, p.cut) IN IF y.goesOn THEN ReportBlock(y, o, p.block) ELSE y

\* The first packet of a direction (init_rtp) sets what later ones add to, and
\* takes a receiver report for one with a block even if it has none.
Decode(x, o, p) ==
    LET sr == Checked(x, snap = "tiny") IN
    CASE p.pt = 200 -> IF ~sr.goesOn THEN sr
                       ELSE IF p.rc = 0 THEN SenderInfo(sr, p)
                       ELSE Blocks(SenderInfo(sr, p), o, p)
      [] p.pt = 201 -> IF p.rc = 0 /\ x.f.pnum > 1 THEN x ELSE Blocks(x, o, p)
      [] OTHER -> x

\* init_rtp, then rtcp_check, then the packets of a known stream.
NextType(type) == IF type = "UNKNOWN" THEN "FIRST_RTCP" ELSE "RTCP"

\* update_rtcp_conn_histo, for the directions that are RTCP.
Totals(f) == [t_lost |-> f.c_lost, mm_cl_b |-> f.tx_b, cl_p |-> f.pnum]
NoTotals == Totals(NewRtcp)

------------------------------
\* No RTCP at all: the direction carries something else.
RtcpNone ==
    /\ rtcp = [s \in Sides |-> NewRtcp] /\ hist = [s \in Sides |-> NoHist]
    /\ tooLong = FALSE /\ warn = FALSE /\ snap = "all" /\ clock = 1 /\ toRcv = {} /\ heard = <<>>
    /\ toProbe = {} /\ cumLost = 0 /\ topSr = 0 /\ orderly = TRUE
    /\ firstLost = [s \in Sides |-> 0] /\ totals = [s \in Sides |-> NoTotals]

RtcpInit ==
    /\ rtcp = [s \in Sides |-> NewRtcp] /\ hist = [s \in Sides |-> NoHist]
    /\ tooLong = FALSE /\ warn \in BOOLEAN /\ snap \in {"all", "short", "tiny"}
    /\ (snap = "all" => ~warn) /\ (snap = "tiny" => warn) /\ clock = 1 /\ toRcv = {} /\ heard = <<>>
    /\ toProbe = {} /\ cumLost = 0 /\ topSr = 0 /\ orderly = TRUE
    /\ firstLost = [s \in Sides |-> 0] /\ totals = <<>>

\* Packet p of a side passes the probe; truth is the round trip it reports.
Passes(s, p, truth) ==
    LET x == Decode(Begin(s), rtcp[Opposite(s)], Captured(p))
        before == rtcp[s].jitter_samples
    IN  /\ totals = <<>> /\ rtcp[s].pnum < MaxRtcp(s)
        /\ rtcp' = [rtcp EXCEPT ![s] = [x.f EXCEPT !.type = NextType(@)]]
        /\ hist' = [hist EXCEPT ![s] = x.h]
        /\ tooLong' = (tooLong \/ x.rtt > truth)
        /\ firstLost' = IF before = 0 /\ x.f.jitter_samples = 1
                        THEN [firstLost EXCEPT ![s] = x.f.c_lost] ELSE firstLost
        /\ UNCHANGED <<warn, snap, clock, cumLost, totals>>

\* Sender report k passes, the next one or one the network kept or repeated.
SenderReport(k, rc) ==
    /\ Passes("sender", Sr(k, rc, NoBlock), 0)
    /\ toRcv' = toRcv \cup {[id |-> k, at |-> clock]}
    /\ topSr' = IF k > topSr THEN k ELSE topSr
    /\ orderly' = (orderly /\ k = topSr + 1 /\ rtcp["sender"].last_SR # clock)
    /\ UNCHANGED <<heard, toProbe>>

\* The receiver gets a sender report.
Hear(m) ==
    /\ totals = <<>> /\ heard' = [id |-> m.id, at |-> m.at, when |-> clock]
    /\ toRcv' = toRcv \ {m}
    /\ UNCHANGED <<rtcp, hist, tooLong, warn, snap, clock, toProbe, cumLost, topSr, orderly,
                   firstLost, totals>>

\* Its count of losses goes up, and down when packets come again.
NextLost == IF cumLost <= 0 THEN cumLost + 2 ELSE cumLost - 3

\* It reports what it lost and which sender report it heard, and how long ago.
Answer ==
    LET lsr == IF heard = <<>> THEN 0 ELSE heard.id
        dlsr == IF heard = <<>> THEN 0 ELSE clock - heard.when
        there == IF heard = <<>> THEN 0 ELSE heard.when - heard.at
    IN  /\ totals = <<>> /\ toProbe = {} /\ cumLost' = NextLost
        /\ toProbe' = {[block |-> Block(lsr, dlsr, cumLost'), there |-> there, born |-> clock]}
        /\ UNCHANGED <<rtcp, hist, tooLong, warn, snap, clock, toRcv, heard, topSr,
                       orderly, firstLost, totals>>

\* A receiver report passes, perhaps not for the last time.
ReceiverReport(r, rc, again) ==
    /\ Passes("receiver", Rr(rc, r.block), r.there + clock - r.born)
    /\ toProbe' = IF again THEN toProbe ELSE toProbe \ {r}
    /\ UNCHANGED <<toRcv, heard, topSr, orderly>>

\* A receiver that heard nothing yet reports no block, or leaves.
NoReport(p) ==
    /\ heard = <<>> /\ Passes("receiver", p, 0)
    /\ UNCHANGED <<toRcv, heard, toProbe, topSr, orderly>>

\* The UDP flow ends (make_rtp_conn_stats).
RtcpClose ==
    /\ totals = <<>>
    /\ totals' = [s \in Sides |-> IF rtcp[s].type = "RTCP" THEN Totals(rtcp[s]) ELSE NoTotals]
    /\ toRcv' = {} /\ toProbe' = {} /\ heard' = <<>>
    /\ UNCHANGED <<rtcp, hist, tooLong, warn, snap, clock, cumLost, topSr, orderly,
                   firstLost>>

Tick ==
    /\ totals = <<>> /\ clock < MaxClock /\ clock' = clock + 1
    /\ UNCHANGED <<rtcp, hist, tooLong, warn, snap, toRcv, heard, toProbe, cumLost, topSr,
                   orderly, firstLost, totals>>

RtcpNext ==
    \/ \E k \in 1..MaxReports, rc \in {0, 1} : k <= topSr + 2 /\ SenderReport(k, rc)
    \/ \E m \in toRcv : Hear(m)
    \/ Answer
    \/ \E r \in toProbe, rc \in {1, 2}, again \in BOOLEAN : ReceiverReport(r, rc, again)
    \/ \E p \in {Rr(0, Stray), Bye} : NoReport(p)
    \/ RtcpClose
    \/ Tick

(***************************************************************************)
(* Properties.                                                             *)
(***************************************************************************)
RtcpTypeOK ==
    /\ rtcp \in [Sides -> [type : {"UNKNOWN", "FIRST_RTCP", "RTCP"}, pnum : 0..MaxPnum,
                           last_SR : 0..MaxClock, last_SR_id : 0..MaxReports,
                           tx_b : 0..(TxMod - 1), jitter_samples : 0..MaxPnum,
                           c_lost : Int, rtt_sum : Nat, rtt_min : 0..MaxClock,
                           rtt_max : 0..MaxClock, rtt_samples : 0..MaxPnum,
                           errors : SUBSET Errors]]
    /\ clock \in 1..MaxClock /\ topSr \in 0..MaxReports

\* The losses and repeats in the histograms of a direction are exactly what its
\* count, which makes the total in the end, moved by since its first report.
LossesTell ==
    \A s \in Sides :
        /\ rtcp[s].jitter_samples > 0 =>
              hist[s].lost - hist[s].dup = rtcp[s].c_lost - firstLost[s]
        /\ (totals # <<>> /\ rtcp[s].type = "RTCP") =>
              totals[s].t_lost = firstLost[s] + hist[s].lost - hist[s].dup

\* Sender reports that pass in order make bit rates of all the bytes between the
\* first and the last one, also when the 32 bit counter wraps.
RatesTile ==
    (orderly /\ snap # "tiny" /\ rtcp["sender"].last_SR # Never) =>
        hist["sender"].bits = 8 * TxStep * (topSr - 1)

\* A round trip is never longer than the true one: a sender report that is
\* repeated makes it look shorter, a late or cut one makes it none at all.
RoundTripNeverOver == ~tooLong

\* The extremes of the round trips fit their sum, apart from samples of zero
\* that came before the first positive one.
Extremes ==
    \A s \in Sides : LET f == rtcp[s] IN
        f.rtt_samples > 0 =>
            f.rtt_min <= f.rtt_max /\ f.rtt_max <= f.rtt_sum
            /\ f.rtt_sum <= f.rtt_max * f.rtt_samples

\* What the RTCP packets of a flow say of it is what happened.
RtcpTrue == LossesTell /\ RatesTile /\ RoundTripNeverOver /\ Extremes
==============================
