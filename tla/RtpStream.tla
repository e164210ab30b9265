------------------------------ MODULE RtpStream ------------------------------
(***************************************************************************)
(* One direction of an RTP stream between an encoder and the probe, over a *)
(* network that loses, repeats and reorders packets.  Packet k of the      *)
(* encoder carries the number start + k; ghost variables know which        *)
(* packets really came by, so that the counters of rtp.c can be compared   *)
(* with the truth.                                                         *)
(***************************************************************************)
EXTENDS RtpWindow

CONSTANTS
    Starts,      \* sequence numbers a stream may begin with
    TsSteps,     \* time stamp ticks from one packet to the next
    JumpBy,      \* how far an encoder that restarts its numbering jumps
    MaxSent,     \* bound: packets 0..MaxSent of the encoder
    MaxPackets,  \* bound: packets seen by the probe
    Skip         \* bound: packets lost in a row

ASSUME StreamAssumption ==
    /\ Starts \subseteq Nat /\ TsSteps \subseteq Nat /\ 1 \in TsSteps
    /\ JumpBy \in Nat /\ MaxSent \in Nat \ {0} /\ MaxPackets \in Nat /\ Skip \in Nat

VARIABLES
    rtp,         \* struct rtp of the direction
    start,       \* number and time stamp of packet 0, and ticks per packet
    step,
    jumped,      \* first packet numbered with the jump, or 0
    top,         \* last packet of the encoder that came by
    seen,        \* the packets that came by
    repeats,     \* how often one came by again
    ordered,     \* they came one after the other: no loss, no repeat
    early,       \* the first window filled before the second began, and no
                 \* packet came out of time
    report,      \* what was handed to the histograms, or nothing yet
    closed

vars == <<rtp, start, step, jumped, top, seen, repeats, ordered, early, report,
          closed>>

SeqOf(k) == U16(start + k + (IF jumped > 0 /\ k >= jumped THEN JumpBy ELSE 0))
TsOf(k) == U32(k * step)

TypeOK ==
    /\ rtp \in Rtp
    /\ start \in Starts \cup {0} /\ step \in TsSteps
    /\ jumped \in 0..MaxSent /\ top \in 1..MaxSent
    /\ seen \subseteq 0..MaxSent /\ repeats \in 0..MaxPackets
    /\ {ordered, early, closed} \subseteq BOOLEAN

(***************************************************************************)
(* A stream is recognised by two packets with consecutive numbers          *)
(* (init_rtp, rtp_check); the second one is already counted by rtp_stat.   *)
(***************************************************************************)
Init ==
    /\ start \in Starts /\ step \in TsSteps
    /\ jumped = 0 /\ top = 1 /\ seen = {0, 1} /\ repeats = 0
    /\ ordered = TRUE /\ early = TRUE /\ closed = FALSE /\ report = <<>>
    /\ rtp = RtpStat(InitRtp(U16(start), 0), U16(start + 1), U32(step))

\* No RTP at all: the direction carries something else.
NoStream ==
    /\ start = 0 /\ step = 1 /\ jumped = 0 /\ top = 1 /\ seen = {0, 1}
    /\ repeats = 0 /\ ordered = FALSE /\ early = FALSE /\ closed = TRUE
    /\ report = <<>> /\ rtp = RtpStat(InitRtp(0, 0), 1, 1)

\* Packet k is not overtaken by one a window later, and does not come again
\* after so long that its number or its time stamp looks new.
InTime(k) ==
    /\ (top - k) * step <= TsBack
    /\ top - k <= IF k \in seen THEN Mod - OverflowTh ELSE Win - 1

\* Packet k comes by and rtp_flow_stat gives it to rtp_stat.
Packet(k) ==
    /\ ~closed /\ rtp.pnum < MaxPackets
    /\ rtp' = RtpStat(rtp, SeqOf(k), TsOf(k))
    /\ ordered' = (ordered /\ k = top + 1)
    /\ early' = (early /\ InTime(k) /\ (k >= Win => 0..(Win - 1) \subseteq seen))
    /\ repeats' = IF k \in seen THEN repeats + 1 ELSE repeats
    /\ seen' = seen \cup {k} /\ top' = Max({top, k})
    /\ UNCHANGED <<start, step, jumped, report, closed>>

\* The encoder goes on with other numbers (the comment names CISCO).
Renumber ==
    /\ ~closed /\ jumped = 0 /\ top < MaxSent /\ rtp.pnum < MaxPackets
    /\ jumped' = top + 1
    /\ UNCHANGED <<rtp, start, step, top, seen, repeats, ordered, early, report,
                   closed>>

\* The UDP flow ends: make_rtp_conn_stats looks at the last window.
Close ==
    /\ ~closed /\ closed' = TRUE
    /\ rtp' = RtpClose(rtp) /\ report' = Report(rtp')
    /\ UNCHANGED <<start, step, jumped, top, seen, repeats, ordered, early>>

Next ==
    \/ \E k \in 0..MaxSent : k <= top + Skip + 1 /\ Packet(k)
    \/ Renumber
    \/ Close

Spec == Init /\ [][Next]_vars

(***************************************************************************)
(* Properties.                                                             *)
(***************************************************************************)

\* Bursts of losses are only handed to the histogram: what was lost is there
\* or in the burst still open (rtp_stat, update_rtp_conn_histo).
BurstsAddUp == rtp.n_lost = rtp.burst + rtp.burst_histo

\* The averages of the delay divide by the packets that came in sequence: there
\* is always one, the second packet of the stream (rtp_check).
Divisible == InSequence(rtp) >= 1

\* The counters of a stream are of one piece, whatever the network does.
Sound == TypeOK /\ BurstsAddUp /\ Divisible

\* The unused slots of the first window hold 0, which is also a number: a
\* stream that meets it there is a case of its own.
ZeroEarly == \E k \in 0..(Win - 1) : SeqOf(k) = 0

\* The time stamps advance by so little per packet that largest_ts follows.
Followed == step < OverflowTh

\* A stream that arrives complete and in order is reported without any lost,
\* late or repeated packet, also when the 16 bit numbers wrap, when the encoder
\* renumbers after the first window, and when the last window is examined.
CleanStream ==
    (ordered /\ ~ZeroEarly /\ (jumped = 0 \/ (jumped >= Win /\ Followed))) =>
        /\ rtp.n_lost = 0 /\ rtp.n_late = 0 /\ rtp.n_dup = 0
        /\ rtp.n_out_of_sequence = Cardinality({jumped} \cap 1..top)

\* A packet came, those that use its slot in the five windows before did not.
Forgotten ==
    \E k \in seen : k > 5 * Win /\ \A n \in 1..5 : (k - n * Win) \notin seen

\* The time stamps advance, and by so little that largest_ts follows though
\* packets are lost.
Ticking == step > 0 /\ (Skip + 1) * step < OverflowTh

\* Packets that may have been lost or overtaken, never numbered anew.
Plain == jumped = 0 /\ early /\ ~Forgotten /\ ~rtp.bogus_reset

\* The probe never reports more lost packets than the network lost.
LossNeverOver == Plain => rtp.n_lost <= Cardinality((0..top) \ seen)

\* A packet that comes again is reported as a duplicate or as late.
RepeatsFound == Plain => repeats <= rtp.n_dup + rtp.n_late

\* What is taken for a renumbering encoder is one.
ResetExplained ==
    rtp.bogus_reset => jumped > 0 \/ ~early \/ Forgotten \/ ~Ticking

\* What an RTP stream is charged with really happened to it.
ChargesTrue == LossNeverOver /\ RepeatsFound /\ ResetExplained
==============================
