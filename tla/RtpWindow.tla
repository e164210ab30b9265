------------------------------ MODULE RtpWindow ------------------------------
(***************************************************************************)
(* What rtp.c keeps about one direction of an RTP stream: the window of    *)
(* the last sequence numbers, by which it counts lost, late, duplicate and *)
(* out-of-sequence packets, and the detection of encoders that restart     *)
(* their numbering.  Operators only: RtpStream drives them with a network  *)
(* and UdpClass calls them where rtp_flow_stat does.                       *)
(***************************************************************************)
EXTENDS Integers, FiniteSets, FiniteSetsExt

CONSTANTS
    Win,         \* RTP_WIN, 16: slots of the window
    Mod,         \* 2^16: sequence numbers are u_int16_t
    OverflowTh,  \* OVERFLOW_TH, 2000: a difference this large is a step back
    TsMod,       \* 2^32: time stamps are u_int32_t
    TsBack       \* 2^32 - 0xffff0000: how far a time stamp may lie behind

ASSUME WindowAssumption ==
    /\ Win \in Nat \ {0, 1} /\ Mod \in Nat /\ Mod % Win = 0
    /\ OverflowTh \in Nat /\ OverflowTh > 5 * Win /\ Mod > 2 * OverflowTh
    /\ TsMod \in Nat /\ TsBack \in 1..TsMod /\ OverflowTh <= TsMod - TsBack

Seqs == 0..(Mod - 1)
Slots == 0..(Win - 1)

\* Differences of u_int16_t and of u_int32_t.
U16(n) == n % Mod
U32(n) == n % TsMod

(***************************************************************************)
(* struct rtp.  jumps and bursts stand for the histogram of loss bursts:   *)
(* how many bursts were added to it and their sum.                         *)
(***************************************************************************)
Rtp == [packets_win : [Slots -> Seqs], w : BOOLEAN, initial_seqno : Seqs,
        largest_seqno : Seqs, largest_ts : 0..(TsMod - 1), pnum : Nat,
        n_dup : Nat, n_lost : Nat, n_late : Nat, n_out_of_sequence : Nat,
        burst : Nat, burst_histo : Nat, bogus_reset : BOOLEAN]

(***************************************************************************)
(* init_rtp, its RTP branch: memset, then the first packet.  The slots not *)
(* yet used hold 0, which is also a sequence number.                       *)
(***************************************************************************)
InitRtp(seq, ts) ==
    [packets_win |-> [i \in Slots |-> IF i = 0 THEN seq ELSE 0], w |-> FALSE,
     initial_seqno |-> seq, largest_seqno |-> seq, largest_ts |-> ts,
     pnum |-> 1, n_dup |-> 0, n_lost |-> 0, n_late |-> 0,
     n_out_of_sequence |-> 0, burst |-> 0, burst_histo |-> 0,
     bogus_reset |-> FALSE]

Slot(f, seq) == U16(seq - f.initial_seqno) % Win
DeltaWin(f, seq) == U16(seq - f.packets_win[Slot(f, seq)])
Store(f, seq) == [f EXCEPT !.packets_win[Slot(f, seq)] = seq]

\* A sudden jump of the numbers that the time stamps do not explain.
Jumped(f, seq, ts) ==
    /\ DeltaWin(f, seq) > 5 * Win
    /\ U32(ts - f.largest_ts) < TsMod - TsBack
    /\ f.w

\* Mutant: the window is filled with the packet's own number.
BogusReset_Bug(f, seq, ts) ==
    [f EXCEPT !.w = FALSE, !.largest_seqno = seq, !.initial_seqno = U16(seq - 1),
              !.largest_ts = ts, !.bogus_reset = TRUE,
              !.packets_win = [i \in Slots |-> seq]]

\* The window starts again one number before the packet that jumped.
BogusReset(f, seq, ts) ==
    [f EXCEPT !.w = FALSE, !.largest_seqno = seq, !.initial_seqno = U16(seq - 1),
              !.largest_ts = ts, !.bogus_reset = TRUE,
              !.packets_win = [i \in Slots |-> U16(seq - 1)]]

\* While the first window fills every packet is stored, a repeated one counted.
FirstWindow(f, seq) ==
    [Store(f, seq) EXCEPT !.n_dup = IF DeltaWin(f, seq) = 0 THEN @ + 1 ELSE @]

\* Some packets of the window before never came.
Loss(f, seq) == [Store(f, seq) EXCEPT !.n_lost = @ + 1, !.burst = @ + 1]

\* Mutant: a burst of losses stays open after it was counted.
EndBurst_Bug(f, seq) == [Store(f, seq) EXCEPT !.burst_histo = @ + f.burst]

\* The one before came: a burst of losses, if any, is over.
EndBurst(f, seq) ==
    [Store(f, seq) EXCEPT !.burst_histo = @ + f.burst, !.burst = 0]

\* Mutant: a late packet is taken for the one after a loss.
FullWindow_Late(f, seq) ==
    LET d == DeltaWin(f, seq) IN
    CASE d = 0 -> [f EXCEPT !.n_dup = @ + 1]
      [] d > Win -> Loss(f, seq)
      [] d = Win -> EndBurst(f, seq)
      [] OTHER -> f

\* Once a window is full a slot says what became of the packet a window ago.
FullWindow(f, seq) ==
    LET d == DeltaWin(f, seq) IN
    CASE d >= OverflowTh -> [f EXCEPT !.n_late = @ + 1]
      [] d = 0 -> [f EXCEPT !.n_dup = @ + 1]
      [] d > Win /\ d < OverflowTh -> Loss(f, seq)
      [] d = Win -> EndBurst(f, seq)
      [] OTHER -> f

\* Out of sequence is whatever does not follow the largest number.
Sequence(f, seq) ==
    [f EXCEPT !.n_out_of_sequence =
                  IF U16(f.largest_seqno + 1) # seq THEN @ + 1 ELSE @,
              !.largest_seqno =
                  IF U16(seq - f.largest_seqno) < OverflowTh THEN seq ELSE @]

\* rtp_stat: one packet of a recognised stream.
RtpStat(f, seq, ts) ==
    LET f1 == [f EXCEPT !.pnum = @ + 1,
                        !.w = @ \/ U16(seq - f.initial_seqno) >= Win]
        f2 == IF Jumped(f1, seq, ts) THEN BogusReset(f1, seq, ts) ELSE f1
        f3 == IF U32(ts - f2.largest_ts) < OverflowTh
              THEN [f2 EXCEPT !.largest_ts = ts] ELSE f2
    IN  Sequence(IF f3.w THEN FullWindow(f3, seq) ELSE FirstWindow(f3, seq), seq)

(***************************************************************************)
(* The last window, examined when the flow is closed                       *)
(* (update_rtp_conn_histo): slots up to that of the largest number must    *)
(* hold the numbers of the current turn.                                   *)
(***************************************************************************)
LastSlot(f) == U16(f.largest_seqno - f.initial_seqno) % Win
Missing(f) == {i \in 0..LastSlot(f) :
                  f.packets_win[i] # U16(f.largest_seqno - LastSlot(f) + i)}

RtpClose(f) ==
    LET present == (0..LastSlot(f)) \ Missing(f)
        lost == Cardinality(Missing(f))
        tail == IF present = {} THEN f.burst + lost
                                ELSE LastSlot(f) - Max(present)
    IN  [f EXCEPT !.n_lost = @ + lost, !.burst = tail,
                  !.burst_histo = @ + f.burst + lost - tail]

\* Packets that followed their predecessor: over these delays and jitter are
\* averaged.
InSequence(f) == f.pnum - 1 - f.n_out_of_sequence

\* The samples of the histograms: counts per thousand packets.
Report(f) == [p_dup |-> (f.n_dup * 1000) \div f.pnum,
              p_lost |-> (f.n_lost * 1000) \div f.pnum,
              p_late |-> (f.n_late * 1000) \div f.pnum,
              ipg_over |-> InSequence(f)]
==============================
