------------------------------ MODULE Bufferbloat ------------------------------
(***************************************************************************)
(* The queueing delay of one TCP connection (bufferbloat.c), triggered by  *)
(* its acknowledgements: tcp_flow_stat gives every ACK to ack_in, which    *)
(* takes a round trip time (rtt_ackin, NORMAL) or does not, and each ACK   *)
(* is one chance of its direction.  Chances and samples are collected in   *)
(* windows of one second, the same for both directions; a window is        *)
(* printed and closed by the first ACK of a later second, and the seconds  *)
(* in between as void windows.  The default build checks itself all along  *)
(* (SEVERE_DEBUG) and exits when a check fails.                            *)
(***************************************************************************)
EXTENDS Integers, Sequences, FiniteSets

CONSTANTS
  Rtts,         \* round trip times measured, in microseconds
  ChanceLimit,  \* 1000000, the chances close_window accepts
  MaxTime,      \* bound on the seconds
  MaxAcks       \* bound on the ACKs

ASSUME BufferbloatAssumption ==
  /\ Rtts \subseteq Nat
  /\ ChanceLimit \in Nat /\ MaxTime \in Nat /\ MaxAcks \in Nat

Sides == {"C2S", "S2C"}
OtherSide(d) == IF d = "C2S" THEN "S2C" ELSE "C2S"

VARIABLES
  now,      \* current_time.tv_sec
  stat,     \* bufferbloat_stat_ack_triggered of both directions
  report,   \* the lines of the windowed log
  stopped,  \* "no", or why the program has called exit
  acks,     \* ACKs so far
  hist,     \* what happened in each second (for the properties)
  low       \* the smallest gross delay of each direction, -1 before the first

vars == <<now, stat, report, stopped, acks, hist, low>>

------------------------------
(* Samples, chances, sum of the queueing delays and of the gross delays:   *)
(* since the connection began (tot), and up to the last window (until).    *)
Zero == [count |-> 0, chances |-> 0, qd |-> 0, gross |-> 0]

Fresh ==
  [delay_base |-> 0, cur_gross |-> 0, last_window_edge |-> 0,
   last_printed |-> 0, last_unwindowed |-> 0, tot |-> Zero, until |-> Zero,
   not_void_windows |-> 0, windowed_qd_sum |-> 0]

(* What the open window holds.                                             *)
InWindow(r) ==
  [count   |-> r.tot.count - r.until.count,
   chances |-> r.tot.chances - r.until.chances,
   qd      |-> r.tot.qd - r.until.qd,
   gross   |-> r.tot.gross - r.until.gross]

(* The average of a window, BUFFEBLOAT_NOSAMPLES without samples.          *)
WindowQd(w) == IF w.count = 0 THEN -1 ELSE w.qd \div w.count

Line(w) == [samples |-> w.count, chances |-> w.chances, qd |-> WindowQd(w)]

GrossDelay(rtt) == rtt \div 1000

(* update_gross_delay_related_stuff: a base of 0 counts as not measured.   *)
WithGross(r, g) ==
  [r EXCEPT !.cur_gross  = g,
            !.delay_base = IF g < @ \/ @ = 0 THEN g ELSE @]

(* get_queueing_delay.                                                     *)
QueueingDelay(r) == r.cur_gross - r.delay_base

(* Mutant: a window without samples is counted as not void.                *)
Close_Void(r, t) ==
  LET w == InWindow(r)
      u == IF w.count # 0 THEN r.tot
           ELSE [r.until EXCEPT !.chances = r.tot.chances]
  IN  [r EXCEPT !.until = u,
                !.last_window_edge = t,
                !.not_void_windows = @ + 1,
                !.windowed_qd_sum = IF w.count # 0 THEN @ + WindowQd(w) ELSE @]

(* close_window of one direction, at second t.                             *)
Close(r, t) ==
  LET w == InWindow(r)
      u == IF w.count # 0 THEN r.tot
           ELSE [r.until EXCEPT !.chances = r.tot.chances]
  IN  [r EXCEPT !.until = u,
                !.last_window_edge = t,
                !.not_void_windows = IF w.count # 0 THEN @ + 1 ELSE @,
                !.windowed_qd_sum = IF w.count # 0 THEN @ + WindowQd(w) ELSE @]

(* The open window is over when an ACK of a later second comes.            *)
Over(s, t) ==
  s["C2S"].last_window_edge # 0 /\ t > s["C2S"].last_window_edge

(* windowed_queueing_delay for an ACK of direction d: the first one opens  *)
(* a window, one of a later second closes the open one in both directions. *)
Windowed(s, d, t) ==
  IF s[d].last_window_edge = 0
  THEN [x \in Sides |-> [s[x] EXCEPT !.last_window_edge = t]]
  ELSE IF Over(s, t)
  THEN [x \in Sides |->
          [Close(s[x], t) EXCEPT
             !.last_printed = t - 1,
             !.last_unwindowed = IF x = d THEN @ ELSE 0]]
  ELSE s

(* What it prints: the window and then one void window for every second    *)
(* up to the one that opens.                                               *)
Lines(s, t) ==
  IF ~ Over(s, t) THEN <<>>
  ELSE LET left == s["C2S"].last_window_edge
       IN  [i \in 1 .. t - left |->
              [edge |-> left + i - 1,
               line |-> [x \in Sides |->
                           Line(IF i = 1 THEN InWindow(s[x])
                                ELSE InWindow(Close(s[x], t)))]]]

(* The sample is counted, once the window of its second is open.           *)
Sampled(r, qd, g) ==
  [r EXCEPT !.tot = [count |-> @.count + 1, chances |-> @.chances + 1,
                     qd |-> @.qd + qd, gross |-> @.gross + g],
            !.last_unwindowed = qd]

(* Mutant: the last sample is not forgotten.                               *)
Wasted_Kept(r) == [r EXCEPT !.tot.chances = @ + 1]

(* An ACK that gives no sample is still a chance.                          *)
Wasted(r) == [r EXCEPT !.tot.chances = @ + 1, !.last_unwindowed = 0]

(* Mutant: the sample is counted before the window is closed.              *)
Analysed_Early(s, d, g, t) ==
  LET r  == WithGross(s[d], g)
  IN  Windowed([s EXCEPT ![d] = Sampled(r, QueueingDelay(r), g)], d, t)

(* bufferbloat_analysis: the gross delay, the window, the sample.          *)
Analysed(s, d, g, t) ==
  LET r  == WithGross(s[d], g)
      s2 == Windowed([s EXCEPT ![d] = r], d, t)
  IN  [s2 EXCEPT ![d] = Sampled(@, QueueingDelay(r), g)]

(* chance_is_not_valid.                                                    *)
NotValid(s, d, t) == [Windowed(s, d, t) EXCEPT ![d] = Wasted(@)]

------------------------------
(* The checks of the SEVERE_DEBUG build.                                   *)

(* check_direction_consistency_light.                                      *)
Consistent(s, t) ==
  /\ s["C2S"].last_printed = s["S2C"].last_printed
  /\ s["C2S"].last_window_edge = s["S2C"].last_window_edge
  /\ \A d \in Sides :
       LET r == s[d]
           w == InWindow(r)
       IN  /\ r.last_window_edge <= t
           /\ w.gross >= w.qd
           /\ w.count >= 0 /\ w.chances >= 0
           /\ r.tot.count <= r.tot.chances
           /\ r.until.count <= r.until.chances

(* Some ACK was seen in the open window.                                   *)
SomeChance(s) == \E d \in Sides : InWindow(s[d]).chances > 0

(* A sum of 0 is a sum of zeros.                                           *)
LastCounted(r) == InWindow(r).qd <= 0 => r.last_unwindowed = 0

(* print_last_window_general and close_window, before the window is closed.*)
Closable(s, t) ==
  /\ SomeChance(s)
  /\ \A d \in Sides :
       LET r == s[d]
           w == InWindow(r)
       IN  /\ r.last_window_edge > r.last_printed
           /\ r.last_printed # 0 => r.last_window_edge = r.last_printed + 1
           /\ t > r.last_window_edge
           /\ 0 <= w.count /\ w.count <= w.chances
           /\ w.qd >= 0 /\ r.until.qd >= 0
           /\ w.count # 0 =>
                /\ LastCounted(r)
                /\ w.gross >= w.qd
                /\ w.gross \div w.count >= WindowQd(w)
           /\ w.count = 0 => w.qd = 0 /\ w.gross = 0

(* After a window is closed nothing is left in it.                         *)
Closed(s) == \A d \in Sides : InWindow(s[d]) = Zero

WindowChecks(s, d, t) ==
  /\ Consistent(s, t)
  /\ Over(s, t) => Closable(s, t) /\ Closed(Windowed(s, d, t))
  /\ Consistent(Windowed(s, d, t), t)

AnalysisChecks(s, d, g, t) ==
  LET r  == WithGross(s[d], g)
      s1 == [s EXCEPT ![d] = r]
      s3 == Analysed(s, d, g, t)
      both == \A x \in Sides : s[x].not_void_windows # 0
  IN  /\ Consistent(s, t)
      /\ both => SomeChance(s)
      /\ LastCounted(s[d])
      /\ QueueingDelay(r) <= g
      /\ WindowChecks(s1, d, t)
      /\ (\A x \in Sides : s3[x].not_void_windows # 0) =>
           InWindow(s3[d]).chances > 0
      /\ Consistent(s3, t)
      /\ LastCounted(s3[d])

(* close_window gives up on a direction with too many chances.             *)
TooMany(s, t) == Over(s, t) /\ \E d \in Sides : s[d].tot.chances > ChanceLimit

------------------------------
Init ==
  /\ now \in 1 .. MaxTime
  /\ stat = [d \in Sides |-> Fresh]
  /\ report = <<>>
  /\ stopped = "no"
  /\ acks = 0
  /\ hist = [d \in Sides |-> [t \in 1 .. MaxTime |-> Zero]]
  /\ low = [d \in Sides |-> -1]

(* An ACK comes at second t, not earlier than the packet before it.  It    *)
(* ends the program or is handled as a whole.                              *)
Arrives(t, why) ==
  /\ stopped = "no" /\ acks < MaxAcks
  /\ now' = t /\ acks' = acks + 1
  /\ stopped' = why

Exit == UNCHANGED <<stat, report, hist, low>>

(* rtt_ackin exits when the ACK has the time stamp of its segment.         *)
SampleEnds(d, rtt, t) ==
  IF rtt = 0 THEN "stamp"
  ELSE IF ~ AnalysisChecks(stat, d, GrossDelay(rtt), t) THEN "check"
  ELSE IF TooMany(stat, t) THEN "chances" ELSE "no"

ChanceEnds(d, t) ==
  IF ~ WindowChecks(stat, d, t) THEN "check"
  ELSE IF TooMany(stat, t) THEN "chances" ELSE "no"

(* The ACK gives the round trip time rtt (rtt_ackin, NORMAL).              *)
Sample(d, rtt, t) ==
  LET g == GrossDelay(rtt)
  IN  /\ Arrives(t, SampleEnds(d, rtt, t))
      /\ IF SampleEnds(d, rtt, t) = "no"
         THEN /\ stat' = Analysed(stat, d, g, t)
              /\ report' = report \o Lines(stat, t)
              /\ hist' = [hist EXCEPT ![d][t] =
                            [count |-> @.count + 1, chances |-> @.chances + 1,
                             qd |-> @.qd + QueueingDelay(WithGross(stat[d], g)),
                             gross |-> @.gross + g]]
              /\ low' = [low EXCEPT ![d] = IF @ = -1 \/ g < @ THEN g ELSE @]
         ELSE Exit

(* The ACK gives none: a duplicate, cumulative, ambiguous or late one.     *)
Chance(d, t) ==
  /\ Arrives(t, ChanceEnds(d, t))
  /\ IF ChanceEnds(d, t) = "no"
     THEN /\ stat' = NotValid(stat, d, t)
          /\ report' = report \o Lines(stat, t)
          /\ hist' = [hist EXCEPT ![d][t].chances = @ + 1]
          /\ low' = low
     ELSE Exit

Next ==
  \E d \in Sides, t \in now .. MaxTime :
    \/ \E rtt \in Rtts : Sample(d, rtt, t)
    \/ Chance(d, t)

Spec == Init /\ [][Next]_vars

------------------------------
Sums == [count : Nat, chances : Nat, qd : Nat, gross : Nat]

Delays == {0} \cup {rtt \div 1000 : rtt \in Rtts}

Stats ==
  [delay_base : Nat, cur_gross : Delays,
   last_window_edge : 0 .. MaxTime, last_printed : 0 .. MaxTime,
   last_unwindowed : Nat, tot : Sums, until : Sums,
   not_void_windows : Nat, windowed_qd_sum : Nat]

Outcomes == [samples : Nat, chances : Nat, qd : Nat \cup {-1}]

(* The values the structures of a connection take; the delays are the      *)
(* round trip times in milliseconds (rexmit.c:649).                        *)
TypeOK ==
  /\ now \in 1 .. MaxTime
  /\ stat \in [Sides -> Stats]
  /\ report \in Seq([edge : 1 .. MaxTime, line : [Sides -> Outcomes]])
  /\ stopped \in {"no", "stamp", "chances", "check"}
  /\ acks \in 0 .. MaxAcks
  /\ hist \in [Sides -> [1 .. MaxTime -> Sums]]
  /\ low \in [Sides -> Nat \cup {-1}]

(* None of the consistency checks of bufferbloat.c can fail: whatever mix  *)
(* of samples and wasted chances the two directions bring, at whatever     *)
(* seconds, sums, counts, edges and the last sample stay in agreement.     *)
ChecksHold == stopped # "check"

(* The windowed log has one line for every second from the first ACK to    *)
(* the one before the open window, in order, void seconds included         *)
(* (bufferbloat.c:1038-1195).                                              *)
WindowsTile ==
  LET first == report[1].edge
  IN  /\ \A i \in 1 .. Len(report) : report[i].edge = first + i - 1
      /\ report # <<>> =>
           \A d \in Sides : stat[d].last_window_edge = first + Len(report)

(* A line says what happened in its second and nothing else: the samples,  *)
(* the chances and the average of each direction.  The first ACK of a      *)
(* later second closes the window before it is counted itself.             *)
WindowsReportTheirSecond ==
  \A i \in 1 .. Len(report) : \A d \in Sides :
    report[i].line[d] = Line(hist[d][report[i].edge])

(* The windowed totals of a connection are those of its printed lines:     *)
(* not_void_windows counts the ones with samples.                          *)
NotVoidCounted ==
  \A d \in Sides :
    stat[d].not_void_windows =
      Cardinality({i \in 1 .. Len(report) : report[i].line[d].samples # 0})

(* delay_base is the smallest gross delay of its direction, as long as no  *)
(* round trip was shorter than a millisecond: 0 stands for a base "never   *)
(* measured before", and is replaced by the next delay, whatever it is     *)
(* (bufferbloat.c:205-213).                                                *)
BaseIsMinimum ==
  \A d \in Sides : low[d] > 0 => stat[d].delay_base = low[d]

(* The structures of a connection agree with one another.                  *)
ConnectionSound == TypeOK /\ ChecksHold

(* The windowed log says of every second what happened in it.              *)
LogTrue == WindowsTile /\ WindowsReportTheirSecond

(* What a connection carries from one window to the next is right.         *)
CarriedOver == NotVoidCounted /\ BaseIsMinimum
==============================
