----------------------------- MODULE Anomalies -----------------------------
(***************************************************************************)
(* The label rexmit.c puts on every data packet of one side of a           *)
(* connection: in sequence, retransmitted after a timeout or by fast       *)
(* retransmit, with or without need, reordered, copied by the network.     *)
(* real_rules_test() guesses it from what addseg() and ack_in() have left  *)
(* in the list of segments; ghost variables hold what happened.            *)
(*                                                                         *)
(* A packet is a unit: it is sent again as it was.  Packets that overlap,  *)
(* the four quadrants and their limit of segments are in SeqSpace.  The    *)
(* round trip time estimates, floating point numbers made from all the     *)
(* samples, are any of a given set.  The counters and histograms, one for  *)
(* each label, are left out: "verdict" names the one that is incremented.  *)
(***************************************************************************)
EXTENDS Integers, SequencesExt

CONSTANTS
  Units,       \* the packets of the stream are 0 .. Units - 1
  DupAcks,     \* 3: ACKs of the segment before that are not yet duplicates enough
  RtoMin, RttMin, InitialRto, InitialRttMin,
  HalfMeans,   \* Mean_RTT as long as one side is not measured
  Estimates,   \* Mean_RTT, RTO and RTT once both are
  OneByte,     \* the packets of one byte
  MaxEvents,   \* bound on the number of packets
  MaxClock     \* bound on current_time

ASSUME AnomaliesAssumption ==
  /\ Units \in Nat /\ DupAcks \in Nat
  /\ {RtoMin, RttMin, InitialRto, InitialRttMin, MaxEvents, MaxClock} \subseteq Nat
  /\ RtoMin <= InitialRto
  /\ HalfMeans \subseteq Nat
  /\ Estimates \subseteq [mean : Nat, rto : Nat, rtt : Nat]
  /\ OneByte \subseteq 0 .. Units - 1

VARIABLES
  list,       \* seglist of the quadrant
  est,        \* Mean_RTT, RTO and RTT, and validRTT
  measured,   \* the halves with rtt_count # 0
  synsSeen,   \* syn_count # 0 in both
  closed,     \* win_curr = 0 in the other tcb
  clock,      \* current_time
  events,     \* packets handled
  verdict,    \* of the step: data packet, IP identification and type, if any
  fixedIds,   \* ghost: the sender numbers all packets alike
  sight,      \* ghost: how each unit was seen
  told,       \* ghost: how often each ACK was seen
  topAck      \* ghost: the highest one as long as none was lower, or Mixed

anomalyVars == <<list, est, measured, synsSeen, closed, clock, events, verdict,
                 fixedIds, sight, told, topAck>>

Unit == 0 .. Units - 1
Halves == {"this", "other"}
NoTime == -1
Mixed == -1
NoVerdict == <<>>

(* The labels by the names of the counters, which make one of the types 8  *)
(* to 13; with BATCH_CLASSIFICATION and NO_RTT_SAMPLE_CLASSIFICATION.      *)
Labels == {"IN_SEQUENCE", "RTO", "FR", "REORDERING", "NETWORK_DUPLICATE", "FLOW_CONTROL",
           "UNNECESSARY_RTO", "UNNECESSARY_FR", "UNKNOWN"}
Type == [what : Labels, batch : BOOLEAN, noRtt : BOOLEAN]
InSequence == [what |-> "IN_SEQUENCE", batch |-> FALSE, noRtt |-> FALSE]

NewSegment(u, id, type) ==
  [first |-> u, last |-> u, id |-> id, time |-> clock, acked |-> 0, again |-> FALSE,
   type |-> type]

AnomaliesTypeOK ==
  /\ list \in Seq([first : Unit, last : Unit, id : Nat, time : 0 .. MaxClock,
                   acked : Nat, again : BOOLEAN, type : Type])
  /\ est \in [valid : BOOLEAN, mean : Nat, rto : Nat, rtt : Nat]
  /\ measured \subseteq Halves
  /\ {synsSeen, closed, fixedIds} \subseteq BOOLEAN
  /\ clock \in 0 .. MaxClock /\ events \in 0 .. MaxEvents
  /\ topAck \in 0 .. Units \cup {Mixed}

------------------------------
(* real_rules_test.  p is the segment the packet was found in or put in    *)
(* front of, before the one that comes before the packet, none if it is    *)
(* empty; recovery is NoTime for a new packet with none before it.         *)
RTO == IF ~est.valid THEN InitialRto ELSE IF est.rto < RtoMin THEN RtoMin ELSE est.rto
RTT == IF ~est.valid THEN InitialRttMin ELSE IF est.rtt < RttMin THEN RttMin ELSE est.rtt

Recovery(p, given) == IF ~est.valid /\ given = NoTime THEN clock - p.time ELSE given
Rule1b(recovery) == recovery > RTO
Rule1d(recovery) == recovery < est.mean
Rule2b(before, recovery) ==
  \E i \in DOMAIN before : before[i].acked > DupAcks /\ recovery < RTO
Rule2c(p) == clock - p.time < RTT
RuleProbing(u) == u \in OneByte /\ closed /\ synsSeen

Guess(p, before, seen, id, recovery) ==
  LET copy == p.id = id /\ (seen \/ p.acked > 0)
      fast == Rule2b(before, recovery)
  IN  CASE copy -> "NETWORK_DUPLICATE"
        [] ~copy /\ fast -> IF p.acked = 0 THEN "FR" ELSE "UNNECESSARY_FR"
        [] ~copy /\ ~fast /\ Rule1b(recovery) ->
             IF p.acked = 0 THEN "RTO" ELSE "UNNECESSARY_RTO"
        [] ~copy /\ ~fast /\ ~Rule1b(recovery) ->
             IF ~seen /\ p.acked = 0 /\ Rule2c(p) THEN "REORDERING" ELSE "UNKNOWN"

RealRulesTest(u, id, p, before, seen, given) ==
  LET recovery == Recovery(p, given)
      prev == IF before = <<>> THEN InSequence ELSE before[1].type
  IN  CASE RuleProbing(u) -> [what |-> "FLOW_CONTROL", batch |-> FALSE, noRtt |-> FALSE]
        [] ~RuleProbing(u) /\ Rule1d(recovery) /\ prev # InSequence ->
             [prev EXCEPT !.batch = TRUE]
        [] OTHER -> [what |-> Guess(p, before, seen, id, recovery),
                     batch |-> FALSE, noRtt |-> ~est.valid]

------------------------------
AnomaliesInit ==
  /\ list = <<>>
  /\ measured = {}
  /\ est = [valid |-> FALSE, mean |-> 0, rto |-> 0, rtt |-> 0]
  /\ synsSeen \in BOOLEAN /\ closed = FALSE
  /\ clock = 0 /\ events = 0 /\ verdict = NoVerdict
  /\ fixedIds \in BOOLEAN
  /\ sight = [u \in Unit |-> [ids |-> {}, firstId |-> 0, last |-> NoTime, covered |-> FALSE]]
  /\ told = [n \in 1 .. Units |-> 0]
  /\ topAck = 0

Seen(u) == sight[u].last # NoTime
Sighted(u, id) ==
  sight' = [sight EXCEPT ![u] = [ids |-> @.ids \cup {id}, last |-> clock, covered |-> @.covered,
                                 firstId |-> IF Seen(u) THEN @.firstId ELSE id]]
Labelled(u, id, type) == verdict' = [unit |-> u, id |-> id, type |-> type]

At(u) == {i \in DOMAIN list : u <= list[i].last}
PrevOf(i) == IF i = 1 THEN <<>> ELSE <<list[i - 1]>>

(* Mutant: the segment keeps the time of the first transmission.           *)
FoundWithin_OldTime(u, id) ==
  \E i \in At(u) :
    LET type == RealRulesTest(u, id, list[i], PrevOf(i), TRUE, clock - list[i].time)
    IN  /\ \A j \in At(u) : i <= j
        /\ u >= list[i].first
        /\ list' = [list EXCEPT ![i].again = TRUE, ![i].type = type]
        /\ Labelled(u, id, type)

(* addseg: "it doesn't go BEFORE anybody, tack it onto the end"; in front  *)
(* of the first segment that ends after it, as a new one; or "within this  *)
(* recorded sequence", whose time becomes that of the retransmission and   *)
(* whose IP identification stays.                                          *)
TackedOn(u, id) ==
  /\ At(u) = {}
  /\ list' = Append(list, NewSegment(u, id, InSequence))
  /\ Labelled(u, id, InSequence)

PutBefore(u, id) ==
  \E i \in At(u) :
    LET before == PrevOf(i)
        type == RealRulesTest(u, id, list[i], before, FALSE,
                              IF before = <<>> THEN NoTime ELSE clock - before[1].time)
    IN  /\ \A j \in At(u) : i <= j
        /\ u < list[i].first
        /\ list' = InsertAt(list, i, NewSegment(u, id, type))
        /\ Labelled(u, id, type)

FoundWithin(u, id) ==
  \E i \in At(u) :
    LET type == RealRulesTest(u, id, list[i], PrevOf(i), TRUE, clock - list[i].time)
    IN  /\ \A j \in At(u) : i <= j
        /\ u >= list[i].first
        /\ list' = [list EXCEPT ![i].time = clock, ![i].again = TRUE, ![i].type = type]
        /\ Labelled(u, id, type)

(* A data packet: a new one of the sender, or a copy the network has made. *)
LabelData(u, id) ==
  /\ events < MaxEvents
  /\ id \in sight[u].ids \cup {IF fixedIds THEN 0 ELSE events + 1}
  /\ TackedOn(u, id) \/ PutBefore(u, id) \/ FoundWithin(u, id)
  /\ Sighted(u, id)
  /\ events' = events + 1
  /\ UNCHANGED <<est, measured, synsSeen, closed, clock, fixedIds, told, topAck>>

------------------------------
(* The counts of round trip times of a half and what is made from them.    *)
Sampled(half) ==
  /\ measured' = measured \cup {half}
  /\ \/ /\ measured' = Halves
        /\ \E e \in Estimates : est' = [valid |-> TRUE, mean |-> e.mean, rto |-> e.rto, rtt |-> e.rtt]
     \/ /\ measured' # Halves
        /\ \E m \in HalfMeans : est' = [est EXCEPT !.mean = m]

(* collapse_quad: "the new ACK count is the ACK count of the later         *)
(* segment"; time, IP identification and type are those of the newer.      *)
Joined(a, b) ==
  IF b.time > a.time
  THEN [a EXCEPT !.last = b.last, !.acked = b.acked, !.time = b.time, !.id = b.id, !.type = b.type]
  ELSE [a EXCEPT !.last = b.last, !.acked = b.acked]

Join(segs, seg) ==
  IF /\ segs # <<>> /\ seg.acked > 0
     /\ \A i \in DOMAIN segs : segs[i].acked > 0
     /\ Last(segs).last + 1 = seg.first
  THEN Append(Front(segs), Joined(Last(segs), seg))
  ELSE Append(segs, seg)

Collapsed(segs) == FoldLeft(Join, <<>>, segs)

(* ack_in: one more ACK for every segment that starts before it; a round   *)
(* trip time if it ends a segment sent once, after all before it.          *)
LabelAck(n, window) ==
  LET marked == [i \in DOMAIN list |-> IF n > list[i].first THEN [list[i] EXCEPT !.acked = @ + 1]
                                       ELSE list[i]]
      fresh == {i \in DOMAIN list : n > list[i].first /\ list[i].acked = 0}
      normal == \E i \in fresh : /\ n = list[i].last + 1 /\ ~list[i].again
                                 /\ \A j \in 1 .. i : list[j].time <= list[i].time
  IN  /\ events < MaxEvents
      /\ list' = IF fresh = {} THEN marked ELSE Collapsed(marked)
      /\ IF normal THEN Sampled("this") ELSE UNCHANGED <<est, measured>>
      /\ closed' = window
      /\ sight' = [u \in Unit |-> [sight[u] EXCEPT !.covered = @ \/ (Seen(u) /\ n > u)]]
      /\ told' = [told EXCEPT ![n] = @ + 1]
      /\ topAck' = IF topAck # Mixed /\ n >= topAck THEN n ELSE Mixed
      /\ events' = events + 1 /\ verdict' = NoVerdict
      /\ UNCHANGED <<synsSeen, clock, fixedIds>>

(* An ACK of this side gives a round trip time of the other half.          *)
OtherHalfSampled ==
  /\ events < MaxEvents
  /\ Sampled("other")
  /\ verdict' = NoVerdict
  /\ UNCHANGED <<list, synsSeen, closed, clock, events, fixedIds, sight, told, topAck>>

ClockTick ==
  /\ clock < MaxClock
  /\ clock' = clock + 1 /\ verdict' = NoVerdict
  /\ UNCHANGED <<list, est, measured, synsSeen, closed, events, fixedIds, sight, told, topAck>>

AnomaliesNext ==
  \/ \E u \in Unit, id \in 0 .. MaxEvents : LabelData(u, id)
  \/ \E n \in 1 .. Units, window \in BOOLEAN : LabelAck(n, window)
  \/ OtherHalfSampled
  \/ ClockTick

------------------------------
(* No stream is labelled: the instance is one of the other part.           *)
AnomaliesNone ==
  /\ list = <<>> /\ measured = {} /\ est = [valid |-> FALSE, mean |-> 0, rto |-> 0, rtt |-> 0]
  /\ synsSeen = FALSE /\ closed = FALSE /\ clock = MaxClock /\ events = MaxEvents
  /\ verdict = NoVerdict /\ fixedIds = FALSE
  /\ sight = [u \in Unit |-> [ids |-> {}, firstId |-> 0, last |-> NoTime, covered |-> FALSE]]
  /\ told = [n \in 1 .. Units |-> 0] /\ topAck = 0

(* What a label of a data packet says, with "sight" as it was before.      *)
Given == verdict' # NoVerdict
Subject == verdict'.unit
What == verdict'.type.what
Own == Given /\ ~verdict'.type.batch

Lower == {v \in Unit : v < Subject /\ Seen(v)}
Higher == {v \in Unit : v > Subject /\ Seen(v)}
AcksAfter(v) == FoldFunctionOnSet(+, 0, told, (v + 1) .. Units)

(* Only what comes after everything seen is in sequence.                   *)
InSequenceTrue == Given => ((What = "IN_SEQUENCE") <=> (~Seen(Subject) /\ Higher = {}))

(* A retransmission is unnecessary if an ACK had covered the packet.       *)
NeedTrue ==
  Own => /\ What \in {"RTO", "FR"} => ~sight[Subject].covered
         /\ What \in {"UNNECESSARY_RTO", "UNNECESSARY_FR"} =>
              IF Seen(Subject) THEN sight[Subject].covered ELSE AcksAfter(Subject) > 0

(* A timeout: the packet, or the nearest one if it was never seen, was     *)
(* last seen longer ago than the estimated timeout.                        *)
NearestSeen ==
  IF Seen(Subject) THEN Subject
  ELSE IF Lower # {} THEN CHOOSE v \in Lower : \A x \in Lower : x <= v
  ELSE CHOOSE v \in Higher : \A x \in Higher : v <= x

TimeoutTrue ==
  Own /\ What \in {"RTO", "UNNECESSARY_RTO"} => clock - sight[NearestSeen].last > RTO

(* A fast retransmit follows more than DupAcks ACKs, if they come in       *)
(* order, all for what comes after the last packet seen before it.         *)
FastTrue ==
  Own /\ topAck # Mixed /\ (What = "FR" \/ (What = "UNNECESSARY_FR" /\ ~Seen(Subject))) =>
    \E v \in Lower : (\A x \in Lower : x <= v) /\ AcksAfter(v) > DupAcks

(* Copies are told from retransmissions by their IP identification, unless *)
(* the sender has but one.                                                 *)
CopyTrue ==
  Own => /\ What = "NETWORK_DUPLICATE" /\ ~fixedIds => verdict'.id \in sight[Subject].ids
         /\ Seen(Subject) /\ ~sight[Subject].covered /\ verdict'.id = sight[Subject].firstId
              => What \in {"NETWORK_DUPLICATE", "FLOW_CONTROL"}

(* A reordered packet was not seen before, and what has overtaken it has   *)
(* not been acknowledged since.                                            *)
ReorderTrue ==
  Own /\ What = "REORDERING" =>
    ~Seen(Subject) /\ \E v \in Higher : (\A x \in Higher : v <= x) /\ ~sight[v].covered

StepTrue == InSequenceTrue /\ NeedTrue /\ TimeoutTrue /\ FastTrue /\ CopyTrue /\ ReorderTrue

(* What rexmit.c counts is what happened, as far as each name says it, and *)
(* but for what is labelled after the packet before it (a batch).          *)
AnomaliesTrue == [][AnomaliesTypeOK /\ StepTrue]_anomalyVars
==============================
