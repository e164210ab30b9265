----------------------------- MODULE MCSeqSpace -----------------------------
(***************************************************************************)
(* What rexmit.c knows of one direction, for TLC: an instance is the       *)
(* sequence space with its quadrants of eight numbers, or one quadrant of  *)
(* whole packets and the labels they get.                                  *)
(***************************************************************************)
EXTENDS SeqSpace, Anomalies

(* Packets of even position and length: new ones, copies, copies that have *)
(* been repacketised, late ones, one across the end of the first quadrant, *)
(* and two that are so far ahead that an old quadrant is freed.            *)
Traffic == {<<0, 2>>, <<2, 2>>, <<4, 2>>, <<2, 4>>, <<4, 6>>, <<8, 2>>, <<18, 2>>, <<24, 4>>}

(* A short and a long round trip; the bounds of the RTO and the RTT apply  *)
(* to the first.                                                           *)
Trips == {[mean |-> 1, rto |-> 1, rtt |-> 0], [mean |-> 2, rto |-> 3, rtt |-> 2]}

(* No packet is left to record: the instance is one of the other part.     *)
SpaceNone ==
  /\ pquad = [q \in Quads |-> NoQuad] /\ pc = "idle"
  /\ piece = [quad |-> 0, first |-> 0, last |-> 0, at |-> 1, split |-> FALSE]
  /\ rest = NoRest /\ todo = <<>> /\ rexlen = 0 /\ order = FALSE /\ sample = NoSample
  /\ now = MaxTime /\ packets = MaxPackets
  /\ tx = [s \in SeqNums |-> 0] /\ sent = [s \in SeqNums |-> 0] /\ dup = 0 /\ late = FALSE

McInit == (Init /\ AnomaliesNone) \/ (SpaceNone /\ AnomaliesInit)
McNext == (Next /\ UNCHANGED anomalyVars) \/ (AnomaliesNext /\ UNCHANGED vars)
McSpec == McInit /\ [][McNext]_<<vars, anomalyVars>>
==============================
