----------------------------- MODULE MCUdpTable -----------------------------
(***************************************************************************)
(* Instances of UdpTable for TLC.                                          *)
(***************************************************************************)
EXTENDS UdpTable

CONSTANTS u1, u2, u3

(* Two flows share a bucket, the third has one of its own.                 *)
TwoBuckets == [f \in Flows \cup {NoFlow} |-> IF f = u3 THEN 2 ELSE 1]
==============================
