----------------------------- MODULE MCTcpTable -----------------------------
(***************************************************************************)
(* Instances of TcpTable for TLC.                                          *)
(***************************************************************************)
EXTENDS TcpTable

CONSTANTS c1, c2, c3

(* Two flows share a bucket, the third has one of its own.                 *)
TwoBuckets == [c \in Conns |-> IF c = c3 THEN 2 ELSE 1]

(* The flag sets of a conversation.                                     *)
Usual == {{"SYN"}, {"SYN", "ACK"}, {"ACK"}, {"FIN", "ACK"}, {"RST"}, {"SYN", "RST"}}

Symmetry == Permutations({c1, c2})
==============================
