---------------------------- MODULE MCTcpAnalysis ----------------------------
EXTENDS TcpAnalysis

Both(x, y) == [c2s |-> x, s2c |-> y]
Base == [isn |-> Both(5, 9), syn |-> Both(<<>>, <<>>), cut |-> 0, total |-> Both(3, 0), packets |-> 6,
         lens |-> Both({1, 2}, {}), acks |-> FALSE, pushes |-> {FALSE}, gaps |-> {0}, wins |-> {1},
         again |-> {}, fins |-> {FALSE}, resets |-> FALSE]
Isns == {0, 5, 14}
(* A client that sends three bytes in messages.                            *)
Sending == {[Base EXCEPT !.isn = Both(i, 9), !.pushes = BOOLEAN] : i \in Isns}
(* A server whose SYN may be missed, and whose numbers start again at 0.   *)
Missing == {[Base EXCEPT !.isn = Both(5, i), !.total = Both(0, 3), !.lens = Both({}, {1, 2}),
                         !.pushes = BOOLEAN, !.packets = 5] : i \in {14, 15}}
(* A client with ACKs of anything and a second SYN.                        *)
Acking == {[Base EXCEPT !.acks = TRUE, !.again = {2}]}
(* Both sides end their streams.                                           *)
Ending == {[Base EXCEPT !.isn = Both(i, j), !.total = Both(1, 1), !.lens = Both({1}, {1}),
                        !.acks = TRUE, !.fins = BOOLEAN, !.resets = TRUE, !.packets = 6] :
             <<i, j>> \in {<<5, 0>>, <<13, 5>>}}
Shift == <<WS, 3, 1>>
Scaled == {<<>>, <<<<NOP>>, Shift>>}
Scaling == {[Base EXCEPT !.syn = Both(i, j), !.total = Both(0, 1), !.lens = Both({}, {1}),
                         !.wins = {0, 1, 3}, !.packets = 5] : i, j \in Scaled}
(* SYNs with the options of several systems, cut off anywhere.             *)
Mss == <<MAXSEG, 4, 5, 180>>
Loopback == <<MAXSEG, 4, 255, 215>>
Stamp == <<TS, 10, 0, 0, 0, 1, 0, 0, 0, 0>>
Range1 == <<SACK, 10, 0, 0, 0, 1, 0, 0, 0, 2>>
Syns == {<<Mss, <<SACK_PERM, 2>>, Stamp, <<NOP>>, Shift>>, <<Loopback, Shift, <<EOL>>>>,
         <<Mss, <<NOP>>, <<NOP>>, Range1>>, <<Mss, <<34, 4, 1, 2>>, Loopback>>,
         <<<<EOL>>, Shift, <<NOP>>, <<34, 0>>, Mss>>, <<<<NOP>>, <<11, 6, 0, 0, 0, 1>>, <<NOP>>>>,
         <<Shift, <<NOP>>, <<WS, 3, 0>>, <<NOP>>>>}
Asking == {[Base EXCEPT !.syn = Both(s, <<Mss, <<NOP>>, Shift>>), !.cut = c, !.packets = 3] :
             s \in Syns, c \in 0 .. 8}
Timing == {[Base EXCEPT !.total = Both(1, 1), !.lens = Both({1}, {1}), !.gaps = {0, 1, 3}, !.packets = 5]}
McConfs == Sending \cup Missing \cup Acking \cup Ending \cup Scaling \cup Asking \cup Timing
==============================
