------------------------------ MODULE MCEngine ------------------------------
(***************************************************************************)
(* Engine with three kinds of runs: two files, each with an output         *)
(* directory or all with one (-c), whose names differ or are the same      *)
(* (-s), and a capture; and with configurations that differ in what the    *)
(* engine distinguishes.                                                   *)
(***************************************************************************)
EXTENDS Engine

File(con_cat, shared) == [con_cat |-> con_cat, live |-> FALSE, shared |-> shared,
                          files |-> 2, minutes |-> 1, edits |-> 1]
Capture(con_cat) == [con_cat |-> con_cat, live |-> TRUE, shared |-> TRUE,
                     files |-> 1, minutes |-> 6, edits |-> 2]
McConfs == {File(c, s) : c, s \in BOOLEAN} \cup {Capture(c) : c \in BOOLEAN}

Config(log, histo, dump, protos, slice) ==
  [log |-> log, histo |-> histo, dump |-> dump, protos |-> protos, slice |-> slice]
McInis == {Config(TRUE, TRUE, TRUE, {IpComplete, FlowDump}, 0),
           Config(TRUE, FALSE, TRUE, {IpComplete}, 1),
           Config(FALSE, TRUE, TRUE, {}, 0),
           Config(TRUE, TRUE, FALSE, {}, 0)}
==============================
