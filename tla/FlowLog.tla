------------------------------- MODULE FlowLog -------------------------------
(***************************************************************************)
(* What the TCP flow table promises: at any time a set of flows is open; a *)
(* flow enters the set with its first SYN, or is refused, and leaves it    *)
(* with exactly one report to make_conn_stats().                           *)
(***************************************************************************)
EXTENDS Naturals, FiniteSets

CONSTANT Conns   \* the address pairs

VARIABLES
  open,      \* the flows being tracked
  lines,     \* the reports made
  refused    \* the flows there was no room for

vars == <<open, lines, refused>>

Init == open = {} /\ lines = 0 /\ refused = 0

Open(c) == c \notin open /\ open' = open \cup {c} /\ UNCHANGED <<lines, refused>>

Refuse == refused' = refused + 1 /\ UNCHANGED <<open, lines>>

(* Opened and closed by one packet.                                        *)
Flash == lines' = lines + 1 /\ UNCHANGED <<open, refused>>

Close(c) == c \in open /\ open' = open \ {c} /\ lines' = lines + 1 /\ UNCHANGED refused

(* The end of the trace closes all that is open.                           *)
End == open' = {} /\ lines' = lines + Cardinality(open) /\ UNCHANGED refused

Next == (\E c \in Conns : Open(c) \/ Close(c)) \/ Refuse \/ Flash \/ End

Spec == Init /\ [][Next]_vars
==============================
