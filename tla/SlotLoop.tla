------------------------------ MODULE SlotLoop ------------------------------
(***************************************************************************)
(* The while loop of NewTTP_2 and NewUTP as it is written, one step per    *)
(* iteration, over a table any of whose slots may be taken.  SlotSearch    *)
(* says in closed form what it computes.                                   *)
(***************************************************************************)
EXTENDS SlotSearch

VARIABLES
  occ,    \* slots of ttp[] (utp[]) that are not NULL
  old,    \* old_new_tcp_pairs
  num,    \* num_tcp_pairs
  steps,  \* steps
  pc      \* "loop", then the result: "found" or "null"

vars == <<occ, old, num, steps, pc>>

TypeOK ==
  /\ occ \subseteq Slots
  /\ old \in Slots \cup {-1}
  /\ num \in Slots
  /\ steps \in 0 .. SearchDept
  /\ pc \in {"loop", "found", "null"}

(* num_udp_pairs is -1 until the first search, in an empty table;          *)
(* num_tcp_pairs starts at 0.                                              *)
Init ==
  /\ occ \in SUBSET Slots
  /\ old \in IF occ = {} THEN Slots \cup {-1} ELSE Slots
  /\ num = (old + 1) % Pairs
  /\ steps = 0
  /\ pc = "loop"

GoOn == num # old /\ num \in occ /\ steps < SearchDept

Walk ==
  /\ pc = "loop" /\ GoOn
  /\ steps' = steps + 1
  /\ num' = (num + 1) % Pairs
  /\ UNCHANGED <<occ, old, pc>>

(* The slot reached is given to the new pair, unless it is taken.          *)
Stop ==
  /\ pc = "loop" /\ ~ GoOn
  /\ pc' = IF num \in occ THEN "null" ELSE "found"
  /\ occ' = occ \cup {num}
  /\ UNCHANGED <<old, num, steps>>

Next == Walk \/ Stop

Spec == Init /\ [][Next]_vars

(* The loop ends where the closed form says, and finds a slot exactly when *)
(* the closed form does: the walk of tcp.c:349-365 from any starting point,*)
(* the initial -1 of num_udp_pairs included.                               *)
LoopComputesLanding ==
  pc = "loop" /\ ~ GoOn =>
    num = Landing(old, occ) /\ (num \notin occ <=> Found(old, occ))
==============================
