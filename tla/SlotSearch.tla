----------------------------- MODULE SlotSearch -----------------------------
(***************************************************************************)
(* The circular search for a free slot that NewTTP_2 (tcp.c) and NewUTP    *)
(* (udp.c) perform on the arrays ttp[] and utp[].  Both start one past the *)
(* slot used last, walk forward while the slot is taken, and give up after *)
(* LIST_SEARCH_DEPT steps or when the walk is back at its starting point.  *)
(***************************************************************************)
EXTENDS Integers

CONSTANTS
  Pairs,        \* MAX_TCP_PAIRS or MAX_UDP_PAIRS
  SearchDept    \* LIST_SEARCH_DEPT

ASSUME SlotAssumption ==
  /\ Pairs \in Nat \ {0}
  /\ SearchDept \in Nat

Slots == 0 .. Pairs - 1

(* The slot examined at the k-th step of a search that starts after cur.   *)
Probe(cur, k) == (cur + 1 + k) % Pairs

(* The steps the while loop can take: SearchDept of them, or one turn.     *)
MaxStep == IF SearchDept < Pairs - 1 THEN SearchDept ELSE Pairs - 1

(* The slots a search that stopped at cur can have examined.               *)
Behind(cur) == {(cur - k) % Pairs : k \in 0 .. MaxStep}

(* The index num_tcp_pairs is left at: the first free slot of the walk,    *)
(* or the last one examined when all are taken.                            *)
Landing(cur, occ) ==
  LET free == {k \in 0 .. MaxStep : Probe(cur, k) \notin occ}
  IN  IF free = {} THEN Probe(cur, MaxStep)
      ELSE Probe(cur, CHOOSE k \in free : \A j \in free : k <= j)

(* The test after the loop: the slot the walk stopped at is free.          *)
Found(cur, occ) == Landing(cur, occ) \notin occ
==============================
