------------------------------ MODULE FlowLists ------------------------------
(***************************************************************************)
(* The bucket lists of ptp_hashtable[] (tcp.c) and pup_hashtable[] (udp.c) *)
(* as sequences, head first.  An entry stands for a ptp_snap, or for a     *)
(* udp_pair, which is its own list node: addr_pair is the address block    *)
(* SameConn() compares and ttp_ptr the slot of the array it leads to.      *)
(***************************************************************************)
EXTENDS SequencesExt

(* The entries whose address block is c.                                   *)
Matches(list, c) == {i \in DOMAIN list : list[i].addr_pair = c}

(* The one the for loop stops at: the first.                               *)
FirstMatch(list, c) ==
  CHOOSE i \in Matches(list, c) : \A j \in Matches(list, c) : i <= j

(* "move to head of access list (unless already there)"                    *)
MoveToHead(list, i) == Cons(list[i], RemoveAt(list, i))

(* The cleaner's unlinking of the first entry whose address block is c.    *)
Unlink(list, c) ==
  IF Matches(list, c) = {} THEN list ELSE RemoveAt(list, FirstMatch(list, c))
==============================
