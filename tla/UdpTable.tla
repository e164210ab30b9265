------------------------------ MODULE UdpTable ------------------------------
(***************************************************************************)
(* The table of UDP flows: the array utp[], the hash lists pup_hashtable[] *)
(* and the free list, which share the pointer next of each udp_pair, under *)
(* the packet thread (FindUTP, NewUTP, udp_flow_stat) and the cleaner      *)
(* (the UDP half of trace_done_periodic, close_udp_flow).  With -p the     *)
(* cleaner is a thread; FindUTP walks and reorders the lists without       *)
(* utp_lock_mutex, so each turn of a loop is a step of its own.  Without   *)
(* -p the packet thread runs the cleaner and waits for it.                 *)
(*                                                                         *)
(* Time is counted in units of which UDP_SINGLETON_TIME and UDP_IDLE_TIME  *)
(* are multiples, as the time since last_time.  The handshake that starts  *)
(* the cleaner is FlowClose's, its TCP half TcpTable's.  SlotSearch gives  *)
(* Pairs, MAX_UDP_PAIRS here, and SearchDept, LIST_SEARCH_DEPT.            *)
(***************************************************************************)
EXTENDS SlotSearch, FiniteSets

CONSTANTS
  Flows,           \* the address pairs seen in the traffic
  NoFlow,          \* the address block of a zeroed udp_pair
  Buckets,         \* the indices of pup_hashtable
  HashOf,          \* addr_pair.hash % HASH_TABLE_SIZE
  SingletonTime,   \* UDP_SINGLETON_TIME
  IdleTime,        \* UDP_IDLE_TIME
  Modes,           \* the values of threaded (option -p)
  Apart,           \* assumption on the traffic of the threaded engine
  MaxMade,         \* bound on the udp_pairs MallocZ makes
  MaxFlows,        \* bound on f_UDP_count
  Null

Made == 1 .. MaxMade

ASSUME UdpTableAssumption ==
  /\ NoFlow \notin Flows
  /\ HashOf \in [Flows \cup {NoFlow} -> Buckets]
  /\ SingletonTime \in Nat /\ IdleTime \in Nat /\ SingletonTime <= IdleTime
  /\ Modes \subseteq BOOLEAN /\ Apart \in BOOLEAN
  /\ MaxMade \in Nat /\ MaxFlows \in Nat
  /\ Null \notin Made

VARIABLES
  threaded,       \* the engine has a cleaner thread
  utp,            \* utp[]: a udp_pair or Null
  pup_hashtable,  \* pup_hashtable[]: the head of each list
  udp_pair_flist, \* the top of the free list
  next,           \* pup->next
  pair,           \* the other fields: address block, elapsed since last_time, packets
  made,           \* udp_pairs made so far
  num_udp_pairs,  \* the slot used last
  tot_conn_UDP,   \* open flows
  since,          \* elapsed(last_cleaned, current_time)
  pc,             \* packet thread: read, search, new, stamp, or clean while it runs the cleaner
  flow,           \* the packet's address pair, NoFlow without a UDP packet
  pup, pup_last,  \* FindUTP's pointers
  clean,          \* cleaner: wait, scan, lock, unlink, release, free
  final,          \* it is udptrace_done that runs
  ix, victim,     \* its slot and what utp[ix] was when it looked
  puph, puph_prev,
  f_UDP_count,    \* flows counted
  reported,       \* calls of make_udp_conn_stats
  missed          \* flows NewUTP had no room for

heap == <<utp, pup_hashtable, udp_pair_flist, next, pair, made, num_udp_pairs>>
counts == <<tot_conn_UDP, f_UDP_count, reported, missed>>
engine == <<since, pc, flow, pup, pup_last>>
cleaner == <<clean, final, ix, victim, puph, puph_prev>>
vars == <<threaded, heap, counts, engine, cleaner>>

(* last_time is zero: no packet has been stored yet.                       *)
Never == -1
Zeroed == [flow |-> NoFlow, age |-> Never, packets |-> 0]
Link == Made \cup {Null}
Occupied == {s \in Slots : utp[s] # Null}

TypeOK ==
  /\ threaded \in Modes
  /\ utp \in [Slots -> Link] /\ pup_hashtable \in [Buckets -> Link]
  /\ udp_pair_flist \in Link /\ next \in [Made -> Link]
  /\ pair \in [Made -> [flow : Flows \cup {NoFlow}, age : Never .. IdleTime + 1, packets : 0 .. 2]]
  /\ made \in 0 .. MaxMade
  /\ num_udp_pairs \in Slots \cup {-1}
  /\ tot_conn_UDP \in Int
  /\ since \in 0 .. SingletonTime \div 2 + 1
  /\ pc \in {"read", "search", "new", "stamp", "clean"}
  /\ flow \in Flows \cup {NoFlow}
  /\ pup \in Link /\ pup_last \in Link
  /\ clean \in {"wait", "scan", "lock", "unlink", "release", "free"}
  /\ final \in BOOLEAN
  /\ ix \in 0 .. Pairs
  /\ victim \in Link /\ puph \in Link /\ puph_prev \in Link
  /\ f_UDP_count \in 0 .. MaxFlows /\ reported \in Nat /\ missed \in Nat

Init ==
  /\ threaded \in Modes
  /\ utp = [s \in Slots |-> Null] /\ pup_hashtable = [b \in Buckets |-> Null]
  /\ udp_pair_flist = Null /\ next = [p \in Made |-> Null]
  /\ pair = [p \in Made |-> Zeroed] /\ made = 0
  /\ num_udp_pairs = -1 /\ tot_conn_UDP = 0
  /\ since = 0
  /\ pc = "read" /\ flow = NoFlow /\ pup = Null /\ pup_last = Null
  /\ clean = "wait" /\ final = FALSE /\ ix = 0
  /\ victim = Null /\ puph = Null /\ puph_prev = Null
  /\ f_UDP_count = 0 /\ reported = 0 /\ missed = 0

------------------------------
(* The packet thread.                                                      *)
HeadOf(f) == pup_hashtable[HashOf[f]]
Elapsed(p) == IF pair[p].age = Never THEN IdleTime + 1 ELSE pair[p].age

(* What Apart assumes of the traffic when there is a cleaner thread: no    *)
(* two open flows share a bucket, and a flow that has been silent for      *)
(* UDP_IDLE_TIME stays silent until it is closed.                          *)
Harmless(f) ==
  \A p \in Made : pair[p].flow # NoFlow /\ HashOf[pair[p].flow] = HashOf[f] =>
    pair[p].flow = f /\ Elapsed(p) <= IdleTime

(* FindUTP starts at the head of the list of the packet's hash.            *)
Recv(f) ==
  /\ pc = "read"
  /\ f_UDP_count < MaxFlows
  /\ threaded /\ Apart => Harmless(f)
  /\ pc' = "search" /\ flow' = f
  /\ pup' = HeadOf(f) /\ pup_last' = Null
  /\ UNCHANGED <<threaded, heap, counts, since, cleaner>>

SearchOn ==
  /\ pc = "search"
  /\ pup # Null
  /\ pair[pup].flow # flow
  /\ pup_last' = pup /\ pup' = next[pup]
  /\ UNCHANGED <<threaded, heap, counts, since, pc, flow, cleaner>>

(* Mutant: the predecessor still leads to the pair moved to the head.      *)
MoveToHead_NotUnlinked ==
  /\ pup # HeadOf(flow)
  /\ pup_last # Null
  /\ next' = [next EXCEPT ![pup] = HeadOf(flow)]
  /\ pup_hashtable' = [pup_hashtable EXCEPT ![HashOf[flow]] = pup]

(* "move to head of access list (unless already there)".  A pup_last that  *)
(* is NULL here, because the head has just been unlinked, is dereferenced: *)
(* the engine has no further step.                                         *)
MoveToHead ==
  /\ pup # HeadOf(flow)
  /\ pup_last # Null
  /\ next' = [next EXCEPT ![pup_last] = next[pup], ![pup] = HeadOf(flow)]
  /\ pup_hashtable' = [pup_hashtable EXCEPT ![HashOf[flow]] = pup]

Hit ==
  /\ pc = "search"
  /\ pup # Null
  /\ pair[pup].flow = flow
  /\ \/ MoveToHead
     \/ pup = HeadOf(flow) /\ UNCHANGED <<next, pup_hashtable>>
  /\ pc' = "stamp"
  /\ UNCHANGED <<threaded, utp, udp_pair_flist, pair, made, num_udp_pairs, counts, since,
                 flow, pup, pup_last, cleaner>>

(* "we fire it at DOUBLE rate": starting the cleaner waits for the one     *)
(* that runs, and without threads for its end.                             *)
Due == since > SingletonTime \div 2

Fire ==
  /\ clean = "wait"
  /\ clean' = "scan" /\ ix' = 0 /\ final' = FALSE
  /\ since' = 0
  /\ UNCHANGED <<victim, puph, puph_prev>>

Miss ==
  /\ pc = "search"
  /\ pup = Null
  /\ \/ Due /\ Fire /\ pc' = IF threaded THEN "new" ELSE "clean"
     \/ ~Due /\ pc' = "new" /\ UNCHANGED <<since, cleaner>>
  /\ UNCHANGED <<threaded, heap, counts, flow, pup, pup_last>>

(* FindTTP fires the same cleaner for the first SYN of a TCP flow.         *)
RecvFirstSyn ==
  /\ pc = "read"
  /\ Due /\ Fire
  /\ pc' = IF threaded THEN "read" ELSE "clean"
  /\ UNCHANGED <<threaded, heap, counts, flow, pup, pup_last>>

(* utp_lock_mutex is the cleaner's.                                        *)
Closing == clean \in {"unlink", "release", "free"}

(* utp_alloc returns p: from the free list, or made.                       *)
Alloc(p) ==
  \/ /\ udp_pair_flist = Null
     /\ made < MaxMade
     /\ p = made + 1
     /\ made' = p
     /\ UNCHANGED udp_pair_flist
  \/ /\ udp_pair_flist # Null
     /\ p = udp_pair_flist
     /\ udp_pair_flist' = next[p]
     /\ UNCHANGED made

(* NewUTP and the head of the list, under utp_lock_mutex.                  *)
Open ==
  LET s == Landing(num_udp_pairs, Occupied)
  IN  /\ pc = "new"
      /\ ~Closing
      /\ f_UDP_count' = f_UDP_count + 1
      /\ num_udp_pairs' = s
      /\ \/ /\ ~Found(num_udp_pairs, Occupied)
            /\ missed' = missed + 1
            /\ pc' = "read" /\ flow' = NoFlow /\ pup' = Null
            /\ UNCHANGED <<utp, pup_hashtable, udp_pair_flist, next, pair, made, tot_conn_UDP>>
         \/ /\ Found(num_udp_pairs, Occupied)
            /\ \E p \in Made :
                 /\ Alloc(p)
                 /\ utp' = [utp EXCEPT ![s] = p]
                 /\ pair' = [pair EXCEPT ![p].flow = flow]
                 /\ next' = [next EXCEPT ![p] = HeadOf(flow)]
                 /\ pup_hashtable' = [pup_hashtable EXCEPT ![HashOf[flow]] = p]
                 /\ pup' = p
            /\ tot_conn_UDP' = tot_conn_UDP + 1
            /\ pc' = "stamp"
            /\ UNCHANGED <<missed, flow>>
      /\ pup_last' = Null
      /\ UNCHANGED <<threaded, since, reported, cleaner>>

(* udp_flow_stat stores the packet in the pair FindUTP has returned.       *)
(* dup_udp_check can only find a copy of an earlier packet.                *)
Stamp(dup) ==
  /\ pc = "stamp"
  /\ dup => pair[pup].packets > 0
  /\ pair' = [pair EXCEPT ![pup].age = 0,
                          ![pup].packets = IF dup \/ @ = 2 THEN @ ELSE @ + 1]
  /\ pc' = "read" /\ flow' = NoFlow /\ pup' = Null /\ pup_last' = Null
  /\ UNCHANGED <<threaded, utp, pup_hashtable, udp_pair_flist, next, made, num_udp_pairs,
                 counts, since, cleaner>>

(* current_time advances with the packets; more than UDP_IDLE_TIME is all  *)
(* the same.                                                               *)
Tick ==
  /\ pc = "read"
  /\ since' = IF Due THEN since ELSE since + 1
  /\ pair' = [p \in Made |-> IF pair[p].age \in {Never, IdleTime + 1} THEN pair[p]
                             ELSE [pair[p] EXCEPT !.age = @ + 1]]
  /\ UNCHANGED <<threaded, utp, pup_hashtable, udp_pair_flist, next, made, num_udp_pairs,
                 counts, pc, flow, pup, pup_last, cleaner>>

(* ProcessFileCompleted closes all flows, unless there is a cleaner        *)
(* thread: then it leaves them open.                                       *)
EndOfFile ==
  /\ pc = "read" /\ ~threaded
  /\ Occupied # {}
  /\ pc' = "clean"
  /\ clean' = "scan" /\ ix' = 0 /\ final' = TRUE
  /\ UNCHANGED <<threaded, heap, counts, since, flow, pup, pup_last, victim, puph, puph_prev>>

------------------------------
(* The cleaner.                                                            *)
Expired(p) ==
  \/ pair[p].packets = 1 /\ Elapsed(p) > SingletonTime
  \/ Elapsed(p) > IdleTime

(* One turn of the loop over utp[]; udptrace_done closes every flow.       *)
Scan ==
  /\ clean = "scan"
  /\ ix \in Slots
  /\ IF utp[ix] # Null /\ (final \/ Expired(utp[ix]))
     THEN clean' = "lock" /\ victim' = utp[ix] /\ UNCHANGED ix
     ELSE ix' = ix + 1 /\ UNCHANGED <<clean, victim>>
  /\ UNCHANGED <<threaded, heap, counts, engine, final, puph, puph_prev>>

(* Mutant: the time is not looked at again under the lock.                 *)
StillIdle_Unchecked(p) == pair[p].age # Never

(* "someonelse already cleaned this pup"                                   *)
StillIdle(p) == pair[p].age # Never /\ Elapsed(p) > IdleTime

(* close_udp_flow takes utp_lock_mutex, and looks again if it was needed.  *)
Close ==
  /\ clean = "lock"
  /\ IF threaded /\ ~StillIdle(victim)
     THEN /\ clean' = "scan" /\ ix' = ix + 1 /\ victim' = Null
          /\ UNCHANGED <<reported, tot_conn_UDP, puph, puph_prev>>
     ELSE /\ clean' = "unlink"
          /\ reported' = reported + 1
          /\ tot_conn_UDP' = tot_conn_UDP - 1
          /\ puph' = pup_hashtable[HashOf[pair[victim].flow]] /\ puph_prev' = Null
          /\ UNCHANGED <<ix, victim>>
  /\ UNCHANGED <<threaded, heap, f_UDP_count, missed, engine, final>>

(* One turn of its walk down the list; puph_prev is Null in the first.  If *)
(* it ends without the flow, nothing is released.                          *)
UnlinkOn ==
  /\ clean = "unlink"
  /\ IF puph = Null
     THEN clean' = "free" /\ UNCHANGED <<puph, puph_prev>>
     ELSE /\ pair[puph].flow # pair[victim].flow
          /\ puph_prev' = puph /\ puph' = next[puph]
          /\ UNCHANGED clean
  /\ UNCHANGED <<threaded, heap, counts, engine, final, ix, victim>>

Unlink ==
  /\ clean = "unlink"
  /\ puph # Null /\ pair[puph].flow = pair[victim].flow
  /\ IF puph_prev = Null
     THEN /\ pup_hashtable' = [pup_hashtable EXCEPT ![HashOf[pair[victim].flow]] = next[puph]]
          /\ UNCHANGED next
     ELSE /\ next' = [next EXCEPT ![puph_prev] = next[puph]]
          /\ UNCHANGED pup_hashtable
  /\ clean' = "release"
  /\ UNCHANGED <<threaded, utp, udp_pair_flist, pair, made, num_udp_pairs, counts, engine,
                 final, ix, victim, puph, puph_prev>>

(* Mutant: the pair is put on the free list as it is.                      *)
Release_NotZeroed ==
  /\ clean = "release"
  /\ next' = [next EXCEPT ![puph] = udp_pair_flist]
  /\ udp_pair_flist' = puph
  /\ clean' = "free"
  /\ UNCHANGED <<threaded, utp, pup_hashtable, pair, made, num_udp_pairs, counts, engine, final, ix,
                 victim, puph, puph_prev>>

(* utp_release.                                                            *)
Release ==
  /\ clean = "release"
  /\ pair' = [pair EXCEPT ![puph] = Zeroed]
  /\ next' = [next EXCEPT ![puph] = udp_pair_flist]
  /\ udp_pair_flist' = puph
  /\ clean' = "free"
  /\ UNCHANGED <<threaded, utp, pup_hashtable, made, num_udp_pairs, counts, engine, final, ix,
                 victim, puph, puph_prev>>

(* Mutant: the slot keeps its pointer.                                     *)
FreeSlot_Kept ==
  /\ clean = "free"
  /\ ix' = ix + 1
  /\ clean' = "scan"
  /\ victim' = Null /\ puph' = Null /\ puph_prev' = Null
  /\ UNCHANGED <<threaded, heap, counts, engine, final>>

FreeSlot ==
  /\ clean = "free"
  /\ utp' = [utp EXCEPT ![ix] = Null]
  /\ ix' = ix + 1
  /\ clean' = "scan"
  /\ victim' = Null /\ puph' = Null /\ puph_prev' = Null
  /\ UNCHANGED <<threaded, pup_hashtable, udp_pair_flist, next, pair, made, num_udp_pairs, counts,
                 engine, final>>

(* The loop is over; without threads the packet thread goes on.  The next  *)
(* file begins with tot_conn_UDP = 0.                                      *)
CleanDone ==
  /\ clean = "scan"
  /\ ix = Pairs
  /\ clean' = "wait" /\ ix' = 0 /\ final' = FALSE
  /\ pc' = IF pc # "clean" THEN pc ELSE IF flow = NoFlow THEN "read" ELSE "new"
  /\ tot_conn_UDP' = IF final THEN 0 ELSE tot_conn_UDP
  /\ UNCHANGED <<threaded, heap, f_UDP_count, reported, missed, since, flow, pup, pup_last,
                 victim, puph, puph_prev>>

Cleaner ==
  Scan \/ Close \/ UnlinkOn \/ Unlink \/ Release \/ FreeSlot \/ CleanDone

Handling == SearchOn \/ Hit \/ Miss \/ Open \/ \E dup \in BOOLEAN : Stamp(dup)

Next ==
  \/ \E f \in Flows : Recv(f)
  \/ RecvFirstSyn
  \/ Handling
  \/ Tick
  \/ EndOfFile
  \/ Cleaner

Spec == Init /\ [][Next]_vars

(* Both threads are scheduled; the next packet may never come.             *)
FairSpec == Spec /\ WF_vars(Handling) /\ WF_vars(Cleaner)

------------------------------
(* The first n+1 pairs from p on, following next.                          *)
Chain(p) ==
  LET at[n \in 0 .. MaxMade] ==
        IF n = 0 THEN p ELSE IF at[n - 1] = Null THEN Null ELSE next[at[n - 1]]
  IN  at
On(p) == {Chain(p)[n] : n \in 0 .. MaxMade} \ {Null}
Ends(p) == Chain(p)[MaxMade] = Null

(* The flow being closed has left its list when it is released.            *)
Linked == {utp[s] : s \in Occupied} \ (IF clean \in {"release", "free"} THEN {victim} ELSE {})

(* udp.c:159: "connection records are stored in a hash table.  Buckets are *)
(* linked lists": a list ends, and holds the pairs of utp[] with its hash, *)
(* no two of one flow.  FindUTP finds every open flow.                     *)
Bucketed ==
  /\ \A b \in Buckets :
       /\ Ends(pup_hashtable[b])
       /\ On(pup_hashtable[b]) = {p \in Linked : HashOf[pair[p].flow] = b}
  /\ \A p, r \in Linked : pair[p].flow = pair[r].flow => p = r

(* A pair is in one slot, or zeroed on the free list, and none is lost:    *)
(* what utp_alloc hands out carries nothing of another flow.               *)
NothingLost ==
  /\ \A s, t \in Occupied : utp[s] = utp[t] => s = t
  /\ Ends(udp_pair_flist)
  /\ \A p \in On(udp_pair_flist) : pair[p] = Zeroed
  /\ clean # "release" =>
       1 .. made = On(udp_pair_flist) \cup {utp[s] : s \in Occupied}

(* udp_flow_stat stores a packet in the pair of its own flow, and one that *)
(* is still open: what FindUTP returns is not closed before it is used.    *)
StampsOwn == pc = "stamp" => pair[pup].flow = flow /\ pup \in Linked

(* "Buckets are linked lists sorted by most recent access".                *)
Silence(p) == IF pair[p].age = Never THEN 0 ELSE pair[p].age
SortedByAccess ==
  pc # "stamp" =>
    \A b \in Buckets : \A n \in 1 .. MaxMade :
      LET at == Chain(pup_hashtable[b])
      IN  at[n] # Null => Silence(at[n - 1]) <= Silence(at[n])

(* tot_conn_UDP, which two threads change, counts the pairs of utp[].      *)
Counted == ~Closing => tot_conn_UDP = Cardinality(Occupied)

(* utp[], the hash lists, the free list and the counter fit together.      *)
TableSound == TypeOK /\ Bucketed /\ NothingLost /\ SortedByAccess /\ Counted

(* FindUTP comes to an end for every packet.                               *)
PacketHandled == pc # "read" ~> pc = "read"

(* Seen from outside, the table is a set of open flows, each of which      *)
(* yields one report when it leaves the set.                               *)
openFlows == {pair[utp[s]].flow : s \in IF Closing THEN Occupied \ {ix} ELSE Occupied}
Log == INSTANCE FlowLog WITH Conns <- Flows, open <- openFlows, lines <- reported,
                             refused <- missed
ImplementsFlowLog == Log!Spec
==============================
