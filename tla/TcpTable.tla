------------------------------ MODULE TcpTable ------------------------------
(***************************************************************************)
(* The flow table of the sequential engine: the array ttp[], the hash      *)
(* lists ptp_hashtable[], and what tcp_flow_stat(), trace_done_periodic()  *)
(* and trace_done() do to them.  A packet is the set of flags it carries;  *)
(* everything measured about a flow that does not decide its fate is left  *)
(* out.  Time is counted in units of which TCP_SINGLETON_TIME and          *)
(* TCP_IDLE_TIME are multiples, as the time since the last packet of each  *)
(* flow (elapsed(ptp->last_time, current_time)) and since the last         *)
(* cleaning.  The cleaning is one step per slot; nothing else runs until   *)
(* it is over.                                                             *)
(***************************************************************************)
EXTENDS Integers, FiniteSets, FlowLists

CONSTANTS
  Conns,           \* the address pairs seen in the traffic
  Buckets,         \* the indices of ptp_hashtable
  Located,         \* those with an endpoint in the internal networks
  HashOf,          \* addr_pair.hash % HASH_TABLE_SIZE
  MaxTcpPairs,     \* MAX_TCP_PAIRS
  ListSearchDept,  \* LIST_SEARCH_DEPT
  SingletonTime,   \* TCP_SINGLETON_TIME
  IdleTime,        \* TCP_IDLE_TIME
  Traffic,         \* the flag sets packets may have
  Files,           \* number of input files, read without -c
  ULongMax,        \* the largest unsigned long
  MaxFlows,        \* bound on f_TCP_count
  MaxGap,          \* bound on the time between two cleanings
  Free             \* NULL in ttp[]

Sides == {"C2S", "S2C"}
Flags == {"SYN", "ACK", "FIN", "RST"}

(* What of a tcp_pair decides what becomes of it: last is the time since   *)
(* last_time; syn, fin and closed the sides with syn_count > 0, with       *)
(* fin_count > 0 and with closed set; only_syn is packets == the sum of    *)
(* both syn_counts.                                                        *)
Pair == [conn : Conns, last : Nat, syn : SUBSET Sides, fin : SUBSET Sides,
         closed : SUBSET Sides, only_syn : BOOLEAN]

ASSUME TcpTableAssumption ==
  /\ Located \subseteq Conns
  /\ HashOf \in [Conns -> Buckets]
  /\ MaxTcpPairs \in Nat \ {0}
  /\ ListSearchDept \in Nat
  /\ SingletonTime \in Nat /\ IdleTime \in Nat /\ SingletonTime <= IdleTime
  /\ Traffic \subseteq SUBSET Flags
  /\ Files \in Nat \ {0}
  /\ ULongMax \in Nat /\ MaxTcpPairs <= ULongMax
  /\ MaxFlows \in Nat
  /\ MaxGap \in Nat

ASSUME FreeAssumption == Free \notin Pair

VARIABLES
  ttp,            \* ttp[]: a Pair or Free
  ptp_hashtable,  \* ptp_hashtable[]: the list of each bucket
  num_tcp_pairs,  \* the slot used last
  since,          \* elapsed(last_cleaned, current_time)
  ix,             \* loop index of trace_done_periodic, NotCleaning outside it
  pending,        \* the flow whose first SYN fired the cleaning, or NoFlow
  f_TCP_count,    \* flows a SYN was seen of
  tot_conn_TCP,   \* "current opened TCP flows"
  complete,       \* lines of log_tcp_complete
  nocomplete,     \* lines of log_tcp_nocomplete
  missed,         \* flows NewTTP_2 had no room for
  unfiled,        \* flows "neither incoming nor outgoing", in no log
  file,           \* the input file being read
  over            \* the last file is closed

tables == <<ttp, ptp_hashtable, num_tcp_pairs>>
counts == <<f_TCP_count, tot_conn_TCP, complete, nocomplete, missed, unfiled>>
input == <<file, over>>
vars == <<tables, since, ix, pending, counts, input>>

S == INSTANCE SlotSearch WITH Pairs <- MaxTcpPairs, SearchDept <- ListSearchDept
Slots == S!Slots

NotCleaning == -1
NoFlow == <<>>

Occupied == {s \in Slots : ttp[s] # Free}
Entry == [addr_pair : Conns, ttp_ptr : Slots]
Bucket(c) == ptp_hashtable[HashOf[c]]
Known(c) == Matches(Bucket(c), c) # {}

TypeOK ==
  /\ ttp \in [Slots -> Pair \cup {Free}]
  /\ ptp_hashtable \in [Buckets -> Seq(Entry)]
  /\ num_tcp_pairs \in Slots
  /\ since \in 0 .. MaxGap
  /\ ix \in 0 .. MaxTcpPairs \cup {NotCleaning}
  /\ pending \in (Conns \X Traffic) \cup {NoFlow}
  /\ f_TCP_count \in 0 .. MaxFlows
  /\ tot_conn_TCP \in 0 .. ULongMax
  /\ complete \in Nat /\ nocomplete \in Nat /\ missed \in Nat /\ unfiled \in Nat
  /\ file \in 1 .. Files
  /\ over \in BOOLEAN

Init ==
  /\ ttp = [s \in Slots |-> Free]
  /\ ptp_hashtable = [b \in Buckets |-> <<>>]
  /\ num_tcp_pairs = 0
  /\ since = 0
  /\ ix = NotCleaning
  /\ pending = NoFlow
  /\ f_TCP_count = 0
  /\ tot_conn_TCP = 0
  /\ complete = 0 /\ nocomplete = 0 /\ missed = 0 /\ unfiled = 0
  /\ file = 1
  /\ over = FALSE

------------------------------
(* tot_conn_TCP is an unsigned long: it wraps around at both ends.         *)
Plus(n) == IF n = ULongMax THEN 0 ELSE n + 1

Minus(n, k) == IF k <= n THEN n - k ELSE n + ULongMax + 1 - k

BothSyn(r) == r.syn = Sides

(* Mutant: only complete flows are logged.                                 *)
LogFlow_CompleteOnly(r, isComplete) ==
  /\ complete' = IF isComplete THEN complete + 1 ELSE complete
  /\ UNCHANGED <<nocomplete, unfiled>>

(* make_conn_stats(r, isComplete) for one flow.                            *)
LogFlow(r, isComplete) ==
  \/ /\ r.conn \notin Located
     /\ unfiled' = unfiled + 1
     /\ UNCHANGED <<complete, nocomplete>>
  \/ /\ r.conn \in Located
     /\ complete' = IF isComplete THEN complete + 1 ELSE complete
     /\ nocomplete' = IF isComplete THEN nocomplete ELSE nocomplete + 1
     /\ UNCHANGED unfiled

NoLine == UNCHANGED <<complete, nocomplete, unfiled>>

(* The record of a flow after the fields of a packet that travels in       *)
(* direction dir are stored; acksFin says that th_ack covers the FIN of    *)
(* the other direction.                                                    *)
Opposite(dir) == IF dir = "C2S" THEN "S2C" ELSE "C2S"
AddIf(cond, set, x) == IF cond THEN set \cup {x} ELSE set

(* Mutant: the packet does not refresh last_time.                          *)
Stored_NoRefresh(r, dir, p, acksFin) ==
  [r EXCEPT !.syn = AddIf("SYN" \in p, @, dir),
            !.fin = AddIf("FIN" \in p, @, dir),
            !.closed = AddIf("ACK" \in p /\ acksFin /\ Opposite(dir) \in r.fin, @, Opposite(dir)),
            !.only_syn = @ /\ "SYN" \in p]

Stored(r, dir, p, acksFin) ==
  [r EXCEPT !.last = 0,
            !.syn = AddIf("SYN" \in p, @, dir),
            !.fin = AddIf("FIN" \in p, @, dir),
            !.closed = AddIf("ACK" \in p /\ acksFin /\ Opposite(dir) \in r.fin, @, Opposite(dir)),
            !.only_syn = @ /\ "SYN" \in p]

Fresh(c) == [conn |-> c, last |-> 0, syn |-> {}, fin |-> {}, closed |-> {},
             only_syn |-> TRUE]

(* "if no SYN+ACK has been seen, then this must be an half flow"           *)
HalfDuplex(r, dir, p) == dir = "C2S" /\ "SYN" \notin p /\ "S2C" \notin r.syn

(* ConnComplete.                                                           *)
ConnComplete(r) == r.closed = Sides

------------------------------
(* The first SYN of a flow, once the table may have been cleaned: the rest *)
(* of FindTTP, and of tcp_flow_stat for the flow it returns.               *)
OpenFlow(c, p) ==
  LET s == S!Landing(num_tcp_pairs, Occupied)
      r == Stored(Fresh(c), "C2S", p, FALSE)
  IN  /\ f_TCP_count' = f_TCP_count + 1
      /\ num_tcp_pairs' = s
      /\ \/ /\ ~S!Found(num_tcp_pairs, Occupied)
            /\ missed' = missed + 1
            /\ NoLine
            /\ UNCHANGED <<ttp, ptp_hashtable, tot_conn_TCP>>
         \/ /\ S!Found(num_tcp_pairs, Occupied)
            /\ "RST" \in p
            /\ LogFlow(r, FALSE)
            /\ UNCHANGED <<ttp, ptp_hashtable, tot_conn_TCP, missed>>
         \/ /\ S!Found(num_tcp_pairs, Occupied)
            /\ "RST" \notin p
            /\ ttp' = [ttp EXCEPT ![s] = r]
            /\ ptp_hashtable' = [ptp_hashtable EXCEPT ![HashOf[c]] =
                                   Cons([addr_pair |-> c, ttp_ptr |-> s], @)]
            /\ tot_conn_TCP' = Plus(tot_conn_TCP)
            /\ NoLine
            /\ UNCHANGED missed

Reading == ix = NotCleaning /\ ~over

(* "we fire it at DOUBLE rate"                                             *)
Due == since > SingletonTime \div 2

(* FindTTP, no entry for the address: a packet that is not a pure SYN is   *)
(* trash and changes nothing.  The cleaning comes before the new flow.     *)
RecvFirstSyn(c, p) ==
  /\ Reading
  /\ f_TCP_count < MaxFlows
  /\ ~Known(c)
  /\ "SYN" \in p /\ "ACK" \notin p
  /\ IF Due
     THEN /\ ix' = 0
          /\ pending' = <<c, p>>
          /\ UNCHANGED <<tables, counts>>
     ELSE OpenFlow(c, p) /\ UNCHANGED <<ix, pending>>
  /\ UNCHANGED <<since, input>>

(* FindUTP fires the same cleaning for a datagram of an unknown UDP flow.  *)
RecvFirstDatagram ==
  /\ Reading
  /\ Due
  /\ ix' = 0
  /\ pending' = NoFlow
  /\ UNCHANGED <<tables, since, counts, input>>

------------------------------
(* A packet of a known flow.  FindTTP has moved its entry to the head of   *)
(* the list, so closing the flow drops the head.                           *)
Found(c) == Bucket(c)[FirstMatch(Bucket(c), c)].ttp_ptr
Touched(c) == MoveToHead(Bucket(c), FirstMatch(Bucket(c), c))

(* Mutant: the flow is closed, but still counted as open.                  *)
CloseFlow_NotCounted(c, r, isComplete) ==
  /\ LogFlow(r, isComplete)
  /\ ttp' = [ttp EXCEPT ![Found(c)] = Free]
  /\ ptp_hashtable' = [ptp_hashtable EXCEPT ![HashOf[c]] = Tail(Touched(c))]
  /\ UNCHANGED tot_conn_TCP

CloseFlow(c, r, isComplete) ==
  /\ LogFlow(r, isComplete)
  /\ ttp' = [ttp EXCEPT ![Found(c)] = Free]
  /\ ptp_hashtable' = [ptp_hashtable EXCEPT ![HashOf[c]] = Tail(Touched(c))]
  /\ tot_conn_TCP' = Minus(tot_conn_TCP, 1)

KeepFlow(c, r) ==
  /\ NoLine
  /\ ttp' = [ttp EXCEPT ![Found(c)] = r]
  /\ ptp_hashtable' = [ptp_hashtable EXCEPT ![HashOf[c]] = Touched(c)]
  /\ UNCHANGED tot_conn_TCP

Recv(c, dir, p, acksFin) ==
  LET r == Stored(ttp[Found(c)], dir, p, acksFin)
  IN  /\ Reading
      /\ Known(c)
      /\ \/ /\ HalfDuplex(r, dir, p) \/ "RST" \in p
            /\ CloseFlow(c, r, BothSyn(r))
         \/ /\ ~HalfDuplex(r, dir, p)
            /\ "RST" \notin p
            /\ ConnComplete(r)
            /\ CloseFlow(c, r, TRUE)
         \/ /\ ~HalfDuplex(r, dir, p)
            /\ "RST" \notin p
            /\ ~ConnComplete(r)
            /\ KeepFlow(c, r)
      /\ UNCHANGED <<num_tcp_pairs, since, ix, pending, f_TCP_count, missed, input>>

(* dup_tcp_check: the packet is a copy of the one before; only the list    *)
(* and last_time have been touched by then.                                *)
RecvDuplicate(c) ==
  /\ Reading
  /\ Known(c)
  /\ KeepFlow(c, [ttp[Found(c)] EXCEPT !.last = 0])
  /\ UNCHANGED <<num_tcp_pairs, since, ix, pending, f_TCP_count, missed, input>>

------------------------------
(* trace_done_periodic: a flow only SYNs of one side were seen of, or any  *)
(* flow, that was silent for too long.                                     *)
Singleton(r) == Cardinality(r.syn) = 1 /\ r.only_syn

(* Mutant: singletons are kept as long as any flow.                        *)
Expired_NoSingleton(r) == r.last > IdleTime

Expired(r) == (Singleton(r) /\ r.last > SingletonTime) \/ r.last > IdleTime

CleanSlot ==
  /\ ix \in Slots
  /\ ix' = ix + 1
  /\ IF ttp[ix] # Free /\ Expired(ttp[ix])
     THEN /\ LogFlow(ttp[ix], BothSyn(ttp[ix]))
          /\ ttp' = [ttp EXCEPT ![ix] = Free]
          /\ ptp_hashtable' = [ptp_hashtable EXCEPT ![HashOf[ttp[ix].conn]] =
                                 Unlink(@, ttp[ix].conn)]
          /\ tot_conn_TCP' = Minus(tot_conn_TCP, 1)
     ELSE NoLine /\ UNCHANGED <<ttp, ptp_hashtable, tot_conn_TCP>>
  /\ UNCHANGED <<num_tcp_pairs, since, pending, f_TCP_count, missed, input>>

(* The loop is over: last_cleaned = current_time, and the new flow.        *)
CleanDone ==
  /\ ix = MaxTcpPairs
  /\ ix' = NotCleaning
  /\ since' = 0
  /\ pending' = NoFlow
  /\ IF pending = NoFlow
     THEN UNCHANGED <<tables, counts>>
     ELSE OpenFlow(pending[1], pending[2])
  /\ UNCHANGED input

------------------------------
(* current_time advances with the packets.                                 *)
Tick ==
  /\ Reading
  /\ since < MaxGap
  /\ since' = since + 1
  /\ ttp' = [s \in Slots |-> IF ttp[s] = Free THEN Free
                             ELSE [ttp[s] EXCEPT !.last = @ + 1]]
  /\ UNCHANGED <<ptp_hashtable, num_tcp_pairs, ix, pending, counts, input>>

(* trace_done: "do not consider this flow for the stats".  The flows stay  *)
(* in the table.                                                           *)
TraceDone ==
  LET filed == {s \in Occupied : ttp[s].conn \in Located}
  IN  /\ nocomplete' = nocomplete + Cardinality(filed)
      /\ unfiled' = unfiled + Cardinality(Occupied \ filed)
      /\ UNCHANGED complete

(* ProcessFileCompleted, then InitAfterFirstPacketReaded for the next file *)
(* if there is one.                                                        *)
EndOfFile ==
  /\ Reading
  /\ TraceDone
  /\ IF file < Files
     THEN file' = file + 1 /\ tot_conn_TCP' = 0 /\ UNCHANGED over
     ELSE over' = TRUE /\ tot_conn_TCP' = Minus(tot_conn_TCP, Cardinality(Occupied))
                       /\ UNCHANGED file
  /\ UNCHANGED <<tables, since, ix, pending, f_TCP_count, missed>>

Next ==
  \/ \E c \in Conns, p \in Traffic : RecvFirstSyn(c, p)
  \/ RecvFirstDatagram
  \/ \E c \in Conns, dir \in Sides, p \in Traffic, acksFin \in BOOLEAN :
       Recv(c, dir, p, acksFin)
  \/ \E c \in Conns : RecvDuplicate(c)
  \/ CleanSlot
  \/ CleanDone
  \/ Tick
  \/ EndOfFile

Spec == Init /\ [][Next]_vars

------------------------------
(* FindTTP reaches every tracked flow, under its own address, and nothing  *)
(* else: each entry of a list leads to a slot in use that holds the flow   *)
(* of the entry's address, each slot in use has an entry in the list of    *)
(* its hash, and no list has two entries for one address.  A free or       *)
(* unlink that misses its target leaves a dangling or a lost entry.        *)
EntriesLead ==
  \A b \in Buckets : \A i \in DOMAIN ptp_hashtable[b] :
    LET e == ptp_hashtable[b][i]
    IN  HashOf[e.addr_pair] = b /\ ttp[e.ttp_ptr] # Free /\ ttp[e.ttp_ptr].conn = e.addr_pair
SlotsReached ==
  \A s \in Occupied : \E i \in DOMAIN Bucket(ttp[s].conn) :
    Bucket(ttp[s].conn)[i] = [addr_pair |-> ttp[s].conn, ttp_ptr |-> s]
EntriesDistinct ==
  \A b \in Buckets : \A i, j \in DOMAIN ptp_hashtable[b] :
    ptp_hashtable[b][i].addr_pair = ptp_hashtable[b][j].addr_pair => i = j
ListsMatchTable == EntriesLead /\ SlotsReached /\ EntriesDistinct

(* tcp.c, above ptp_hashtable: "Buckets are linked lists sorted by most    *)
(* recent access": along a list the flows have been silent for longer and  *)
(* longer, whatever was moved, inserted and unlinked in between.           *)
SortedByAccess ==
  \A b \in Buckets : \A i, j \in DOMAIN ptp_hashtable[b] :
    i < j => ttp[ptp_hashtable[b][i].ttp_ptr].last <= ttp[ptp_hashtable[b][j].ttp_ptr].last

(* ttp[] and the hash lists agree, and every list is in order.             *)
TableSound == TypeOK /\ ListsMatchTable /\ SortedByAccess

(* No flow outlives its limit by more than the time since the last         *)
(* cleaning: the cleaning misses none, and no flow becomes a singleton     *)
(* when it has already been silent for long.                               *)
StaleBound ==
  \A s \in Occupied : /\ ttp[s].last <= IdleTime + since
                      /\ Singleton(ttp[s]) => ttp[s].last <= SingletonTime + since

(* Every flow counted in f_TCP_count is tracked, or was refused for lack   *)
(* of room, or was reported to make_conn_stats, and never twice;           *)
(* tot_conn_TCP counts the tracked ones.  For one input file.              *)
Tracked == IF over THEN 0 ELSE Cardinality(Occupied)
Reported == complete + nocomplete + unfiled
Conserved ==
  /\ f_TCP_count = Reported + missed + Tracked
  /\ tot_conn_TCP = Tracked

------------------------------
(* The implementation of FlowLog: the open flows are those FindTTP finds.  *)
openFlows == IF over THEN {} ELSE {c \in Conns : Known(c)}
Log == INSTANCE FlowLog WITH open <- openFlows, lines <- Reported,
                             refused <- missed

(* Seen from outside, the table is a set of open flows, each of which      *)
(* yields one report when it leaves the set.  For one input file.          *)
ImplementsFlowLog == Log!Spec
==============================
