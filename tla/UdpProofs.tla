----------------------------- MODULE UdpProofs ------------------------------
(***************************************************************************)
(* The agreement of utp[] with the hash lists and the free list, their     *)
(* order, the counter of open flows and the pair a packet is stored in,    *)
(* for any number of flows, buckets, slots and udp_pairs and any timeouts, *)
(* without threads, and with the cleaner thread under the assumption Apart *)
(* on the traffic.                                                         *)
(* Then the classification of a UDP flow, for any payloads, number of      *)
(* packets and thresholds: what the types of its directions rest on, what  *)
(* each count of a flow stands for, and that the analysers never end the   *)
(* program.                                                                *)
(***************************************************************************)
EXTENDS UdpTable, UdpClass, FiniteSetTheorems, TLAPS

\* The variables of SlotLoop play no part in what is used here.
SP == INSTANCE SlotSearchProofs WITH occ <- {}, old <- 0, num <- 0, steps <- 0, pc <- "loop"

\* The slot the search of NewUTP stops at is a slot of utp[].
LEMMA LandingType ==
  ASSUME NEW cur \in Slots \cup {-1}, NEW taken
  PROVE  Landing(cur, taken) \in Slots
<1>1. SP!SlotAssumption BY SlotAssumption DEF SP!SlotAssumption
<1>2. SP!Landing(cur, taken) \in SP!Slots BY <1>1, SP!LandingType DEF Slots, SP!Slots
<1> QED BY <1>2 DEF Slots, SP!Slots, Landing, SP!Landing, MaxStep, SP!MaxStep, Probe, SP!Probe

\* A set of naturals that is not empty has a least member.
LEMMA Least ==
  ASSUME NEW X \in SUBSET Nat, X # {}
  PROVE  \E i \in X : \A j \in X : i <= j
<1>1. SP!SlotAssumption BY SlotAssumption DEF SP!SlotAssumption
<1> QED BY <1>1, SP!Least

------------------------------
\* A linked list, whatever its length: the pairs of S in the order of the
\* numbers pos gives them, head the first of them, each next the one after
\* it.  Nothing is said of the pointers of other pairs.
IsLast(pos, S, p) == \A r \in S : pos[r] <= pos[p]

Adjacent(pos, S, p, q) ==
  q \in S /\ pos[p] < pos[q] /\ \A r \in S : pos[r] <= pos[p] \/ pos[q] <= pos[r]

IsHead(pos, h, S) ==
  IF h = Null THEN S = {} ELSE h \in S /\ \A r \in S : pos[h] <= pos[r]

IsList(pos, nx, h, S) ==
  /\ \A p, r \in S : pos[p] = pos[r] => p = r
  /\ IsHead(pos, h, S)
  /\ \A p \in S : IF nx[p] = Null THEN IsLast(pos, S, p)
                  ELSE Adjacent(pos, S, p, nx[p])

------------------------------
\* The pairs of the table, those released and not yet out of utp[], those
\* in use, those of the free list, and those of a hash list.
Held == {utp[s] : s \in Occupied}
Released == IF clean = "free" THEN {victim} ELSE {}
Live == Held \ Released
FreePairs == ((1 .. made) \ Held) \cup Released
Bucket(b) == {p \in Linked : HashOf[pair[p].flow] = b}

\* Each pair made is in one slot or on the free list; a pair not in use is
\* zeroed, the others are of different flows.
Owned ==
  /\ \A s \in Occupied : utp[s] \in 1 .. made
  /\ \A s, t \in Occupied : utp[s] = utp[t] => s = t
  /\ \A p \in Made \ Live : pair[p] = Zeroed
  /\ \A p \in Live : pair[p].flow \in Flows
  /\ \A p, r \in Live : pair[p].flow = pair[r].flow => p = r

\* One numbering puts the hash lists and the free list in order.
InOrder(pos) ==
  /\ \A b \in Buckets : IsList(pos, next, pup_hashtable[b], Bucket(b))
  /\ IsList(pos, next, udp_pair_flist, FreePairs)

\* A list is sorted by the time of the last packet, but for the pair that
\* FindUTP has just moved to its head and udp_flow_stat is to stamp.
Stamping(p) == pc = "stamp" /\ p = pup

Sorted(pos) ==
  /\ \A p, q \in Linked :
       /\ HashOf[pair[p].flow] = HashOf[pair[q].flow]
       /\ pos[p] < pos[q]
       /\ ~Stamping(p)
       => Silence(p) <= Silence(q)
  /\ \A p \in Linked : pair[p].age = Never => Stamping(p)

\* Where FindUTP is: the pairs before pup are of other flows.
Passed(pos, r) == pup = Null \/ pos[r] < pos[pup]

Searching(pos) ==
  /\ IF pup_last = Null THEN pup = HeadOf(flow)
     ELSE pup_last \in Bucket(HashOf[flow]) /\ next[pup_last] = pup
  /\ \A r \in Bucket(HashOf[flow]) : Passed(pos, r) => pair[r].flow # flow

\* Where the cleaner is: its walk has not passed the victim.
Walking(pos) ==
  LET b == HashOf[pair[victim].flow]
  IN  /\ puph \in Bucket(b) /\ pos[puph] <= pos[victim]
      /\ IF puph_prev = Null THEN puph = pup_hashtable[b]
         ELSE puph_prev \in Bucket(b) /\ next[puph_prev] = puph

Fits(pos) ==
  /\ InOrder(pos)
  /\ Sorted(pos)
  /\ pc = "search" => Searching(pos)
  /\ clean = "unlink" => Walking(pos)

\* What the two threads know of the table.
Unknown(f) == \A p \in Linked : pair[p].flow # f

Matched == pup \in Linked /\ pair[pup].flow = flow /\ pup = HeadOf(flow)

Received ==
  /\ pc = "read" => flow = NoFlow
  /\ pc \in {"search", "new", "stamp"} => flow \in Flows
  /\ pc \in {"new", "clean"} /\ flow # NoFlow => Unknown(flow)
  /\ pc = "stamp" => Matched
  /\ flow # NoFlow /\ pc # "stamp" => f_UDP_count < MaxFlows

Cleaning ==
  /\ clean = "wait" => ix = 0 /\ ~final
  /\ clean \in {"lock", "unlink", "release", "free"} =>
       ix \in Occupied /\ victim = utp[ix]
  /\ clean = "release" => puph = victim
  /\ pc = "clean" <=> ~threaded /\ clean # "wait"
  /\ final => ~threaded /\ \A s \in Occupied : ix <= s

\* With a cleaner thread, what Apart says of the packet in the engine
\* keeps the two threads in different lists.
KeptApart ==
  threaded =>
    /\ pc \in {"search", "new", "stamp"} =>
         \A p \in Live : HashOf[pair[p].flow] = HashOf[flow] =>
           pair[p].flow = flow /\ Silence(p) <= IdleTime
    /\ clean \in {"unlink", "release"} => pair[victim].age > IdleTime

\* A flow being closed is out of the counter and not yet out of utp[].
CountedSoFar == tot_conn_UDP = Cardinality(Occupied) - (IF Closing THEN 1 ELSE 0)

\* The inductive invariant.
Core == TypeOK /\ Owned /\ Received /\ Cleaning /\ KeptApart /\ CountedSoFar

IInv == Core /\ \E pos \in [Made -> Int] : Fits(pos)

------------------------------
\* What is done to a linked list, pointer by pointer.
LEMMA Disjoint ==
  ASSUME NEW pos \in [Made -> Int], NEW S \in SUBSET Made, NEW h,
         NEW nx, IsList(pos, nx, h, S),
         NEW pos2, NEW nx2,
         \A p \in S : pos2[p] = pos[p] /\ nx2[p] = nx[p]
  PROVE  IsList(pos2, nx2, h, S)
BY Zenon DEF IsList, IsHead, IsLast, Adjacent

\* A pair is put at the head.
Before(pos, h) == IF h = Null THEN 0 ELSE pos[h] - 1
Ahead(pos, p, h) == [pos EXCEPT ![p] = Before(pos, h)]

LEMMA Push ==
  ASSUME NEW pos \in [Made -> Int], NEW S \in SUBSET Made, NEW h,
         NEW nx \in [Made -> Link], IsList(pos, nx, h, S),
         NEW p \in Made, p \notin S
  PROVE  /\ Ahead(pos, p, h) \in [Made -> Int]
         /\ IsList(Ahead(pos, p, h), [nx EXCEPT ![p] = h], p, S \cup {p})
         /\ \A r \in S : Ahead(pos, p, h)[p] < Ahead(pos, p, h)[r]
<1> DEFINE pos2 == Ahead(pos, p, h)
           nx2 == [nx EXCEPT ![p] = h]
           T == S \cup {p}
<1>1. Null \notin Made BY UdpTableAssumption
<1>2. h # Null => h \in S /\ \A r \in S : pos[h] <= pos[r] BY DEF IsList, IsHead
<1>3. h = Null => S = {} BY DEF IsList, IsHead
<1>4. Before(pos, h) \in Int BY <1>2 DEF Before
<1>5. pos2 \in [Made -> Int] /\ pos2[p] = Before(pos, h) /\ \A r \in S : pos2[r] = pos[r] BY <1>4 DEF Ahead
<1>6. nx2[p] = h /\ \A r \in S : nx2[r] = nx[r] OBVIOUS
<1>7. ASSUME NEW r \in S
      PROVE  pos2[p] < pos2[r]
  BY <1>2, <1>3, <1>5 DEF Before
<1> HIDE DEF pos2, nx2
<1>8. \A q, r \in T : pos2[q] = pos2[r] => q = r
  <2>1. \A q, r \in S : pos2[q] = pos2[r] => q = r BY <1>5 DEF IsList
  <2>2. \A r \in S : pos2[r] \in Int /\ pos2[p] \in Int /\ pos2[p] # pos2[r] BY <1>5, <1>7
  <2> QED BY <2>1, <2>2
<1>9. IsHead(pos2, p, T)
  <2>1. \A r \in T : pos2[p] <= pos2[r] BY <1>5, <1>7
  <2> QED BY <1>1, <2>1 DEF IsHead
<1>10. ASSUME NEW q \in T
       PROVE  IF nx2[q] = Null THEN IsLast(pos2, T, q) ELSE Adjacent(pos2, T, q, nx2[q])
  <2>1. CASE q = p /\ h = Null BY <1>3, <1>5, <1>6, <2>1 DEF IsLast
  <2>2. CASE q = p /\ h # Null
    <3>1. \A r \in S : pos2[h] <= pos2[r] BY <1>2, <1>5, <2>2
    <3> QED BY <1>2, <1>5, <1>6, <1>7, <2>2, <3>1 DEF Adjacent
  <2>3. CASE q \in S /\ nx[q] = Null
    <3>1. \A r \in S : pos2[r] <= pos2[q] BY <1>5, <2>3 DEF IsList, IsLast
    <3>2. pos2[p] <= pos2[q] BY <1>5, <1>7, <2>3
    <3> QED BY <1>6, <2>3, <3>1, <3>2 DEF IsLast
  <2>4. CASE q \in S /\ nx[q] # Null
    <3>1. Adjacent(pos, S, q, nx[q]) BY <2>4 DEF IsList
    <3>2. Adjacent(pos2, S, q, nx[q]) BY <1>5, <2>4, <3>1 DEF Adjacent
    <3>3. pos2[p] <= pos2[q] BY <1>5, <1>7, <2>4
    <3> QED BY <1>6, <2>4, <3>2, <3>3 DEF Adjacent
  <2> QED BY <2>1, <2>2, <2>3, <2>4
<1> QED BY <1>5, <1>7, <1>8, <1>9, <1>10 DEF IsList, pos2, nx2

\* The head is taken off.
LEMMA Pop ==
  ASSUME NEW pos \in [Made -> Int], NEW S \in SUBSET Made, NEW h,
         NEW nx, IsList(pos, nx, h, S), h # Null
  PROVE  IsList(pos, nx, nx[h], S \ {h})
<1> DEFINE T == S \ {h}
<1>1. h \in S /\ \A r \in S : pos[h] <= pos[r] BY DEF IsList, IsHead
<1>2. \A p, r \in S : pos[p] = pos[r] => p = r BY DEF IsList
<1>3. IsHead(pos, nx[h], T)
  <2>1. CASE nx[h] = Null
    <3>1. \A r \in S : pos[r] <= pos[h] BY <1>1, <2>1 DEF IsList, IsLast
    <3>2. \A r \in S : pos[r] = pos[h] BY <1>1, <3>1
    <3> QED BY <1>1, <1>2, <2>1, <3>2 DEF IsHead
  <2>2. CASE nx[h] # Null
    <3>1. Adjacent(pos, S, h, nx[h]) BY <1>1, <2>2 DEF IsList
    <3>2. nx[h] \in T BY <1>1, <3>1 DEF Adjacent
    <3>3. ASSUME NEW r \in T
          PROVE  pos[nx[h]] <= pos[r]
      <4>1. pos[r] # pos[h] /\ pos[h] <= pos[r] BY <1>1, <1>2
      <4> QED BY <1>1, <3>1, <4>1 DEF Adjacent
    <3> QED BY <2>2, <3>2, <3>3 DEF IsHead
  <2> QED BY <2>1, <2>2
<1>4. ASSUME NEW p \in T
      PROVE  IF nx[p] = Null THEN IsLast(pos, T, p) ELSE Adjacent(pos, T, p, nx[p])
  <2>1. CASE nx[p] = Null BY <2>1 DEF IsList, IsLast
  <2>2. CASE nx[p] # Null
    <3>1. Adjacent(pos, S, p, nx[p]) BY <2>2 DEF IsList
    <3>2. nx[p] # h BY <1>1, <3>1 DEF Adjacent
    <3> QED BY <2>2, <3>1, <3>2 DEF Adjacent
  <2> QED BY <2>1, <2>2
<1> QED BY <1>2, <1>3, <1>4 DEF IsList

\* A pair is taken out behind its predecessor q.
LEMMA Drop ==
  ASSUME NEW pos \in [Made -> Int], NEW S \in SUBSET Made, NEW h,
         NEW nx \in [Made -> Link], IsList(pos, nx, h, S),
         NEW q \in S, NEW p \in Made, nx[q] = p
  PROVE  /\ p \in S /\ p # h
         /\ IsList(pos, [nx EXCEPT ![q] = nx[p]], h, S \ {p})
<1> DEFINE T == S \ {p}
           nx2 == [nx EXCEPT ![q] = nx[p]]
<1>1. p # Null /\ q \in Made BY UdpTableAssumption
<1>2. Adjacent(pos, S, q, p) BY <1>1 DEF IsList
<1>3. p \in S /\ pos[q] < pos[p] /\ p # q BY <1>2 DEF Adjacent
<1>4. h \in S /\ \A r \in S : pos[h] <= pos[r] BY DEF IsList, IsHead
<1>5. p # h BY <1>3, <1>4
<1>6. \A r, t \in S : pos[r] = pos[t] => r = t BY DEF IsList
<1>7. IsHead(pos, h, T) BY <1>4, <1>5 DEF IsHead, IsList
<1>8. nx2[q] = nx[p] /\ \A r \in Made : r # q => nx2[r] = nx[r] BY <1>1
<1> HIDE DEF nx2
<1>9. ASSUME NEW r \in T, r # q
      PROVE  IF nx2[r] = Null THEN IsLast(pos, T, r) ELSE Adjacent(pos, T, r, nx2[r])
  <2>1. nx2[r] = nx[r] BY <1>8, <1>9
  <2>2. CASE nx[r] = Null BY <2>1, <2>2 DEF IsList, IsLast
  <2>3. CASE nx[r] # Null
    <3>1. Adjacent(pos, S, r, nx[r]) BY <2>3 DEF IsList
    <3>2. nx[r] # p
      <4>1. SUFFICES ASSUME nx[r] = p
                     PROVE  FALSE
        OBVIOUS
      <4>2. pos[q] <= pos[r] /\ pos[r] < pos[p] BY <1>3, <3>1, <4>1 DEF Adjacent
      <4>3. pos[r] <= pos[q] \/ pos[p] <= pos[r] BY <1>2 DEF Adjacent
      <4>4. pos[r] = pos[q] BY <4>2, <4>3
      <4> QED BY <1>6, <1>9, <4>4
    <3> QED BY <2>1, <2>3, <3>1, <3>2 DEF Adjacent
  <2> QED BY <2>2, <2>3
<1>10. IF nx2[q] = Null THEN IsLast(pos, T, q) ELSE Adjacent(pos, T, q, nx2[q])
  <2>1. CASE nx[p] = Null
    <3>1. \A r \in S : pos[r] <= pos[p] BY <1>3, <2>1 DEF IsList, IsLast
    <3>2. \A r \in T : pos[r] <= pos[q]
      <4>1. SUFFICES ASSUME NEW r \in T
                     PROVE  pos[r] <= pos[q]
        OBVIOUS
      <4>2. pos[r] <= pos[q] \/ pos[p] <= pos[r] BY <1>2 DEF Adjacent
      <4>3. pos[r] # pos[p] BY <1>3, <1>6
      <4> QED BY <3>1, <4>2, <4>3
    <3> QED BY <1>8, <2>1, <3>2 DEF IsLast
  <2>2. CASE nx[p] # Null
    <3>1. Adjacent(pos, S, p, nx[p]) BY <1>3, <2>2 DEF IsList
    <3>2. nx[p] \in T /\ pos[q] < pos[nx[p]] BY <1>3, <3>1 DEF Adjacent
    <3>3. ASSUME NEW r \in T
          PROVE  pos[r] <= pos[q] \/ pos[nx[p]] <= pos[r]
      <4>1. pos[r] <= pos[q] \/ pos[p] <= pos[r] BY <1>2 DEF Adjacent
      <4>2. pos[r] # pos[p] BY <1>3, <1>6
      <4>3. pos[r] <= pos[p] \/ pos[nx[p]] <= pos[r] BY <3>1 DEF Adjacent
      <4> QED BY <1>3, <4>1, <4>2, <4>3
    <3> QED BY <1>8, <2>2, <3>2, <3>3 DEF Adjacent
  <2> QED BY <2>1, <2>2
<1>11. IsList(pos, nx2, h, T)
  <2>1. \A r, t \in T : pos[r] = pos[t] => r = t BY <1>6
  <2> QED BY <1>7, <1>9, <1>10, <2>1 DEF IsList
<1> QED BY <1>3, <1>5, <1>11 DEF nx2

\* A pair is moved to the head from behind its predecessor q.
ToHead(nx, q, p, h) == [nx EXCEPT ![q] = nx[p], ![p] = h]

LEMMA Advance ==
  ASSUME NEW pos \in [Made -> Int], NEW S \in SUBSET Made, NEW h,
         NEW nx \in [Made -> Link], IsList(pos, nx, h, S),
         NEW q \in S, NEW p \in Made, nx[q] = p
  PROVE  /\ Ahead(pos, p, h) \in [Made -> Int]
         /\ IsList(Ahead(pos, p, h), ToHead(nx, q, p, h), p, S)
         /\ \A r \in S \ {p} : Ahead(pos, p, h)[p] < Ahead(pos, p, h)[r]
<1> DEFINE nx1 == [nx EXCEPT ![q] = nx[p]]
           T == S \ {p}
<1>1. p \in S /\ IsList(pos, nx1, h, T) BY Drop
<1>2. nx1 \in [Made -> Link] OBVIOUS
<1>3. ToHead(nx, q, p, h) = [nx1 EXCEPT ![p] = h] BY DEF ToHead
<1>4. T \cup {p} = S /\ p \notin T /\ T \in SUBSET Made BY <1>1
<1> HIDE DEF nx1, T
<1>5. /\ Ahead(pos, p, h) \in [Made -> Int]
      /\ IsList(Ahead(pos, p, h), [nx1 EXCEPT ![p] = h], p, T \cup {p})
      /\ \A r \in T : Ahead(pos, p, h)[p] < Ahead(pos, p, h)[r]
  BY <1>1, <1>2, <1>4, Push
<1> QED BY <1>1, <1>3, <1>4, <1>5 DEF T

------------------------------
\* Chain follows a list from its head to its end: it is the function its
\* definition describes, comes by every pair in order and stops.
Follows(f, h) ==
  \A n \in 0 .. MaxMade :
    f[n] = IF n = 0 THEN h ELSE IF f[n - 1] = Null THEN Null ELSE next[f[n - 1]]

LEMMA ChainIs ==
  ASSUME NEW h \in Link, next \in [Made -> Link]
  PROVE  Chain(h) \in [0 .. MaxMade -> Link] /\ Follows(Chain(h), h)
<1> DEFINE Upto(f, k) ==
             \A n \in 0 .. k :
               f[n] = IF n = 0 THEN h ELSE IF f[n - 1] = Null THEN Null ELSE next[f[n - 1]]
           Short == {k \in 0 .. MaxMade : ~ \E f \in [0 .. k -> Link] : Upto(f, k)}
<1>1. MaxMade \in Nat /\ Null \notin Made BY UdpTableAssumption
<1>2. Short = {}
  <2>1. SUFFICES ASSUME Short # {}
                 PROVE  FALSE
    OBVIOUS
  <2>2. Short \in SUBSET Nat BY <1>1
  <2>3. PICK k \in Short : \A j \in Short : k <= j BY <2>1, <2>2, Least
  <2>4. CASE k = 0
    <3> DEFINE g == [n \in 0 .. 0 |-> h]
    <3>1. g \in [0 .. 0 -> Link] /\ Upto(g, 0) OBVIOUS
    <3> QED BY <2>4, <3>1
  <2>5. CASE k # 0
    <3>1. k \in Nat /\ k - 1 \in 0 .. MaxMade /\ k - 1 \notin Short BY <1>1, <2>3, <2>5
    <3>2. PICK f \in [0 .. k - 1 -> Link] : Upto(f, k - 1) BY <3>1
    <3> DEFINE g == [n \in 0 .. k |-> IF n < k THEN f[n]
                                      ELSE IF f[k - 1] = Null THEN Null ELSE next[f[k - 1]]]
    <3>3. f[k - 1] \in Link BY <3>1
    <3>4. g \in [0 .. k -> Link] BY <3>1, <3>3 DEF Link
    <3>5. Upto(g, k)
      <4>1. SUFFICES ASSUME NEW n \in 0 .. k
                     PROVE  g[n] = IF n = 0 THEN h
                                   ELSE IF g[n - 1] = Null THEN Null ELSE next[g[n - 1]]
        BY Zenon
      <4>2. CASE n < k BY <3>1, <3>2, <4>2
      <4>3. CASE n = k BY <2>5, <3>1, <4>3
      <4> QED BY <3>1, <4>2, <4>3
    <3> QED BY <2>3, <3>4, <3>5
  <2> QED BY <2>4, <2>5
<1>3. PICK f \in [0 .. MaxMade -> Link] : Upto(f, MaxMade) BY <1>1, <1>2
<1>4. f = [n \in 0 .. MaxMade |->
             IF n = 0 THEN h ELSE IF f[n - 1] = Null THEN Null ELSE next[f[n - 1]]]
  BY <1>3
<1> HIDE DEF Upto, Short
<1> DEFINE e(at) == [n \in 0 .. MaxMade |->
                       IF n = 0 THEN h ELSE IF at[n - 1] = Null THEN Null ELSE next[at[n - 1]]]
<1>5. Chain(h) = CHOOSE at : at = e(at) BY DEF Chain
<1>6. \E at : at = e(at) BY <1>4
<1> HIDE DEF e
<1>7. Chain(h) = e(Chain(h)) BY <1>5, <1>6
<1>8. Follows(Chain(h), h) BY <1>7, Zenon DEF Follows, e
<1> DEFINE Wrong == {n \in 0 .. MaxMade : Chain(h)[n] \notin Link}
<1>9. Wrong = {}
  <2>1. SUFFICES ASSUME Wrong # {}
                 PROVE  FALSE
    OBVIOUS
  <2>2. Wrong \in SUBSET Nat BY <1>1
  <2>3. PICK k \in Wrong : \A j \in Wrong : k <= j BY <2>1, <2>2, Least
  <2>4. k # 0 BY <1>8, <2>3 DEF Follows
  <2>5. k - 1 \in 0 .. MaxMade /\ k - 1 \notin Wrong BY <1>1, <2>3, <2>4
  <2> QED BY <1>8, <2>3, <2>4, <2>5 DEF Follows, Link
<1>10. DOMAIN Chain(h) = 0 .. MaxMade /\ Chain(h) = [n \in 0 .. MaxMade |-> Chain(h)[n]] BY <1>7 DEF e
<1> QED BY <1>8, <1>9, <1>10

\* The pairs it comes by are those of the list, in the order of pos.
LEMMA ChainStep ==
  ASSUME next \in [Made -> Link], NEW pos \in [Made -> Int], NEW S \in SUBSET Made,
         NEW h \in Link, IsList(pos, next, h, S),
         NEW n \in 0 .. MaxMade
  PROVE  /\ Chain(h)[n] \in S \cup {Null}
         /\ n # 0 /\ Chain(h)[n] # Null =>
              /\ Chain(h)[n - 1] \in S
              /\ Adjacent(pos, S, Chain(h)[n - 1], Chain(h)[n])
         /\ n # 0 /\ Chain(h)[n] = Null /\ Chain(h)[n - 1] # Null =>
              /\ Chain(h)[n - 1] \in S
              /\ IsLast(pos, S, Chain(h)[n - 1])
<1> DEFINE at == Chain(h)
           Out == {k \in 0 .. MaxMade : at[k] \notin S \cup {Null}}
<1>1. MaxMade \in Nat /\ Null \notin Made BY UdpTableAssumption
<1>2. at \in [0 .. MaxMade -> Link] /\ Follows(at, h) BY ChainIs
<1> HIDE DEF at
<1>3. \A p \in S : IF next[p] = Null THEN IsLast(pos, S, p) ELSE Adjacent(pos, S, p, next[p]) BY DEF IsList
<1>4. Out = {}
  <2>1. SUFFICES ASSUME Out # {}
                 PROVE  FALSE
    OBVIOUS
  <2>2. Out \in SUBSET Nat BY <1>1
  <2>3. PICK k \in Out : \A j \in Out : k <= j BY <2>1, <2>2, Least
  <2>4. k # 0 BY <1>2, <2>3 DEF Follows, IsList, IsHead
  <2>5. k - 1 \in 0 .. MaxMade /\ k - 1 \notin Out BY <1>1, <2>3, <2>4
  <2>6. at[k] = IF at[k - 1] = Null THEN Null ELSE next[at[k - 1]] BY <1>2, <2>3, <2>4 DEF Follows
  <2>7. at[k - 1] \in S /\ at[k] = next[at[k - 1]] /\ at[k] # Null BY <2>3, <2>5, <2>6
  <2> QED BY <1>3, <2>3, <2>7 DEF Adjacent
<1>5. at[n] \in S \cup {Null} BY <1>4
<1>6. CASE n # 0
  <2>1. n - 1 \in 0 .. MaxMade /\ at[n - 1] \in S \cup {Null} BY <1>1, <1>4, <1>6
  <2>2. at[n] = IF at[n - 1] = Null THEN Null ELSE next[at[n - 1]] BY <1>2, <1>6 DEF Follows
  <2> QED BY <1>3, <1>5, <2>1, <2>2 DEF at
<1> QED BY <1>5, <1>6 DEF at

LEMMA ChainRises ==
  ASSUME next \in [Made -> Link], NEW pos \in [Made -> Int], NEW S \in SUBSET Made,
         NEW h \in Link, IsList(pos, next, h, S),
         NEW m \in 0 .. MaxMade, NEW n \in 0 .. MaxMade, m < n, Chain(h)[n] # Null
  PROVE  /\ Chain(h)[m] \in S /\ Chain(h)[n] \in S
         /\ pos[Chain(h)[m]] < pos[Chain(h)[n]]
<1> DEFINE at == Chain(h)
           Bad == {k \in 0 .. MaxMade : m < k /\ at[k] # Null
                                        /\ ~(at[m] \in S /\ pos[at[m]] < pos[at[k]])}
<1>1. MaxMade \in Nat /\ Null \notin Made BY UdpTableAssumption
<1>2. \A k \in 0 .. MaxMade :
        /\ at[k] \in S \cup {Null}
        /\ k # 0 /\ at[k] # Null => at[k - 1] \in S /\ pos[at[k - 1]] < pos[at[k]]
  BY ChainStep DEF Adjacent
<1> HIDE DEF at
<1>3. Bad = {}
  <2>1. SUFFICES ASSUME Bad # {}
                 PROVE  FALSE
    OBVIOUS
  <2>2. Bad \in SUBSET Nat BY <1>1
  <2>3. PICK k \in Bad : \A j \in Bad : k <= j BY <2>1, <2>2, Least
  <2>4. /\ k \in Nat /\ m \in Nat /\ m < k /\ at[k] # Null
        /\ k - 1 \in 0 .. MaxMade /\ k - 1 \notin Bad
    BY <1>1, <2>3
  <2>5. at[k - 1] \in S /\ at[k] \in S /\ pos[at[k - 1]] < pos[at[k]] /\ at[k - 1] # Null BY <1>1, <1>2, <2>4
  <2>6. CASE k - 1 = m BY <2>3, <2>5, <2>6
  <2>7. CASE m < k - 1
    <3>1. at[m] \in S /\ pos[at[m]] < pos[at[k - 1]] BY <2>4, <2>5, <2>7
    <3>2. pos[at[m]] < pos[at[k]] BY <2>5, <3>1
    <3> QED BY <2>3, <3>1, <3>2
  <2> QED BY <2>4, <2>6, <2>7
<1>4. n \notin Bad BY <1>3
<1>5. at[m] \in S /\ pos[at[m]] < pos[at[n]] BY <1>4 DEF at
<1>6. at[n] \in S BY <1>2 DEF at
<1> QED BY <1>5, <1>6 DEF at

\* A list is not longer than there are pairs, so Chain reaches its end.
LEMMA ListEnds ==
  ASSUME next \in [Made -> Link], NEW pos \in [Made -> Int], NEW S \in SUBSET Made,
         NEW h \in Link, IsList(pos, next, h, S)
  PROVE  Ends(h)
<1> DEFINE at == Chain(h)
<1>1. MaxMade \in Nat /\ Null \notin Made BY UdpTableAssumption
<1> SUFFICES ASSUME at[MaxMade] # Null
             PROVE  FALSE
  BY DEF Ends
<1>2. \A m \in 0 .. MaxMade : at[m] \in Made
  <2>1. MaxMade \in 0 .. MaxMade /\ at[MaxMade] \in S \cup {Null}
    <3>1. MaxMade \in 0 .. MaxMade BY <1>1
    <3> QED BY <3>1, ChainStep
  <2>2. ASSUME NEW m \in 0 .. MaxMade, m # MaxMade
        PROVE  at[m] \in S
    <3>1. m < MaxMade BY <1>1, <2>2
    <3> QED BY <2>1, <3>1, ChainRises
  <2> QED BY <2>1, <2>2
<1>3. ASSUME NEW m \in 0 .. MaxMade, NEW n \in 0 .. MaxMade, m < n
      PROVE  at[m] # at[n]
  <2>1. at[n] # Null BY <1>1, <1>2
  <2>2. pos[at[m]] < pos[at[n]] BY <1>3, <2>1, ChainRises
  <2> QED BY <1>2, <2>2
<1> HIDE DEF at
<1> DEFINE f == [m \in 0 .. MaxMade |-> at[m]]
<1>4. f \in Injection(0 .. MaxMade, Made)
  <2>1. f \in [0 .. MaxMade -> Made] BY <1>2
  <2>2. ASSUME NEW m \in 0 .. MaxMade, NEW n \in 0 .. MaxMade, f[m] = f[n]
        PROVE  m = n
    <3>1. at[m] = at[n] BY <2>2
    <3>2. ~(m < n) /\ ~(n < m) BY <1>3, <3>1
    <3> QED BY <3>2
  <2> HIDE DEF f
  <2> QED BY <2>1, <2>2 DEF Injection, IsInjective
<1>5. IsFiniteSet(Made) /\ Cardinality(Made) = MaxMade BY <1>1, FS_Interval DEF Made
<1>6. Cardinality(0 .. MaxMade) = MaxMade + 1 BY <1>1, FS_Interval
<1>7. Cardinality(0 .. MaxMade) <= Cardinality(Made) BY <1>4, <1>5, FS_Injection
<1> QED BY <1>1, <1>5, <1>6, <1>7

LEMMA ListHolds ==
  ASSUME next \in [Made -> Link], NEW pos \in [Made -> Int], NEW S \in SUBSET Made,
         NEW h \in Link, IsList(pos, next, h, S)
  PROVE  On(h) = S
<1> DEFINE at == Chain(h)
<1>1. MaxMade \in Nat /\ Null \notin Made BY UdpTableAssumption
<1>2. \A n \in 0 .. MaxMade : at[n] \in S \cup {Null} BY ChainStep
<1>3. at[0] = h /\ at[MaxMade] = Null
  <2>1. Follows(at, h) /\ Ends(h) BY ChainIs, ListEnds
  <2>2. at[0] = h BY <1>1, <2>1 DEF Follows
  <2> QED BY <2>1, <2>2 DEF Ends
<1>4. \A n \in 0 .. MaxMade : n # 0 /\ at[n - 1] # Null =>
        /\ at[n - 1] \in S
        /\ IF at[n] = Null THEN IsLast(pos, S, at[n - 1])
           ELSE Adjacent(pos, S, at[n - 1], at[n])
  BY ChainStep
<1>5. IsHead(pos, h, S) /\ \A p, r \in S : pos[p] = pos[r] => p = r BY DEF IsList
<1>6. ASSUME NEW q \in S
      PROVE  \E n \in 0 .. MaxMade : at[n] = q
  <2> HIDE DEF at
  <2> DEFINE Beyond == {n \in 0 .. MaxMade : at[n] = Null \/ pos[q] < pos[at[n]]}
  <2>1. MaxMade \in Beyond /\ Beyond \in SUBSET Nat BY <1>1, <1>3
  <2>2. PICK k \in Beyond : \A j \in Beyond : k <= j BY <2>1, Least
  <2>3. h # Null /\ h \in S /\ pos[h] <= pos[q] BY <1>5 DEF IsHead
  <2>4. k # 0 BY <1>3, <2>2, <2>3
  <2>5. k - 1 \in 0 .. MaxMade /\ k - 1 \notin Beyond BY <1>1, <2>2, <2>4
  <2>6. at[k - 1] # Null /\ ~(pos[q] < pos[at[k - 1]]) BY <2>5
  <2>7. at[k - 1] \in S /\ pos[at[k - 1]] <= pos[q] BY <1>2, <2>5, <2>6
  <2>8. CASE at[k] = Null
    <3>1. pos[q] <= pos[at[k - 1]] BY <1>4, <2>2, <2>4, <2>6, <2>8 DEF IsLast
    <3> QED BY <1>5, <2>5, <2>7, <3>1
  <2>9. CASE at[k] # Null
    <3>1. Adjacent(pos, S, at[k - 1], at[k]) /\ pos[q] < pos[at[k]] BY <1>4, <2>2, <2>4, <2>6, <2>9
    <3>2. pos[q] <= pos[at[k - 1]] BY <3>1 DEF Adjacent
    <3> QED BY <1>5, <2>5, <2>7, <3>2
  <2> QED BY <2>8, <2>9
<1>7. \A q : q \in On(h) <=> q # Null /\ \E n \in 0 .. MaxMade : at[n] = q BY DEF On
<1> HIDE DEF at
<1>8. \A q \in S : q # Null BY <1>1
<1> QED BY <1>2, <1>6, <1>7, <1>8

------------------------------
\* What the lists of the invariant are lists of.
LEMMA HeapTypes ==
  ASSUME TypeOK, Owned, Cleaning
  PROVE  /\ Held \in SUBSET Made /\ Live \in SUBSET Made /\ FreePairs \in SUBSET Made
         /\ Linked \in SUBSET Live
         /\ \A b \in Buckets : Bucket(b) \in SUBSET Made
         /\ clean # "release" => Linked = Live
<1>1. Held \in SUBSET Made BY DEF TypeOK, Held, Occupied, Link
<1>2. clean \in {"release", "free"} => victim \in Held BY DEF Cleaning, Held
<1>3. 1 .. made \in SUBSET Made BY UdpTableAssumption DEF TypeOK, Made
<1>4. Live \in SUBSET Made /\ FreePairs \in SUBSET Made BY <1>1, <1>2, <1>3 DEF Live, Released, FreePairs
<1>5. Linked \in SUBSET Live /\ (clean # "release" => Linked = Live) BY DEF Linked, Live, Released, Held
<1>6. \A b \in Buckets : Bucket(b) \in SUBSET Made BY <1>4, <1>5 DEF Bucket
<1> QED BY <1>1, <1>4, <1>5, <1>6

LEMMA OccupiedFinite == IsFiniteSet(Occupied)
<1>1. IsFiniteSet(Slots) BY SlotAssumption, FS_Interval DEF Slots
<1>2. Occupied \in SUBSET Slots BY DEF Occupied
<1> QED BY <1>1, <1>2, FS_Subset

LEMMA FitsSound ==
  ASSUME IInv
  PROVE  TableSound /\ StampsOwn
<1>1. PICK pos \in [Made -> Int] : Fits(pos) BY DEF IInv
<1>2. /\ TypeOK /\ Owned /\ Received /\ Cleaning /\ CountedSoFar
      /\ InOrder(pos) /\ Sorted(pos)
  BY <1>1 DEF IInv, Core, Fits
<1>3. next \in [Made -> Link] /\ udp_pair_flist \in Link
      /\ \A b \in Buckets : pup_hashtable[b] \in Link
  BY <1>2 DEF TypeOK
<1>4. /\ Held \in SUBSET Made /\ Live \in SUBSET Made /\ FreePairs \in SUBSET Made
      /\ Linked \in SUBSET Live
      /\ \A b \in Buckets : Bucket(b) \in SUBSET Made
  BY <1>2, HeapTypes
<1>5. ASSUME NEW b \in Buckets
      PROVE  /\ Ends(pup_hashtable[b])
             /\ On(pup_hashtable[b]) = {p \in Linked : HashOf[pair[p].flow] = b}
  <2>1. IsList(pos, next, pup_hashtable[b], Bucket(b)) BY <1>2 DEF InOrder
  <2> QED BY <1>3, <1>4, <2>1, ListEnds, ListHolds DEF Bucket
<1>6. Bucketed
  <2>1. \A p, r \in Linked : pair[p].flow = pair[r].flow => p = r BY <1>2, <1>4 DEF Owned
  <2> QED BY <1>5, <2>1 DEF Bucketed
<1>7. Ends(udp_pair_flist) /\ On(udp_pair_flist) = FreePairs
  BY <1>2, <1>3, <1>4, ListEnds, ListHolds DEF InOrder
<1>8. NothingLost
  <2>1. \A p \in FreePairs : pair[p] = Zeroed BY <1>2, <1>4 DEF Owned, FreePairs, Live
  <2>2. 1 .. made = FreePairs \cup Held
    <3>1. Held \in SUBSET (1 .. made) BY <1>2 DEF Owned, Held
    <3>2. Released \in SUBSET Held BY <1>2 DEF Cleaning, Released, Held
    <3> QED BY <3>1, <3>2 DEF FreePairs
  <2>3. \A s, t \in Occupied : utp[s] = utp[t] => s = t BY <1>2 DEF Owned
  <2> QED BY <1>7, <2>1, <2>2, <2>3 DEF NothingLost, Held
<1>9. SortedByAccess
  <2>1. SUFFICES ASSUME pc # "stamp", NEW b \in Buckets, NEW n \in 1 .. MaxMade,
                        Chain(pup_hashtable[b])[n] # Null
                 PROVE  Silence(Chain(pup_hashtable[b])[n - 1])
                          <= Silence(Chain(pup_hashtable[b])[n])
    BY DEF SortedByAccess
  <2> DEFINE p == Chain(pup_hashtable[b])[n - 1]
             q == Chain(pup_hashtable[b])[n]
  <2>2. IsList(pos, next, pup_hashtable[b], Bucket(b)) BY <1>2 DEF InOrder
  <2>3. n \in 0 .. MaxMade /\ n # 0 BY UdpTableAssumption
  <2>4. p \in Bucket(b) /\ q \in Bucket(b) /\ pos[p] < pos[q]
    BY <1>3, <1>4, <2>1, <2>2, <2>3, ChainStep DEF Adjacent
  <2> QED BY <1>2, <2>1, <2>4 DEF Sorted, Bucket, Stamping
<1>10. Counted
  <2>1. Cardinality(Occupied) \in Nat BY OccupiedFinite, FS_CardinalityType
  <2> QED BY <1>2, <2>1 DEF CountedSoFar, Counted
<1>11. StampsOwn BY <1>2 DEF Received, Matched, StampsOwn
<1> QED BY <1>2, <1>6, <1>8, <1>9, <1>10, <1>11 DEF TableSound

------------------------------
\* The steps.  A cleaner thread is only spoken of under Apart, which the
\* code does not ensure: it is an assumption on the traffic.
Separate == Apart \/ TRUE \notin Modes

LEMMA HalfTime == SingletonTime \div 2 \in Nat
BY UdpTableAssumption

\* Steps that leave the table and its lists as they are.
SameTable == UNCHANGED <<utp, pup_hashtable, udp_pair_flist, next, pair, made>>
SameClosing == UNCHANGED <<Linked, Released>>

LEMMA Untouched ==
  ASSUME SameTable, SameClosing
  PROVE  /\ Occupied' = Occupied /\ Held' = Held /\ Live' = Live /\ FreePairs' = FreePairs
         /\ Linked' = Linked
         /\ \A b : Bucket(b)' = Bucket(b)
         /\ \A p \in Made : Silence(p)' = Silence(p)
         /\ \A f \in Flows : HeadOf(f)' = HeadOf(f)
         /\ \A f \in Flows : Unknown(f)' <=> Unknown(f)
<1>1. Occupied' = Occupied BY DEF Occupied, SameTable
<1>2. Held' = Held BY <1>1 DEF Held, SameTable
<1>3. Live' = Live /\ FreePairs' = FreePairs BY <1>2 DEF Live, FreePairs, SameTable, SameClosing
<1>4. \A b : Bucket(b)' = Bucket(b) BY DEF Bucket, SameTable, SameClosing
<1>5. /\ \A p \in Made : Silence(p)' = Silence(p)
      /\ \A f \in Flows : HeadOf(f)' = HeadOf(f)
      /\ \A f \in Flows : Unknown(f)' <=> Unknown(f)
  BY DEF Silence, HeadOf, Unknown, SameTable, SameClosing
<1> QED BY <1>1, <1>2, <1>3, <1>4, <1>5 DEF SameClosing

LEMMA UntouchedOwned ==
  ASSUME SameTable, SameClosing, Owned
  PROVE  Owned'
<1>1. Occupied' = Occupied /\ Live' = Live BY Untouched
<1> QED BY <1>1 DEF Owned, SameTable

LEMMA UntouchedOrder ==
  ASSUME SameTable, SameClosing, NEW pos, InOrder(pos)
  PROVE  InOrder(pos)'
<1>1. FreePairs' = FreePairs /\ \A b : Bucket(b)' = Bucket(b) BY Untouched
<1>2. IsList(pos, next', udp_pair_flist', FreePairs') BY <1>1 DEF InOrder, SameTable
<1>3. \A b \in Buckets : IsList(pos, next', pup_hashtable'[b], Bucket(b)') BY <1>1 DEF InOrder, SameTable
<1> QED BY <1>2, <1>3 DEF InOrder

LEMMA UntouchedSorted ==
  ASSUME SameTable, SameClosing, NEW pos, Sorted(pos),
         \A p \in Linked : Stamping(p) <=> Stamping(p)'
  PROVE  Sorted(pos)'
<1>1. Linked' = Linked /\ pair' = pair BY DEF SameTable, SameClosing
<1>2. \A p : Silence(p)' = Silence(p) BY <1>1 DEF Silence
<1> QED BY <1>1, <1>2 DEF Sorted

LEMMA UntouchedWalk ==
  ASSUME SameTable, SameClosing, UNCHANGED <<victim, puph, puph_prev>>, NEW pos, Walking(pos)
  PROVE  Walking(pos)'
<1>1. \A b : Bucket(b)' = Bucket(b) BY Untouched
<1> QED BY <1>1 DEF Walking, SameTable

\* The counter follows utp[] as long as nothing is opened or closed.
LEMMA UntouchedCount ==
  ASSUME SameTable, UNCHANGED <<tot_conn_UDP, Closing>>, CountedSoFar
  PROVE  CountedSoFar'
<1>1. Occupied' = Occupied BY DEF Occupied, SameTable
<1> QED BY <1>1 DEF CountedSoFar

LEMMA RecvStep ==
  ASSUME Separate, Core, NEW pos \in [Made -> Int], Fits(pos), NEW f \in Flows, Recv(f)
  PROVE  Core' /\ Fits(pos)'
<1>1. /\ TypeOK /\ Owned /\ Received /\ Cleaning /\ KeptApart /\ CountedSoFar
      /\ InOrder(pos) /\ Sorted(pos) /\ (clean = "unlink" => Walking(pos))
  BY DEF Core, Fits
<1>2. SameTable /\ SameClosing /\ UNCHANGED <<tot_conn_UDP, Closing, cleaner, threaded>>
  BY DEF Recv, heap, counts, cleaner, SameTable, SameClosing, Linked, Released, Occupied, Closing
<1>3. HashOf[f] \in Buckets /\ HeadOf(f) \in Link BY <1>1, UdpTableAssumption DEF TypeOK, HeadOf
<1>4. TypeOK' BY <1>1, <1>3 DEF TypeOK, Recv, heap, counts, cleaner, Link
<1>5. Received' BY <1>1 DEF Received, Recv, counts
<1>6. Cleaning' BY <1>1, <1>2, Untouched DEF Cleaning, Recv, cleaner, SameTable
<1>7. KeptApart'
  <2>1. SUFFICES ASSUME threaded
                 PROVE  /\ \A p \in Live : HashOf[pair[p].flow] = HashOf[f] =>
                             pair[p].flow = f /\ Silence(p) <= IdleTime
                        /\ clean \in {"unlink", "release"} => pair[victim].age > IdleTime
    BY <1>2, Untouched DEF KeptApart, Recv, cleaner, SameTable, Silence
  <2>2. Harmless(f) BY <1>1, <2>1 DEF Recv, Separate, TypeOK
  <2>3. ASSUME NEW p \in Live, HashOf[pair[p].flow] = HashOf[f]
        PROVE  pair[p].flow = f /\ Silence(p) <= IdleTime
    <3>1. p \in Made /\ pair[p].flow \in Flows BY <1>1, HeapTypes DEF Owned
    <3>2. pair[p].flow = f /\ Elapsed(p) <= IdleTime BY <2>2, <2>3, <3>1, UdpTableAssumption DEF Harmless
    <3> QED BY <3>2, UdpTableAssumption DEF Elapsed, Silence
  <2> QED BY <1>1, <2>1, <2>3 DEF KeptApart
<1>8. CountedSoFar' BY <1>1, <1>2, UntouchedCount
<1>9. Searching(pos)'
  <2>1. IsHead(pos, HeadOf(f), Bucket(HashOf[f]))
    <3>1. IsList(pos, next, pup_hashtable[HashOf[f]], Bucket(HashOf[f])) BY <1>1, <1>3 DEF InOrder
    <3> QED BY <3>1 DEF IsList, HeadOf
  <2>2. Bucket(HashOf[f])' = Bucket(HashOf[f]) /\ HeadOf(f)' = HeadOf(f) /\ pair' = pair
    BY <1>2, <1>3, Untouched DEF SameTable
  <2>3. pup_last' = Null /\ pup' = HeadOf(f) /\ flow' = f BY Zenon DEF Recv
  <2>4. Bucket(HashOf[f]) \in SUBSET Made BY <1>1, <1>3, HeapTypes
  <2>5. \A r \in Bucket(HashOf[f]) : HeadOf(f) # Null /\ ~(pos[r] < pos[HeadOf(f)]) BY <2>1, <2>4 DEF IsHead
  <2> QED BY <2>2, <2>3, <2>5 DEF Searching, Passed
<1>10. Fits(pos)'
  <2>1. Sorted(pos)'
    <3>1. \A p : Stamping(p)' <=> Stamping(p) BY DEF Recv, Stamping
    <3> QED BY <1>1, <1>2, <3>1, UntouchedSorted
  <2>2. (clean = "unlink" => Walking(pos))' BY <1>1, <1>2, UntouchedWalk DEF cleaner
  <2> QED BY <1>1, <1>2, <1>9, <2>1, <2>2, UntouchedOrder DEF Fits
<1> QED BY <1>1, <1>2, <1>4, <1>5, <1>6, <1>7, <1>8, <1>10, UntouchedOwned DEF Core

LEMMA UntouchedSearch ==
  ASSUME SameTable, SameClosing, UNCHANGED <<flow, pup, pup_last>>, NEW pos, Searching(pos)
  PROVE  Searching(pos)'
<1>1. Bucket(HashOf[flow])' = Bucket(HashOf[flow]) BY Untouched
<1> QED BY <1>1 DEF Searching, Passed, HeadOf, SameTable

LEMMA UntouchedFits ==
  ASSUME SameTable, SameClosing, NEW pos, Fits(pos),
         \A p : Stamping(p)' <=> Stamping(p),
         pc' = "search" => Searching(pos)',
         clean' = "unlink" => Walking(pos)'
  PROVE  Fits(pos)'
BY UntouchedOrder, UntouchedSorted DEF Fits

\* The pair FindUTP looks at is in the list it walks, and it is the head
\* when there is no predecessor.
LEMMA PupInList ==
  ASSUME Core, NEW pos \in [Made -> Int], Fits(pos), pc = "search", pup # Null
  PROVE  /\ flow \in Flows /\ HashOf[flow] \in Buckets
         /\ Bucket(HashOf[flow]) \in SUBSET Made
         /\ IsList(pos, next, HeadOf(flow), Bucket(HashOf[flow]))
         /\ pup \in Bucket(HashOf[flow])
         /\ pup_last = Null <=> pup = HeadOf(flow)
<1>1. flow \in Flows /\ HashOf[flow] \in Buckets BY UdpTableAssumption DEF Core, Received
<1>2. Bucket(HashOf[flow]) \in SUBSET Made BY <1>1, HeapTypes DEF Core
<1>3. IsList(pos, next, HeadOf(flow), Bucket(HashOf[flow])) BY <1>1 DEF Fits, InOrder, HeadOf
<1>4. Searching(pos) BY DEF Fits
<1>5. ASSUME pup_last = Null
      PROVE  pup \in Bucket(HashOf[flow]) /\ pup = HeadOf(flow)
  BY <1>3, <1>4, <1>5 DEF Searching, IsList, IsHead
<1>6. ASSUME pup_last # Null
      PROVE  pup \in Bucket(HashOf[flow]) /\ pup # HeadOf(flow)
  <2>1. pup_last \in Bucket(HashOf[flow]) /\ next[pup_last] = pup BY <1>4, <1>6 DEF Searching
  <2>2. Adjacent(pos, Bucket(HashOf[flow]), pup_last, pup) BY <1>3, <2>1 DEF IsList
  <2>3. pup \in Bucket(HashOf[flow]) /\ pos[pup_last] < pos[pup] BY <2>2 DEF Adjacent
  <2>4. ASSUME pup = HeadOf(flow)
        PROVE  FALSE
    <3>1. pos[pup] <= pos[pup_last] BY <1>3, <2>1, <2>4 DEF IsList, IsHead
    <3> QED BY <1>2, <2>1, <2>3, <3>1
  <2> QED BY <1>6, <2>3, <2>4
<1> QED BY <1>1, <1>2, <1>3, <1>5, <1>6

LEMMA SearchOnStep ==
  ASSUME Separate, Core, NEW pos \in [Made -> Int], Fits(pos), SearchOn
  PROVE  Core' /\ Fits(pos)'
<1>1. /\ TypeOK /\ Owned /\ Received /\ Cleaning /\ KeptApart /\ CountedSoFar
      /\ (clean = "unlink" => Walking(pos)) /\ Searching(pos)
  BY DEF Core, Fits, SearchOn
<1>2. SameTable /\ SameClosing /\ UNCHANGED <<tot_conn_UDP, Closing, cleaner, threaded>>
  BY DEF SearchOn, heap, counts, cleaner, SameTable, SameClosing, Linked, Released, Occupied,
         Closing
<1> DEFINE B == Bucket(HashOf[flow])
<1>3. /\ flow \in Flows /\ B \in SUBSET Made /\ pup \in B
      /\ IsList(pos, next, HeadOf(flow), B)
  BY PupInList DEF SearchOn
<1>4. TypeOK' BY <1>1, <1>3 DEF TypeOK, SearchOn, heap, counts, cleaner, Link
<1>5. Received' BY <1>1 DEF Received, SearchOn, counts
<1>6. Cleaning' BY <1>1, <1>2, Untouched DEF Cleaning, SearchOn, cleaner, SameTable
<1>7. KeptApart' BY <1>1, <1>2, Untouched DEF KeptApart, SearchOn, cleaner, SameTable, Silence
<1>8. CountedSoFar' BY <1>1, <1>2, UntouchedCount
<1>9. Searching(pos)'
  <2>1. B' = B /\ pair' = pair /\ next' = next BY <1>2, Untouched DEF SearchOn, SameTable
  <2>2. pup_last' = pup /\ pup' = next[pup] /\ flow' = flow /\ pup # Null BY DEF SearchOn
  <2>3. ASSUME NEW r \in B, next[pup] = Null \/ pos[r] < pos[next[pup]]
        PROVE  pair[r].flow # flow
    <3>1. CASE pos[r] < pos[pup] BY <1>1, <2>2, <3>1 DEF Searching, Passed
    <3>2. CASE pos[r] = pos[pup]
      <4>1. r = pup BY <1>3, <3>2 DEF IsList
      <4> QED BY <4>1 DEF SearchOn
    <3>3. CASE pos[pup] < pos[r]
      <4>1. CASE next[pup] = Null BY <1>3, <3>3, <4>1 DEF IsList, IsLast
      <4>2. CASE next[pup] # Null
        <5>1. Adjacent(pos, B, pup, next[pup]) BY <1>3, <4>2 DEF IsList
        <5>2. pos[r] <= pos[pup] \/ pos[next[pup]] <= pos[r] BY <5>1 DEF Adjacent
        <5>3. next[pup] \in Made BY <1>3, <5>1 DEF Adjacent
        <5> QED BY <1>3, <2>3, <3>3, <4>2, <5>2, <5>3
      <4> QED BY <4>1, <4>2
    <3> QED BY <1>3, <3>1, <3>2, <3>3
  <2> HIDE DEF B
  <2>4. pup_last' # Null /\ pup_last' \in B /\ next[pup_last'] = pup' BY <1>3, <2>2
  <2> QED BY <2>1, <2>2, <2>3, <2>4 DEF Searching, Passed, B
<1>10. Fits(pos)'
  <2>1. \A p : Stamping(p)' <=> Stamping(p) BY DEF SearchOn, Stamping
  <2>2. clean' = "unlink" => Walking(pos)' BY <1>1, <1>2, UntouchedWalk DEF cleaner
  <2> QED BY <1>2, <1>9, <2>1, <2>2, UntouchedFits
<1> QED BY <1>1, <1>2, <1>4, <1>5, <1>6, <1>7, <1>8, <1>10, UntouchedOwned DEF Core

\* Without the flow in its list there is no pair of it.
LEMMA SearchedAll ==
  ASSUME Core, NEW pos \in [Made -> Int], Fits(pos), pc = "search", pup = Null
  PROVE  Unknown(flow)
<1>1. \A r \in Bucket(HashOf[flow]) : pair[r].flow # flow BY DEF Fits, Searching, Passed
<1> QED BY <1>1 DEF Unknown, Bucket

LEMMA MissStep ==
  ASSUME Separate, Core, NEW pos \in [Made -> Int], Fits(pos), Miss
  PROVE  Core' /\ Fits(pos)'
<1>1. /\ TypeOK /\ Owned /\ Received /\ Cleaning /\ KeptApart /\ CountedSoFar
      /\ (clean = "unlink" => Walking(pos))
  BY DEF Core, Fits
<1>2. /\ pc = "search" /\ flow \in Flows /\ flow # NoFlow
      /\ UNCHANGED <<threaded, heap, counts, flow, pup, pup_last>>
      /\ \/ /\ clean = "wait" /\ clean' = "scan" /\ ix' = 0 /\ final' = FALSE /\ since' = 0
            /\ pc' = IF threaded THEN "new" ELSE "clean"
            /\ UNCHANGED <<victim, puph, puph_prev>>
         \/ pc' = "new" /\ UNCHANGED <<since, cleaner>>
  BY <1>1, UdpTableAssumption DEF Miss, Fire, Received
<1>3. SameTable /\ SameClosing /\ UNCHANGED <<tot_conn_UDP, Closing, victim>>
  BY <1>2 DEF heap, counts, cleaner, SameTable, SameClosing, Linked, Released, Occupied, Closing
<1>4. TypeOK'
  <2>1. ix' \in 0 .. Pairs /\ since' \in 0 .. SingletonTime \div 2 + 1
    BY <1>1, <1>2, HalfTime, SlotAssumption DEF TypeOK, cleaner
  <2> QED BY <1>1, <1>2, <2>1 DEF TypeOK, heap, counts, cleaner
<1>5. Received'
  <2>1. Unknown(flow)' <=> Unknown(flow) BY <1>2, <1>3, Untouched
  <2>2. Unknown(flow)' BY <1>2, <2>1, SearchedAll DEF Miss
  <2>3. Unknown(flow') <=> Unknown(flow) BY <1>2
  <2> QED BY <1>1, <1>2, <2>2 DEF Received, counts, Unknown
<1>6. Cleaning'
  BY <1>1, <1>2, <1>3, Untouched, SlotAssumption DEF Cleaning, cleaner, SameTable, Occupied, Slots
<1>7. KeptApart' BY <1>1, <1>2, <1>3, Untouched DEF KeptApart, cleaner, SameTable, Silence
<1>8. CountedSoFar' BY <1>1, <1>3, UntouchedCount
<1>9. Fits(pos)'
  <2>1. \A p : Stamping(p)' <=> Stamping(p) BY <1>2 DEF Stamping
  <2>2. clean' = "unlink" => Walking(pos)' BY <1>1, <1>2, <1>3, UntouchedWalk DEF cleaner
  <2> QED BY <1>2, <1>3, <2>1, <2>2, UntouchedFits
<1> QED BY <1>1, <1>3, <1>4, <1>5, <1>6, <1>7, <1>8, <1>9, UntouchedOwned DEF Core

LEMMA RecvFirstSynStep ==
  ASSUME Separate, Core, NEW pos \in [Made -> Int], Fits(pos), RecvFirstSyn
  PROVE  Core' /\ Fits(pos)'
<1>1. /\ TypeOK /\ Owned /\ Received /\ Cleaning /\ KeptApart /\ CountedSoFar BY DEF Core
<1>2. /\ pc = "read" /\ clean = "wait" /\ clean' = "scan" /\ ix' = 0 /\ final' = FALSE
      /\ since' = 0 /\ pc' = (IF threaded THEN "read" ELSE "clean")
      /\ UNCHANGED <<threaded, heap, counts, flow, pup, pup_last, victim, puph, puph_prev>>
  BY DEF RecvFirstSyn, Fire
<1>3. SameTable /\ SameClosing /\ UNCHANGED <<tot_conn_UDP, Closing, victim>>
  BY <1>2 DEF heap, counts, SameTable, SameClosing, Linked, Released, Occupied, Closing
<1>4. TypeOK'
  <2>1. ix' \in 0 .. Pairs /\ since' \in 0 .. SingletonTime \div 2 + 1 BY <1>2, HalfTime, SlotAssumption
  <2> QED BY <1>1, <1>2, <2>1 DEF TypeOK, heap, counts
<1>5. Received' BY <1>1, <1>2 DEF Received, counts
<1>6. Cleaning' BY <1>1, <1>2, <1>3, Untouched DEF Cleaning
<1>7. KeptApart' BY <1>2 DEF KeptApart
<1>8. CountedSoFar' BY <1>1, <1>3, UntouchedCount
<1>9. Fits(pos)'
  <2>1. \A p : Stamping(p)' <=> Stamping(p) BY <1>2 DEF Stamping
  <2> QED BY <1>2, <1>3, <2>1, UntouchedFits
<1> QED BY <1>1, <1>3, <1>4, <1>5, <1>6, <1>7, <1>8, <1>9, UntouchedOwned DEF Core

LEMMA EndOfFileStep ==
  ASSUME Separate, Core, NEW pos \in [Made -> Int], Fits(pos), EndOfFile
  PROVE  Core' /\ Fits(pos)'
<1>1. /\ TypeOK /\ Owned /\ Received /\ Cleaning /\ KeptApart /\ CountedSoFar BY DEF Core
<1>2. /\ pc = "read" /\ ~threaded /\ clean' = "scan" /\ ix' = 0 /\ final' = TRUE
      /\ pc' = "clean"
      /\ UNCHANGED <<threaded, heap, counts, since, flow, pup, pup_last, victim, puph, puph_prev>>
  BY DEF EndOfFile
<1>3. clean = "wait" BY <1>1, <1>2 DEF Cleaning
<1>4. SameTable /\ SameClosing /\ UNCHANGED <<tot_conn_UDP, Closing, victim>>
  BY <1>2, <1>3 DEF heap, counts, SameTable, SameClosing, Linked, Released, Occupied, Closing
<1>5. TypeOK'
  <2>1. ix' \in 0 .. Pairs BY <1>2, SlotAssumption
  <2> QED BY <1>1, <1>2, <2>1 DEF TypeOK, heap, counts
<1>6. Received' BY <1>1, <1>2 DEF Received, counts
<1>7. Cleaning'
  <2>1. \A s \in Occupied' : ix' <= s BY <1>2, SlotAssumption DEF Occupied, Slots
  <2> QED BY <1>2, <2>1 DEF Cleaning
<1>8. KeptApart' BY <1>2 DEF KeptApart
<1>9. CountedSoFar' BY <1>1, <1>4, UntouchedCount
<1>10. Fits(pos)'
  <2>1. \A p : Stamping(p)' <=> Stamping(p) BY <1>2 DEF Stamping
  <2> QED BY <1>2, <1>4, <2>1, UntouchedFits
<1> QED BY <1>1, <1>4, <1>5, <1>6, <1>7, <1>8, <1>9, <1>10, UntouchedOwned DEF Core

------------------------------
\* The cleaner's steps leave the packet thread where it is.
LEMMA CleanerPacket ==
  ASSUME SameTable, SameClosing, UNCHANGED <<engine, f_UDP_count>>, Received, TypeOK
  PROVE  Received'
<1>1. /\ UNCHANGED <<pc, flow, pup, pup_last>> /\ Linked' = Linked /\ pair' = pair
      /\ pup_hashtable' = pup_hashtable
  BY DEF engine, SameTable, SameClosing
<1> QED BY <1>1 DEF Received, Unknown, Matched, HeadOf

LEMMA CleanerFits ==
  ASSUME SameTable, SameClosing, UNCHANGED engine, NEW pos, Fits(pos),
         clean' = "unlink" => Walking(pos)'
  PROVE  Fits(pos)'
<1>1. UNCHANGED <<pc, flow, pup, pup_last>> BY DEF engine
<1>2. \A p : Stamping(p)' <=> Stamping(p) BY <1>1 DEF Stamping
<1>3. pc' = "search" => Searching(pos)' BY <1>1, UntouchedSearch DEF Fits
<1> QED BY <1>2, <1>3, UntouchedFits

LEMMA CleanerApart ==
  ASSUME SameTable, SameClosing, UNCHANGED <<engine, threaded>>, KeptApart, Core,
         threaded /\ clean' \in {"unlink", "release"} => pair[victim'].age > IdleTime
  PROVE  KeptApart'
<1>1. UNCHANGED <<pc, flow>> /\ Live' = Live /\ pair' = pair BY Untouched DEF engine, SameTable
<1> QED BY <1>1 DEF KeptApart, Silence

LEMMA ScanStep ==
  ASSUME Separate, Core, NEW pos \in [Made -> Int], Fits(pos), Scan
  PROVE  Core' /\ Fits(pos)'
<1>1. /\ TypeOK /\ Owned /\ Received /\ Cleaning /\ KeptApart /\ CountedSoFar BY DEF Core
<1>2. /\ clean = "scan" /\ clean' \in {"scan", "lock"} /\ ix \in Slots
      /\ UNCHANGED <<threaded, heap, counts, engine, final, puph, puph_prev>>
      /\ \/ clean' = "lock" /\ ix' = ix /\ utp[ix] # Null /\ victim' = utp[ix]
         \/ clean' = "scan" /\ ix' = ix + 1 /\ victim' = victim /\ (final => utp[ix] = Null)
  BY DEF Scan
<1>3. SameTable /\ SameClosing /\ UNCHANGED <<tot_conn_UDP, f_UDP_count, Closing>>
  BY <1>2 DEF heap, counts, SameTable, SameClosing, Linked, Released, Occupied, Closing
<1>4. TypeOK'
  <2>1. ix' \in 0 .. Pairs BY <1>2, SlotAssumption DEF Slots
  <2>2. victim' \in Link BY <1>1, <1>2 DEF TypeOK
  <2> QED BY <1>1, <1>2, <2>1, <2>2 DEF TypeOK, heap, counts, engine
<1>5. Cleaning'
  <2>1. utp' = utp /\ Occupied' = Occupied BY <1>3, Untouched DEF SameTable
  <2>2. final => \A s \in Occupied : ix' <= s
    <3>1. SUFFICES ASSUME final, NEW s \in Occupied
                   PROVE  ix' <= s
      OBVIOUS
    <3>2. ix <= s /\ s \in Slots /\ utp[s] # Null BY <1>1, <3>1 DEF Cleaning, Occupied
    <3> QED BY <1>2, <3>1, <3>2 DEF Slots
  <2>3. clean' = "lock" => ix' \in Occupied /\ victim' = utp[ix'] BY <1>2 DEF Occupied
  <2>4. UNCHANGED <<pc, threaded, final>> BY <1>2 DEF engine
  <2> QED BY <1>1, <1>2, <2>1, <2>2, <2>3, <2>4 DEF Cleaning
<1>6. CountedSoFar' BY <1>1, <1>3, UntouchedCount
<1> QED
  BY <1>1, <1>2, <1>3, <1>4, <1>5, <1>6, UntouchedOwned, CleanerPacket, CleanerFits, CleanerApart
     DEF Core

\* The victim is in its list until it is unlinked.
LEMMA VictimInList ==
  ASSUME Core, NEW pos \in [Made -> Int], Fits(pos), clean \in {"lock", "unlink"}
  PROVE  LET b == HashOf[pair[victim].flow]
         IN  /\ b \in Buckets /\ pair[victim].flow \in Flows /\ victim \in Live
             /\ Bucket(b) \in SUBSET Made
             /\ IsList(pos, next, pup_hashtable[b], Bucket(b))
             /\ victim \in Bucket(b)
<1>1. TypeOK /\ Owned /\ Cleaning BY DEF Core
<1>2. victim \in Held /\ Linked = Held /\ Live = Held BY <1>1 DEF Cleaning, Held, Linked, Live, Released
<1>3. pair[victim].flow \in Flows BY <1>1, <1>2 DEF Owned
<1>4. HashOf[pair[victim].flow] \in Buckets BY <1>3, UdpTableAssumption
<1>5. Bucket(HashOf[pair[victim].flow]) \in SUBSET Made BY <1>1, <1>4, HeapTypes
<1>6. victim \in Bucket(HashOf[pair[victim].flow]) BY <1>2 DEF Bucket
<1> QED BY <1>2, <1>3, <1>4, <1>5, <1>6 DEF Fits, InOrder

LEMMA CloseStep ==
  ASSUME Separate, Core, NEW pos \in [Made -> Int], Fits(pos), Close
  PROVE  Core' /\ Fits(pos)'
<1>1. /\ TypeOK /\ Owned /\ Received /\ Cleaning /\ KeptApart /\ CountedSoFar BY DEF Core
<1> DEFINE b == HashOf[pair[victim].flow]
<1>2. /\ clean = "lock" /\ clean' \in {"scan", "unlink"}
      /\ UNCHANGED <<threaded, heap, f_UDP_count, missed, engine, final>>
      /\ \/ /\ threaded /\ clean' = "scan" /\ ix' = ix + 1 /\ victim' = Null
            /\ UNCHANGED <<reported, tot_conn_UDP, puph, puph_prev>>
         \/ /\ threaded => StillIdle(victim)
            /\ clean' = "unlink" /\ ix' = ix /\ victim' = victim
            /\ reported' = reported + 1 /\ tot_conn_UDP' = tot_conn_UDP - 1
            /\ puph' = pup_hashtable[b] /\ puph_prev' = Null
  BY DEF Close
<1>3. SameTable /\ SameClosing BY <1>2 DEF heap, SameTable, SameClosing, Linked, Released, Occupied
<1>4. /\ b \in Buckets /\ Bucket(b) \in SUBSET Made /\ victim \in Bucket(b)
      /\ IsList(pos, next, pup_hashtable[b], Bucket(b))
  BY <1>2, VictimInList
<1>5. ix \in Occupied /\ ix \in Slots BY <1>1, <1>2 DEF Cleaning, Occupied
<1>6. Occupied' = Occupied /\ utp' = utp BY <1>3, Untouched DEF SameTable
<1>7. TypeOK'
  <2>1. ix' \in 0 .. Pairs BY <1>2, <1>5, SlotAssumption DEF Slots
  <2>2. victim' \in Link /\ puph' \in Link /\ puph_prev' \in Link BY <1>1, <1>2, <1>4 DEF TypeOK, Link
  <2>3. reported' \in Nat /\ tot_conn_UDP' \in Int BY <1>1, <1>2 DEF TypeOK
  <2> QED BY <1>1, <1>2, <2>1, <2>2, <2>3 DEF TypeOK, heap, engine
<1>8. Cleaning'
  <2>1. clean' = "unlink" => ix' = ix /\ victim' = victim BY <1>2
  <2>2. final => ix' = ix BY <1>1, <1>2 DEF Cleaning
  <2>3. UNCHANGED <<pc, threaded, final>> BY <1>2 DEF engine
  <2> QED BY <1>1, <1>2, <1>6, <2>1, <2>2, <2>3 DEF Cleaning
<1>9. KeptApart'
  <2>1. threaded /\ clean' = "unlink" => pair[victim].age > IdleTime /\ victim' = victim
    BY <1>2, UdpTableAssumption DEF StillIdle, Elapsed
  <2> QED BY <1>1, <1>2, <1>3, <2>1, CleanerApart
<1>10. CountedSoFar'
  <2>1. Cardinality(Occupied) \in Nat BY OccupiedFinite, FS_CardinalityType
  <2>2. Cardinality(Occupied') = Cardinality(Occupied) BY <1>6
  <2> QED BY <1>1, <1>2, <2>1, <2>2 DEF CountedSoFar, Closing
<1>11. clean' = "unlink" => Walking(pos)'
  <2>1. SUFFICES ASSUME clean' = "unlink"
                 PROVE  Walking(pos)'
    OBVIOUS
  <2>2. victim' = victim /\ puph' = pup_hashtable[b] /\ puph_prev' = Null BY <1>2, <2>1
  <2>3. pup_hashtable[b] \in Bucket(b) /\ pos[pup_hashtable[b]] <= pos[victim] BY <1>4 DEF IsList, IsHead
  <2>4. Bucket(b)' = Bucket(b) /\ pair' = pair /\ pup_hashtable' = pup_hashtable
    <3>1. \A x : Bucket(x)' = Bucket(x) BY <1>3, Untouched
    <3>2. pair' = pair /\ pup_hashtable' = pup_hashtable BY <1>3 DEF SameTable
    <3> QED BY <2>2, <3>1, <3>2 DEF Bucket
  <2>5. HashOf[pair'[victim'].flow] = b BY <2>2, <2>4
  <2> HIDE DEF b
  <2> QED BY <1>3, <2>2, <2>3, <2>4, <2>5, Untouched DEF Walking
<1> QED
  BY <1>1, <1>2, <1>3, <1>7, <1>8, <1>9, <1>10, <1>11, UntouchedOwned, CleanerPacket, CleanerFits
     DEF Core

LEMMA UnlinkOnStep ==
  ASSUME Separate, Core, NEW pos \in [Made -> Int], Fits(pos), UnlinkOn
  PROVE  Core' /\ Fits(pos)'
<1>1. /\ TypeOK /\ Owned /\ Received /\ Cleaning /\ KeptApart /\ CountedSoFar
      /\ Walking(pos)
  BY DEF Core, Fits, UnlinkOn
<1> DEFINE b == HashOf[pair[victim].flow]
<1>2. /\ b \in Buckets /\ Bucket(b) \in SUBSET Made /\ victim \in Bucket(b)
      /\ IsList(pos, next, pup_hashtable[b], Bucket(b))
  BY VictimInList DEF UnlinkOn
<1>3. /\ puph \in Bucket(b) /\ puph \in Made /\ pos[puph] <= pos[victim] BY <1>1, <1>2 DEF Walking
<1>4. /\ clean = "unlink" /\ clean' = clean
      /\ pair[puph].flow # pair[victim].flow
      /\ puph_prev' = puph /\ puph' = next[puph]
      /\ UNCHANGED <<threaded, heap, counts, engine, final, ix, victim>>
  BY <1>3, UdpTableAssumption DEF UnlinkOn
<1>5. SameTable /\ SameClosing /\ UNCHANGED <<tot_conn_UDP, f_UDP_count, Closing>>
  BY <1>4 DEF heap, counts, SameTable, SameClosing, Linked, Released, Occupied, Closing
<1>6. TypeOK' BY <1>1, <1>3, <1>4 DEF TypeOK, heap, counts, engine, Link
<1>7. Cleaning'
  <2>1. Occupied' = Occupied /\ utp' = utp BY <1>5, Untouched DEF SameTable
  <2> QED BY <1>1, <1>4, <2>1 DEF Cleaning, engine
<1>8. KeptApart'
  <2>1. threaded => pair[victim].age > IdleTime BY <1>1, <1>4 DEF KeptApart
  <2> QED BY <1>1, <1>4, <1>5, <2>1, CleanerApart
<1>9. CountedSoFar' BY <1>1, <1>5, UntouchedCount
<1>10. next[puph] \in Bucket(b) /\ pos[next[puph]] <= pos[victim]
  <2>1. pos[puph] # pos[victim] BY <1>2, <1>3, <1>4 DEF IsList
  <2>2. CASE next[puph] = Null
    <3>1. pos[victim] <= pos[puph] BY <1>2, <1>3, <2>2 DEF IsList, IsLast
    <3> QED BY <1>2, <1>3, <2>1, <3>1
  <2>3. CASE next[puph] # Null
    <3>1. Adjacent(pos, Bucket(b), puph, next[puph]) BY <1>2, <1>3, <2>3 DEF IsList
    <3>2. pos[victim] <= pos[puph] \/ pos[next[puph]] <= pos[victim] BY <1>2, <3>1 DEF Adjacent
    <3>3. next[puph] \in Bucket(b) BY <3>1 DEF Adjacent
    <3> QED BY <1>2, <1>3, <2>1, <3>2, <3>3
  <2> QED BY <2>2, <2>3
<1>11. Walking(pos)'
  <2>1. pair' = pair /\ next' = next /\ victim' = victim BY <1>4, <1>5 DEF SameTable
  <2>2. b' = b /\ Bucket(b)' = Bucket(b)
    <3>1. \A x : Bucket(x)' = Bucket(x) BY <1>5, Untouched
    <3> QED BY <2>1, <3>1 DEF Bucket
  <2>3. puph' \in Bucket(b) /\ pos[puph'] <= pos[victim] /\ puph_prev' # Null
        /\ puph_prev' \in Bucket(b) /\ next[puph_prev'] = puph'
    BY <1>3, <1>4, <1>10, UdpTableAssumption
  <2> QED BY <2>1, <2>2, <2>3 DEF Walking
<1> QED
  BY <1>1, <1>4, <1>5, <1>6, <1>7, <1>8, <1>9, <1>11, UntouchedOwned, CleanerPacket, CleanerFits
     DEF Core

LEMMA CleanDoneStep ==
  ASSUME Separate, Core, NEW pos \in [Made -> Int], Fits(pos), CleanDone
  PROVE  Core' /\ Fits(pos)'
<1>1. /\ TypeOK /\ Owned /\ Received /\ Cleaning /\ KeptApart /\ CountedSoFar BY DEF Core
<1>2. /\ clean = "scan" /\ ix = Pairs /\ clean' = "wait" /\ ix' = 0 /\ final' = FALSE
      /\ pc' = (IF pc # "clean" THEN pc ELSE IF flow = NoFlow THEN "read" ELSE "new")
      /\ tot_conn_UDP' = (IF final THEN 0 ELSE tot_conn_UDP)
      /\ UNCHANGED <<threaded, heap, f_UDP_count, reported, missed, since, flow, pup, pup_last,
                     victim, puph, puph_prev>>
  BY DEF CleanDone
<1>3. SameTable /\ SameClosing /\ ~Closing /\ ~Closing'
  BY <1>2 DEF heap, SameTable, SameClosing, Linked, Released, Occupied, Closing
<1>4. TypeOK'
  <2>1. pc' \in {"read", "search", "new", "stamp", "clean"} /\ tot_conn_UDP' \in Int BY <1>1, <1>2 DEF TypeOK
  <2>2. ix' \in 0 .. Pairs BY <1>2, SlotAssumption
  <2> QED BY <1>1, <1>2, <2>1, <2>2 DEF TypeOK, heap
<1>5. Received'
  <2>1. flow' = flow /\ pc' \in {"read", "new", pc}
        /\ (pc' = "read" => pc = "read" \/ flow = NoFlow)
        /\ (pc' = "new" => pc = "new" \/ (pc = "clean" /\ flow # NoFlow))
        /\ (pc' \in {"search", "stamp", "clean"} => pc' = pc)
        /\ (pc' # "stamp" => pc # "stamp")
    BY <1>1, <1>2 DEF TypeOK
  <2>2. UNCHANGED <<pup, f_UDP_count>> /\ Linked' = Linked /\ pair' = pair
        /\ pup_hashtable' = pup_hashtable
    BY <1>2, <1>3 DEF SameTable, SameClosing
  <2>3. flow \in Flows \cup {NoFlow} BY <1>1 DEF TypeOK
  <2> QED BY <1>1, <2>1, <2>2, <2>3 DEF Received, Unknown, Matched, HeadOf
<1>6. Cleaning'
  <2>1. pc' # "clean" BY <1>2
  <2> QED BY <1>2, <2>1 DEF Cleaning
<1>7. KeptApart'
  <2>1. threaded => pc' = pc BY <1>1, <1>2 DEF Cleaning
  <2>2. Live' = Live /\ pair' = pair BY <1>3, Untouched DEF SameTable
  <2> QED BY <1>1, <1>2, <2>1, <2>2 DEF KeptApart, Silence
<1>8. CountedSoFar'
  <2>1. Occupied' = Occupied BY <1>3, Untouched
  <2>2. final => Occupied = {}
    <3>1. \A s \in Occupied : s \in Slots BY DEF Occupied
    <3>2. \A s \in Slots : ~(Pairs <= s) BY SlotAssumption DEF Slots
    <3> QED BY <1>1, <1>2, <3>1, <3>2 DEF Cleaning
  <2>3. Cardinality({}) = 0 BY FS_EmptySet
  <2>4. Cardinality(Occupied) \in Nat BY OccupiedFinite, FS_CardinalityType
  <2> QED BY <1>1, <1>2, <1>3, <2>1, <2>2, <2>3, <2>4 DEF CountedSoFar
<1>9. Fits(pos)'
  <2>1. pc' = "search" => pc = "search" BY <1>2
  <2>2. \A p : Stamping(p)' <=> Stamping(p) BY <1>2 DEF Stamping
  <2>3. pc' = "search" => Searching(pos)' BY <1>2, <1>3, <2>1, UntouchedSearch DEF Fits
  <2> QED BY <1>2, <1>3, <2>2, <2>3, UntouchedFits
<1> QED BY <1>1, <1>3, <1>4, <1>5, <1>6, <1>7, <1>8, <1>9, UntouchedOwned DEF Core

------------------------------
\* While a flow leaves its list, the packet in the engine is of another.
LEMMA OtherBucket ==
  ASSUME Separate, Core, clean \in {"unlink", "release"}, pc \in {"search", "new", "stamp"}
  PROVE  HashOf[flow] # HashOf[pair[victim].flow]
<1>1. TypeOK /\ Owned /\ Cleaning /\ KeptApart BY DEF Core
<1>2. threaded BY <1>1 DEF Cleaning
<1>3. pair[victim].age > IdleTime BY <1>1, <1>2 DEF KeptApart
<1>4. victim \in Live BY <1>1 DEF Cleaning, Live, Held, Released
<1>5. Silence(victim) > IdleTime BY <1>3, UdpTableAssumption DEF Silence, Never
<1>6. ASSUME HashOf[flow] = HashOf[pair[victim].flow]
      PROVE  Silence(victim) <= IdleTime
  BY <1>1, <1>2, <1>4, <1>6 DEF KeptApart
<1>7. Silence(victim) \in Int /\ IdleTime \in Int
  <2>1. victim \in Made BY <1>1, <1>4, HeapTypes
  <2>2. pair[victim].age \in Never .. IdleTime + 1 BY <1>1, <2>1 DEF TypeOK
  <2> QED BY <2>2, UdpTableAssumption DEF Silence, Never
<1> QED BY <1>5, <1>6, <1>7

LEMMA UnlinkStep ==
  ASSUME Separate, Core, NEW pos \in [Made -> Int], Fits(pos), Unlink
  PROVE  Core' /\ Fits(pos)'
<1>1. /\ TypeOK /\ Owned /\ Received /\ Cleaning /\ KeptApart /\ CountedSoFar
      /\ Walking(pos) /\ InOrder(pos) /\ Sorted(pos)
  BY DEF Core, Fits, Unlink
<1>2. PICK b \in Buckets :
      /\ b = HashOf[pair[victim].flow] /\ Bucket(b) \in SUBSET Made /\ victim \in Bucket(b)
      /\ IsList(pos, next, pup_hashtable[b], Bucket(b))
      /\ victim \in Live /\ victim \in Made
  BY VictimInList DEF Unlink
<1>3. puph = victim
  <2>1. puph \in Bucket(b) /\ Linked \in SUBSET Live BY <1>1, <1>2, HeapTypes DEF Walking
  <2>2. puph \in Live /\ pair[puph].flow = pair[victim].flow BY <2>1 DEF Bucket, Unlink
  <2> QED BY <1>1, <1>2, <2>2 DEF Owned
<1>4. /\ clean = "unlink" /\ clean' = "release"
      /\ UNCHANGED <<threaded, utp, udp_pair_flist, pair, made, num_udp_pairs, counts, engine,
                     final, ix, victim, puph, puph_prev>>
  BY DEF Unlink
<1>5. /\ Occupied' = Occupied /\ Held' = Held /\ Live' = Live /\ FreePairs' = FreePairs
      /\ Linked' = Linked \ {victim}
  <2>1. Occupied' = Occupied BY <1>4 DEF Occupied
  <2>2. Held' = Held BY <1>4, <2>1 DEF Held
  <2>3. Released' = Released BY <1>4 DEF Released
  <2>4. Linked' = Linked \ {victim} BY <1>4, <2>1 DEF Linked
  <2> QED BY <1>4, <2>1, <2>2, <2>3, <2>4 DEF Live, FreePairs
<1>6. Bucket(b)' = Bucket(b) \ {victim}
      /\ \A c \in Buckets : c # b => Bucket(c)' = Bucket(c)
  BY <1>2, <1>4, <1>5 DEF Bucket
<1>7. \/ /\ puph_prev = Null /\ victim = pup_hashtable[b]
         /\ pup_hashtable' = [pup_hashtable EXCEPT ![b] = next[victim]] /\ next' = next
      \/ /\ puph_prev # Null /\ puph_prev \in Bucket(b) /\ next[puph_prev] = victim
         /\ next' = [next EXCEPT ![puph_prev] = next[victim]] /\ pup_hashtable' = pup_hashtable
  BY <1>1, <1>2, <1>3 DEF Unlink, Walking
<1>8. \A p \in Made : p \notin Bucket(b) => next'[p] = next[p] BY <1>1, <1>7 DEF TypeOK
<1>9. \A c \in Buckets : c # b => pup_hashtable'[c] = pup_hashtable[c] BY <1>1, <1>7 DEF TypeOK
<1>10. IsList(pos, next', pup_hashtable'[b], Bucket(b) \ {victim})
  <2>1. CASE puph_prev = Null
    <3>1. pup_hashtable'[b] = next[victim] /\ next' = next BY <1>1, <1>2, <1>7, <2>1 DEF TypeOK
    <3>2. victim # Null /\ IsList(pos, next, victim, Bucket(b)) BY <1>2, <1>7, <2>1, UdpTableAssumption
    <3>3. IsList(pos, next, next[victim], Bucket(b) \ {victim}) BY <1>2, <3>2, Pop
    <3> QED BY <3>1, <3>3
  <2>2. CASE puph_prev # Null
    <3>1. next \in [Made -> Link] /\ puph_prev \in Bucket(b) /\ next[puph_prev] = victim
      BY <1>1, <1>7, <2>2 DEF TypeOK
    <3>2. IsList(pos, [next EXCEPT ![puph_prev] = next[victim]], pup_hashtable[b],
                 Bucket(b) \ {victim})
      BY <1>2, <3>1, Drop
    <3> QED BY <1>7, <2>2, <3>2
  <2> QED BY <2>1, <2>2
<1>11. TypeOK'
  <2>1. next' \in [Made -> Link] /\ pup_hashtable' \in [Buckets -> Link] BY <1>1, <1>2, <1>7 DEF TypeOK
  <2> QED BY <1>1, <1>4, <2>1 DEF TypeOK, counts, engine
<1>12. Owned' BY <1>1, <1>4, <1>5 DEF Owned
<1>13. Cleaning' BY <1>1, <1>3, <1>4, <1>5 DEF Cleaning, engine
<1>14. KeptApart' BY <1>1, <1>4, <1>5 DEF KeptApart, engine, Silence
<1>15. CountedSoFar' BY <1>1, <1>4, <1>5 DEF CountedSoFar, Closing, counts
<1>16. pc \in {"search", "new", "stamp"} => HashOf[flow] # b BY <1>2, <1>4, OtherBucket
<1>17. Received'
  <2>1. UNCHANGED <<pc, flow, pup, f_UDP_count, pair>> BY <1>4 DEF engine, counts
  <2>2. pc = "stamp" => Matched'
    <3>1. SUFFICES ASSUME pc = "stamp"
                   PROVE  Matched'
      OBVIOUS
    <3>2. Matched /\ flow \in Flows /\ HashOf[flow] \in Buckets /\ HashOf[flow] # b
      BY <1>1, <1>16, <3>1, UdpTableAssumption DEF Received
    <3>3. pup # victim BY <1>2, <3>2 DEF Matched
    <3>4. pup_hashtable'[HashOf[flow]] = pup_hashtable[HashOf[flow]] BY <1>9, <3>2
    <3> QED BY <1>5, <2>1, <3>2, <3>3, <3>4 DEF Matched, HeadOf
  <2>3. \A f : Unknown(f) => Unknown(f)' BY <1>5, <2>1 DEF Unknown
  <2>4. Unknown(flow)' <=> Unknown(flow)' /\ flow' = flow BY <2>1
  <2> QED BY <1>1, <1>5, <2>1, <2>2 DEF Received, Unknown
<1>18. InOrder(pos)'
  <2>1. ASSUME NEW c \in Buckets
        PROVE  IsList(pos, next', pup_hashtable'[c], Bucket(c)')
    <3>1. CASE c = b BY <1>6, <1>10, <3>1
    <3>2. CASE c # b
      <4>1. Bucket(c) \in SUBSET Made /\ IsList(pos, next, pup_hashtable[c], Bucket(c))
        BY <1>1, HeapTypes DEF InOrder
      <4>2. \A p \in Bucket(c) : next'[p] = next[p] BY <1>8, <3>2, <4>1 DEF Bucket
      <4>3. IsList(pos, next', pup_hashtable[c], Bucket(c)) BY <4>1, <4>2, Disjoint
      <4> QED BY <1>6, <1>9, <3>2, <4>3
    <3> QED BY <3>1, <3>2
  <2>2. IsList(pos, next', udp_pair_flist', FreePairs')
    <3>1. FreePairs \in SUBSET Made /\ IsList(pos, next, udp_pair_flist, FreePairs)
      BY <1>1, HeapTypes DEF InOrder
    <3>2. \A p \in FreePairs : next'[p] = next[p]
      <4>1. \A p \in FreePairs : p \notin Bucket(b)
        BY <1>1, <1>4, HeapTypes DEF FreePairs, Live, Bucket, Released
      <4> QED BY <1>8, <3>1, <4>1
    <3>3. IsList(pos, next', udp_pair_flist, FreePairs) BY <3>1, <3>2, Disjoint
    <3> QED BY <1>4, <1>5, <3>3
  <2> QED BY <2>1, <2>2 DEF InOrder
<1>19. Sorted(pos)' BY <1>1, <1>4, <1>5 DEF Sorted, Stamping, Silence, engine
<1>20. pc' = "search" => Searching(pos)'
  <2>1. SUFFICES ASSUME pc = "search"
                 PROVE  Searching(pos)'
    BY <1>4 DEF engine
  <2>2. flow \in Flows /\ HashOf[flow] \in Buckets /\ HashOf[flow] # b /\ Searching(pos)
    BY <1>1, <1>16, <2>1, UdpTableAssumption DEF Received, Fits
  <2>3. Bucket(HashOf[flow])' = Bucket(HashOf[flow]) /\ HeadOf(flow)' = HeadOf(flow)
        /\ UNCHANGED <<pup, pup_last, flow, pair>>
    BY <1>4, <1>6, <1>9, <2>2 DEF HeadOf, engine, Bucket
  <2>4. \A p \in Bucket(HashOf[flow]) : next'[p] = next[p]
    <3>1. Bucket(HashOf[flow]) \in SUBSET Made BY <1>1, <2>2, HeapTypes
    <3> QED BY <1>8, <2>2, <3>1 DEF Bucket
  <2> QED BY <2>2, <2>3, <2>4 DEF Searching, Passed
<1> QED BY <1>4, <1>11, <1>12, <1>13, <1>14, <1>15, <1>17, <1>18, <1>19, <1>20 DEF Core, Fits

LEMMA ReleaseStep ==
  ASSUME Separate, Core, NEW pos \in [Made -> Int], Fits(pos), Release
  PROVE  Core' /\ \E q \in [Made -> Int] : Fits(q)'
<1>1. /\ TypeOK /\ Owned /\ Received /\ Cleaning /\ KeptApart /\ CountedSoFar
      /\ InOrder(pos) /\ Sorted(pos) /\ (pc = "search" => Searching(pos))
  BY DEF Core, Fits
<1>2. /\ clean = "release" /\ clean' = "free" /\ puph = victim
      /\ pair' = [pair EXCEPT ![victim] = Zeroed]
      /\ next' = [next EXCEPT ![victim] = udp_pair_flist] /\ udp_pair_flist' = victim
      /\ UNCHANGED <<threaded, utp, pup_hashtable, made, num_udp_pairs, counts, engine, final,
                     ix, victim, puph, puph_prev>>
  BY <1>1 DEF Release, Cleaning
<1>3. victim \in Held /\ victim \in Made /\ victim \notin Linked /\ victim \notin FreePairs
      /\ Linked \in SUBSET Made /\ FreePairs \in SUBSET Made
  BY <1>1, <1>2, HeapTypes DEF Cleaning, Held, Linked, FreePairs, Released
<1>4. /\ Occupied' = Occupied /\ Held' = Held /\ Live' = Live \ {victim}
      /\ FreePairs' = FreePairs \cup {victim} /\ Linked' = Linked
  <2>1. Occupied' = Occupied BY <1>2 DEF Occupied
  <2>2. Held' = Held BY <1>2, <2>1 DEF Held
  <2>3. Released' = {victim} /\ Released = {} BY <1>2 DEF Released
  <2>4. Linked' = Linked BY <1>2, <2>1 DEF Linked
  <2> QED BY <1>2, <2>1, <2>2, <2>3, <2>4 DEF Live, FreePairs
<1>5. \A p \in Made : p # victim => pair'[p] = pair[p] /\ next'[p] = next[p] BY <1>1, <1>2 DEF TypeOK
<1>6. \A c : Bucket(c)' = Bucket(c) BY <1>3, <1>4, <1>5 DEF Bucket
<1>7. PICK q \in [Made -> Int] :
        /\ q = Ahead(pos, victim, udp_pair_flist)
        /\ IsList(q, next', victim, FreePairs \cup {victim})
  <2>1. IsList(pos, next, udp_pair_flist, FreePairs) /\ next \in [Made -> Link] BY <1>1 DEF InOrder, TypeOK
  <2> QED BY <1>2, <1>3, <2>1, Push
<1>8. \A p \in Made : p # victim => q[p] = pos[p] BY <1>7 DEF Ahead
<1>9. TypeOK'
  <2>1. Zeroed \in [flow : Flows \cup {NoFlow}, age : Never .. IdleTime + 1, packets : 0 .. 2]
    BY UdpTableAssumption DEF Zeroed, Never
  <2>2. pair' \in [Made -> [flow : Flows \cup {NoFlow}, age : Never .. IdleTime + 1,
                            packets : 0 .. 2]]
    BY <1>1, <1>2, <2>1 DEF TypeOK
  <2>3. next' \in [Made -> Link] /\ udp_pair_flist' \in Link BY <1>1, <1>2 DEF TypeOK
  <2> QED BY <1>1, <1>2, <2>2, <2>3 DEF TypeOK, counts, engine
<1>10. Owned'
  <2>1. \A p \in Made \ Live' : pair'[p] = Zeroed
    <3>1. pair'[victim] = Zeroed BY <1>1, <1>2, <1>3 DEF TypeOK
    <3> QED BY <1>1, <1>4, <1>5, <3>1 DEF Owned
  <2>2. \A p \in Live' : p \in Live /\ pair'[p] = pair[p] BY <1>1, <1>4, <1>5, HeapTypes
  <2> QED BY <1>1, <1>2, <1>4, <2>1, <2>2 DEF Owned
<1>11. Cleaning' BY <1>1, <1>2, <1>4 DEF Cleaning, engine
<1>12. KeptApart'
  <2>1. \A p \in Live' : p \in Live /\ pair'[p] = pair[p] BY <1>1, <1>4, <1>5, HeapTypes
  <2> QED BY <1>1, <1>2, <2>1 DEF KeptApart, engine, Silence
<1>13. CountedSoFar' BY <1>1, <1>2, <1>4 DEF CountedSoFar, Closing, counts
<1>14. \A p \in Linked : pair'[p] = pair[p] /\ q[p] = pos[p] /\ p # victim BY <1>3, <1>5, <1>8
<1>15. Received' BY <1>1, <1>2, <1>4, <1>14 DEF Received, Matched, Unknown, HeadOf, engine, counts
<1>16. InOrder(q)'
  <2>1. ASSUME NEW c \in Buckets
        PROVE  IsList(q, next', pup_hashtable'[c], Bucket(c)')
    <3>1. Bucket(c) \in SUBSET Made /\ IsList(pos, next, pup_hashtable[c], Bucket(c))
      BY <1>1, HeapTypes DEF InOrder
    <3>2. \A p \in Bucket(c) : q[p] = pos[p] /\ next'[p] = next[p] BY <1>5, <1>14, <3>1 DEF Bucket
    <3>3. IsList(q, next', pup_hashtable[c], Bucket(c)) BY <3>1, <3>2, Disjoint
    <3> QED BY <1>2, <1>6, <3>3
  <2>2. IsList(q, next', udp_pair_flist', FreePairs') BY <1>2, <1>4, <1>7
  <2> QED BY <2>1, <2>2 DEF InOrder
<1>17. Sorted(q)'
  <2>1. \A p \in Linked : (Silence(p)' = Silence(p)) /\ (Stamping(p)' <=> Stamping(p))
    BY <1>2, <1>14 DEF Silence, Stamping, engine
  <2>2. \A p \in Linked : pair'[p] = pair[p] /\ q[p] = pos[p] BY <1>14
  <2> QED BY <1>1, <1>4, <2>1, <2>2 DEF Sorted
<1>18. pc' = "search" => Searching(q)'
  <2>1. SUFFICES ASSUME pc = "search"
                 PROVE  Searching(q)'
    BY <1>2 DEF engine
  <2>2. Searching(pos) /\ UNCHANGED <<pup, pup_last, flow, pup_hashtable>> BY <1>1, <1>2, <2>1 DEF engine
  <2>3. Bucket(HashOf[flow])' = Bucket(HashOf[flow]) BY <1>6, <2>2 DEF Bucket
  <2>4. \A p \in Bucket(HashOf[flow]) : /\ pair'[p] = pair[p] /\ q[p] = pos[p]
                                        /\ next'[p] = next[p]
    BY <1>3, <1>5, <1>14 DEF Bucket
  <2>5. pup = Null \/ q[pup] = pos[pup] BY <2>1, <2>4, PupInList
  <2> QED BY <2>2, <2>3, <2>4, <2>5 DEF Searching, Passed, HeadOf
<1> QED BY <1>2, <1>7, <1>9, <1>10, <1>11, <1>12, <1>13, <1>15, <1>16, <1>17, <1>18 DEF Core, Fits

LEMMA FreeSlotStep ==
  ASSUME Separate, Core, NEW pos \in [Made -> Int], Fits(pos), FreeSlot
  PROVE  Core' /\ Fits(pos)'
<1>1. /\ TypeOK /\ Owned /\ Received /\ Cleaning /\ KeptApart /\ CountedSoFar
      /\ InOrder(pos) /\ Sorted(pos) /\ (pc = "search" => Searching(pos))
  BY DEF Core, Fits
<1>2. /\ clean = "free" /\ clean' = "scan" /\ utp' = [utp EXCEPT ![ix] = Null] /\ ix' = ix + 1
      /\ victim' = Null /\ puph' = Null /\ puph_prev' = Null
      /\ UNCHANGED <<threaded, pup_hashtable, udp_pair_flist, next, pair, made, num_udp_pairs,
                     counts, engine, final>>
  BY DEF FreeSlot
<1>3. ix \in Occupied /\ ix \in Slots /\ victim = utp[ix] /\ victim \in Held
  BY <1>1, <1>2 DEF Cleaning, Occupied, Held
<1>4. Occupied' = Occupied \ {ix} /\ \A s \in Occupied' : utp'[s] = utp[s]
  BY <1>1, <1>2, <1>3 DEF TypeOK, Occupied
<1>5. Held' = Held \ {victim}
  <2>1. \A s \in Occupied : utp[s] = victim <=> s = ix BY <1>1, <1>3 DEF Owned
  <2>2. Held' = {utp[s] : s \in Occupied'} BY <1>4 DEF Held
  <2> QED BY <1>4, <2>1, <2>2 DEF Held
<1>6. Live' = Live /\ Linked' = Linked /\ FreePairs' = FreePairs
  <2>1. Live' = Live BY <1>2, <1>5 DEF Live, Released
  <2>2. Linked' = Held' /\ Linked = Held \ {victim} BY <1>2 DEF Linked, Held
  <2>3. victim \in 1 .. made BY <1>1, <1>3 DEF Owned
  <2>4. FreePairs' = FreePairs BY <1>2, <1>3, <1>5, <2>3 DEF FreePairs, Released
  <2> QED BY <1>5, <2>1, <2>2, <2>4
<1>7. TypeOK'
  <2>1. ix' \in 0 .. Pairs BY <1>2, <1>3, SlotAssumption DEF Slots
  <2>2. utp' \in [Slots -> Link] BY <1>1, <1>2 DEF TypeOK, Link
  <2> QED BY <1>1, <1>2, <2>1, <2>2 DEF TypeOK, counts, engine, Link
<1>8. Owned' BY <1>1, <1>2, <1>4, <1>6 DEF Owned
<1>9. Cleaning'
  <2>1. final => \A s \in Occupied' : ix' <= s
    <3>1. SUFFICES ASSUME final, NEW s \in Occupied'
                   PROVE  ix + 1 <= s
      BY <1>2
    <3>2. ix <= s /\ s # ix /\ s \in Slots BY <1>1, <1>4, <3>1 DEF Cleaning, Occupied
    <3> QED BY <1>3, <3>2, SlotAssumption DEF Slots
  <2> QED BY <1>1, <1>2, <2>1 DEF Cleaning, engine
<1>10. KeptApart' BY <1>1, <1>2, <1>6 DEF KeptApart, engine, Silence
<1>11. CountedSoFar'
  <2>1. Cardinality(Occupied \ {ix}) = Cardinality(Occupied) - 1 BY <1>3, OccupiedFinite, FS_RemoveElement
  <2>2. Cardinality(Occupied) \in Nat BY OccupiedFinite, FS_CardinalityType
  <2> QED BY <1>1, <1>2, <1>4, <2>1, <2>2 DEF CountedSoFar, Closing, counts
<1>12. Received' BY <1>1, <1>2, <1>6 DEF Received, Matched, Unknown, HeadOf, engine, counts
<1>13. \A c : Bucket(c)' = Bucket(c) BY <1>2, <1>6 DEF Bucket
<1>14. InOrder(pos)'
  <2>1. IsList(pos, next', udp_pair_flist', FreePairs') BY <1>1, <1>2, <1>6 DEF InOrder
  <2>2. \A c \in Buckets : IsList(pos, next', pup_hashtable'[c], Bucket(c)') BY <1>1, <1>2, <1>13 DEF InOrder
  <2> QED BY <2>1, <2>2 DEF InOrder
<1>15. Sorted(pos)' BY <1>1, <1>2, <1>6 DEF Sorted, Stamping, Silence, engine
<1>16. pc' = "search" => Searching(pos)'
  <2>1. UNCHANGED <<pc, pup, pup_last, flow, pup_hashtable, next, pair>> BY <1>2 DEF engine
  <2>2. Bucket(HashOf[flow])' = Bucket(HashOf[flow]) BY <1>13, <2>1 DEF Bucket
  <2> QED BY <1>1, <2>1, <2>2 DEF Searching, Passed, HeadOf
<1> QED BY <1>2, <1>7, <1>8, <1>9, <1>10, <1>11, <1>12, <1>14, <1>15, <1>16 DEF Core, Fits

------------------------------
\* Steps of the packet thread that change the lists.
LEMMA HitStep ==
  ASSUME Separate, Core, NEW pos \in [Made -> Int], Fits(pos), Hit
  PROVE  Core' /\ \E q \in [Made -> Int] : Fits(q)'
<1>1. /\ TypeOK /\ Owned /\ Received /\ Cleaning /\ KeptApart /\ CountedSoFar
      /\ InOrder(pos) /\ Sorted(pos) /\ Searching(pos)
      /\ (clean = "unlink" => Walking(pos))
  BY DEF Core, Fits, Hit
<1>2. PICK b \in Buckets :
        /\ b = HashOf[flow] /\ flow \in Flows
        /\ Bucket(b) \in SUBSET Made /\ pup \in Bucket(b)
        /\ IsList(pos, next, pup_hashtable[b], Bucket(b))
        /\ (pup_last = Null <=> pup = pup_hashtable[b])
  BY PupInList DEF Hit, HeadOf
<1>3. /\ pc = "search" /\ pc' = "stamp" /\ pair[pup].flow = flow
      /\ UNCHANGED <<threaded, utp, udp_pair_flist, pair, made, num_udp_pairs, counts, since,
                     flow, pup, pup_last, cleaner>>
      /\ \/ /\ pup_last # Null
            /\ next' = [next EXCEPT ![pup_last] = next[pup], ![pup] = pup_hashtable[b]]
            /\ pup_hashtable' = [pup_hashtable EXCEPT ![b] = pup]
         \/ pup = pup_hashtable[b] /\ UNCHANGED <<next, pup_hashtable>>
  BY <1>2 DEF Hit, MoveToHead, HeadOf
<1>4. pup \in Linked /\ pup \in Made /\ next \in [Made -> Link] BY <1>1, <1>2 DEF TypeOK, Bucket
<1>5. PICK q \in [Made -> Int] :
        /\ IsList(q, next', pup, Bucket(b))
        /\ \A r \in Bucket(b) : r # pup => q[pup] < q[r]
        /\ \A r \in Made : r # pup => q[r] = pos[r]
        /\ \A r \in Made : r \notin Bucket(b) => next'[r] = next[r]
        /\ pup_hashtable'[b] = pup
        /\ \A c \in Buckets : c # b => pup_hashtable'[c] = pup_hashtable[c]
  <2>1. CASE pup_last # Null
    <3>1. /\ pup_last \in Bucket(b) /\ next[pup_last] = pup
          /\ next' = [next EXCEPT ![pup_last] = next[pup], ![pup] = pup_hashtable[b]]
          /\ pup_hashtable' = [pup_hashtable EXCEPT ![b] = pup]
      BY <1>1, <1>2, <1>3, <2>1 DEF Searching
    <3> DEFINE g == Ahead(pos, pup, pup_hashtable[b])
    <3>2. /\ g \in [Made -> Int]
          /\ IsList(g, next', pup, Bucket(b))
          /\ \A r \in Bucket(b) \ {pup} : g[pup] < g[r]
      <4>1. next' = ToHead(next, pup_last, pup, pup_hashtable[b]) BY <3>1 DEF ToHead
      <4>2. /\ Bucket(b) \in SUBSET Made /\ pup_last \in Bucket(b) /\ next[pup_last] = pup
            /\ IsList(pos, next, pup_hashtable[b], Bucket(b))
            /\ next \in [Made -> Link] /\ pup \in Made
        BY <1>2, <1>4, <3>1
      <4>3. /\ g \in [Made -> Int]
            /\ IsList(g, ToHead(next, pup_last, pup, pup_hashtable[b]), pup, Bucket(b))
            /\ \A r \in Bucket(b) \ {pup} : g[pup] < g[r]
        BY <4>2, Advance
      <4> QED BY <4>1, <4>3
    <3>3. \A r \in Made : r # pup => g[r] = pos[r] BY DEF Ahead
    <3> HIDE DEF g
    <3>4. \A r \in Made : r \notin Bucket(b) => next'[r] = next[r] BY <1>2, <1>4, <3>1
    <3>5. /\ pup_hashtable'[b] = pup
          /\ \A c \in Buckets : c # b => pup_hashtable'[c] = pup_hashtable[c]
      BY <1>1, <1>2, <3>1 DEF TypeOK
    <3> QED BY <3>2, <3>3, <3>4, <3>5
  <2>2. CASE pup_last = Null
    <3>1. pup = pup_hashtable[b] /\ next' = next /\ pup_hashtable' = pup_hashtable BY <1>2, <1>3, <2>2
    <3>2. \A r \in Bucket(b) : r # pup => pos[pup] < pos[r]
      <4>1. SUFFICES ASSUME NEW r \in Bucket(b), r # pup
                     PROVE  pos[pup] < pos[r]
        OBVIOUS
      <4>2. pos[pup] <= pos[r] BY <1>2, <1>4, <3>1, UdpTableAssumption DEF IsList, IsHead
      <4>3. pos[pup] # pos[r] BY <1>2, <4>1 DEF IsList
      <4> QED BY <1>2, <4>2, <4>3
    <3> QED BY <1>2, <3>1, <3>2
  <2> QED BY <2>1, <2>2
<1>6. /\ Occupied' = Occupied /\ Held' = Held /\ Live' = Live /\ FreePairs' = FreePairs
      /\ Linked' = Linked
  <2>1. Occupied' = Occupied BY <1>3 DEF Occupied
  <2>2. Held' = Held BY <1>3, <2>1 DEF Held
  <2>3. Linked' = Linked /\ Released' = Released BY <1>3, <2>1 DEF Linked, Released, cleaner
  <2> QED BY <1>3, <2>1, <2>2, <2>3 DEF Live, FreePairs
<1>7. \A c : Bucket(c)' = Bucket(c) BY <1>3, <1>6 DEF Bucket
<1>8. TypeOK'
  <2>1. next' \in [Made -> Link] /\ pup_hashtable' \in [Buckets -> Link]
    <3>1. pup \in Link /\ pup_hashtable \in [Buckets -> Link] /\ pup_hashtable[b] \in Link
      BY <1>1, <1>2 DEF TypeOK
    <3>2. pup_last # Null => next[pup] \in Link /\ pup_last \in Made BY <1>1, <1>4 DEF TypeOK, Link
    <3> QED BY <1>3, <1>4, <3>1, <3>2
  <2> QED BY <1>1, <1>3, <2>1 DEF TypeOK, counts, cleaner
<1>9. Owned' BY <1>1, <1>3, <1>6 DEF Owned
<1>10. Received'
  <2>1. Matched' BY <1>2, <1>3, <1>4, <1>5, <1>6 DEF Matched, HeadOf
  <2> QED BY <1>1, <1>2, <1>3, <2>1 DEF Received, counts
<1>11. Cleaning' BY <1>1, <1>3, <1>6 DEF Cleaning, cleaner
<1>12. KeptApart' BY <1>1, <1>3, <1>6 DEF KeptApart, Silence, cleaner
<1>13. CountedSoFar' BY <1>1, <1>3, <1>6 DEF CountedSoFar, Closing, counts, cleaner
<1>14. \A r \in Made : r \notin Bucket(b) => q[r] = pos[r] /\ next'[r] = next[r] BY <1>2, <1>5
<1>15. InOrder(q)'
  <2>1. ASSUME NEW c \in Buckets
        PROVE  IsList(q, next', pup_hashtable'[c], Bucket(c)')
    <3>1. CASE c = b BY <1>5, <1>7, <3>1
    <3>2. CASE c # b
      <4>1. Bucket(c) \in SUBSET Made /\ IsList(pos, next, pup_hashtable[c], Bucket(c))
        BY <1>1, HeapTypes DEF InOrder
      <4>2. \A r \in Bucket(c) : q[r] = pos[r] /\ next'[r] = next[r] BY <1>14, <3>2, <4>1 DEF Bucket
      <4>3. IsList(q, next', pup_hashtable[c], Bucket(c)) BY <4>1, <4>2, Disjoint
      <4> QED BY <1>5, <1>7, <3>2, <4>3
    <3> QED BY <3>1, <3>2
  <2>2. IsList(q, next', udp_pair_flist', FreePairs')
    <3>1. FreePairs \in SUBSET Made /\ IsList(pos, next, udp_pair_flist, FreePairs)
      BY <1>1, HeapTypes DEF InOrder
    <3>2. \A r \in FreePairs : r \notin Bucket(b) BY <1>1, HeapTypes DEF FreePairs, Live, Bucket
    <3>3. \A r \in FreePairs : q[r] = pos[r] /\ next'[r] = next[r] BY <1>14, <3>1, <3>2
    <3>4. IsList(q, next', udp_pair_flist, FreePairs) BY <3>1, <3>3, Disjoint
    <3> QED BY <1>3, <1>6, <3>4
  <2> QED BY <2>1, <2>2 DEF InOrder
<1>16. Sorted(q)'
  <2>1. ASSUME NEW p \in Linked, NEW r \in Linked,
               HashOf[pair[p].flow] = HashOf[pair[r].flow], q[p] < q[r], p # pup
        PROVE  Silence(p) <= Silence(r)
    <3>1. p \in Made /\ r \in Made BY <1>1, HeapTypes
    <3>2. r # pup
      <4>1. SUFFICES ASSUME r = pup
                     PROVE  FALSE
        OBVIOUS
      <4>2. p \in Bucket(b) BY <1>2, <1>3, <2>1, <4>1 DEF Bucket
      <4>3. q[pup] < q[p] BY <1>5, <2>1, <4>2
      <4> QED BY <1>4, <2>1, <3>1, <4>1, <4>3
    <3>3. pos[p] < pos[r] BY <1>5, <2>1, <3>1, <3>2
    <3> QED BY <1>1, <1>3, <2>1, <3>3 DEF Sorted, Stamping
  <2>2. \A p \in Linked : pair[p].age # Never BY <1>1, <1>3 DEF Sorted, Stamping
  <2> QED BY <1>3, <1>6, <2>1, <2>2 DEF Sorted, Stamping, Silence
<1>17. clean' = "unlink" => Walking(q)'
  <2>1. SUFFICES ASSUME clean = "unlink"
                 PROVE  Walking(q)'
    BY <1>3 DEF cleaner
  <2>2. PICK c \in Buckets :
          c = HashOf[pair[victim].flow] /\ Bucket(c) \in SUBSET Made /\ victim \in Bucket(c)
    BY <2>1, VictimInList
  <2>3. c # b BY <1>2, <1>3, <2>1, <2>2, OtherBucket
  <2>4. \A r \in Bucket(c) : q[r] = pos[r] /\ next'[r] = next[r] BY <1>14, <2>2, <2>3 DEF Bucket
  <2>5. Bucket(c)' = Bucket(c) /\ pup_hashtable'[c] = pup_hashtable[c]
        /\ UNCHANGED <<victim, puph, puph_prev, pair>>
    BY <1>3, <1>5, <1>7, <2>3 DEF cleaner
  <2> QED BY <1>1, <2>1, <2>2, <2>4, <2>5 DEF Walking
<1> QED BY <1>3, <1>8, <1>9, <1>10, <1>11, <1>12, <1>13, <1>15, <1>16, <1>17 DEF Core, Fits

\* What NewUTP takes: a pair that is in no list but the free one.
LEMMA Fresh ==
  ASSUME Core, NEW pos \in [Made -> Int], Fits(pos), ~Closing, NEW p \in Made, Alloc(p)
  PROVE  /\ Linked = Held /\ Live = Held
         /\ p \notin Held /\ p \in 1 .. made'
         /\ made' \in 0 .. MaxMade /\ made <= made'
         /\ (1 .. made') \ (Held \cup {p}) = FreePairs \ {p}
         /\ udp_pair_flist' \in Link
         /\ IsList(pos, next, udp_pair_flist', FreePairs \ {p})
<1>1. TypeOK /\ Owned /\ Cleaning /\ InOrder(pos) BY DEF Core, Fits
<1>2. Linked = Held /\ Live = Held /\ FreePairs = (1 .. made) \ Held
  BY DEF Closing, Linked, Held, Live, Released, FreePairs
<1>3. Held \in SUBSET (1 .. made) /\ made \in 0 .. MaxMade BY <1>1 DEF Owned, Held, TypeOK
<1>4. IsList(pos, next, udp_pair_flist, FreePairs) /\ FreePairs \in SUBSET Made BY <1>1, HeapTypes DEF InOrder
<1>5. CASE udp_pair_flist = Null
  <2>1. /\ made < MaxMade /\ p = made + 1 /\ made' = p /\ udp_pair_flist' = udp_pair_flist BY <1>5 DEF Alloc
  <2>2. FreePairs = {} BY <1>4, <1>5 DEF IsList, IsHead
  <2>3. p \notin Held /\ p \in 1 .. made' /\ made' \in 0 .. MaxMade /\ made <= made'
    BY <1>3, <2>1, UdpTableAssumption
  <2>4. (1 .. made') \ (Held \cup {p}) = FreePairs \ {p} BY <1>2, <1>3, <2>1, <2>2
  <2>5. FreePairs \ {p} = FreePairs BY <2>2
  <2> QED BY <1>1, <1>2, <1>4, <2>1, <2>3, <2>4, <2>5 DEF TypeOK
<1>6. CASE udp_pair_flist # Null
  <2>1. p = udp_pair_flist /\ udp_pair_flist' = next[p] /\ made' = made BY <1>6 DEF Alloc
  <2>2. p \in FreePairs BY <1>4, <1>6, <2>1 DEF IsList, IsHead
  <2>3. p \notin Held /\ p \in 1 .. made' BY <1>2, <2>1, <2>2
  <2>4. IsList(pos, next, next[p], FreePairs \ {p}) BY <1>4, <1>6, <2>1, Pop
  <2>5. (1 .. made') \ (Held \cup {p}) = FreePairs \ {p} BY <1>2, <2>1
  <2> QED BY <1>1, <1>2, <1>3, <2>1, <2>3, <2>4, <2>5 DEF TypeOK
<1> QED BY <1>5, <1>6

LEMMA RefusedStep ==
  ASSUME Separate, Core, NEW pos \in [Made -> Int], Fits(pos), Open,
         ~Found(num_udp_pairs, Occupied)
  PROVE  Core' /\ Fits(pos)'
<1>1. /\ TypeOK /\ Owned /\ Received /\ Cleaning /\ KeptApart /\ CountedSoFar
      /\ (clean = "unlink" => Walking(pos))
  BY DEF Core, Fits
<1>2. /\ pc = "new" /\ pc' = "read" /\ flow' = NoFlow /\ pup' = Null /\ pup_last' = Null
      /\ f_UDP_count' = f_UDP_count + 1 /\ missed' = missed + 1
      /\ num_udp_pairs' = Landing(num_udp_pairs, Occupied)
      /\ UNCHANGED <<utp, pup_hashtable, udp_pair_flist, next, pair, made, tot_conn_UDP,
                     threaded, since, reported, cleaner>>
  BY DEF Open
<1>3. SameTable /\ SameClosing /\ UNCHANGED <<tot_conn_UDP, Closing>>
  BY <1>2 DEF cleaner, SameTable, SameClosing, Linked, Released, Occupied, Closing
<1>4. TypeOK'
  <2>1. num_udp_pairs' \in Slots BY <1>1, <1>2, LandingType DEF TypeOK
  <2>2. f_UDP_count < MaxFlows BY <1>1, <1>2, UdpTableAssumption DEF Received
  <2>3. f_UDP_count' \in 0 .. MaxFlows /\ missed' \in Nat BY <1>1, <1>2, <2>2, UdpTableAssumption DEF TypeOK
  <2> QED BY <1>1, <1>2, <2>1, <2>3 DEF TypeOK, cleaner, Link
<1>5. Received' BY <1>2 DEF Received
<1>6. Cleaning' BY <1>1, <1>2, <1>3, Untouched DEF Cleaning, cleaner, SameTable
<1>7. KeptApart' BY <1>1, <1>2 DEF KeptApart, cleaner
<1>8. CountedSoFar' BY <1>1, <1>3, UntouchedCount
<1>9. Fits(pos)'
  <2>1. \A p : Stamping(p)' <=> Stamping(p) BY <1>2 DEF Stamping
  <2>2. clean' = "unlink" => Walking(pos)' BY <1>1, <1>2, <1>3, UntouchedWalk DEF cleaner
  <2> QED BY <1>2, <1>3, <2>1, <2>2, UntouchedFits
<1> QED BY <1>1, <1>3, <1>4, <1>5, <1>6, <1>7, <1>8, <1>9, UntouchedOwned DEF Core

LEMMA OpenedStep ==
  ASSUME Separate, Core, NEW pos \in [Made -> Int], Fits(pos), Open,
         Found(num_udp_pairs, Occupied)
  PROVE  Core' /\ \E q \in [Made -> Int] : Fits(q)'
<1>1. /\ TypeOK /\ Owned /\ Received /\ Cleaning /\ KeptApart /\ CountedSoFar
      /\ InOrder(pos) /\ Sorted(pos)
  BY DEF Core, Fits
<1>2. PICK s, p, b :
        /\ s = Landing(num_udp_pairs, Occupied) /\ p \in Made /\ b = HashOf[flow]
        /\ Alloc(p)
        /\ utp' = [utp EXCEPT ![s] = p]
        /\ pair' = [pair EXCEPT ![p].flow = flow]
        /\ next' = [next EXCEPT ![p] = pup_hashtable[b]]
        /\ pup_hashtable' = [pup_hashtable EXCEPT ![b] = p]
        /\ pup' = p
  BY DEF Open, HeadOf
<1>3. /\ pc = "new" /\ ~Closing /\ f_UDP_count' = f_UDP_count + 1 /\ num_udp_pairs' = s
      /\ tot_conn_UDP' = tot_conn_UDP + 1 /\ pc' = "stamp" /\ pup_last' = Null
      /\ UNCHANGED <<missed, flow, threaded, since, reported, cleaner>>
  BY <1>2 DEF Open
<1>4. s \in Slots /\ s \notin Occupied BY <1>1, <1>2, LandingType DEF TypeOK, Found
<1>5. flow \in Flows /\ flow # NoFlow /\ b \in Buckets /\ Unknown(flow) /\ f_UDP_count < MaxFlows
  BY <1>1, <1>2, <1>3, UdpTableAssumption DEF Received
<1>6. /\ Linked = Held /\ Live = Held /\ p \in Made
      /\ p \notin Held /\ p \in 1 .. made'
      /\ made' \in 0 .. MaxMade /\ made <= made'
      /\ (1 .. made') \ (Held \cup {p}) = FreePairs \ {p}
      /\ udp_pair_flist' \in Link
      /\ IsList(pos, next, udp_pair_flist', FreePairs \ {p})
  BY <1>2, <1>3, Fresh
<1>7. Held \in SUBSET Made /\ FreePairs \in SUBSET Made
      /\ \A c \in Buckets : Bucket(c) \in SUBSET Held
  BY <1>1, <1>6, HeapTypes DEF Bucket
<1>8. pair[p] = Zeroed BY <1>1, <1>6 DEF Owned
<1>9. /\ pair'[p].flow = flow /\ pair'[p].age = Never
      /\ \A r \in Made : r # p => pair'[r] = pair[r]
      /\ pair' \in [Made -> [flow : Flows \cup {NoFlow}, age : Never .. IdleTime + 1,
                             packets : 0 .. 2]]
  BY <1>1, <1>2, <1>5, <1>8 DEF TypeOK, Zeroed
<1>10. /\ Occupied' = Occupied \cup {s} /\ utp'[s] = p
       /\ \A t \in Occupied : utp'[t] = utp[t]
  BY <1>1, <1>2, <1>4, UdpTableAssumption DEF TypeOK, Occupied
<1>11. Held' = Held \cup {p} BY <1>4, <1>10 DEF Held
<1>12. Linked' = Held \cup {p} /\ Live' = Held \cup {p} /\ FreePairs' = FreePairs \ {p}
  <2>1. clean' = clean /\ clean \notin {"release", "free"} BY <1>3 DEF Closing, cleaner
  <2>2. Linked' = Held' /\ Live' = Held' /\ FreePairs' = (1 .. made') \ Held'
    BY <2>1 DEF Linked, Held, Live, Released, FreePairs
  <2> QED BY <1>6, <1>11, <2>2
<1>13. /\ \A r \in Held : pair'[r] = pair[r] /\ next'[r] = next[r] /\ r # p
       /\ \A r \in FreePairs \ {p} : next'[r] = next[r]
  BY <1>1, <1>2, <1>6, <1>7, <1>9 DEF TypeOK
<1>14. /\ Bucket(b)' = Bucket(b) \cup {p}
       /\ \A c \in Buckets : c # b => Bucket(c)' = Bucket(c)
  BY <1>2, <1>6, <1>9, <1>12, <1>13 DEF Bucket
<1>15. PICK q \in [Made -> Int] :
         /\ q = Ahead(pos, p, pup_hashtable[b])
         /\ IsList(q, next', p, Bucket(b) \cup {p})
         /\ \A r \in Bucket(b) : q[p] < q[r]
  <2>1. IsList(pos, next, pup_hashtable[b], Bucket(b)) /\ next \in [Made -> Link]
    BY <1>1, <1>5 DEF InOrder, TypeOK
  <2>2. p \notin Bucket(b) /\ Bucket(b) \in SUBSET Made /\ p \in Made BY <1>5, <1>6, <1>7
  <2>3. /\ Ahead(pos, p, pup_hashtable[b]) \in [Made -> Int]
        /\ IsList(Ahead(pos, p, pup_hashtable[b]), [next EXCEPT ![p] = pup_hashtable[b]], p,
                  Bucket(b) \cup {p})
        /\ \A r \in Bucket(b) : Ahead(pos, p, pup_hashtable[b])[p]
                                 < Ahead(pos, p, pup_hashtable[b])[r]
    BY <2>1, <2>2, Push
  <2> QED BY <1>2, <2>3
<1>16. \A r \in Made : r # p => q[r] = pos[r] BY <1>15 DEF Ahead
<1>17. TypeOK'
  <2>1. utp' \in [Slots -> Link] /\ pup_hashtable' \in [Buckets -> Link]
        /\ next' \in [Made -> Link] /\ pup' \in Link /\ pup_last' \in Link
    BY <1>1, <1>2, <1>3, <1>5, <1>6 DEF TypeOK, Link
  <2>2. f_UDP_count' \in 0 .. MaxFlows /\ tot_conn_UDP' \in Int
    BY <1>1, <1>3, <1>5, UdpTableAssumption DEF TypeOK
  <2> QED BY <1>1, <1>3, <1>4, <1>6, <1>9, <2>1, <2>2 DEF TypeOK, cleaner
<1>18. Owned'
  <2>1. \A t \in Occupied' : utp'[t] \in 1 .. made'
    <3>1. \A t \in Occupied : utp[t] \in 1 .. made' BY <1>1, <1>6 DEF Owned, TypeOK
    <3> QED BY <1>6, <1>10, <3>1
  <2>2. \A t, u \in Occupied' : utp'[t] = utp'[u] => t = u
    <3>1. \A t \in Occupied : utp[t] # p BY <1>6 DEF Held
    <3> QED BY <1>1, <1>10, <3>1 DEF Owned
  <2>3. \A r \in Made \ Live' : pair'[r] = Zeroed BY <1>1, <1>6, <1>9, <1>12 DEF Owned
  <2>4. \A r \in Live' : pair'[r].flow \in Flows BY <1>1, <1>5, <1>6, <1>9, <1>12, <1>13 DEF Owned
  <2>5. \A r, u \in Live' : pair'[r].flow = pair'[u].flow => r = u
    <3>1. \A r \in Held : pair[r].flow # flow BY <1>5, <1>6 DEF Unknown
    <3> QED BY <1>1, <1>6, <1>9, <1>12, <1>13, <3>1 DEF Owned
  <2> QED BY <2>1, <2>2, <2>3, <2>4, <2>5 DEF Owned
<1>19. Received'
  <2>1. Matched'
    <3>1. pup_hashtable'[b] = p BY <1>1, <1>2, <1>5 DEF TypeOK
    <3> QED BY <1>2, <1>3, <1>9, <1>12, <3>1 DEF Matched, HeadOf
  <2> QED BY <1>3, <1>5, <2>1 DEF Received
<1>20. Cleaning'
  <2>1. UNCHANGED <<clean, final, ix, victim, threaded>> /\ clean \notin {"unlink", "release", "free"}
    BY <1>3 DEF Closing, cleaner
  <2>2. clean = "lock" => ix \in Occupied' /\ victim = utp'[ix] BY <1>1, <1>10 DEF Cleaning
  <2>3. ~final /\ (threaded \/ clean = "wait") BY <1>1, <1>3 DEF Cleaning
  <2> QED BY <1>1, <1>3, <2>1, <2>2, <2>3 DEF Cleaning
<1>21. KeptApart'
  <2>1. clean' \notin {"unlink", "release"} BY <1>3 DEF Closing, cleaner
  <2>2. ASSUME threaded, NEW r \in Live', HashOf[pair'[r].flow] = HashOf[flow]
        PROVE  pair'[r].flow = flow /\ Silence(r)' <= IdleTime
    <3>1. CASE r = p BY <1>9, <3>1, UdpTableAssumption DEF Silence
    <3>2. CASE r # p
      <4>1. r \in Live /\ pair'[r] = pair[r] BY <1>6, <1>12, <1>13, <2>2, <3>2
      <4> QED BY <1>1, <1>3, <2>2, <4>1 DEF KeptApart, Silence
    <3> QED BY <3>1, <3>2
  <2> QED BY <1>3, <2>1, <2>2 DEF KeptApart
<1>22. CountedSoFar'
  <2>1. Cardinality(Occupied \cup {s}) = Cardinality(Occupied) + 1 BY <1>4, OccupiedFinite, FS_AddElement
  <2>2. Cardinality(Occupied) \in Nat BY OccupiedFinite, FS_CardinalityType
  <2>3. ~Closing' BY <1>3 DEF Closing, cleaner
  <2> QED BY <1>1, <1>3, <1>10, <2>1, <2>2, <2>3 DEF CountedSoFar
<1>23. InOrder(q)'
  <2>1. ASSUME NEW c \in Buckets
        PROVE  IsList(q, next', pup_hashtable'[c], Bucket(c)')
    <3>1. CASE c = b
      <4>1. pup_hashtable'[b] = p BY <1>1, <1>2, <1>5 DEF TypeOK
      <4> QED BY <1>14, <1>15, <3>1, <4>1
    <3>2. CASE c # b
      <4>1. Bucket(c) \in SUBSET Made /\ IsList(pos, next, pup_hashtable[c], Bucket(c))
        BY <1>1, <1>7 DEF InOrder
      <4>2. \A r \in Bucket(c) : q[r] = pos[r] /\ next'[r] = next[r] BY <1>7, <1>13, <1>16, <4>1
      <4>3. IsList(q, next', pup_hashtable[c], Bucket(c)) BY <4>1, <4>2, Disjoint
      <4>4. pup_hashtable'[c] = pup_hashtable[c] BY <1>1, <1>2, <3>2 DEF TypeOK
      <4> QED BY <1>14, <3>2, <4>3, <4>4
    <3> QED BY <3>1, <3>2
  <2>2. IsList(q, next', udp_pair_flist', FreePairs')
    <3>1. \A r \in FreePairs \ {p} : q[r] = pos[r] /\ next'[r] = next[r] BY <1>7, <1>13, <1>16
    <3>2. FreePairs \ {p} \in SUBSET Made BY <1>7
    <3>3. IsList(q, next', udp_pair_flist', FreePairs \ {p}) BY <1>6, <3>1, <3>2, Disjoint
    <3> QED BY <1>12, <3>3
  <2> QED BY <2>1, <2>2 DEF InOrder
<1>24. Sorted(q)'
  <2>1. ASSUME NEW r \in Linked', NEW t \in Linked',
               HashOf[pair'[r].flow] = HashOf[pair'[t].flow], q[r] < q[t], r # p
        PROVE  Silence(r)' <= Silence(t)'
    <3>1. r \in Held /\ r \in Linked /\ r \in Made /\ t \in Made /\ pair'[r] = pair[r]
      BY <1>6, <1>7, <1>12, <1>13, <2>1
    <3>2. t # p
      <4>1. SUFFICES ASSUME t = p
                     PROVE  FALSE
        OBVIOUS
      <4>2. r \in Bucket(b) BY <1>2, <1>9, <2>1, <3>1, <4>1 DEF Bucket
      <4>3. q[p] < q[r] BY <1>15, <4>2
      <4>4. q[p] \in Int /\ q[r] \in Int /\ q[r] < q[p] BY <1>6, <2>1, <3>1, <4>1
      <4> QED BY <4>3, <4>4
    <3>3. t \in Linked /\ pair'[t] = pair[t] BY <1>6, <1>12, <1>13, <3>2
    <3>4. pos[r] < pos[t] BY <1>16, <2>1, <3>1, <3>2
    <3> QED BY <1>1, <1>3, <2>1, <3>1, <3>3, <3>4 DEF Sorted, Stamping, Silence
  <2>2. \A r \in Linked' : pair'[r].age = Never => r = p
    <3>1. \A r \in Linked : pair[r].age # Never BY <1>1, <1>3 DEF Sorted, Stamping
    <3> QED BY <1>6, <1>12, <1>13, <3>1
  <2>3. pc' = "stamp" /\ pup' = p BY <1>2, <1>3
  <2> QED BY <2>1, <2>2, <2>3 DEF Sorted, Stamping
<1>25. pc' # "search" /\ clean' # "unlink" BY <1>3 DEF Closing, cleaner
<1> QED BY <1>17, <1>18, <1>19, <1>20, <1>21, <1>22, <1>23, <1>24, <1>25 DEF Core, Fits

------------------------------
\* Steps that change the other fields of the pairs, never their flows.
SameFlows ==
  /\ \A p \in Made : pair'[p].flow = pair[p].flow
  /\ UNCHANGED <<utp, pup_hashtable, udp_pair_flist, next, made, clean, victim, puph, puph_prev>>

LEMMA SameFlowsLists ==
  ASSUME SameFlows, Core, NEW pos \in [Made -> Int], Fits(pos)
  PROVE  /\ Occupied' = Occupied /\ Linked' = Linked /\ Live' = Live
         /\ Live \in SUBSET Made /\ Linked \in SUBSET Live
         /\ InOrder(pos)'
         /\ clean' = "unlink" => Walking(pos)'
         /\ \A b \in Buckets : Bucket(b)' = Bucket(b)
<1>1. TypeOK /\ Owned /\ Cleaning /\ InOrder(pos) /\ (clean = "unlink" => Walking(pos)) BY DEF Core, Fits
<1>2. Live \in SUBSET Made /\ Linked \in SUBSET Live BY <1>1, HeapTypes
<1>3. Occupied' = Occupied BY DEF Occupied, SameFlows
<1>4. Held' = Held /\ Linked' = Linked /\ Released' = Released BY <1>3 DEF Held, Linked, Released, SameFlows
<1>5. Live' = Live /\ FreePairs' = FreePairs BY <1>4 DEF Live, FreePairs, SameFlows
<1>6. \A b \in Buckets : Bucket(b)' = Bucket(b) BY <1>2, <1>4 DEF Bucket, SameFlows
<1>7. InOrder(pos)'
  <2>1. IsList(pos, next', udp_pair_flist', FreePairs') BY <1>1, <1>5 DEF InOrder, SameFlows
  <2>2. \A b \in Buckets : IsList(pos, next', pup_hashtable'[b], Bucket(b)')
    BY <1>1, <1>6 DEF InOrder, SameFlows
  <2> QED BY <2>1, <2>2 DEF InOrder
<1>8. clean' = "unlink" => Walking(pos)'
  <2>1. SUFFICES ASSUME clean = "unlink"
                 PROVE  Walking(pos)'
    BY DEF SameFlows
  <2>2. PICK b \in Buckets : b = HashOf[pair[victim].flow] /\ victim \in Made BY <1>2, <2>1, VictimInList
  <2>3. Bucket(b)' = Bucket(b) /\ HashOf[pair'[victim].flow] = b BY <1>6, <2>2 DEF SameFlows
  <2>4. Walking(pos) BY <1>1, <2>1
  <2> QED BY <2>2, <2>3, <2>4 DEF Walking, SameFlows
<1> QED BY <1>2, <1>3, <1>4, <1>5, <1>6, <1>7, <1>8

LEMMA StampStep ==
  ASSUME Separate, Core, NEW pos \in [Made -> Int], Fits(pos), NEW dup \in BOOLEAN, Stamp(dup)
  PROVE  Core' /\ Fits(pos)'
<1>1. /\ TypeOK /\ Owned /\ Received /\ Cleaning /\ KeptApart /\ CountedSoFar
      /\ InOrder(pos) /\ Sorted(pos)
  BY DEF Core, Fits
<1>2. /\ pc = "stamp" /\ pc' = "read" /\ flow' = NoFlow /\ pup' = Null /\ pup_last' = Null
      /\ pair' = [pair EXCEPT ![pup].age = 0,
                              ![pup].packets = IF dup \/ @ = 2 THEN @ ELSE @ + 1]
      /\ UNCHANGED <<threaded, utp, pup_hashtable, udp_pair_flist, next, made, num_udp_pairs,
                     counts, since, cleaner>>
  BY DEF Stamp
<1>3. Matched /\ flow \in Flows /\ HashOf[flow] \in Buckets BY <1>1, <1>2, UdpTableAssumption DEF Received
<1>4. pup \in Linked /\ pup \in Live /\ pup \in Made /\ pair[pup].flow = flow
      /\ pup = pup_hashtable[HashOf[flow]]
  BY <1>1, <1>3, HeapTypes DEF Matched, HeadOf
<1>5. /\ \A p \in Made : p # pup => pair'[p] = pair[p]
      /\ pair'[pup].flow = pair[pup].flow /\ pair'[pup].age = 0
      /\ pair' \in [Made -> [flow : Flows \cup {NoFlow}, age : Never .. IdleTime + 1,
                             packets : 0 .. 2]]
  <2> DEFINE r == [pair[pup] EXCEPT !.age = 0, !.packets = IF dup \/ @ = 2 THEN @ ELSE @ + 1]
  <2>1. pair[pup] \in [flow : Flows \cup {NoFlow}, age : Never .. IdleTime + 1, packets : 0 .. 2]
    BY <1>1, <1>4 DEF TypeOK
  <2>2. PICK n \in 0 .. 2 : n = IF dup \/ pair[pup].packets = 2 THEN pair[pup].packets
                                ELSE pair[pup].packets + 1
    <3>1. pair[pup].packets \in 0 .. 2 BY <2>1
    <3>2. CASE dup BY <3>1, <3>2, Zenon
    <3>3. CASE ~dup
      <4>1. pair[pup].packets # 2 => pair[pup].packets + 1 \in 0 .. 2 BY <3>1
      <4> QED BY <3>1, <3>3, <4>1, Zenon
    <3> QED BY <3>2, <3>3
  <2>4. r = [pair[pup] EXCEPT !.age = 0, !.packets = n] BY <2>1, <2>2
  <2>5. r \in [flow : Flows \cup {NoFlow}, age : Never .. IdleTime + 1, packets : 0 .. 2]
        /\ r.flow = pair[pup].flow /\ r.age = 0
    <3>1. 0 \in Never .. IdleTime + 1 BY UdpTableAssumption DEF Never
    <3> HIDE DEF r
    <3> QED BY <2>1, <2>4, <3>1
  <2>3. pair' = [pair EXCEPT ![pup] = r] BY <1>1, <1>2, <1>4, <2>1 DEF TypeOK
  <2> HIDE DEF r
  <2> QED BY <1>1, <1>4, <2>5, <2>3 DEF TypeOK
<1>6. SameFlows BY <1>2, <1>5 DEF SameFlows, cleaner
<1>7. /\ Occupied' = Occupied /\ Linked' = Linked /\ Live' = Live
      /\ Live \in SUBSET Made /\ Linked \in SUBSET Live
      /\ InOrder(pos)' /\ (clean' = "unlink" => Walking(pos)')
  BY <1>6, SameFlowsLists
<1>8. TypeOK' BY <1>1, <1>2, <1>5 DEF TypeOK, counts, cleaner, Link
<1>9. Owned'
  <2>1. \A p \in Made : pair'[p].flow = pair[p].flow BY <1>5
  <2>2. \A p \in Made \ Live' : pair'[p] = Zeroed BY <1>1, <1>4, <1>5, <1>7 DEF Owned
  <2>3. \A p \in Live : pair'[p].flow = pair[p].flow BY <1>7, <2>1
  <2>4. \A p \in Live' : pair'[p].flow \in Flows BY <1>1, <1>7, <2>3 DEF Owned
  <2>5. \A p, q \in Live' : pair'[p].flow = pair'[q].flow => p = q BY <1>1, <1>7, <2>3 DEF Owned
  <2> QED BY <1>1, <1>2, <1>7, <2>2, <2>4, <2>5 DEF Owned
<1>10. Received' BY <1>2 DEF Received
<1>11. Cleaning' BY <1>1, <1>2, <1>7 DEF Cleaning, cleaner
<1>12. KeptApart'
  <2>1. ASSUME threaded, clean \in {"unlink", "release"}
        PROVE  pair'[victim].age > IdleTime
    <3>1. HashOf[flow] # HashOf[pair[victim].flow] BY <1>2, <2>1, OtherBucket
    <3>2. victim # pup BY <1>4, <3>1
    <3>3. victim \in Made BY <1>1, <1>7, <2>1 DEF Cleaning, TypeOK, Occupied, Link
    <3>4. pair[victim].age > IdleTime BY <1>1, <2>1 DEF KeptApart
    <3> QED BY <1>5, <3>2, <3>3, <3>4
  <2> QED BY <1>2, <2>1 DEF KeptApart, cleaner
<1>13. CountedSoFar' BY <1>1, <1>2, <1>7 DEF CountedSoFar, Closing, counts, cleaner
<1>14. Sorted(pos)'
  <2>1. ASSUME NEW p \in Linked, NEW r \in Linked,
               HashOf[pair'[p].flow] = HashOf[pair'[r].flow], pos[p] < pos[r]
        PROVE  Silence(p)' <= Silence(r)'
    <3>1. p \in Made /\ r \in Made /\ HashOf[pair[p].flow] = HashOf[pair[r].flow] BY <1>5, <1>7, <2>1
    <3>2. Silence(r)' >= 0 /\ Silence(r)' \in Int
      <4>1. pair'[r].age \in Never .. IdleTime + 1 BY <1>5, <3>1
      <4> QED BY <4>1, UdpTableAssumption DEF Silence, Never
    <3>3. CASE p = pup
      <4>1. Silence(p)' = 0 BY <1>5, <3>3 DEF Silence, Never
      <4> QED BY <3>2, <4>1
    <3>4. CASE p # pup
      <4>1. r # pup
        <5>1. SUFFICES ASSUME r = pup
                       PROVE  FALSE
          OBVIOUS
        <5>2. IsHead(pos, pup, Bucket(HashOf[flow]))
          <6>1. IsList(pos, next, pup_hashtable[HashOf[flow]], Bucket(HashOf[flow])) BY <1>1, <1>3 DEF InOrder
          <6> QED BY <1>4, <6>1 DEF IsList
        <5>3. p \in Bucket(HashOf[flow]) BY <1>4, <3>1, <5>1 DEF Bucket
        <5>4. pos[pup] <= pos[p] BY <1>4, <5>2, <5>3, UdpTableAssumption DEF IsHead
        <5>5. pos[p] < pos[pup] /\ pos[p] \in Int /\ pos[pup] \in Int BY <2>1, <3>1, <5>1
        <5> QED BY <5>4, <5>5
      <4>2. Silence(p) <= Silence(r) BY <1>1, <2>1, <3>1, <3>4 DEF Sorted, Stamping
      <4> QED BY <1>5, <3>1, <3>4, <4>1, <4>2 DEF Silence
    <3> QED BY <3>3, <3>4
  <2>2. \A p \in Linked : pair'[p].age # Never
    <3>1. \A p \in Linked : p # pup => pair[p].age # Never BY <1>1 DEF Sorted, Stamping
    <3> QED BY <1>5, <1>7, <3>1 DEF Never
  <2> QED BY <1>7, <2>1, <2>2 DEF Sorted
<1> QED BY <1>2, <1>7, <1>8, <1>9, <1>10, <1>11, <1>12, <1>13, <1>14 DEF Core, Fits

LEMMA TickStep ==
  ASSUME Separate, Core, NEW pos \in [Made -> Int], Fits(pos), Tick
  PROVE  Core' /\ Fits(pos)'
<1>1. /\ TypeOK /\ Owned /\ Received /\ Cleaning /\ KeptApart /\ CountedSoFar
      /\ InOrder(pos) /\ Sorted(pos)
  BY DEF Core, Fits
<1>2. /\ pc = "read" /\ since' = (IF Due THEN since ELSE since + 1)
      /\ pair' = [p \in Made |-> IF pair[p].age \in {Never, IdleTime + 1} THEN pair[p]
                                 ELSE [pair[p] EXCEPT !.age = @ + 1]]
      /\ UNCHANGED <<threaded, utp, pup_hashtable, udp_pair_flist, next, made, num_udp_pairs,
                     counts, pc, flow, pup, pup_last, cleaner>>
  BY DEF Tick
<1>3. ASSUME NEW p \in Made
      PROVE  /\ pair'[p] \in [flow : Flows \cup {NoFlow}, age : Never .. IdleTime + 1,
                              packets : 0 .. 2]
             /\ pair'[p].flow = pair[p].flow
             /\ pair[p].age \in Never .. IdleTime + 1
             /\ pair'[p].age = IF pair[p].age \in {Never, IdleTime + 1} THEN pair[p].age
                               ELSE pair[p].age + 1
             /\ pair[p].age = Never => pair'[p] = pair[p]
  <2>1. pair[p] \in [flow : Flows \cup {NoFlow}, age : Never .. IdleTime + 1, packets : 0 .. 2]
    BY <1>1 DEF TypeOK
  <2>2. CASE pair[p].age \in {Never, IdleTime + 1}
    <3>1. pair'[p] = pair[p] BY <1>2, <2>2
    <3> QED BY <2>1, <2>2, <3>1
  <2>3. CASE pair[p].age \notin {Never, IdleTime + 1}
    <3>1. pair'[p] = [pair[p] EXCEPT !.age = @ + 1] BY <1>2, <2>3
    <3> QED BY <2>1, <2>3, <3>1, UdpTableAssumption DEF Never
  <2> QED BY <2>2, <2>3
<1>4. SameFlows BY <1>2, <1>3 DEF SameFlows, cleaner
<1>5. /\ Occupied' = Occupied /\ Linked' = Linked /\ Live' = Live
      /\ Live \in SUBSET Made /\ Linked \in SUBSET Live
      /\ InOrder(pos)' /\ (clean' = "unlink" => Walking(pos)')
  BY <1>4, SameFlowsLists
<1>6. TypeOK'
  <2>1. since' \in 0 .. SingletonTime \div 2 + 1 BY <1>1, <1>2, HalfTime DEF TypeOK, Due
  <2>2. pair' \in [Made -> [flow : Flows \cup {NoFlow}, age : Never .. IdleTime + 1,
                            packets : 0 .. 2]]
    <3>1. pair' = [p \in Made |-> pair'[p]] BY <1>2
    <3> QED BY <1>3, <3>1
  <2> QED BY <1>1, <1>2, <2>1, <2>2 DEF TypeOK, counts, cleaner
<1>7. Owned'
  <2>1. \A p \in Made \ Live' : pair'[p] = Zeroed BY <1>1, <1>3, <1>5 DEF Owned, Zeroed
  <2>2. \A p \in Live : pair'[p].flow = pair[p].flow BY <1>3, <1>5
  <2> QED BY <1>1, <1>2, <1>5, <2>1, <2>2 DEF Owned
<1>8. Received' BY <1>1, <1>2 DEF Received, counts
<1>9. Cleaning' BY <1>1, <1>2, <1>5 DEF Cleaning, cleaner
<1>10. KeptApart'
  <2>1. ASSUME threaded, clean \in {"unlink", "release"}
        PROVE  pair'[victim].age > IdleTime
    <3>1. victim \in Made BY <1>1, <2>1 DEF Cleaning, TypeOK, Occupied, Link
    <3>2. pair[victim].age > IdleTime BY <1>1, <2>1 DEF KeptApart
    <3>3. pair[victim].age = IdleTime + 1 BY <1>3, <3>1, <3>2, UdpTableAssumption
    <3>4. pair'[victim].age = IdleTime + 1 BY <1>3, <3>1, <3>3
    <3> QED BY <3>4, UdpTableAssumption
  <2> QED BY <1>2, <2>1 DEF KeptApart, cleaner
<1>11. CountedSoFar' BY <1>1, <1>2, <1>5 DEF CountedSoFar, Closing, counts, cleaner
<1>12. Sorted(pos)'
  <2>1. \A p \in Linked : pair[p].age # Never BY <1>1, <1>2 DEF Sorted, Stamping
  <2>2. \A p \in Linked : pair'[p].age # Never /\ pair'[p].flow = pair[p].flow /\ p \in Made
    BY <1>3, <1>5, <2>1, UdpTableAssumption DEF Never
  <2>3. ASSUME NEW p \in Linked, NEW r \in Linked,
               HashOf[pair'[p].flow] = HashOf[pair'[r].flow], pos[p] < pos[r]
        PROVE  Silence(p)' <= Silence(r)'
    <3>1. Silence(p) <= Silence(r) BY <1>1, <1>2, <2>2, <2>3 DEF Sorted, Stamping
    <3>2. pair[p].age <= pair[r].age BY <2>1, <3>1 DEF Silence
    <3>3. pair'[p].age <= pair'[r].age BY <1>3, <2>1, <2>2, <3>2, UdpTableAssumption DEF Never
    <3> QED BY <2>2, <3>3 DEF Silence
  <2> QED BY <1>5, <2>2, <2>3 DEF Sorted
<1>13. pc' # "search" BY <1>2
<1> QED BY <1>5, <1>6, <1>7, <1>8, <1>9, <1>10, <1>11, <1>12, <1>13 DEF Core, Fits

------------------------------
LEMMA InitStep ==
  ASSUME Init
  PROVE  IInv
<1>1. /\ Occupied = {} /\ Held = {} /\ Released = {} /\ Live = {} /\ Linked = {}
      /\ FreePairs = {}
  <2>1. Occupied = {} /\ Released = {} BY DEF Init, Occupied, Released
  <2>2. Held = {} /\ Linked = {} BY <2>1 DEF Held, Linked
  <2>3. 1 .. made = {} BY DEF Init
  <2> QED BY <2>1, <2>2, <2>3 DEF Live, FreePairs
<1>2. TypeOK
  <2>1. pair \in [Made -> [flow : Flows \cup {NoFlow}, age : Never .. IdleTime + 1,
                           packets : 0 .. 2]]
    BY UdpTableAssumption DEF Init, Zeroed, Never
  <2>2. 0 \in 0 .. SingletonTime \div 2 + 1 BY HalfTime
  <2>3. 0 \in 0 .. Pairs /\ made \in 0 .. MaxMade /\ f_UDP_count \in 0 .. MaxFlows
    BY SlotAssumption, UdpTableAssumption DEF Init
  <2>4. /\ utp \in [Slots -> Link] /\ pup_hashtable \in [Buckets -> Link]
        /\ udp_pair_flist \in Link /\ next \in [Made -> Link]
        /\ pup \in Link /\ pup_last \in Link
        /\ victim \in Link /\ puph \in Link /\ puph_prev \in Link
    BY DEF Init, Link
  <2>5. /\ num_udp_pairs \in Slots \cup {-1} /\ tot_conn_UDP \in Int
        /\ reported \in Nat /\ missed \in Nat
        /\ since \in 0 .. SingletonTime \div 2 + 1
        /\ ix \in 0 .. Pairs
    BY <2>2, <2>3 DEF Init
  <2>6. /\ threaded \in Modes /\ final \in BOOLEAN /\ flow \in Flows \cup {NoFlow}
        /\ pc \in {"read", "search", "new", "stamp", "clean"}
        /\ clean \in {"wait", "scan", "lock", "unlink", "release", "free"}
    BY DEF Init
  <2> QED BY <2>1, <2>3, <2>4, <2>5, <2>6, Zenon DEF TypeOK
<1>3. Owned BY <1>1 DEF Init, Owned
<1>4. Received /\ KeptApart BY DEF Init, Received, KeptApart
<1>5. Cleaning BY <1>1 DEF Init, Cleaning
<1>6. CountedSoFar
  <2>1. Cardinality(Occupied) = 0 /\ Cardinality(Occupied) \in Int BY <1>1, FS_EmptySet
  <2>2. clean = "wait" /\ tot_conn_UDP = 0 /\ tot_conn_UDP \in Int BY DEF Init
  <2>3. CountedSoFar <=> tot_conn_UDP = Cardinality(Occupied) - 0 BY <2>2 DEF CountedSoFar, Closing
  <2> QED BY <2>1, <2>2, <2>3
<1>7. PICK pos : pos = [p \in Made |-> 0] OBVIOUS
<1>8. pos \in [Made -> Int] BY <1>7
<1>9. Fits(pos)
  <2>1. \A b \in Buckets : Bucket(b) = {} BY <1>1 DEF Bucket
  <2>2. InOrder(pos) BY <1>1, <2>1 DEF Init, InOrder, IsList, IsHead
  <2> QED BY <1>1, <2>2 DEF Init, Fits, Sorted
<1> QED BY <1>2, <1>3, <1>4, <1>5, <1>6, <1>8, <1>9 DEF IInv, Core

LEMMA StutterStep ==
  ASSUME IInv, UNCHANGED vars
  PROVE  IInv'
<1>1. PICK pos \in [Made -> Int] : Fits(pos) BY DEF IInv
<1>2. UNCHANGED <<threaded, heap, counts, engine, cleaner>> BY DEF vars
<1>3. SameTable /\ SameClosing /\ Occupied' = Occupied
  BY <1>2 DEF heap, cleaner, SameTable, SameClosing, Linked, Released, Occupied
<1>4. TypeOK' /\ Owned' /\ Received' /\ Cleaning' /\ KeptApart' /\ CountedSoFar'
  <2>1. TypeOK /\ Owned /\ Received /\ Cleaning /\ KeptApart /\ CountedSoFar BY DEF IInv, Core
  <2>2. TypeOK' BY <1>2, <2>1 DEF TypeOK, heap, counts, engine, cleaner
  <2>3. Owned' BY <1>3, <2>1, UntouchedOwned
  <2>4. Received' BY <1>2, <1>3, <2>1, CleanerPacket DEF counts
  <2>5. Cleaning' BY <1>2, <1>3, <2>1 DEF Cleaning, heap, engine, cleaner
  <2>6. KeptApart'
    <3>1. Live' = Live BY <1>3, Untouched
    <3> QED BY <1>2, <2>1, <3>1 DEF KeptApart, Silence, heap, engine, cleaner
  <2>7. CountedSoFar' BY <1>2, <1>3, <2>1 DEF CountedSoFar, Closing, counts, cleaner
  <2> QED BY <2>2, <2>3, <2>4, <2>5, <2>6, <2>7
<1>5. Fits(pos)'
  <2>1. clean' = "unlink" => Walking(pos)' BY <1>1, <1>2, <1>3, UntouchedWalk DEF Fits, cleaner
  <2> QED BY <1>1, <1>2, <1>3, <2>1, CleanerFits
<1> QED BY <1>4, <1>5 DEF IInv, Core

LEMMA NextStep ==
  ASSUME Separate, IInv, Next
  PROVE  IInv'
<1>1. PICK pos \in [Made -> Int] : Fits(pos) BY DEF IInv
<1>2. Core BY DEF IInv
<1>3. ASSUME Core' /\ Fits(pos)'
      PROVE  IInv'
  BY <1>3 DEF IInv
<1>4. ASSUME Core' /\ \E q \in [Made -> Int] : Fits(q)'
      PROVE  IInv'
  BY <1>4 DEF IInv
<1>5. ASSUME NEW f \in Flows, Recv(f)
      PROVE  IInv'
  BY <1>1, <1>2, <1>3, <1>5, RecvStep
<1>6. CASE RecvFirstSyn BY <1>1, <1>2, <1>3, <1>6, RecvFirstSynStep
<1>7. CASE Handling
  <2>1. CASE SearchOn BY <1>1, <1>2, <1>3, <2>1, SearchOnStep
  <2>2. CASE Hit BY <1>1, <1>2, <1>4, <2>2, HitStep
  <2>3. CASE Miss BY <1>1, <1>2, <1>3, <2>3, MissStep
  <2>4. CASE Open
    <3>1. CASE Found(num_udp_pairs, Occupied) BY <1>1, <1>2, <1>4, <2>4, <3>1, OpenedStep
    <3>2. CASE ~Found(num_udp_pairs, Occupied) BY <1>1, <1>2, <1>3, <2>4, <3>2, RefusedStep
    <3> QED BY <3>1, <3>2
  <2>5. ASSUME NEW dup \in BOOLEAN, Stamp(dup)
        PROVE  IInv'
    BY <1>1, <1>2, <1>3, <2>5, StampStep
  <2> QED BY <1>7, <2>1, <2>2, <2>3, <2>4, <2>5 DEF Handling
<1>8. CASE Tick BY <1>1, <1>2, <1>3, <1>8, TickStep
<1>9. CASE EndOfFile BY <1>1, <1>2, <1>3, <1>9, EndOfFileStep
<1>10. CASE Cleaner
  <2>1. CASE Scan BY <1>1, <1>2, <1>3, <2>1, ScanStep
  <2>2. CASE Close BY <1>1, <1>2, <1>3, <2>2, CloseStep
  <2>3. CASE UnlinkOn BY <1>1, <1>2, <1>3, <2>3, UnlinkOnStep
  <2>4. CASE Unlink BY <1>1, <1>2, <1>3, <2>4, UnlinkStep
  <2>5. CASE Release BY <1>1, <1>2, <1>4, <2>5, ReleaseStep
  <2>6. CASE FreeSlot BY <1>1, <1>2, <1>3, <2>6, FreeSlotStep
  <2>7. CASE CleanDone BY <1>1, <1>2, <1>3, <2>7, CleanDoneStep
  <2> QED BY <1>10, <2>1, <2>2, <2>3, <2>4, <2>5, <2>6, <2>7 DEF Cleaner
<1> QED BY <1>5, <1>6, <1>7, <1>8, <1>9, <1>10 DEF Next

\* What the two threads keep true of the table between any two of their
\* steps: udp.c takes utp_lock_mutex to open and to close a flow, and
\* nothing to search, to move to the head or to stamp.
THEOREM Inductive ==
  ASSUME Separate
  PROVE  Spec => []IInv
<1>1. Init => IInv BY InitStep
<1>2. IInv /\ [Next]_vars => IInv' BY NextStep, StutterStep
<1> QED BY <1>1, <1>2, PTL DEF Spec

\* udp.c:159, "connection records are stored in a hash table": utp[], the
\* hash lists, the free list and tot_conn_UDP fit together whatever the
\* sizes, the hash function and the timeouts.  In the engine without threads
\* this is so whatever the traffic; with the cleaner thread only for the
\* traffic of Apart, in which the thread never works on the list FindUTP
\* searches.
THEOREM TableKept ==
  ASSUME Separate
  PROVE  Spec => []TableSound
<1>1. IInv => TableSound BY FitsSound DEF IInv
<1> QED BY <1>1, Inductive, PTL

\* In the engine without threads the pair FindUTP returns is of the packet's
\* flow, and is in its list when udp_flow_stat stores the packet in it,
\* whatever the traffic and whatever was closed, released and used again
\* before.  With -p nothing in the code keeps the cleaner off that pair
\* (udp.c:198), and nothing is claimed here.
THEOREM PacketsStampOwn ==
  ASSUME TRUE \notin Modes
  PROVE  Spec => []StampsOwn
<1>1. Separate BY DEF Separate
<1>2. IInv => StampsOwn BY FitsSound DEF IInv
<1> QED BY <1>1, <1>2, Inductive, PTL

------------------------------
\* The refinement of FlowLog.  A flow leaves the open ones when
\* close_udp_flow reports it, although its pair is in utp[] until the slot
\* is cleared.
OpenSlots == IF Closing THEN Occupied \ {ix} ELSE Occupied

LEMMA Quiet ==
  ASSUME OpenSlots' = OpenSlots, \A s \in OpenSlots : pair'[utp'[s]].flow = pair[utp[s]].flow,
         UNCHANGED <<reported, missed>>
  PROVE  UNCHANGED Log!vars
<1>1. openFlows = {pair[utp[s]].flow : s \in OpenSlots} BY DEF openFlows, OpenSlots
<1>2. openFlows' = {pair'[utp'[s]].flow : s \in OpenSlots'} BY DEF openFlows, OpenSlots
<1> QED BY <1>1, <1>2 DEF Log!vars

\* Steps of the packet thread that open nothing: the slots stay.
LEMMA QuietSlots ==
  ASSUME UNCHANGED <<utp, reported, missed, Closing>>, Closing => ix' = ix,
         \A s \in Occupied : pair'[utp[s]].flow = pair[utp[s]].flow
  PROVE  UNCHANGED Log!vars
<1>1. OpenSlots' = OpenSlots /\ \A s \in OpenSlots : s \in Occupied BY DEF OpenSlots, Occupied
<1> QED BY <1>1, Quiet

LEMMA QuietPacket ==
  ASSUME Cleaning,
         \/ \E f \in Flows : Recv(f)
         \/ SearchOn \/ Hit \/ Miss \/ RecvFirstSyn \/ EndOfFile
         \/ Scan \/ UnlinkOn \/ Unlink \/ CleanDone
         \/ UNCHANGED vars
  PROVE  UNCHANGED Log!vars
<1>1. UNCHANGED <<utp, pair, reported, missed>>
  BY DEF Recv, SearchOn, Hit, Miss, Fire, RecvFirstSyn, EndOfFile, Scan, UnlinkOn, Unlink,
         CleanDone, vars, heap, counts
<1>2. UNCHANGED Closing /\ (Closing => ix' = ix)
  <2>1. CASE \/ \E f \in Flows : Recv(f)
             \/ SearchOn \/ Hit \/ UNCHANGED vars
    BY <2>1 DEF Recv, SearchOn, Hit, vars, cleaner, Closing
  <2>2. CASE Miss \/ RecvFirstSyn BY <2>2 DEF Miss, RecvFirstSyn, Fire, cleaner, Closing
  <2>3. CASE EndOfFile \/ Scan \/ CleanDone BY <2>3 DEF EndOfFile, Scan, CleanDone, Cleaning, Closing
  <2>4. CASE UnlinkOn \/ Unlink BY <2>4 DEF UnlinkOn, Unlink, Closing
  <2> QED BY <2>1, <2>2, <2>3, <2>4
<1> QED BY <1>1, <1>2, QuietSlots

LEMMA QuietFields ==
  ASSUME Core, Tick \/ \E dup \in BOOLEAN : Stamp(dup)
  PROVE  UNCHANGED Log!vars
<1>1. TypeOK /\ Received BY DEF Core
<1>2. UNCHANGED <<utp, reported, missed, clean, ix>> BY DEF Tick, Stamp, counts, cleaner
<1>3. \A p \in Made : pair'[p].flow = pair[p].flow
  <2>1. SUFFICES ASSUME NEW p \in Made
                 PROVE  pair'[p].flow = pair[p].flow
    OBVIOUS
  <2>2. pair[p] \in [flow : Flows \cup {NoFlow}, age : Never .. IdleTime + 1, packets : 0 .. 2]
    BY <1>1 DEF TypeOK
  <2>3. CASE Tick BY <2>2, <2>3 DEF Tick
  <2>4. ASSUME NEW dup \in BOOLEAN, Stamp(dup)
        PROVE  pair'[p].flow = pair[p].flow
    BY <1>1, <2>2, <2>4 DEF Stamp, TypeOK
  <2> QED BY <2>3, <2>4
<1>4. \A s \in Occupied : utp[s] \in Made BY <1>1 DEF Occupied, TypeOK, Link
<1> QED BY <1>2, <1>3, <1>4, QuietSlots DEF Closing

\* From the report to the free slot, the pair of the flow is no one's.
LEMMA QuietRelease ==
  ASSUME Core, Release \/ FreeSlot
  PROVE  UNCHANGED Log!vars
<1>1. TypeOK /\ Owned /\ Cleaning BY DEF Core
<1>2. CASE Release
  <2>1. /\ clean = "release" /\ clean' = "free" /\ puph = victim
        /\ pair' = [pair EXCEPT ![puph] = Zeroed]
        /\ UNCHANGED <<utp, reported, missed, ix>>
    BY <1>1, <1>2 DEF Release, counts, Cleaning
  <2>2. ix \in Occupied /\ victim = utp[ix] BY <1>1, <2>1 DEF Cleaning
  <2>3. OpenSlots = Occupied \ {ix} /\ OpenSlots' = Occupied \ {ix} BY <2>1 DEF OpenSlots, Closing, Occupied
  <2>4. ASSUME NEW s \in OpenSlots
        PROVE  pair'[utp'[s]].flow = pair[utp[s]].flow
    <3>1. s \in Occupied /\ s # ix /\ utp[s] \in Made BY <1>1, <2>3 DEF Occupied, TypeOK, Link
    <3>2. utp[s] # puph BY <1>1, <2>1, <2>2, <3>1 DEF Owned
    <3> QED BY <1>1, <2>1, <3>1, <3>2 DEF TypeOK
  <2> QED BY <2>1, <2>3, <2>4, Quiet
<1>3. CASE FreeSlot
  <2>1. /\ clean = "free" /\ clean' = "scan" /\ utp' = [utp EXCEPT ![ix] = Null]
        /\ UNCHANGED <<pair, reported, missed>>
    BY <1>3 DEF FreeSlot, counts
  <2>2. OpenSlots = Occupied \ {ix} /\ OpenSlots' = Occupied' BY <2>1 DEF OpenSlots, Closing
  <2>3. Occupied' = Occupied \ {ix} /\ \A s \in Occupied \ {ix} : utp'[s] = utp[s]
    BY <1>1, <2>1 DEF TypeOK, Occupied
  <2> QED BY <2>1, <2>2, <2>3, Quiet
<1> QED BY <1>2, <1>3

LEMMA CloseLogged ==
  ASSUME Core, Close
  PROVE  [Log!Next]_(Log!vars)
<1>1. TypeOK /\ Owned /\ Cleaning /\ clean = "lock" BY DEF Core, Close
<1>2. UNCHANGED <<utp, pair, missed>> BY DEF Close, heap
<1>3. OpenSlots = Occupied /\ Occupied' = Occupied BY <1>1, <1>2 DEF OpenSlots, Closing, Occupied
<1>4. CASE clean' = "scan"
  <2>1. OpenSlots' = OpenSlots /\ reported' = reported BY <1>3, <1>4 DEF OpenSlots, Closing, Close
  <2> QED BY <1>2, <2>1, Quiet
<1>5. CASE clean' # "scan"
  <2>1. clean' = "unlink" /\ ix' = ix /\ reported' = reported + 1 BY <1>5 DEF Close
  <2>2. OpenSlots' = Occupied \ {ix} /\ ix \in Occupied BY <1>1, <1>3, <2>1 DEF OpenSlots, Closing, Cleaning
  <2>3. PICK c : c = pair[utp[ix]].flow OBVIOUS
  <2>4. \A s \in Occupied : utp[s] \in Live /\ pair[utp[s]].flow \in Flows
    BY <1>1 DEF Live, Held, Released, Owned
  <2>5. \A s \in Occupied : pair[utp[s]].flow = c => s = ix BY <1>1, <2>2, <2>3, <2>4 DEF Owned
  <2>6. openFlows = {pair[utp[s]].flow : s \in Occupied} BY <1>3 DEF openFlows, OpenSlots
  <2>7. openFlows' = {pair[utp[s]].flow : s \in Occupied \ {ix}} BY <1>2, <2>2 DEF openFlows, OpenSlots
  <2>8. c \in openFlows /\ openFlows' = openFlows \ {c} /\ c \in Flows BY <2>2, <2>3, <2>4, <2>5, <2>6, <2>7
  <2> QED BY <1>2, <2>1, <2>8 DEF Log!Next, Log!Close
<1> QED BY <1>4, <1>5

LEMMA OpenLogged ==
  ASSUME IInv, Open
  PROVE  [Log!Next]_(Log!vars)
<1>1. Core /\ TypeOK /\ Owned /\ Received /\ Cleaning BY DEF IInv, Core
<1>2. /\ pc = "new" /\ ~Closing /\ ~Closing' /\ OpenSlots = Occupied /\ OpenSlots' = Occupied'
      /\ reported' = reported
  BY DEF Open, Closing, OpenSlots, cleaner
<1>3. CASE ~Found(num_udp_pairs, Occupied)
  <2>1. UNCHANGED <<utp, pair>> /\ missed' = missed + 1 BY <1>3 DEF Open
  <2>2. openFlows' = openFlows BY <1>2, <2>1 DEF openFlows, Occupied
  <2> QED BY <1>2, <2>1, <2>2 DEF Log!Next, Log!Refuse
<1>4. CASE Found(num_udp_pairs, Occupied)
  <2>1. PICK s, p : /\ s = Landing(num_udp_pairs, Occupied) /\ p \in Made
                    /\ utp' = [utp EXCEPT ![s] = p] /\ pair' = [pair EXCEPT ![p].flow = flow]
                    /\ Alloc(p)
    BY <1>4 DEF Open
  <2>2. missed' = missed BY <1>4 DEF Open
  <2>3. s \in Slots /\ s \notin Occupied BY <1>1, <1>4, <2>1, LandingType DEF TypeOK, Found
  <2>4. flow \in Flows /\ Unknown(flow) BY <1>1, <1>2, UdpTableAssumption DEF Received
  <2>5. Linked = Held BY <1>2 DEF Linked, Held, Closing
  <2>6. Occupied' = Occupied \cup {s} /\ utp'[s] = p /\ \A t \in Occupied : utp'[t] = utp[t]
    BY <1>1, <2>1, <2>3, UdpTableAssumption DEF TypeOK, Occupied
  <2>7. p \notin Held
    <3>1. PICK pos \in [Made -> Int] : Fits(pos) BY DEF IInv
    <3> QED BY <1>1, <1>2, <2>1, <3>1, Fresh
  <2>8. \A t \in Occupied : utp[t] \in Held /\ utp[t] \in Made /\ utp[t] # p
                             /\ pair'[utp'[t]].flow = pair[utp[t]].flow
                             /\ pair[utp[t]].flow # flow
    BY <1>1, <2>1, <2>4, <2>5, <2>6, <2>7 DEF TypeOK, Held, Occupied, Link, Unknown
  <2>9. pair'[utp'[s]].flow = flow BY <1>1, <2>1, <2>6 DEF TypeOK
  <2>10. openFlows = {pair[utp[t]].flow : t \in Occupied} BY <1>2 DEF openFlows, OpenSlots
  <2>11. openFlows' = {pair'[utp'[t]].flow : t \in Occupied \cup {s}} BY <1>2, <2>6 DEF openFlows, OpenSlots
  <2>12. flow \notin openFlows /\ openFlows' = openFlows \cup {flow} BY <2>8, <2>9, <2>10, <2>11
  <2> QED BY <1>2, <2>2, <2>4, <2>12 DEF Log!Next, Log!Open
<1> QED BY <1>3, <1>4

\* Seen from outside, the table of UDP flows is a set of open flows, each
\* of which yields one call of make_udp_conn_stats when it leaves the set;
\* with the cleaner thread, for the traffic of Apart.
THEOREM Implementation ==
  ASSUME Separate
  PROVE  Spec => ImplementsFlowLog
<1>1. Init => Log!Init
  <2> SUFFICES ASSUME Init
               PROVE  Log!Init
    OBVIOUS
  <2>1. Occupied = {} /\ ~Closing BY DEF Init, Occupied, Closing
  <2>2. openFlows = {} BY <2>1 DEF openFlows
  <2> QED BY <2>2 DEF Init, Log!Init
<1>2. IInv /\ [Next]_vars => [Log!Next]_(Log!vars)
  <2> SUFFICES ASSUME IInv, [Next]_vars
               PROVE  [Log!Next]_(Log!vars)
    OBVIOUS
  <2>1. Core /\ Cleaning BY DEF IInv, Core
  <2>2. CASE Open BY <2>2, OpenLogged
  <2>3. CASE Close BY <2>1, <2>3, CloseLogged
  <2>4. CASE Tick \/ \E dup \in BOOLEAN : Stamp(dup) BY <2>1, <2>4, QuietFields
  <2>5. CASE Release \/ FreeSlot BY <2>1, <2>5, QuietRelease
  <2>6. CASE \/ \E f \in Flows : Recv(f)
             \/ SearchOn \/ Hit \/ Miss \/ RecvFirstSyn \/ EndOfFile
             \/ Scan \/ UnlinkOn \/ Unlink \/ CleanDone
             \/ UNCHANGED vars
    BY <2>1, <2>6, QuietPacket
  <2> QED BY <2>2, <2>3, <2>4, <2>5, <2>6 DEF Next, Handling, Cleaner
<1> QED BY <1>1, <1>2, Inductive, PTL DEF Spec, ImplementsFlowLog, Log!Spec

------------------------------
\* The classification of a flow (UdpClass).

\* What the state of a flow is, while a packet passes and between packets.
Labels == RtpTypes \cup Verdicts \cup Types \cup {"UTP", "OBF_KAD"}
UtpStates == {"UNKNOWN"} \cup UtpSent \cup UtpSeen
KadVerdicts == {"UNKNOWN"} \cup KadReplies
Ucb == [type : Types, packets : Nat, utp : UtpStates, conn : Nat, synseq : Nat,
        isUtp : BOOLEAN, kad : KadStates, obf : BOOLEAN, lastLen : Nat,
        sig : Int \X Int, count : 0 .. 3, first : BOOLEAN, isVod : BOOLEAN,
        stream : Nat \X Nat, num : [SkypePkts -> Nat], block : Nat,
        early : BOOLEAN, skype : Verdicts]
ClassFlows == [ucb : [Dirs -> Ucb], kad : KadVerdicts,
          counted : [Dirs -> Seq(Labels)], exited : BOOLEAN]

\* What was counted of a direction, by kind: the streams that were confirmed
\* and the judgements; and how many streams are no longer.
Number(c, types) == Cardinality({i \in DOMAIN c : c[i] \in types})
Early(b) == IF b.early THEN 1 ELSE 0
Stream(b) == IF b.type \in RtpTypes THEN 1 ELSE 0
Spent(f, e) == Number(f.counted[e], RtpTypes) - Stream(f.ucb[e])

\* What is counted while the flow is open: streams, and one judgement at
\* most, the early one.
Tallied(f) ==
    /\ f.ucb["c2s"].early = f.ucb["s2c"].early
    /\ \A e \in Dirs :
          LET c == f.counted[e]
          IN  /\ Number(c, Verdicts) <= Early(f.ucb[e])
              /\ Len(c) = Number(c, RtpTypes) + Number(c, Verdicts)

\* A direction of a Skype type was judged early.
Judged(f) == \A e \in Dirs : f.ucb[e].type \in SkypeTypes => f.ucb[e].early

\* The two directions of a flow are a pair (Paired).
Pair(f) ==
    /\ \A e \in Dirs : /\ f.ucb[e].utp \in UtpSent =>
                              f.ucb[Other(e)].utp = Seen(f.ucb[e].utp)
                       /\ f.ucb[e].utp \in UtpSeen => f.ucb[Other(e)].utp \in UtpSent
    /\ f.ucb["c2s"].isUtp = f.ucb["s2c"].isUtp
    /\ f.ucb["c2s"].isVod = f.ucb["s2c"].isVod

\* Where the state of check_uTP comes from, in the packets s that were
\* sent: what a side sent is the header of one of them.
Opened(b, q) ==
    /\ q.utp \in UtpHeaders /\ SentState(q.utp) = b.utp /\ q.conn = b.conn
    /\ q.utp = "syn" => q.useq = b.synseq
UtpGrounds(f, s) ==
    IF f.ucb["c2s"].isUtp
    THEN \E e \in Dirs : \E p \in s[e], q \in s[Other(e)] : UtpAnswer(p, q)
    ELSE \A e \in Dirs : f.ucb[e].utp \in UtpSent => \E q \in s[e] : Opened(f.ucb[e], q)

\* The lengths of a Kad request and its reply, by the verdict.
KadLengths(verdict, p, q) ==
    CASE verdict = "RES52_K25" -> p.len = 43 /\ Multiple(q.len, 52)
      [] verdict = "RES68_K25" -> p.len = 59 /\ Multiple(q.len, 68)
      [] verdict = "SIZEX_22" -> p.len \in 36 .. 70 /\ q.len = 22
      [] verdict = "SIZEX_52" -> p.len \in 46 .. 57 /\ q.len = 52
      [] verdict = "SIZE_IN_46_57" -> p.len \in 46 .. 57 /\ q.len \in 46 .. 57
Asked(b, q) == q.len = (IF b.kad = "REQ43" THEN 43 ELSE 59)
KadGrounds(f, s) ==
    /\ (\A e \in Dirs : ~ f.ucb[e].obf) => f.kad = "UNKNOWN"
    /\ f.kad # "UNKNOWN" =>
          \E e \in Dirs : \E p \in s[e], q \in s[Other(e)] : KadLengths(f.kad, p, q)
    /\ \A e \in Dirs :
          /\ f.ucb[e].lastLen # 0 => \E q \in s[e] : q.len = f.ucb[e].lastLen
          /\ f.ucb[e].kad \in KadRequests => \E q \in s[e] : Asked(f.ucb[e], q)

\* Where the state of check_udp_vod comes from: a signature counted n
\* times was that of the last n packets of the direction, each of VodLen;
\* as long as the check is run.
InARow(b, t) ==
    /\ b.count <= 2
    /\ ~ b.first /\ b.count # 0 =>
          /\ t[2] >= b.count
          /\ t[1] = <<b.sig[1], IF conf.snap THEN b.sig[2] ELSE -1>>
VodFound(s, t) == \E e \in Dirs : t[e][2] >= 3 \/ \E p \in s[e] : MpegCell(p)
VodGrounds(f, s, t) ==
    IF f.ucb["c2s"].isVod THEN VodFound(s, t)
    ELSE Packets(f) < MaxVod => \A e \in Dirs : InARow(f.ucb[e], t[e])

Streaks == (Int \X Int) \X Nat

\* The inductive invariant.
Typed ==
    /\ conf \in Confs /\ Flow \in ClassFlows /\ aged \subseteq Dirs
    /\ sent \in [Dirs -> SUBSET Payload] /\ streak \in [Dirs -> Streaks]
    /\ dropped \in [Dirs -> Nat] /\ status \in {"open", "closed", "exited"}
Grounds == UtpGrounds(Flow, sent) /\ KadGrounds(Flow, sent) /\ VodGrounds(Flow, sent, streak)
Balanced(f, k) == conf.located => \A e \in Dirs : Spent(f, e) = k[e]
WhileOpen == status = "open" => Tallied(Flow) /\ Judged(Flow) /\ Balanced(Flow, dropped)
ClassInv == Typed /\ Pair(Flow) /\ Grounds /\ WhileOpen /\ CountedFor /\ NoExit

\* An analyser took the flow from f to g, and what holds of an open flow
\* still does.
Ready(f) == f \in ClassFlows /\ ~ f.exited /\ Tallied(f) /\ Judged(f)
Runs(f, g) ==
    Ready(g) /\ \A e \in Dirs : g.ucb[e].packets = f.ucb[e].packets

\* It counted nothing, and no direction became a stream.
Fades(f, g) ==
    \A e \in Dirs : /\ g.counted[e] = f.counted[e]
                    /\ g.ucb[e].type \in RtpTypes => f.ucb[e].type \in RtpTypes
Goes(f, g) == Runs(f, g) /\ Fades(f, g)

\* An analyser left alone the state of another.
UtpSame(f, g) ==
    \A e \in Dirs : /\ g.ucb[e].utp = f.ucb[e].utp /\ g.ucb[e].conn = f.ucb[e].conn
                    /\ g.ucb[e].synseq = f.ucb[e].synseq
                    /\ g.ucb[e].isUtp = f.ucb[e].isUtp
VodSame(f, g) ==
    \A e \in Dirs : /\ g.ucb[e].sig = f.ucb[e].sig /\ g.ucb[e].count = f.ucb[e].count
                    /\ g.ucb[e].first = f.ucb[e].first
                    /\ g.ucb[e].isVod = f.ucb[e].isVod
KadSame(f, g) ==
    /\ g.kad = f.kad
    /\ \A e \in Dirs : /\ g.ucb[e].kad = f.ucb[e].kad /\ g.ucb[e].obf = f.ucb[e].obf
                       /\ g.ucb[e].lastLen = f.ucb[e].lastLen

\* An analyser changed no type into one that is counted while the flow is
\* open, and counted nothing.
Alike(f, g) ==
    /\ g.counted = f.counted /\ g.exited = f.exited
    /\ \A e \in Dirs : /\ g.ucb[e].packets = f.ucb[e].packets
                       /\ g.ucb[e].early = f.ucb[e].early
                       /\ g.ucb[e].type \in {f.ucb[e].type} \cup
                                               (Types \ (SkypeTypes \cup RtpTypes))

\* A step that changes no more than Alike allows keeps what the types of a
\* flow say of it.
LEMMA AlikeGoes ==
  ASSUME NEW f, Ready(f), NEW g \in ClassFlows, Alike(f, g)
  PROVE  Goes(f, g)
<1>1. Tallied(g) BY DEF Alike, Ready, Tallied, Early, Dirs
<1>2. Judged(g) BY DEF Alike, Ready, Judged
<1>3. Fades(f, g) BY DEF Alike, Fades
<1> QED BY <1>1, <1>2, <1>3 DEF Alike, Goes, Runs, Ready

\* The two directions.
LEMMA Others ==
  /\ Dirs = {"c2s", "s2c"}
  /\ \A e \in Dirs : Other(e) \in Dirs /\ Other(e) # e /\ Other(Other(e)) = e
  /\ \A e, d \in Dirs : e = d \/ e = Other(d)
BY DEF Dirs, Other

\* A flow in which one direction, or both, is another record.
LEMMA OneDir ==
  ASSUME NEW f \in ClassFlows, NEW d \in Dirs, NEW b \in Ucb
  PROVE  /\ [f EXCEPT !.ucb[d] = b] \in ClassFlows
         /\ \A e \in Dirs : [f EXCEPT !.ucb[d] = b].ucb[e] = IF e = d THEN b ELSE f.ucb[e]
         /\ [f EXCEPT !.ucb[d] = b].kad = f.kad
         /\ [f EXCEPT !.ucb[d] = b].counted = f.counted
         /\ [f EXCEPT !.ucb[d] = b].exited = f.exited
BY DEF ClassFlows

\* An analyser that only types a direction, and may count it.
OnlyTypes(f, g) == Runs(f, g) /\ UtpSame(f, g) /\ VodSame(f, g) /\ KadSame(f, g)

\* Doing nothing changes only types.
LEMMA SameFlow == ASSUME NEW f, Ready(f) PROVE OnlyTypes(f, f) /\ Fades(f, f)
BY DEF OnlyTypes, Runs, Fades, UtpSame, VodSame, KadSame

\* The type and the stream of a direction change.
Retypes(f, g, d, t) == OnlyTypes(f, g) /\ Fades(f, g) /\ g.ucb[d].type = t
LEMMA Retyped ==
  ASSUME NEW f, Ready(f), NEW d \in Dirs, NEW g,
         NEW t \in {f.ucb[d].type} \cup (Types \ (SkypeTypes \cup RtpTypes)),
         NEW s \in Nat \X Nat,
         g = [f EXCEPT !.ucb[d] = [@ EXCEPT !.type = t, !.stream = s]]
  PROVE  Retypes(f, g, d, t)
<1>1. f \in ClassFlows BY DEF Ready
<1>2. f.ucb[d] \in Ucb /\ f.ucb \in [Dirs -> Ucb] BY <1>1 DEF ClassFlows
<1>3. t \in Types BY <1>2 DEF Ucb
<1>4. g \in ClassFlows BY <1>1, <1>2, <1>3 DEF ClassFlows, Ucb
<1>5. Alike(f, g) BY <1>1, <1>2 DEF ClassFlows, Ucb, Alike
<1>6. UtpSame(f, g) BY <1>1, <1>2 DEF ClassFlows, Ucb, UtpSame
<1>7. VodSame(f, g) BY <1>1, <1>2 DEF ClassFlows, Ucb, VodSame
<1>8. KadSame(f, g) BY <1>1, <1>2 DEF ClassFlows, Ucb, KadSame
<1>9. g.ucb[d].type = t BY <1>1, <1>2 DEF ClassFlows, Ucb
<1> QED BY <1>4, <1>5, <1>6, <1>7, <1>8, <1>9, AlikeGoes DEF Retypes, OnlyTypes, Goes

\* p2p_flow_stat changes the type of its direction.
LEMMA P2pGoes ==
  ASSUME NEW f, Ready(f), NEW d \in Dirs, NEW p \in Payload
  PROVE  /\ OnlyTypes(f, P2pFlowStat(f, d, p)) /\ Fades(f, P2pFlowStat(f, d, p))
         /\ P2pFlowStat(f, d, p).ucb[d].type \in {f.ucb[d].type} \cup (Types \ FirstTypes)
<1> DEFINE g == P2pFlowStat(f, d, p)
<1>0. f \in ClassFlows /\ f.ucb[d] \in Ucb BY DEF Ready, ClassFlows
<1>1. \E t \in {f.ucb[d].type} \cup (Types \ (SkypeTypes \cup RtpTypes)) :
         /\ g = [f EXCEPT !.ucb[d].type = t] \/ g = f
         /\ t = f.ucb[d].type \/ t \in Types \ FirstTypes
  <2>1. p.p2p \in {"no"} \cup P2pTypes BY DEF Payload
  <2>2. P2pTypes \cup {"P2P_UTPBT", "P2P_BT"}
           \subseteq Types \ (SkypeTypes \cup RtpTypes \cup FirstTypes)
    BY DEF P2pTypes, Types, SkypeTypes, RtpTypes, SkypeFlows, FirstTypes
  <2> QED BY <2>1, <2>2 DEF P2pFlowStat
<1>2. PICK t \in {f.ucb[d].type} \cup (Types \ (SkypeTypes \cup RtpTypes)) :
         /\ g = [f EXCEPT !.ucb[d].type = t] \/ g = f
         /\ t = f.ucb[d].type \/ t \in Types \ FirstTypes
  BY <1>1
<1>3. SUFFICES /\ OnlyTypes(f, g) /\ Fades(f, g)
               /\ g.ucb[d].type \in {f.ucb[d].type} \cup (Types \ FirstTypes)
  OBVIOUS
<1> HIDE DEF g
<1>4. CASE g = [f EXCEPT !.ucb[d].type = t]
  <2>1. g = [f EXCEPT !.ucb[d] = [@ EXCEPT !.type = t, !.stream = f.ucb[d].stream]]
    BY <1>0, <1>4 DEF ClassFlows, Ucb
  <2>2. f.ucb[d].stream \in Nat \X Nat BY <1>0 DEF Ucb
  <2>3. Retypes(f, g, d, t) BY <2>1, <2>2, Retyped
  <2> QED BY <1>2, <2>3 DEF Retypes
<1> QED BY <1>2, <1>4, SameFlow

\* A sequence with one more entry.
LEMMA NumberAppend ==
  ASSUME NEW c \in Seq(Labels), NEW l \in Labels, NEW types
  PROVE  /\ Number(c, types) \in Nat /\ Len(c) \in Nat
         /\ Append(c, l) \in Seq(Labels) /\ Len(Append(c, l)) = Len(c) + 1
         /\ Number(Append(c, l), types) = Number(c, types) + (IF l \in types THEN 1 ELSE 0)
<1> DEFINE In(x) == {i \in DOMAIN x : x[i] \in types}
           n == Len(c)
           a == Append(c, l)
<1>1. /\ n \in Nat /\ DOMAIN c = 1 .. n /\ a \in Seq(Labels) /\ Len(a) = n + 1
      /\ DOMAIN a = 1 .. (n + 1) /\ a[n + 1] = l /\ \A i \in 1 .. n : a[i] = c[i]
  OBVIOUS
<1>2. In(a) = In(c) \cup (IF l \in types THEN {n + 1} ELSE {}) BY <1>1
<1>3. IsFiniteSet(In(c)) /\ n + 1 \notin In(c)
  <2>1. IsFiniteSet(1 .. n) BY <1>1, FS_Interval
  <2> QED BY <1>1, <2>1, FS_Subset
<1> HIDE DEF In
<1>4. Cardinality(In(c)) \in Nat BY <1>3, FS_CardinalityType
<1>5. Cardinality(In(a)) = Cardinality(In(c)) + (IF l \in types THEN 1 ELSE 0)
  <2>1. CASE l \in types BY <1>2, <1>3, <2>1, FS_AddElement
  <2>2. CASE l \notin types
    <3>1. In(a) = In(c) BY <1>2, <2>2
    <3> QED BY <1>4, <2>2, <3>1
  <2> QED BY <2>1, <2>2
<1> QED BY <1>1, <1>4, <1>5 DEF Number, In

\* The types that are counted.
LEMMA Kinds ==
  /\ RtpTypes \subseteq Labels /\ Verdicts \subseteq Labels
  /\ \A l \in RtpTypes : l \notin Verdicts
BY DEF Labels, RtpTypes, Verdicts

\* A direction that is a stream from now on, and counted as one.
Confirmed(f, g, d, t) ==
    /\ \A e \in Dirs \ {d} : /\ g.ucb[e].type = f.ucb[e].type
                             /\ g.counted[e] = f.counted[e]
    /\ t \in RtpTypes /\ g.ucb[d].type = t
    /\ g.counted[d] = IF conf.located THEN Append(f.counted[d], t) ELSE f.counted[d]

MayConfirm(f, g, d) ==
    \/ Fades(f, g)
    \/ f.ucb[d].type \in FirstTypes /\ \E t \in RtpTypes : Confirmed(f, g, d, t)

\* A stream that is confirmed is counted.
LEMMA ConfirmGoes ==
  ASSUME NEW f, Ready(f), NEW d \in Dirs, NEW t \in RtpTypes
  PROVE  OnlyTypes(f, Confirm(f, d, t)) /\ Confirmed(f, Confirm(f, d, t), d, t)
<1> DEFINE g == Confirm(f, d, t)
<1>1. /\ f \in ClassFlows /\ f.ucb[d] \in Ucb /\ f.ucb \in [Dirs -> Ucb]
      /\ f.counted \in [Dirs -> Seq(Labels)]
  BY DEF Ready, ClassFlows
<1>2. t \in Types /\ t \in Labels /\ t \notin SkypeTypes
  BY DEF Types, Labels, RtpTypes, SkypeTypes, SkypeFlows
<1>3. g \in ClassFlows
  <2> DEFINE b == [f.ucb[d] EXCEPT !.type = t]
             c == IF conf.located THEN Append(f.counted[d], t) ELSE f.counted[d]
  <2>1. b \in Ucb BY <1>1, <1>2 DEF Ucb
  <2>2. c \in Seq(Labels) BY <1>1, <1>2
  <2>3. g = [f EXCEPT !.ucb[d] = b, !.counted[d] = c] BY <1>1 DEF Confirm, ClassFlows
  <2> HIDE DEF b, c, g
  <2> QED BY <2>1, <2>2, <2>3, <1>1 DEF ClassFlows
<1>4. /\ \A e \in Dirs : /\ g.ucb[e].packets = f.ucb[e].packets
                         /\ g.ucb[e].early = f.ucb[e].early
                         /\ e # d => /\ g.ucb[e].type = f.ucb[e].type
                                     /\ g.counted[e] = f.counted[e]
      /\ g.ucb[d].type = t /\ g.exited = f.exited
      /\ g.counted[d] = IF conf.located THEN Append(f.counted[d], t) ELSE f.counted[d]
  BY <1>1 DEF ClassFlows, Ucb, Confirm
<1>5. UtpSame(f, g) BY <1>1 DEF ClassFlows, Ucb, UtpSame, Confirm
<1>6. VodSame(f, g) BY <1>1 DEF ClassFlows, Ucb, VodSame, Confirm
<1>7. KadSame(f, g) BY <1>1 DEF ClassFlows, Ucb, KadSame, Confirm
<1> HIDE DEF g
<1>8. Judged(g) BY <1>2, <1>4 DEF Judged, Ready
<1>9. Tallied(g)
  <2>1. g.ucb["c2s"].early = g.ucb["s2c"].early BY <1>4 DEF Ready, Tallied, Dirs
  <2>2. ASSUME NEW e \in Dirs
        PROVE  /\ Number(g.counted[e], Verdicts) <= Early(g.ucb[e])
               /\ Len(g.counted[e])
                    = Number(g.counted[e], RtpTypes) + Number(g.counted[e], Verdicts)
    <3>1. /\ Number(f.counted[e], Verdicts) <= Early(f.ucb[e])
          /\ Len(f.counted[e])
               = Number(f.counted[e], RtpTypes) + Number(f.counted[e], Verdicts)
          /\ Early(g.ucb[e]) = Early(f.ucb[e])
      BY <1>4 DEF Ready, Tallied, Early
    <3>2. CASE g.counted[e] = f.counted[e] BY <3>1, <3>2
    <3>3. CASE g.counted[e] = Append(f.counted[e], t)
      <4>1. f.counted[e] \in Seq(Labels) BY <1>1
      <4>2. t \in RtpTypes /\ t \notin Verdicts BY Kinds
      <4>3. /\ Number(g.counted[e], RtpTypes) = Number(f.counted[e], RtpTypes) + 1
            /\ Number(g.counted[e], Verdicts) = Number(f.counted[e], Verdicts) + 0
            /\ Len(g.counted[e]) = Len(f.counted[e]) + 1
            /\ Number(f.counted[e], RtpTypes) \in Nat /\ Number(f.counted[e], Verdicts) \in Nat
        BY <1>2, <3>3, <4>1, <4>2, NumberAppend
      <4> QED BY <3>1, <4>3
    <3> QED BY <1>4, <3>2, <3>3
  <2> QED BY <2>1, <2>2 DEF Tallied
<1>10. Confirmed(f, g, d, t) BY <1>4 DEF Confirmed
<1> QED BY <1>3, <1>4, <1>5, <1>6, <1>7, <1>8, <1>9, <1>10 DEF OnlyTypes, Runs, Ready, g

\* rtp_flow_stat: a stream begins, goes on, is confirmed or is over.
LEMMA RtpGoes ==
  ASSUME NEW f, Ready(f), NEW d \in Dirs, NEW p \in Payload
  PROVE  /\ OnlyTypes(f, RtpFlowStat(f, d, p))
         /\ MayConfirm(f, RtpFlowStat(f, d, p), d)
<1> DEFINE b == f.ucb[d]
<1>1. f \in ClassFlows /\ f.ucb[d] \in Ucb BY DEF Ready, ClassFlows
<1>2. {"UNKNOWN"} \cup FirstTypes \subseteq Types \ (SkypeTypes \cup RtpTypes)
  BY DEF FirstTypes, Types, SkypeTypes, RtpTypes, SkypeFlows
<1>3. CASE b.type = "UNKNOWN"
  <2>1. \E t \in {"UNKNOWN"} \cup FirstTypes, s \in Nat \X Nat :
           InitRtp(b, p) = [b EXCEPT !.type = t, !.stream = s]
    <3>1. <<p.ts, 0>> \in Nat \X Nat /\ <<p.ssrc, p.seq>> \in Nat \X Nat BY DEF Payload
    <3>2. b = [b EXCEPT !.type = "UNKNOWN", !.stream = b.stream]
          /\ b.stream \in Nat \X Nat
      BY <1>1, <1>3 DEF Ucb
    <3> QED BY <3>1, <3>2 DEF InitRtp, FirstTypes
  <2>2. PICK t \in {"UNKNOWN"} \cup FirstTypes, s \in Nat \X Nat :
           InitRtp(b, p) = [b EXCEPT !.type = t, !.stream = s]
    BY <2>1
  <2>3. RtpFlowStat(f, d, p) = [f EXCEPT !.ucb[d] = InitRtp(b, p)]
    BY <1>3 DEF RtpFlowStat, FirstTypes, RtpTypes
  <2>4. RtpFlowStat(f, d, p) = [f EXCEPT !.ucb[d] = [@ EXCEPT !.type = t, !.stream = s]] BY <2>2, <2>3
  <2>5. Retypes(f, RtpFlowStat(f, d, p), d, t) BY <2>4, <1>2, Retyped
  <2> QED BY <2>5 DEF Retypes, MayConfirm
<1>4. CASE b.type \in FirstTypes \cup RtpTypes /\ ~ Continues(b, p)
  <2>1. RtpFlowStat(f, d, p) = [f EXCEPT !.ucb[d].type = "UNKNOWN"]
    BY <1>4 DEF RtpFlowStat, FirstTypes, RtpTypes
  <2>2. RtpFlowStat(f, d, p)
          = [f EXCEPT !.ucb[d] = [@ EXCEPT !.type = "UNKNOWN", !.stream = b.stream]]
    BY <2>1, <1>1 DEF ClassFlows, Ucb
  <2>3. b.stream \in Nat \X Nat BY <1>1 DEF Ucb
  <2>4. Retypes(f, RtpFlowStat(f, d, p), d, "UNKNOWN") BY <2>2, <2>3, <1>2, Retyped
  <2> QED BY <2>4 DEF Retypes, MayConfirm
<1>5. CASE b.type \in FirstTypes /\ Continues(b, p)
  <2>1. \E t \in RtpTypes : RtpFlowStat(f, d, p) = Confirm(f, d, t)
    BY <1>5 DEF RtpFlowStat, FirstTypes, RtpTypes
  <2>2. PICK t \in RtpTypes : RtpFlowStat(f, d, p) = Confirm(f, d, t) BY <2>1
  <2>3. OnlyTypes(f, RtpFlowStat(f, d, p)) /\ Confirmed(f, RtpFlowStat(f, d, p), d, t)
    BY <2>2, ConfirmGoes
  <2> QED BY <1>5, <2>3 DEF MayConfirm
<1>6. CASE /\ b.type # "UNKNOWN" /\ b.type \notin FirstTypes
           /\ b.type \in RtpTypes => Continues(b, p)
  <2>1. RtpFlowStat(f, d, p) = f BY <1>6 DEF RtpFlowStat, FirstTypes, RtpTypes
  <2> QED BY <2>1, SameFlow DEF MayConfirm
<1> QED BY <1>3, <1>4, <1>5, <1>6

\* A judgement at most is counted, and streams stay streams.
Judging(f, g) ==
    \A e \in Dirs :
        /\ g.ucb[e].type \in RtpTypes <=> f.ucb[e].type \in RtpTypes
        /\ \/ g.counted[e] = f.counted[e]
           \/ \E l \in Verdicts : g.counted[e] = Append(f.counted[e], l)

\* The account after a judgement.
LEMMA JudgedTally ==
  ASSUME NEW f \in ClassFlows, NEW g, Tallied(f), Judging(f, g), NEW e \in Dirs
  PROVE  /\ Number(g.counted[e], RtpTypes) = Number(f.counted[e], RtpTypes)
         /\ Number(g.counted[e], Verdicts) <= Early(f.ucb[e]) + 1
         /\ Len(g.counted[e])
              = Number(g.counted[e], RtpTypes) + Number(g.counted[e], Verdicts)
         /\ Spent(g, e) = Spent(f, e)
<1> DEFINE c == f.counted[e]
<1>1. c \in Seq(Labels) /\ "no" \in Labels BY DEF ClassFlows, Labels, Verdicts
<1>2. /\ Number(c, RtpTypes) \in Nat /\ Number(c, Verdicts) \in Nat
      /\ Number(c, Verdicts) <= Early(f.ucb[e]) /\ Early(f.ucb[e]) \in Nat
      /\ Len(c) = Number(c, RtpTypes) + Number(c, Verdicts)
      /\ Stream(g.ucb[e]) = Stream(f.ucb[e])
  BY <1>1, NumberAppend DEF Tallied, Early, Judging, Stream
<1>3. CASE g.counted[e] = c BY <1>2, <1>3 DEF Spent
<1>4. CASE \E l \in Verdicts : g.counted[e] = Append(c, l)
  <2>1. PICK l \in Verdicts : g.counted[e] = Append(c, l) BY <1>4
  <2>2. /\ Number(g.counted[e], RtpTypes) = Number(c, RtpTypes)
        /\ Number(g.counted[e], Verdicts) = Number(c, Verdicts) + 1
        /\ Len(g.counted[e]) = Len(c) + 1
    BY <1>1, <1>2, <2>1, NumberAppend, Kinds
  <2> QED BY <1>2, <2>2 DEF Spent
<1> QED BY <1>3, <1>4 DEF Judging

\* A direction in which a classifier of Skype changed its own fields, and
\* the type.
Kin(b, c) ==
    /\ c \in Ucb /\ c.packets = b.packets
    /\ c.utp = b.utp /\ c.conn = b.conn /\ c.synseq = b.synseq /\ c.isUtp = b.isUtp
    /\ c.sig = b.sig /\ c.count = b.count /\ c.first = b.first /\ c.isVod = b.isVod
    /\ c.kad = b.kad /\ c.obf = b.obf /\ c.lastLen = b.lastLen

\* Giving a direction a type touches nothing the behavioural checks use.
LEMMA KinType ==
  ASSUME NEW b \in Ucb, NEW t \in Types
  PROVE  /\ Kin(b, [b EXCEPT !.type = t]) /\ [b EXCEPT !.type = t].early = b.early
         /\ [b EXCEPT !.type = t].type = t
BY DEF Ucb, Kin

\* Nor does the verdict of the Bayesian classifiers
\* (print_skype_conn_stats_UDP).
LEMMA KinVerdict ==
  ASSUME NEW b \in Ucb, NEW l \in Verdicts
  PROVE  /\ Kin(b, [b EXCEPT !.skype = l]) /\ [b EXCEPT !.skype = l].early = b.early
         /\ [b EXCEPT !.skype = l].type = b.type
BY DEF Ucb, Kin

\* Nor does marking a direction as classified early (skype.c, early
\* classification).
LEMMA KinEarly ==
  ASSUME NEW b \in Ucb
  PROVE  /\ Kin(b, [b EXCEPT !.early = TRUE]) /\ [b EXCEPT !.early = TRUE].early
         /\ [b EXCEPT !.early = TRUE].type = b.type
BY DEF Ucb, Kin

\* Directions that are kin give the same grounds to uTP, VOD and Kad.
LEMMA KinSame ==
  ASSUME NEW f \in ClassFlows, NEW g \in ClassFlows, g.kad = f.kad,
         \A e \in Dirs : Kin(f.ucb[e], g.ucb[e])
  PROVE  /\ UtpSame(f, g) /\ VodSame(f, g) /\ KadSame(f, g)
         /\ \A e \in Dirs : g.ucb[e].packets = f.ucb[e].packets
BY DEF Kin, UtpSame, VodSame, KadSame

\* print_skype_conn_stats_UDP counts the verdicts on directions with
\* packets, and touches nothing the other analysers use.
Aside(f, g) ==
    /\ g \in ClassFlows /\ Judging(f, g) /\ UtpSame(f, g) /\ VodSame(f, g) /\ KadSame(f, g)
    /\ \A e \in Dirs : /\ g.ucb[e].packets = f.ucb[e].packets
                       /\ g.ucb[e].early = f.ucb[e].early

\* print_skype_conn_stats_UDP counts the verdicts on directions with
\* packets, and leaves the types as they are.
LEMMA PrintGoes ==
  ASSUME NEW f \in ClassFlows, NEW v \in [Dirs -> Verdicts]
  PROVE  /\ Aside(f, PrintSkype(f, v)) /\ PrintSkype(f, v).exited = f.exited
<1> DEFINE yes(e) == v[e] # "no" /\ f.ucb[e].packets > 0
           u == [e \in Dirs |->
                   IF yes(e) THEN [f.ucb[e] EXCEPT !.skype = v[e]] ELSE f.ucb[e]]
           c == [e \in Dirs |->
                   IF yes(e) /\ conf.located THEN Append(f.counted[e], v[e])
                                             ELSE f.counted[e]]
           g == PrintSkype(f, v)
<1>1. g = [f EXCEPT !.ucb = u, !.counted = c] BY DEF PrintSkype
<1>2. f.ucb \in [Dirs -> Ucb] /\ f.counted \in [Dirs -> Seq(Labels)] BY DEF ClassFlows
<1>3. \A e \in Dirs : /\ Kin(f.ucb[e], u[e]) /\ u[e].early = f.ucb[e].early
                      /\ u[e].type = f.ucb[e].type
  <2>1. \A b \in Ucb : Kin(b, b) BY DEF Kin
  <2>2. SUFFICES ASSUME NEW e \in Dirs
                 PROVE  /\ Kin(f.ucb[e], u[e]) /\ u[e].early = f.ucb[e].early
                        /\ u[e].type = f.ucb[e].type
    OBVIOUS
  <2>3. CASE yes(e) BY <1>2, <2>3, KinVerdict
  <2>4. CASE ~ yes(e) BY <1>2, <2>1, <2>4
  <2> QED BY <2>3, <2>4
<1>4. c \in [Dirs -> Seq(Labels)]
  <2>1. \A e \in Dirs : v[e] \in Labels BY DEF Labels
  <2> QED BY <1>2, <2>1
<1>7. \A e \in Dirs : c[e] = f.counted[e] \/ \E l \in Verdicts : c[e] = Append(f.counted[e], l)
  OBVIOUS
<1>8. u = [e \in Dirs |-> u[e]] OBVIOUS
<1> HIDE DEF u, c
<1>9. u \in [Dirs -> Ucb]
  <2>1. \A e \in Dirs : u[e] \in Ucb BY <1>3 DEF Kin
  <2> QED BY <1>8, <2>1
<1>10. /\ g.ucb = u /\ g.counted = c /\ g.kad = f.kad /\ g.exited = f.exited
       /\ g \in ClassFlows
  BY <1>1, <1>9, <1>4 DEF ClassFlows
<1> HIDE DEF g
<1>11. UtpSame(f, g) /\ VodSame(f, g) /\ KadSame(f, g) BY <1>3, <1>10, KinSame
<1>12. \A e \in Dirs : /\ g.ucb[e].packets = f.ucb[e].packets
                       /\ g.ucb[e].early = f.ucb[e].early
                       /\ g.ucb[e].type = f.ucb[e].type
  BY <1>3, <1>10 DEF Kin
<1>13. Judging(f, g) BY <1>7, <1>10, <1>12 DEF Judging
<1> QED BY <1>10, <1>11, <1>12, <1>13 DEF Aside, g

\* skype_conn_stats_UDP: a direction that is not settled gets a type, and
\* the two are judged if one became a Skype type.
LEMMA StatsGoes ==
  ASSUME NEW f \in ClassFlows, ~ f.exited, NEW v \in [Dirs -> Verdicts],
         \A e \in Dirs : ~ Lost(f.ucb[e])
  PROVE  Aside(f, SkypeStats(f, v)) /\ ~ SkypeStats(f, v).exited
<1> DEFINE u == [e \in Dirs |->
                   IF Examined(f.ucb[e])
                   THEN [f.ucb[e] EXCEPT !.type = SkypeType(f.ucb[e])]
                   ELSE f.ucb[e]]
           g == [f EXCEPT !.exited = \E e \in Dirs : Lost(f.ucb[e]), !.ucb = u]
<1>1. f.ucb \in [Dirs -> Ucb] BY DEF ClassFlows
<1>2. \A x \in Ucb : /\ SkypeType(x) \in Types
                     /\ Examined(x) => x.type \notin RtpTypes /\ SkypeType(x) \notin RtpTypes
  <2>1. \A x \in Ucb : SkypeType(x) \in SkypeTypes \cup {"UNKNOWN", x.type}
    BY DEF SkypeType, SkypeTypes, SkypeFlows
  <2>2. \A x \in Ucb : x.type \in Types BY DEF Ucb
  <2>3. SkypeTypes \cup {"UNKNOWN"} \subseteq Types BY DEF Types
  <2>4. \A t \in SkypeTypes \cup {"UNKNOWN"} : t \notin RtpTypes BY DEF SkypeTypes, SkypeFlows, RtpTypes
  <2>5. \A x \in Ucb : Examined(x) => x.type \notin RtpTypes BY DEF Examined, Settled
  <2> QED BY <2>1, <2>2, <2>3, <2>4, <2>5
<1>3. \A e \in Dirs :
        /\ Kin(f.ucb[e], u[e]) /\ u[e].early = f.ucb[e].early
        /\ u[e].type \in RtpTypes <=> f.ucb[e].type \in RtpTypes
  <2>1. \A b \in Ucb : Kin(b, b) BY DEF Kin
  <2>2. SUFFICES ASSUME NEW e \in Dirs
                 PROVE  /\ Kin(f.ucb[e], u[e]) /\ u[e].early = f.ucb[e].early
                        /\ u[e].type \in RtpTypes <=> f.ucb[e].type \in RtpTypes
    OBVIOUS
  <2>3. CASE Examined(f.ucb[e])
    <3> DEFINE t == SkypeType(f.ucb[e])
    <3>3. f.ucb[e] \in Ucb BY <1>1
    <3>1. t \in Types /\ f.ucb[e].type \notin RtpTypes /\ t \notin RtpTypes
      BY <1>2, <2>3, <3>3
    <3>2. u[e] = [f.ucb[e] EXCEPT !.type = t] BY <2>3
    <3> HIDE DEF t, u
    <3> QED BY <3>1, <3>2, <3>3, KinType
  <2>4. CASE ~ Examined(f.ucb[e]) BY <1>1, <2>1, <2>4
  <2> QED BY <2>3, <2>4
<1>8. ~ (\E e \in Dirs : Lost(f.ucb[e])) OBVIOUS
<1>9. u = [e \in Dirs |-> u[e]] OBVIOUS
<1> HIDE DEF u
<1>10. u \in [Dirs -> Ucb]
  <2>1. \A e \in Dirs : u[e] \in Ucb BY <1>3 DEF Kin
  <2> QED BY <1>9, <2>1
<1>11. /\ g \in ClassFlows /\ g.ucb = u /\ g.counted = f.counted /\ g.kad = f.kad
       /\ ~ g.exited
  BY <1>8, <1>10 DEF ClassFlows
<1> HIDE DEF g
<1>12. UtpSame(f, g) /\ VodSame(f, g) /\ KadSame(f, g) BY <1>3, <1>11, KinSame
<1>15. \A e \in Dirs : /\ g.ucb[e].packets = f.ucb[e].packets
                       /\ g.ucb[e].early = f.ucb[e].early
                       /\ g.ucb[e].type \in RtpTypes <=> f.ucb[e].type \in RtpTypes
  BY <1>3, <1>11 DEF Kin
<1>16. Judging(f, g) BY <1>11, <1>15 DEF Judging
<1>17. Aside(f, g) BY <1>11, <1>12, <1>15, <1>16 DEF Aside
<1>18. Aside(g, PrintSkype(g, v)) /\ ~ PrintSkype(g, v).exited BY <1>11, PrintGoes
<1>19. Aside(f, PrintSkype(g, v)) BY <1>11, <1>17, <1>18 DEF Aside, Judging, UtpSame, VodSame, KadSame
<1>20. SkypeStats(f, v) = g \/ SkypeStats(f, v) = PrintSkype(g, v) BY DEF SkypeStats, g, u
<1> QED BY <1>11, <1>17, <1>18, <1>19, <1>20

\* skype_flow_stat counts the packet, and after 20 seconds judges.
LEMMA SkypeGoes ==
  ASSUME NEW f, Ready(f), NEW d \in Dirs, NEW p \in Payload, NEW v \in [Dirs -> Verdicts]
  PROVE  /\ OnlyTypes(f, SkypeFlowStat(f, d, p, v))
         /\ \A e \in Dirs : Spent(SkypeFlowStat(f, d, p, v), e) = Spent(f, e)
<1> DEFINE k == SkypePkt(f.ucb[d], p)
           n == f.ucb[d].num[k] + 1
           num == [f.ucb[d].num EXCEPT ![k] = n]
           b == [f.ucb[d] EXCEPT !.num = num, !.block = p.block]
           g == [f EXCEPT !.ucb[d].num[SkypePkt(f.ucb[d], p)] = @ + 1,
                          !.ucb[d].block = p.block]
           marked == [e \in Dirs |-> [g.ucb[e] EXCEPT !.early = TRUE]]
           h == [g EXCEPT !.ucb = marked]
<1>1. f \in ClassFlows /\ f.ucb \in [Dirs -> Ucb] /\ f.ucb[d] \in Ucb BY DEF Ready, ClassFlows
<1>2. k \in SkypePkts /\ p.block \in Nat BY DEF SkypePkt, SkypePkts, Payload
<1>3. SkypeFlowStat(f, d, p, v)
        = IF ~ conf.bayes THEN f
          ELSE IF EarlyTime(g, d) THEN SkypeStats(h, v) ELSE g
  BY DEF SkypeFlowStat
<1>4. g = [f EXCEPT !.ucb[d] = b] BY <1>1 DEF ClassFlows, Ucb
<1>5. marked = [e \in Dirs |-> [g.ucb[e] EXCEPT !.early = TRUE]] OBVIOUS
<1> HIDE DEF k
<1>6. n \in Nat /\ f.ucb[d].num \in [SkypePkts -> Nat] BY <1>1, <1>2 DEF Ucb
<1> HIDE DEF n
<1>7. num \in [SkypePkts -> Nat] BY <1>6
<1> HIDE DEF num, g, marked
<1>8. Kin(f.ucb[d], b) /\ b.early = f.ucb[d].early /\ b.type = f.ucb[d].type BY <1>1, <1>2, <1>7 DEF Ucb, Kin
<1> HIDE DEF b
<1>9. b \in Ucb /\ \A x \in Ucb : Kin(x, x) BY <1>8 DEF Kin
<1>10. /\ g \in ClassFlows /\ g.kad = f.kad /\ g.counted = f.counted /\ g.exited = f.exited
       /\ \A e \in Dirs : g.ucb[e] = IF e = d THEN b ELSE f.ucb[e]
  BY <1>1, <1>4, <1>9, OneDir
<1>11. UtpSame(f, g) /\ VodSame(f, g) /\ KadSame(f, g) BY <1>1, <1>8, <1>9, <1>10, KinSame
<1>12. Goes(f, g) BY <1>8, <1>10, AlikeGoes DEF Alike, Kin
<1>13. OnlyTypes(f, g) BY <1>11, <1>12 DEF OnlyTypes, Goes
<1>15. \A e \in Dirs : Spent(g, e) = Spent(f, e) BY <1>8, <1>10 DEF Spent, Stream
<1>14. ASSUME EarlyTime(g, d)
       PROVE  /\ OnlyTypes(f, SkypeStats(h, v))
              /\ \A e \in Dirs : Spent(SkypeStats(h, v), e) = Spent(f, e)
  <2>1. g.ucb \in [Dirs -> Ucb] BY <1>10 DEF ClassFlows
  <2>2. \A e \in Dirs : /\ Kin(g.ucb[e], marked[e]) /\ marked[e].type = g.ucb[e].type
                        /\ marked[e].early
    BY <1>5, <2>1, KinEarly
  <2>3. marked \in [Dirs -> Ucb]
    <3>1. \A e \in Dirs : [g.ucb[e] EXCEPT !.early = TRUE] \in Ucb BY <2>1, KinEarly DEF Kin
    <3> QED BY <1>5, <3>1
  <2>6. /\ h \in ClassFlows /\ h.ucb = marked /\ h.kad = g.kad /\ h.counted = g.counted
        /\ h.exited = g.exited
    BY <1>10, <2>3 DEF ClassFlows
  <2> HIDE DEF h
  <2>7. /\ UtpSame(g, h) /\ VodSame(g, h) /\ KadSame(g, h)
        /\ \A e \in Dirs : h.ucb[e].packets = g.ucb[e].packets
    BY <1>10, <2>2, <2>6, KinSame
  <2>8. /\ ~ h.exited /\ Tallied(g)
        /\ \A e \in Dirs : Early(g.ucb[e]) = 0 /\ Early(h.ucb[e]) = 1
    <3>1. ~ g.exited /\ Tallied(g) BY <1>12 DEF Goes, Runs, Ready
    <3>2. \A e \in Dirs : ~ g.ucb[e].early BY <1>14, <3>1 DEF EarlyTime, Tallied, Dirs
    <3> QED BY <2>2, <2>6, <3>1, <3>2 DEF Early
  <2>9. \A e \in Dirs : ~ Lost(h.ucb[e]) BY <2>2, <2>6 DEF Lost
  <2> DEFINE z == SkypeStats(h, v)
  <2>10. Aside(h, z) /\ ~ z.exited BY <2>6, <2>8, <2>9, StatsGoes
  <2> HIDE DEF z
  <2>11. Judged(z) BY <2>2, <2>6, <2>10 DEF Judged, Aside
  <2>12. Judging(g, z) BY <2>2, <2>6, <2>10 DEF Judging, Aside
  <2>13. Tallied(z)
    <3>1. z.ucb["c2s"].early /\ z.ucb["s2c"].early BY <2>2, <2>6, <2>10 DEF Aside, Dirs
    <3>2. \A e \in Dirs : Early(z.ucb[e]) = 1 BY <3>1 DEF Early, Dirs
    <3>3. \A e \in Dirs : Early(g.ucb[e]) + 1 = 1 BY <2>8
    <3> QED BY <1>10, <2>8, <2>12, <3>1, <3>2, <3>3, JudgedTally DEF Tallied
  <2>14. Runs(f, z) BY <1>12, <2>7, <2>10, <2>11, <2>13 DEF Goes, Runs, Ready, Aside
  <2>15. \A e \in Dirs : Spent(z, e) = Spent(f, e) BY <1>10, <1>15, <2>8, <2>12, JudgedTally
  <2> QED BY <1>11, <2>7, <2>10, <2>14, <2>15 DEF OnlyTypes, Aside, UtpSame, VodSame, KadSame, z
<1> QED BY <1>3, <1>13, <1>14, <1>15, SameFlow

Both(f, d, b, o) == [f EXCEPT !.ucb[d] = b, !.ucb[Other(d)] = o]
HasBoth(f, g, d, b, o) ==
    /\ g \in ClassFlows /\ g.ucb[d] = b /\ g.ucb[Other(d)] = o
    /\ g.kad = f.kad /\ g.counted = f.counted /\ g.exited = f.exited

\* Both writes the two directions it is given.
LEMMA TwoDirs ==
  ASSUME NEW f \in ClassFlows, NEW d \in Dirs, NEW b \in Ucb, NEW o \in Ucb
  PROVE  HasBoth(f, Both(f, d, b, o), d, b, o)
BY Others DEF ClassFlows, Both, HasBoth

\* What the check of a direction needs from the one it is given, and keeps.
LEMMA PairOf ==
  ASSUME NEW f, NEW d \in Dirs
  PROVE  Pair(f) <=>
           LET b == f.ucb[d]
               o == f.ucb[Other(d)]
           IN  /\ b.utp \in UtpSent => o.utp = Seen(b.utp)
               /\ o.utp \in UtpSent => b.utp = Seen(o.utp)
               /\ b.utp \in UtpSeen => o.utp \in UtpSent
               /\ o.utp \in UtpSeen => b.utp \in UtpSent
               /\ b.isUtp = o.isUtp /\ b.isVod = o.isVod
BY Others DEF Pair

\* The grounds of uTP, told from the direction of a packet and the other
\* one.
LEMMA UtpGroundsOf ==
  ASSUME NEW f, NEW s, NEW d \in Dirs, Pair(f)
  PROVE  UtpGrounds(f, s) <=>
           LET b == f.ucb[d]
               o == f.ucb[Other(d)]
           IN  IF b.isUtp
               THEN \E e \in Dirs : \E p \in s[e], q \in s[Other(e)] : UtpAnswer(p, q)
               ELSE /\ b.utp \in UtpSent => \E q \in s[d] : Opened(b, q)
                    /\ o.utp \in UtpSent => \E q \in s[Other(d)] : Opened(o, q)
<1>1. f.ucb["c2s"].isUtp = f.ucb[d].isUtp BY Others DEF Pair
<1>2. \A e \in Dirs : e = d \/ e = Other(d) BY Others
<1>3. Other(d) \in Dirs BY Others
<1> QED BY <1>1, <1>2, <1>3 DEF UtpGrounds

\* The states of a side after it sent a header, and of the other one.
LEMMA SentSeen ==
  ASSUME NEW u \in UtpHeaders
  PROVE  /\ SentState(u) \in UtpSent /\ SentState(u) \in UtpStates
         /\ Seen(SentState(u)) \in UtpSeen /\ Seen(SentState(u)) \in UtpStates
         /\ SentState(u) \notin UtpSeen /\ Seen(SentState(u)) \notin UtpSent
         /\ u = "data" <=> SentState(u) = "DATA_SENT"
         /\ u = "state" <=> SentState(u) = "ACK_SENT"
         /\ u = "syn" <=> SentState(u) = "SYN_SENT"
BY DEF UtpHeaders, SentState, UtpSent, UtpSeen, UtpStates, Seen

\* check_uTP keeps the two directions a pair, and what it remembers of a
\* side and what it concludes are grounded in packets that were sent.
UtpGoes(f, g, s) ==
    Goes(f, g) /\ Pair(g) /\ UtpGrounds(g, s) /\ VodSame(f, g) /\ KadSame(f, g)

\* check_uTP on a packet that opens or repeats a half handshake.
LEMMA CheckUtpOpens ==
  ASSUME NEW f, Ready(f), Pair(f), NEW d \in Dirs, NEW p \in Payload,
         NEW s \in [Dirs -> SUBSET Payload], UtpGrounds(f, s), p \in s[d],
         ~ f.ucb[d].isUtp, UtpOpens(f.ucb[d], p)
  PROVE  UtpGoes(f, CheckUtp(f, d, p), s)
<1> DEFINE b == f.ucb[d]
           o == f.ucb[Other(d)]
           y == IF p.utp = "syn" THEN p.useq ELSE b.synseq
           b2 == [b EXCEPT !.utp = SentState(p.utp), !.conn = p.conn, !.synseq = y]
           o2 == [o EXCEPT !.utp = Seen(SentState(p.utp))]
           g == CheckUtp(f, d, p)
<1>1. f \in ClassFlows /\ f.ucb \in [Dirs -> Ucb] /\ b \in Ucb /\ o \in Ucb BY Others DEF Ready, ClassFlows
<1>2. p.utp \in UtpHeaders BY DEF UtpOpens, UtpHeaders
<1>3. g = Both(f, d, b2, o2)
  <2> DEFINE f1 == [f EXCEPT !.ucb[d].utp = SentState(p.utp), !.ucb[d].conn = p.conn,
                             !.ucb[d].synseq = IF p.utp = "syn" THEN p.useq ELSE @]
  <2>1. Other(d) \in Dirs /\ Other(d) # d BY Others
  <2>2. g = [f1 EXCEPT !.ucb[Other(d)].utp = Seen(SentState(p.utp))] BY DEF CheckUtp
  <2>3. f1 = [f EXCEPT !.ucb[d] = b2] BY <1>1, ZenonT(60) DEF ClassFlows, Ucb
  <2>4. f1.ucb[Other(d)] = o BY <1>1, <2>1, <2>3 DEF ClassFlows
  <2> HIDE DEF f1, b2, g
  <2>5. g = [f1 EXCEPT !.ucb[Other(d)] = o2] BY <2>2, <2>4
  <2> QED BY <2>3, <2>5 DEF Both
<1>4. y \in Nat /\ p.conn \in Nat BY <1>1 DEF Ucb, Payload
<1>5. (p.utp = "syn" => y = p.useq) OBVIOUS
<1> HIDE DEF y
<1>6. /\ SentState(p.utp) \in UtpStates /\ Seen(SentState(p.utp)) \in UtpStates BY <1>2, SentSeen
<1>7. /\ b2 \in Ucb /\ b2.utp = SentState(p.utp) /\ b2.conn = p.conn /\ b2.synseq = y
      /\ b2.isUtp = b.isUtp /\ b2.isVod = b.isVod
      /\ b2.type = b.type /\ b2.packets = b.packets /\ b2.early = b.early
  BY <1>1, <1>4, <1>6 DEF Ucb
<1>8. /\ o2 \in Ucb /\ o2.utp = Seen(SentState(p.utp))
      /\ o2.isUtp = o.isUtp /\ o2.isVod = o.isVod
      /\ o2.type = o.type /\ o2.packets = o.packets /\ o2.early = o.early
  BY <1>1, <1>6 DEF Ucb
<1>9. /\ b2.sig = b.sig /\ b2.count = b.count /\ b2.first = b.first
      /\ b2.kad = b.kad /\ b2.obf = b.obf /\ b2.lastLen = b.lastLen
  BY <1>1 DEF Ucb
<1>10. /\ o2.sig = o.sig /\ o2.count = o.count /\ o2.first = o.first
       /\ o2.kad = o.kad /\ o2.obf = o.obf /\ o2.lastLen = o.lastLen
  BY <1>1 DEF Ucb
<1> HIDE DEF b2, o2, g
<1>11. /\ g \in ClassFlows /\ g.ucb[d] = b2 /\ g.ucb[Other(d)] = o2
       /\ g.kad = f.kad /\ g.counted = f.counted /\ g.exited = f.exited
  <2>1. HasBoth(f, g, d, b2, o2) BY <1>1, <1>3, <1>7, <1>8, TwoDirs
  <2> QED BY <2>1 DEF HasBoth
<1>12. \A e \in Dirs : e = d \/ e = Other(d) BY Others
<1>13. Goes(f, g) BY <1>7, <1>8, <1>11, <1>12, AlikeGoes DEF Alike
<1>14. VodSame(f, g) /\ KadSame(f, g) BY <1>7, <1>8, <1>9, <1>10, <1>11, <1>12 DEF VodSame, KadSame
<1>15. Pair(g) BY <1>2, <1>7, <1>8, <1>11, PairOf, SentSeen
<1>16. UtpGrounds(g, s)
  <2>1. Opened(b2, p) BY <1>2, <1>5, <1>7 DEF Opened
  <2>2. o2.utp \notin UtpSent BY <1>2, <1>8, SentSeen
  <2> QED BY <1>7, <1>11, <1>15, <2>1, <2>2, UtpGroundsOf
<1> QED BY <1>13, <1>14, <1>15, <1>16 DEF UtpGoes, g

\* check_uTP on a packet that answers the half handshake of the other
\* direction.
LEMMA CheckUtpAnswers ==
  ASSUME NEW f, Ready(f), Pair(f), NEW d \in Dirs, NEW p \in Payload,
         NEW s \in [Dirs -> SUBSET Payload], UtpGrounds(f, s), p \in s[d],
         ~ f.ucb[d].isUtp, ~ UtpOpens(f.ucb[d], p),
         UtpAnswers(f.ucb[d], f.ucb[Other(d)], p)
  PROVE  UtpGoes(f, CheckUtp(f, d, p), s)
<1> DEFINE b == f.ucb[d]
           o == f.ucb[Other(d)]
           b2 == [b EXCEPT !.isUtp = TRUE, !.type = UtpType(b.type), !.conn = p.conn]
           o2 == [o EXCEPT !.isUtp = TRUE, !.type = UtpType(o.type)]
           g == CheckUtp(f, d, p)
<1>1. f \in ClassFlows /\ f.ucb \in [Dirs -> Ucb] /\ b \in Ucb /\ o \in Ucb BY Others DEF Ready, ClassFlows
<1>2. g = Both(f, d, b2, o2) BY <1>1 DEF CheckUtp, UtpAgreed, Ucb, Both
<1>3. /\ \A t : UtpType(t) \in Types \ (SkypeTypes \cup RtpTypes)
      /\ p.conn \in Nat
  BY DEF UtpType, Types, SkypeTypes, SkypeFlows, RtpTypes, P2pTypes, Payload
<1>7. /\ b2 \in Ucb /\ b2.utp = b.utp /\ b2.isUtp = TRUE /\ b2.isVod = b.isVod
      /\ b2.type = UtpType(b.type) /\ b2.packets = b.packets /\ b2.early = b.early
  BY <1>1, <1>3 DEF Ucb
<1>8. /\ o2 \in Ucb /\ o2.utp = o.utp /\ o2.isUtp = TRUE /\ o2.isVod = o.isVod
      /\ o2.type = UtpType(o.type) /\ o2.packets = o.packets /\ o2.early = o.early
  BY <1>1, <1>3 DEF Ucb
<1>9. /\ b2.sig = b.sig /\ b2.count = b.count /\ b2.first = b.first
      /\ b2.kad = b.kad /\ b2.obf = b.obf /\ b2.lastLen = b.lastLen
  BY <1>1 DEF Ucb
<1>10. /\ o2.sig = o.sig /\ o2.count = o.count /\ o2.first = o.first
       /\ o2.kad = o.kad /\ o2.obf = o.obf /\ o2.lastLen = o.lastLen
  BY <1>1 DEF Ucb
<1> HIDE DEF b2, o2, g
<1>11. /\ g \in ClassFlows /\ g.ucb[d] = b2 /\ g.ucb[Other(d)] = o2
       /\ g.kad = f.kad /\ g.counted = f.counted /\ g.exited = f.exited
  <2>1. HasBoth(f, g, d, b2, o2) BY <1>1, <1>2, <1>7, <1>8, TwoDirs
  <2> QED BY <2>1 DEF HasBoth
<1>12. \A e \in Dirs : e = d \/ e = Other(d) BY Others
<1>13. Goes(f, g) BY <1>3, <1>7, <1>8, <1>11, <1>12, AlikeGoes DEF Alike
<1>14. VodSame(f, g) /\ KadSame(f, g) BY <1>7, <1>8, <1>9, <1>10, <1>11, <1>12 DEF VodSame, KadSame
<1>15. Pair(g)
  <2>1. /\ b.utp \in UtpSent => o.utp = Seen(b.utp)
        /\ o.utp \in UtpSent => b.utp = Seen(o.utp)
        /\ b.utp \in UtpSeen => o.utp \in UtpSent
        /\ o.utp \in UtpSeen => b.utp \in UtpSent
        /\ b.isVod = o.isVod
    BY PairOf
  <2>2. b2.utp = b.utp /\ o2.utp = o.utp /\ b2.isVod = o2.isVod /\ b2.isUtp = o2.isUtp BY <1>7, <1>8, <2>1
  <2> QED BY <1>11, <2>1, <2>2, PairOf
<1>16. \E q \in s[Other(d)] : UtpAnswer(q, p)
  <2>1. /\ b.utp \in UtpSeen /\ o.utp \in UtpSent /\ b.utp = Seen(o.utp)
        /\ \E q \in s[Other(d)] : Opened(o, q)
    <3>1. b.utp \in UtpSeen BY DEF UtpAnswers, UtpSeen
    <3>2. o.utp \in UtpSent /\ b.utp = Seen(o.utp) BY <3>1, PairOf
    <3> QED BY <3>1, <3>2, UtpGroundsOf
  <2>2. PICK q \in s[Other(d)] : Opened(o, q) BY <2>1
  <2>3. /\ q.utp \in UtpHeaders /\ SentState(q.utp) = o.utp /\ q.conn = o.conn
        /\ q.utp = "syn" => q.useq = o.synseq
    BY <2>2 DEF Opened
  <2>4. q \in Payload BY Others
  <2>5. q.conn \in Nat /\ p.conn \in Nat BY <2>4 DEF Payload
  <2>6. /\ b.utp = "SYN_SEEN" => q.utp = "syn"
        /\ b.utp \in {"DATA_SEEN", "ACK_SEEN"} => q.utp \in {"data", "state"}
    BY <2>1, <2>3 DEF Seen, SentState, UtpHeaders, UtpSent
  <2>7. UtpAnswer(q, p) BY <2>3, <2>5, <2>6 DEF UtpAnswers, UtpAnswer
  <2> QED BY <2>7
<1>17. UtpGrounds(g, s)
  <2>1. Other(Other(d)) = d /\ Other(d) \in Dirs BY Others
  <2>2. \E e \in Dirs : \E x \in s[e], y \in s[Other(e)] : UtpAnswer(x, y) BY <1>16, <2>1
  <2> QED BY <1>7, <1>11, <1>15, <2>2, UtpGroundsOf
<1> QED BY <1>13, <1>14, <1>15, <1>17 DEF UtpGoes, g

\* check_uTP on any packet keeps the grounds of uTP.
LEMMA CheckUtpGoes ==
  ASSUME NEW f, Ready(f), Pair(f), NEW d \in Dirs, NEW p \in Payload,
         NEW s \in [Dirs -> SUBSET Payload], UtpGrounds(f, s), p \in s[d]
  PROVE  UtpGoes(f, CheckUtp(f, d, p), s)
<1>1. f.ucb[d].isUtp = f.ucb[Other(d)].isUtp /\ f.ucb[d].isUtp \in BOOLEAN
  BY PairOf DEF Ready, ClassFlows, Ucb
<1>2. CASE \/ f.ucb[d].isUtp
           \/ ~ UtpOpens(f.ucb[d], p) /\ ~ UtpAnswers(f.ucb[d], f.ucb[Other(d)], p)
  <2>1. CheckUtp(f, d, p) = f BY <1>1, <1>2 DEF CheckUtp
  <2> QED BY <2>1 DEF UtpGoes, Goes, Runs, Fades, VodSame, KadSame
<1>3. CASE ~ f.ucb[d].isUtp /\ UtpOpens(f.ucb[d], p) BY <1>3, CheckUtpOpens
<1>4. CASE /\ ~ f.ucb[d].isUtp /\ ~ UtpOpens(f.ucb[d], p)
           /\ UtpAnswers(f.ucb[d], f.ucb[Other(d)], p)
  BY <1>4, CheckUtpAnswers
<1> QED BY <1>2, <1>3, <1>4

\* check_udp_vod keeps the two directions a pair, and what it remembers of
\* a direction is grounded in the packets in a row that it sent.
FollowsStreak(t, u, p) ==
    u = IF p.len # VodLen THEN <<<<0, 0>>, 0>>
        ELSE IF t[1] = Signature(p) THEN <<t[1], t[2] + 1>>
        ELSE <<Signature(p), 1>>
VodGoes(f, g, s, u) ==
    /\ Goes(f, g) /\ Pair(g) /\ UtpSame(f, g) /\ KadSame(f, g)
    /\ IF g.ucb["c2s"].isVod THEN VodFound(s, u)
       ELSE \A e \in Dirs : InARow(g.ucb[e], u[e])

\* A direction whose packet was noted by the check.
VodKin(b, c) ==
    /\ c \in Ucb /\ c.packets = b.packets /\ c.type = b.type /\ c.early = b.early
    /\ c.utp = b.utp /\ c.conn = b.conn /\ c.synseq = b.synseq /\ c.isUtp = b.isUtp
    /\ c.kad = b.kad /\ c.obf = b.obf /\ c.lastLen = b.lastLen /\ c.isVod = b.isVod

Restarted(b, z) == [b EXCEPT !.first = FALSE, !.count = 1, !.sig = z]
\* A direction whose run of MPEG signatures restarts from this packet.
LEMMA VodRestarts ==
  ASSUME NEW b \in Ucb, NEW z \in Int \X Int
  PROVE  /\ VodKin(b, Restarted(b, z)) /\ Restarted(b, z).first = FALSE
         /\ Restarted(b, z).count = 1 /\ Restarted(b, z).sig = z
<1>1. \A a \in Ucb : /\ [a EXCEPT !.sig = z] \in Ucb /\ [a EXCEPT !.sig = z].sig = z
                     /\ VodKin(a, [a EXCEPT !.sig = z])
                     /\ [a EXCEPT !.sig = z].first = a.first
                     /\ [a EXCEPT !.sig = z].count = a.count
  BY DEF Ucb, VodKin
<1>2. \A a \in Ucb : /\ [a EXCEPT !.count = 1] \in Ucb /\ [a EXCEPT !.count = 1].count = 1
                     /\ VodKin(a, [a EXCEPT !.count = 1])
                     /\ [a EXCEPT !.count = 1].first = a.first
  BY DEF Ucb, VodKin
<1>3. \A a \in Ucb : /\ [a EXCEPT !.first = FALSE] \in Ucb
                     /\ [a EXCEPT !.first = FALSE].first = FALSE
                     /\ VodKin(a, [a EXCEPT !.first = FALSE])
  BY DEF Ucb, VodKin
<1> DEFINE a1 == [b EXCEPT !.first = FALSE]
           a2 == [a1 EXCEPT !.count = 1]
           a3 == [a2 EXCEPT !.sig = z]
<1>4. Restarted(b, z) = a3 BY DEF Restarted
<1>5. a1 \in Ucb /\ a1.first = FALSE /\ VodKin(b, a1) BY <1>3
<1> HIDE DEF a1
<1>6. a2 \in Ucb /\ a2.first = a1.first /\ a2.count = 1 /\ VodKin(a1, a2) BY <1>2, <1>5
<1> HIDE DEF a2
<1>7. a3 \in Ucb /\ a3.first = a2.first /\ a3.count = a2.count /\ a3.sig = z /\ VodKin(a2, a3) BY <1>1, <1>6
<1> HIDE DEF a3
<1> QED BY <1>4, <1>5, <1>6, <1>7 DEF VodKin

\* A packet that does not settle the flow as video on demand, but keeps
\* the run of signatures true.
LEMMA VodNoted ==
  ASSUME NEW f, Ready(f), Pair(f), NEW d \in Dirs, NEW b, VodKin(f.ucb[d], b),
         NEW s, NEW t, NEW u, ~ f.ucb[d].isVod,
         \A e \in Dirs : InARow(f.ucb[e], t[e]),
         u[Other(d)] = t[Other(d)], InARow(b, u[d])
  PROVE  VodGoes(f, [f EXCEPT !.ucb[d] = b], s, u)
<1> DEFINE g == [f EXCEPT !.ucb[d] = b]
<1>1. f \in ClassFlows /\ b \in Ucb BY DEF Ready, VodKin
<1>2. /\ g \in ClassFlows /\ \A e \in Dirs : g.ucb[e] = IF e = d THEN b ELSE f.ucb[e]
      /\ g.kad = f.kad /\ g.counted = f.counted /\ g.exited = f.exited
  BY <1>1, OneDir
<1> HIDE DEF g
<1>3. UtpSame(f, g) /\ KadSame(f, g) BY <1>2 DEF VodKin, UtpSame, KadSame
<1>4. Goes(f, g) BY <1>2, AlikeGoes DEF VodKin, Alike
<1>5. Pair(g)
  <2>1. Other(d) \in Dirs /\ Other(d) # d BY Others
  <2>2. /\ g.ucb[d].utp = f.ucb[d].utp /\ g.ucb[Other(d)].utp = f.ucb[Other(d)].utp
        /\ g.ucb[d].isUtp = f.ucb[d].isUtp
        /\ g.ucb[Other(d)].isUtp = f.ucb[Other(d)].isUtp
        /\ g.ucb[d].isVod = f.ucb[d].isVod
        /\ g.ucb[Other(d)].isVod = f.ucb[Other(d)].isVod
    BY <1>2, <2>1 DEF VodKin
  <2> HIDE DEF Pair
  <2>3. /\ f.ucb[d].utp \in UtpSent => f.ucb[Other(d)].utp = Seen(f.ucb[d].utp)
        /\ f.ucb[Other(d)].utp \in UtpSent => f.ucb[d].utp = Seen(f.ucb[Other(d)].utp)
        /\ f.ucb[d].utp \in UtpSeen => f.ucb[Other(d)].utp \in UtpSent
        /\ f.ucb[Other(d)].utp \in UtpSeen => f.ucb[d].utp \in UtpSent
        /\ f.ucb[d].isUtp = f.ucb[Other(d)].isUtp
        /\ f.ucb[d].isVod = f.ucb[Other(d)].isVod
    BY PairOf
  <2> QED BY <2>2, <2>3, PairOf
<1>6. ~ g.ucb["c2s"].isVod
  <2>1. f.ucb["c2s"].isVod = f.ucb[d].isVod BY Others DEF Pair
  <2>2. g.ucb["c2s"].isVod = f.ucb["c2s"].isVod BY <1>2, Others DEF VodKin
  <2> QED BY <2>1, <2>2
<1>7. \A e \in Dirs : InARow(g.ucb[e], u[e]) BY <1>2, Others
<1> QED BY <1>3, <1>4, <1>5, <1>6, <1>7 DEF VodGoes, g

\* The packet that settles both directions as video on demand.
LEMMA VodDone ==
  ASSUME NEW f, Ready(f), Pair(f), NEW d \in Dirs, NEW b, VodKin(f.ucb[d], b),
         NEW s, NEW u, VodFound(s, u)
  PROVE  VodGoes(f, Both(f, d, [b EXCEPT !.isVod = TRUE, !.type = "UDP_VOD"],
                         [f.ucb[Other(d)] EXCEPT !.isVod = TRUE, !.type = "UDP_VOD"]), s, u)
<1> DEFINE o == f.ucb[Other(d)]
           b2 == [b EXCEPT !.isVod = TRUE, !.type = "UDP_VOD"]
           o2 == [o EXCEPT !.isVod = TRUE, !.type = "UDP_VOD"]
           g == Both(f, d, b2, o2)
<1>1. f \in ClassFlows /\ b \in Ucb /\ o \in Ucb BY Others DEF Ready, VodKin, ClassFlows
<1>2. "UDP_VOD" \in Types \ (SkypeTypes \cup RtpTypes) BY DEF Types, SkypeTypes, SkypeFlows, RtpTypes
<1>3. /\ b2 \in Ucb /\ b2.isVod = TRUE /\ b2.type = "UDP_VOD"
      /\ b2.packets = b.packets /\ b2.early = b.early
  BY <1>1, <1>2 DEF Ucb
<1>4. /\ b2.utp = b.utp /\ b2.conn = b.conn /\ b2.synseq = b.synseq /\ b2.isUtp = b.isUtp
      /\ b2.kad = b.kad /\ b2.obf = b.obf /\ b2.lastLen = b.lastLen
  BY <1>1 DEF Ucb
<1>5. /\ o2 \in Ucb /\ o2.isVod = TRUE /\ o2.type = "UDP_VOD"
      /\ o2.packets = o.packets /\ o2.early = o.early
  BY <1>1, <1>2 DEF Ucb
<1>6. /\ o2.utp = o.utp /\ o2.conn = o.conn /\ o2.synseq = o.synseq /\ o2.isUtp = o.isUtp
      /\ o2.kad = o.kad /\ o2.obf = o.obf /\ o2.lastLen = o.lastLen
  BY <1>1 DEF Ucb
<1> HIDE DEF b2, o2
<1>7. HasBoth(f, g, d, b2, o2) BY <1>1, <1>3, <1>5, TwoDirs
<1> HIDE DEF g
<1>8. /\ g \in ClassFlows /\ g.ucb[d] = b2 /\ g.ucb[Other(d)] = o2
      /\ g.kad = f.kad /\ g.counted = f.counted /\ g.exited = f.exited
  BY <1>7 DEF HasBoth
<1>9. \A e \in Dirs : e = d \/ e = Other(d) BY Others
<1>10. /\ b.packets = f.ucb[d].packets /\ b.early = f.ucb[d].early
       /\ b.utp = f.ucb[d].utp /\ b.conn = f.ucb[d].conn /\ b.synseq = f.ucb[d].synseq
       /\ b.isUtp = f.ucb[d].isUtp /\ b.kad = f.ucb[d].kad /\ b.obf = f.ucb[d].obf
       /\ b.lastLen = f.ucb[d].lastLen
  BY DEF VodKin
<1>11. Goes(f, g) BY <1>2, <1>3, <1>5, <1>8, <1>9, <1>10, AlikeGoes DEF Alike
<1>12. UtpSame(f, g) /\ KadSame(f, g) BY <1>4, <1>6, <1>8, <1>9, <1>10 DEF UtpSame, KadSame
<1>13. Pair(g)
  <2>1. /\ b.utp \in UtpSent => o.utp = Seen(b.utp)
        /\ o.utp \in UtpSent => b.utp = Seen(o.utp)
        /\ b.utp \in UtpSeen => o.utp \in UtpSent
        /\ o.utp \in UtpSeen => b.utp \in UtpSent
        /\ b.isUtp = o.isUtp
    BY <1>10, PairOf
  <2>2. b2.utp = b.utp /\ o2.utp = o.utp /\ b2.isVod = o2.isVod /\ b2.isUtp = o2.isUtp
    BY <1>3, <1>4, <1>5, <1>6, <2>1
  <2> QED BY <1>8, <2>1, <2>2, PairOf
<1>14. g.ucb["c2s"].isVod BY <1>3, <1>5, <1>8, <1>9, Others
<1> QED BY <1>11, <1>12, <1>13, <1>14 DEF VodGoes, g, b2, o2

\* The three fields of a new signature, written one by one.
NewSig(f, d, z) ==
    [f EXCEPT !.ucb[d].first = FALSE, !.ucb[d].count = 1, !.ucb[d].sig = z]
NewSigDir(f, d, z) ==
    [f EXCEPT !.ucb[d] = [f.ucb[d] EXCEPT !.first = FALSE, !.count = 1, !.sig = z]]

\* Writing a signature is writing a direction.
LEMMA SigNoted ==
  ASSUME NEW f \in ClassFlows, NEW d \in Dirs, NEW z
  PROVE  NewSig(f, d, z) = NewSigDir(f, d, z)
<1>1. f.ucb \in [Dirs -> Ucb] /\ f.ucb[d] \in Ucb BY DEF ClassFlows
<1> QED BY <1>1 DEF ClassFlows, NewSig, NewSigDir

\* check_udp_vod on any packet keeps the grounds of video on demand.
LEMMA CheckVodGoes ==
  ASSUME NEW f, Ready(f), Pair(f), NEW d \in Dirs, NEW p \in Payload, conf \in Confs,
         NEW s, p \in s[d], NEW t \in [Dirs -> Streaks], NEW u,
         IF f.ucb["c2s"].isVod THEN VodFound(s, u)
         ELSE /\ \A e \in Dirs : InARow(f.ucb[e], t[e])
              /\ u[Other(d)] = t[Other(d)] /\ FollowsStreak(t[d], u[d], p)
  PROVE  VodGoes(f, CheckVod(f, d, p), s, u)
<1> DEFINE b == f.ucb[d]
           o == f.ucb[Other(d)]
           g == CheckVod(f, d, p)
<1>1. f \in ClassFlows /\ b \in Ucb /\ o \in Ucb BY Others DEF Ready, ClassFlows
<1>2. b.isVod = o.isVod /\ b.isVod \in BOOLEAN /\ f.ucb["c2s"].isVod = b.isVod
  BY <1>1, Others, PairOf DEF Pair, Ucb
<1>3. CASE b.isVod
  <2>1. g = f BY <1>2, <1>3 DEF CheckVod
  <2> HIDE DEF g
  <2> QED BY <1>2, <1>3, <2>1 DEF VodGoes, Goes, Runs, Fades, UtpSame, KadSame, g
<1>4. ASSUME ~ b.isVod
      PROVE  VodGoes(f, g, s, u)
  <2>1. /\ \A e \in Dirs : InARow(f.ucb[e], t[e])
        /\ u[Other(d)] = t[Other(d)] /\ FollowsStreak(t[d], u[d], p)
    BY <1>2, <1>4
  <2>2. InARow(b, t[d]) /\ t[d] \in Streaks /\ t[d][1] \in Int \X Int /\ t[d][2] \in Nat BY <2>1 DEF Streaks
  <2>3. /\ b.count \in 0 .. 3 /\ b.count <= 2 /\ b.sig \in Int \X Int /\ b.first \in BOOLEAN
        /\ ~ b.first /\ b.count # 0 =>
              /\ t[d][2] >= b.count
              /\ t[d][1] = <<b.sig[1], IF conf.snap THEN b.sig[2] ELSE -1>>
    BY <1>1, <2>2 DEF InARow, Ucb
  <2>4. /\ p.sig \in Nat \X Nat /\ Signature(p) \in Int \X Int
        /\ Signature(p) = <<p.sig[1], IF conf.snap THEN p.sig[2] ELSE -1>>
        /\ conf.snap \in BOOLEAN
    BY UdpClassAssumption DEF Payload, Signature
  <2>5. \A c : (VodKin(b, c) /\ InARow(c, u[d])) =>
                  VodGoes(f, [f EXCEPT !.ucb[d] = c], s, u)
    BY <1>4, <2>1, VodNoted
  <2>6. CASE p.len # VodLen \/ (~ MpegCell(p) /\ ~ b.first /\ ~ SameSignature(b, p))
    <3> DEFINE c == [b EXCEPT !.first = TRUE]
    <3>1. g = [f EXCEPT !.ucb[d].first = TRUE] BY <1>2, <1>4, <2>6 DEF CheckVod, MpegCell
    <3>2. g = [f EXCEPT !.ucb[d] = c] BY <3>1
    <3>3. VodKin(b, c) /\ c.first = TRUE /\ c.count = b.count BY <1>1 DEF VodKin, Ucb
    <3> HIDE DEF c, g
    <3>4. InARow(c, u[d]) BY <2>3, <3>3 DEF InARow
    <3> QED BY <2>5, <3>2, <3>3, <3>4
  <2>7. CASE MpegCell(p)
    <3> DEFINE c == [b EXCEPT !.first = FALSE]
    <3>1. g = Both(f, d, [c EXCEPT !.isVod = TRUE, !.type = "UDP_VOD"],
                         [o EXCEPT !.isVod = TRUE, !.type = "UDP_VOD"])
      BY <1>2, <1>4, <2>7 DEF CheckVod, MpegCell, Both
    <3>2. VodKin(b, c) BY <1>1 DEF VodKin, Ucb
    <3>3. VodFound(s, u) BY <2>7 DEF VodFound
    <3> HIDE DEF c, g
    <3> QED BY <3>1, <3>2, <3>3, VodDone
  <2>8. CASE p.len = VodLen /\ ~ MpegCell(p) /\ b.first
    <3> DEFINE z == Signature(p)
               c == [b EXCEPT !.first = FALSE, !.count = 1, !.sig = z]
    <3>1. g = [f EXCEPT !.ucb[d].first = FALSE, !.ucb[d].count = 1,
                        !.ucb[d].sig = Signature(p)]
      BY <1>2, <1>4, <2>8 DEF CheckVod
    <3>2. g = [f EXCEPT !.ucb[d] = c]
      <4>1. f \in ClassFlows /\ d \in Dirs BY <1>1
      <4>2. g = NewSig(f, d, z) BY <3>1 DEF NewSig
      <4>3. NewSigDir(f, d, z) = [f EXCEPT !.ucb[d] = c] BY DEF NewSigDir
      <4> HIDE DEF c, g, z
      <4> QED BY <4>1, <4>2, <4>3, SigNoted
    <3>5. z \in Int \X Int /\ z = Signature(p) BY <2>4
    <3> HIDE DEF z
    <3>3. VodKin(b, c) /\ c.first = FALSE /\ c.count = 1 /\ c.sig = z
      <4>1. b \in Ucb BY <1>1
      <4> QED BY <4>1, <3>5, VodRestarts DEF Restarted
    <3>4. u[d][1] = Signature(p) /\ u[d][2] >= 1 BY <2>1, <2>2, <2>8 DEF FollowsStreak
    <3> HIDE DEF c, g
    <3>6. InARow(c, u[d]) BY <2>4, <3>3, <3>4, <3>5 DEF InARow
    <3> QED BY <2>5, <3>2, <3>3, <3>6
  <2>9. ASSUME p.len = VodLen, ~ b.first, SameSignature(b, p)
        PROVE  /\ u[d][1] = Signature(p) /\ u[d][2] \in Nat /\ u[d][2] >= b.count + 1
               /\ Signature(p) = <<b.sig[1], IF conf.snap THEN b.sig[2] ELSE -1>>
    <3>1. Signature(p) = <<b.sig[1], IF conf.snap THEN b.sig[2] ELSE -1>> BY <2>4, <2>9 DEF SameSignature
    <3>2. CASE b.count = 0 BY <2>1, <2>2, <2>9, <3>1, <3>2 DEF FollowsStreak
    <3>3. CASE b.count # 0
      <4>1. t[d][1] = Signature(p) /\ t[d][2] >= b.count BY <2>3, <2>9, <3>1, <3>3
      <4>2. u[d] = <<t[d][1], t[d][2] + 1>> BY <2>1, <2>9, <4>1 DEF FollowsStreak
      <4> QED BY <2>2, <2>3, <3>1, <4>1, <4>2
    <3> QED BY <3>2, <3>3
  <2>10. CASE p.len = VodLen /\ ~ MpegCell(p) /\ ~ b.first /\ SameSignature(b, p) /\ b.count + 1 = 3
    <3> DEFINE c == [b EXCEPT !.count = 3]
    <3>1. g = Both(f, d, [c EXCEPT !.isVod = TRUE, !.type = "UDP_VOD"],
                         [o EXCEPT !.isVod = TRUE, !.type = "UDP_VOD"])
      BY <1>2, <1>4, <2>10 DEF CheckVod, Both
    <3>2. VodKin(b, c) BY <1>1 DEF VodKin, Ucb
    <3>3. VodFound(s, u) BY <2>9, <2>10 DEF VodFound
    <3> HIDE DEF c, g
    <3> QED BY <3>1, <3>2, <3>3, VodDone
  <2>11. CASE p.len = VodLen /\ ~ MpegCell(p) /\ ~ b.first /\ SameSignature(b, p) /\ b.count + 1 # 3
    <3> DEFINE m == b.count + 1
               c == [b EXCEPT !.count = m]
    <3>1. g = [f EXCEPT !.ucb[d].count = @ + 1] BY <1>2, <1>4, <2>11 DEF CheckVod
    <3>2. g = [f EXCEPT !.ucb[d] = c] BY <1>1, <3>1 DEF ClassFlows, Ucb
    <3>3. m \in 0 .. 2 /\ u[d][2] >= m BY <2>3, <2>9, <2>11
    <3> HIDE DEF m
    <3>4. VodKin(b, c) /\ c.count = m /\ c.sig = b.sig BY <1>1, <3>3 DEF VodKin, Ucb
    <3> HIDE DEF c, g
    <3>5. InARow(c, u[d]) BY <2>9, <2>11, <3>3, <3>4 DEF InARow
    <3> QED BY <2>5, <3>2, <3>4, <3>5
  <2> QED BY <2>6, <2>7, <2>8, <2>10, <2>11
<1> QED BY <1>3, <1>4

\* An analyser that leaves them alone keeps the directions a pair.
LEMMA PairSame ==
  ASSUME NEW f, NEW g, Pair(f), UtpSame(f, g), VodSame(f, g)
  PROVE  Pair(g)
BY Others DEF Pair, UtpSame, VodSame

\* check_udp_obfuscate: what it remembers of a side and what it concludes
\* are grounded in packets that were sent.
KadGoes(f, g, s) == Goes(f, g) /\ UtpSame(f, g) /\ VodSame(f, g) /\ KadGrounds(g, s)

\* A verdict on a pair of lengths rests on a request that was sent.
LEMMA VerdictGrounds ==
  ASSUME NEW o \in Ucb, NEW p \in Payload, NEW S \in SUBSET Payload,
         o.lastLen # 0 => \E q \in S : q.len = o.lastLen,
         o.kad \in KadRequests => \E q \in S : Asked(o, q),
         KadVerdict(o, p.len) # "UNKNOWN"
  PROVE  /\ KadVerdict(o, p.len) \in KadReplies
         /\ \E q \in S : KadLengths(KadVerdict(o, p.len), q, p)
<1>1. KadVerdict(o, p.len) \in KadReplies BY DEF KadVerdict, KadReplies
<1>2. o.lastLen \in Nat /\ p.len \in Nat BY DEF Ucb, Payload
<1>3. CASE p.len = 22 /\ o.lastLen \in 36 .. 70
  <2>1. ~ Multiple(p.len, 52) /\ ~ Multiple(p.len, 68) BY <1>3 DEF Multiple
  <2>2. KadVerdict(o, p.len) = "SIZEX_22" BY <1>3, <2>1 DEF KadVerdict
  <2>3. \E q \in S : q.len = o.lastLen BY <1>2, <1>3
  <2> QED BY <1>1, <1>3, <2>2, <2>3 DEF KadLengths
<1>4. CASE ~ (p.len = 22 /\ o.lastLen \in 36 .. 70)
           /\ Multiple(p.len, 52) /\ o.kad = "REQ43"
  <2>1. KadVerdict(o, p.len) = "RES52_K25"
    <3>1. p.len # 22 BY <1>2, <1>4 DEF Multiple
    <3>2. ~ (Multiple(p.len, 68) /\ o.kad = "REQ59") BY <1>4
    <3>3. p.len \notin (46 .. 57) \ {52} BY <1>2, <1>4 DEF Multiple
    <3> QED BY <1>4, <3>1, <3>2, <3>3 DEF KadVerdict
  <2>2. \E q \in S : q.len = 43 BY <1>4 DEF KadRequests, Asked
  <2> QED BY <1>1, <1>4, <2>1, <2>2 DEF KadLengths
<1>5. CASE p.len = 52 /\ o.kad # "REQ43" /\ o.lastLen \in 46 .. 57
  <2>1. KadVerdict(o, p.len) = "SIZEX_52" BY <1>2, <1>5 DEF KadVerdict, Multiple
  <2>2. \E q \in S : q.len = o.lastLen BY <1>2, <1>5
  <2> QED BY <1>1, <1>5, <2>1, <2>2 DEF KadLengths
<1>6. CASE /\ ~ (p.len = 22 /\ o.lastLen \in 36 .. 70)
           /\ ~ (Multiple(p.len, 52) /\ o.kad = "REQ43")
           /\ Multiple(p.len, 68) /\ o.kad = "REQ59"
  <2>1. KadVerdict(o, p.len) = "RES68_K25"
    <3>1. p.len >= 68 BY <1>2, <1>6 DEF Multiple
    <3> QED BY <1>2, <1>6, <3>1 DEF KadVerdict
  <2>2. \E q \in S : q.len = 59 BY <1>6 DEF KadRequests, Asked
  <2> QED BY <1>1, <1>6, <2>1, <2>2 DEF KadLengths
<1>7. CASE p.len \in (46 .. 57) \ {52} /\ o.lastLen \in 46 .. 57
  <2>1. ~ Multiple(p.len, 52) /\ ~ Multiple(p.len, 68) /\ p.len # 22 BY <1>2, <1>7 DEF Multiple
  <2>2. KadVerdict(o, p.len) = "SIZE_IN_46_57" BY <1>7, <2>1 DEF KadVerdict
  <2>3. \E q \in S : q.len = o.lastLen BY <1>2, <1>7
  <2> QED BY <1>1, <1>7, <2>2, <2>3 DEF KadLengths
<1> QED BY <1>3, <1>4, <1>5, <1>6, <1>7 DEF KadVerdict

\* The record of a flow after its two directions and its verdict changed.
Changed(f, d, b, o, v) ==
    [f EXCEPT !.kad = v, !.ucb = [e \in Dirs |-> IF e = d THEN b ELSE o]]

\* What the check does to the flow, whatever the packet is.
KadNext(f, d, len, k, l, x, v) ==
    Changed(f, d, [f.ucb[d] EXCEPT !.lastLen = len, !.kad = k],
                  [f.ucb[Other(d)] EXCEPT !.kad = l, !.obf = x], v)
KadNextIs(f, g, d, len, k, l, x, v) ==
    /\ Goes(f, g) /\ UtpSame(f, g) /\ VodSame(f, g) /\ g.kad = v
    /\ g.ucb[d].lastLen = len /\ g.ucb[d].kad = k /\ g.ucb[d].obf = f.ucb[d].obf
    /\ g.ucb[Other(d)].lastLen = f.ucb[Other(d)].lastLen
    /\ g.ucb[Other(d)].kad = l /\ g.ucb[Other(d)].obf = x

\* What one packet writes in the two directions of an obfuscated Kad flow.
LEMMA KadNextGoes ==
  ASSUME NEW f, Ready(f), NEW d \in Dirs, NEW len \in Nat, NEW k \in KadStates,
         NEW l \in KadStates, NEW x \in BOOLEAN, NEW v \in KadVerdicts
  PROVE  KadNextIs(f, KadNext(f, d, len, k, l, x, v), d, len, k, l, x, v)
<1> DEFINE o == f.ucb[Other(d)]
           b2 == [f.ucb[d] EXCEPT !.lastLen = len, !.kad = k]
           o2 == [o EXCEPT !.kad = l, !.obf = x]
           u == [e \in Dirs |-> IF e = d THEN b2 ELSE o2]
           g == KadNext(f, d, len, k, l, x, v)
<1>1. f \in ClassFlows /\ f.ucb[d] \in Ucb /\ o \in Ucb BY Others DEF Ready, ClassFlows
<1>2. g = [f EXCEPT !.kad = v, !.ucb = u] BY DEF KadNext, Changed
<1>3. /\ b2 \in Ucb /\ b2.lastLen = len /\ b2.kad = k /\ b2.obf = f.ucb[d].obf
      /\ b2.packets = f.ucb[d].packets /\ b2.early = f.ucb[d].early
      /\ b2.type = f.ucb[d].type
  BY <1>1 DEF Ucb
<1>4. /\ b2.utp = f.ucb[d].utp /\ b2.conn = f.ucb[d].conn /\ b2.synseq = f.ucb[d].synseq
      /\ b2.isUtp = f.ucb[d].isUtp
      /\ b2.sig = f.ucb[d].sig /\ b2.count = f.ucb[d].count /\ b2.first = f.ucb[d].first
      /\ b2.isVod = f.ucb[d].isVod
  BY <1>1 DEF Ucb
<1>5. /\ o2 \in Ucb /\ o2.kad = l /\ o2.obf = x /\ o2.lastLen = o.lastLen
      /\ o2.packets = o.packets /\ o2.early = o.early /\ o2.type = o.type
  BY <1>1 DEF Ucb
<1>6. /\ o2.utp = o.utp /\ o2.conn = o.conn /\ o2.synseq = o.synseq /\ o2.isUtp = o.isUtp
      /\ o2.sig = o.sig /\ o2.count = o.count /\ o2.first = o.first /\ o2.isVod = o.isVod
  BY <1>1 DEF Ucb
<1> HIDE DEF b2, o2
<1>7. u \in [Dirs -> Ucb] /\ u[d] = b2 /\ u[Other(d)] = o2 BY <1>3, <1>5, Others
<1> HIDE DEF u
<1>8. /\ g \in ClassFlows /\ g.ucb = u /\ g.kad = v /\ g.counted = f.counted
      /\ g.exited = f.exited
  BY <1>1, <1>2, <1>7 DEF ClassFlows
<1> HIDE DEF g
<1>9. \A e \in Dirs : e = d \/ e = Other(d) BY Others
<1>10. Goes(f, g) BY <1>3, <1>5, <1>7, <1>8, <1>9, AlikeGoes DEF Alike
<1>11. UtpSame(f, g) /\ VodSame(f, g) BY <1>4, <1>6, <1>7, <1>8, <1>9 DEF UtpSame, VodSame
<1> QED BY <1>3, <1>5, <1>7, <1>8, <1>10, <1>11 DEF KadNextIs, g

\* The grounds of Kad, told from the direction of a packet and the other
\* one.
LEMMA KadGroundsOf ==
  ASSUME NEW f, NEW s, NEW d \in Dirs
  PROVE  KadGrounds(f, s) <=>
           LET b == f.ucb[d]
               o == f.ucb[Other(d)]
           IN  /\ ~ b.obf /\ ~ o.obf => f.kad = "UNKNOWN"
               /\ f.kad # "UNKNOWN" =>
                     \E e \in Dirs : \E p \in s[e], q \in s[Other(e)] :
                        KadLengths(f.kad, p, q)
               /\ b.lastLen # 0 => \E q \in s[d] : q.len = b.lastLen
               /\ o.lastLen # 0 => \E q \in s[Other(d)] : q.len = o.lastLen
               /\ b.kad \in KadRequests => \E q \in s[d] : Asked(b, q)
               /\ o.kad \in KadRequests => \E q \in s[Other(d)] : Asked(o, q)
<1>1. Other(d) \in Dirs /\ \A e \in Dirs : e = d \/ e = Other(d) BY Others
<1> QED BY <1>1 DEF KadGrounds

\* The four ways check_udp_obfuscate writes its states come to that.
LEMMA KadNotes ==
  ASSUME NEW f \in ClassFlows, NEW d \in Dirs, NEW len \in Nat,
         f.kad = "UNKNOWN", f.ucb[Other(d)].obf = FALSE
  PROVE  [f EXCEPT !.ucb[d].lastLen = len]
           = KadNext(f, d, len, f.ucb[d].kad, f.ucb[Other(d)].kad, FALSE, "UNKNOWN")
<1> DEFINE b == f.ucb[d]
           o == f.ucb[Other(d)]
           b1 == [b EXCEPT !.lastLen = len]
<1>1. /\ f.ucb \in [Dirs -> Ucb] /\ b \in Ucb /\ o \in Ucb
      /\ Other(d) # d /\ \A e \in Dirs : e = d \/ e = Other(d)
  BY Others DEF ClassFlows
<1>2. b1 = [b EXCEPT !.lastLen = len, !.kad = b.kad] BY <1>1 DEF Ucb
<1>3. o = [o EXCEPT !.kad = o.kad, !.obf = FALSE] BY <1>1 DEF Ucb
<1>4. [f EXCEPT !.ucb[d].lastLen = len] = [f EXCEPT !.ucb = [f.ucb EXCEPT ![d] = b1]] BY DEF ClassFlows
<1> HIDE DEF b1
<1>5. [f.ucb EXCEPT ![d] = b1] = [e \in Dirs |-> IF e = d THEN b1 ELSE o] BY <1>1
<1>6. KadNext(f, d, len, b.kad, o.kad, FALSE, "UNKNOWN") = Changed(f, d, b1, o, "UNKNOWN")
  BY <1>2, <1>3 DEF KadNext
<1> HIDE DEF b, o
<1>7. Changed(f, d, b1, o, "UNKNOWN")
        = [f EXCEPT !.ucb = [e \in Dirs |-> IF e = d THEN b1 ELSE o]]
  BY DEF Changed, ClassFlows
<1> QED BY <1>4, <1>5, <1>6, <1>7 DEF b, o

\* What check_udp_obfuscate writes, after it has noted the length.
Noted(f, d, len) == [f EXCEPT !.ucb[d].lastLen = len]
KadAsked(n, d, k) == [n EXCEPT !.ucb[d].kad = k]
KadFound(n, d, v) ==
    [n EXCEPT !.kad = v, !.ucb[Other(d)].kad = v, !.ucb[Other(d)].obf = TRUE]
KadForgotten(n, d, k) == [n EXCEPT !.ucb[Other(d)].kad = "UNKNOWN", !.ucb[d].kad = k]

\* A request is noted.
LEMMA KadAsks ==
  ASSUME NEW f \in ClassFlows, NEW d \in Dirs, NEW len \in Nat, NEW k,
         f.kad = "UNKNOWN", f.ucb[Other(d)].obf = FALSE
  PROVE  KadAsked(Noted(f, d, len), d, k)
           = KadNext(f, d, len, k, f.ucb[Other(d)].kad, FALSE, "UNKNOWN")
<1> DEFINE b == f.ucb[d]
           n == Noted(f, d, len)
           o == f.ucb[Other(d)]
           b2 == [b EXCEPT !.lastLen = len, !.kad = k]
<1>1. /\ f.ucb \in [Dirs -> Ucb] /\ b \in Ucb /\ o \in Ucb
      /\ Other(d) # d /\ \A e \in Dirs : e = d \/ e = Other(d)
  BY Others DEF ClassFlows
<1>2. o = [o EXCEPT !.kad = o.kad, !.obf = FALSE] BY <1>1 DEF Ucb
<1>3. KadAsked(n, d, k) = [f EXCEPT !.ucb = [f.ucb EXCEPT ![d] = b2]] BY <1>1 DEF ClassFlows, Noted, KadAsked
<1>4. KadNext(f, d, len, k, o.kad, FALSE, "UNKNOWN") = Changed(f, d, b2, o, "UNKNOWN") BY <1>2 DEF KadNext
<1> HIDE DEF b2
<1>5. [f.ucb EXCEPT ![d] = b2] = [e \in Dirs |-> IF e = d THEN b2 ELSE o] BY <1>1
<1> HIDE DEF b, o
<1>6. Changed(f, d, b2, o, "UNKNOWN")
        = [f EXCEPT !.ucb = [e \in Dirs |-> IF e = d THEN b2 ELSE o]]
  BY DEF Changed, ClassFlows
<1> QED BY <1>3, <1>4, <1>5, <1>6 DEF b, o

\* A reply is recognised.
LEMMA KadFinds ==
  ASSUME NEW f \in ClassFlows, NEW d \in Dirs, NEW len \in Nat, NEW v
  PROVE  KadFound(Noted(f, d, len), d, v) = KadNext(f, d, len, f.ucb[d].kad, v, TRUE, v)
<1> DEFINE b == f.ucb[d]
           n == Noted(f, d, len)
           o == f.ucb[Other(d)]
           b1 == [b EXCEPT !.lastLen = len]
           o2 == [o EXCEPT !.kad = v, !.obf = TRUE]
<1>1. /\ f.ucb \in [Dirs -> Ucb] /\ b \in Ucb /\ o \in Ucb /\ Other(d) \in Dirs
      /\ Other(d) # d /\ \A e \in Dirs : e = d \/ e = Other(d)
  BY Others DEF ClassFlows
<1>2. b1 = [b EXCEPT !.lastLen = len, !.kad = b.kad] BY <1>1 DEF Ucb
<1>3. n = [f EXCEPT !.ucb = [f.ucb EXCEPT ![d] = b1]] /\ n.ucb[Other(d)] = o BY <1>1 DEF ClassFlows, Noted
<1>4. KadFound(n, d, v) = [n EXCEPT !.kad = v, !.ucb = [n.ucb EXCEPT ![Other(d)] = o2]]
  BY <1>1, <1>3, ZenonT(60) DEF ClassFlows, KadFound
<1>5. KadNext(f, d, len, b.kad, v, TRUE, v) = Changed(f, d, b1, o2, v) BY <1>2 DEF KadNext
<1> HIDE DEF b1, o2
<1>6. [n.ucb EXCEPT ![Other(d)] = o2] = [e \in Dirs |-> IF e = d THEN b1 ELSE o2] BY <1>1, <1>3 DEF ClassFlows
<1> HIDE DEF b, o
<1>7. Changed(f, d, b1, o2, v)
        = [n EXCEPT !.kad = v, !.ucb = [e \in Dirs |-> IF e = d THEN b1 ELSE o2]]
  BY <1>3 DEF Changed, ClassFlows
<1> QED BY <1>4, <1>5, <1>6, <1>7 DEF b, o

\* What was remembered is forgotten.
LEMMA KadForgets ==
  ASSUME NEW f \in ClassFlows, NEW d \in Dirs, NEW len \in Nat, NEW k,
         f.kad = "UNKNOWN", f.ucb[Other(d)].obf = FALSE
  PROVE  KadForgotten(Noted(f, d, len), d, k) = KadNext(f, d, len, k, "UNKNOWN", FALSE, "UNKNOWN")
<1> DEFINE b == f.ucb[d]
           n == Noted(f, d, len)
           o == f.ucb[Other(d)]
           b1 == [b EXCEPT !.lastLen = len]
           b2 == [b EXCEPT !.lastLen = len, !.kad = k]
           o2 == [o EXCEPT !.kad = "UNKNOWN"]
<1>1. /\ f.ucb \in [Dirs -> Ucb] /\ b \in Ucb /\ o \in Ucb /\ Other(d) \in Dirs
      /\ Other(d) # d /\ \A e \in Dirs : e = d \/ e = Other(d)
  BY Others DEF ClassFlows
<1>2. o2 = [o EXCEPT !.kad = "UNKNOWN", !.obf = FALSE] BY <1>1 DEF Ucb
<1>3. /\ n = [f EXCEPT !.ucb = [f.ucb EXCEPT ![d] = b1]]
      /\ n.ucb[Other(d)] = o /\ n.ucb[d] = b1
      /\ n.ucb \in [Dirs -> {b1, o}]
  BY <1>1 DEF ClassFlows, Noted
<1>4. [b1 EXCEPT !.kad = k] = b2 BY <1>1 DEF Ucb
<1>5. KadForgotten(n, d, k)
        = [n EXCEPT !.ucb = [[n.ucb EXCEPT ![Other(d)] = o2] EXCEPT ![d] = b2]]
  <2> HIDE DEF b1, b2
  <2> QED BY <1>1, <1>3, <1>4 DEF KadForgotten
<1>6. KadNext(f, d, len, k, "UNKNOWN", FALSE, "UNKNOWN") = Changed(f, d, b2, o2, "UNKNOWN")
  BY <1>2 DEF KadNext
<1> HIDE DEF b1, b2, o2
<1>7. [[n.ucb EXCEPT ![Other(d)] = o2] EXCEPT ![d] = b2]
        = [e \in Dirs |-> IF e = d THEN b2 ELSE o2]
  BY <1>1, <1>3
<1> HIDE DEF b, o
<1>8. Changed(f, d, b2, o2, "UNKNOWN")
        = [n EXCEPT !.ucb = [e \in Dirs |-> IF e = d THEN b2 ELSE o2]]
  BY <1>3 DEF Changed, ClassFlows
<1> QED BY <1>5, <1>6, <1>7, <1>8

\* check_udp_obfuscate on any packet keeps the grounds of Kad.
LEMMA CheckObfuscateGoes ==
  ASSUME NEW f, Ready(f), NEW d \in Dirs, NEW p \in Payload,
         NEW s \in [Dirs -> SUBSET Payload], KadGrounds(f, s), p \in s[d]
  PROVE  KadGoes(f, CheckObfuscate(f, d, p), s)
<1> DEFINE b == f.ucb[d]
           o == f.ucb[Other(d)]
           verdict == KadVerdict(o, p.len)
           asks == CASE p.len = 43 -> "REQ43" [] p.len = 59 -> "REQ59" [] OTHER -> "no"
           reply == Multiple(p.len, 52) \/ Multiple(p.len, 68)
           noted == [f EXCEPT !.ucb[d].lastLen = p.len]
           g == CheckObfuscate(f, d, p)
<1>1. /\ f \in ClassFlows /\ f.ucb \in [Dirs -> Ucb] /\ b \in Ucb /\ o \in Ucb
      /\ p.len \in Nat /\ Other(d) \in Dirs /\ Other(d) # d /\ Other(Other(d)) = d
      /\ \A e \in Dirs : e = d \/ e = Other(d)
  BY Others DEF Ready, ClassFlows, Payload
<1>2. /\ b.kad \in KadStates /\ o.kad \in KadStates /\ o.obf \in BOOLEAN
      /\ b.obf \in BOOLEAN /\ f.kad \in KadVerdicts
  BY <1>1 DEF ClassFlows, Ucb
<1>3. /\ ~ b.obf /\ ~ o.obf => f.kad = "UNKNOWN"
      /\ f.kad # "UNKNOWN" =>
            \E e \in Dirs : \E x \in s[e], y \in s[Other(e)] : KadLengths(f.kad, x, y)
      /\ b.lastLen # 0 => \E q \in s[d] : q.len = b.lastLen
      /\ o.lastLen # 0 => \E q \in s[Other(d)] : q.len = o.lastLen
      /\ b.kad \in KadRequests => \E q \in s[d] : Asked(b, q)
      /\ o.kad \in KadRequests => \E q \in s[Other(d)] : Asked(o, q)
  BY KadGroundsOf
<1>4. CASE b.obf \/ o.obf
  <2>1. g = f BY <1>4 DEF CheckObfuscate
  <2> HIDE DEF g
  <2> QED BY <2>1 DEF KadGoes, Goes, Runs, Fades, UtpSame, VodSame, g
<1>5. ASSUME ~ b.obf, ~ o.obf
      PROVE  \E k \in KadStates, l \in KadStates, x \in BOOLEAN, v \in KadVerdicts :
               /\ g = KadNext(f, d, p.len, k, l, x, v)
               /\ \/ /\ x = FALSE /\ v = "UNKNOWN"
                     /\ l = o.kad \/ l = "UNKNOWN"
                     /\ k \in {b.kad, "UNKNOWN"} \/ (k = asks /\ k \in KadRequests)
                  \/ /\ verdict # "UNKNOWN" /\ k = b.kad /\ l = verdict
                     /\ x = TRUE /\ v = verdict
  <2>1. f.kad = "UNKNOWN" /\ o.obf = FALSE /\ "UNKNOWN" \in KadVerdicts
        /\ "UNKNOWN" \in KadStates
    BY <1>2, <1>3, <1>5 DEF KadVerdicts, KadStates
  <2>2. g = IF asks # "no" THEN [noted EXCEPT !.ucb[d].kad = asks]
            ELSE IF verdict # "UNKNOWN"
            THEN [noted EXCEPT !.kad = verdict, !.ucb[Other(d)].kad = verdict,
                               !.ucb[Other(d)].obf = TRUE]
            ELSE IF p.len = 22 THEN noted
            ELSE [noted EXCEPT !.ucb[Other(d)].kad = "UNKNOWN",
                               !.ucb[d].kad = IF reply THEN @ ELSE "UNKNOWN"]
    BY <1>5 DEF CheckObfuscate
  <2>3. asks # "no" => asks \in KadRequests /\ asks \in KadStates BY DEF KadRequests, KadStates
  <2>4. verdict \in KadVerdicts /\ verdict \in KadStates BY DEF KadVerdict, KadVerdicts, KadReplies, KadStates
  <2>5. reply \in BOOLEAN BY DEF Multiple
  <2> HIDE DEF g, asks, verdict, reply
  <2>6. CASE asks # "no"
    <3>1. KadAsked(Noted(f, d, p.len), d, asks)
             = KadNext(f, d, p.len, asks, o.kad, FALSE, "UNKNOWN")
      BY <1>1, <2>1, KadAsks
    <3>2. g = KadNext(f, d, p.len, asks, o.kad, FALSE, "UNKNOWN") BY <2>2, <2>6, <3>1 DEF KadAsked, Noted
    <3> HIDE DEF noted
    <3> QED BY <1>2, <2>1, <2>3, <2>6, <3>2
  <2>7. CASE asks = "no" /\ verdict # "UNKNOWN"
    <3>1. KadFound(Noted(f, d, p.len), d, verdict)
             = KadNext(f, d, p.len, b.kad, verdict, TRUE, verdict)
      BY <1>1, KadFinds
    <3>2. g = KadNext(f, d, p.len, b.kad, verdict, TRUE, verdict) BY <2>2, <2>7, <3>1 DEF KadFound, Noted
    <3> HIDE DEF noted
    <3> QED BY <1>2, <2>4, <2>7, <3>2
  <2>8. CASE asks = "no" /\ verdict = "UNKNOWN" /\ p.len = 22
    <3>1. noted = KadNext(f, d, p.len, b.kad, o.kad, FALSE, "UNKNOWN") BY <1>1, <2>1, KadNotes
    <3>2. g = KadNext(f, d, p.len, b.kad, o.kad, FALSE, "UNKNOWN") BY <2>2, <2>8, <3>1
    <3> HIDE DEF noted
    <3> QED BY <1>2, <2>1, <2>8, <3>2
  <2>9. CASE asks = "no" /\ verdict = "UNKNOWN" /\ p.len # 22
    <3> DEFINE k == IF reply THEN b.kad ELSE "UNKNOWN"
    <3>0. noted.ucb[d].kad = b.kad BY <1>1 DEF ClassFlows, Ucb
    <3>1. KadForgotten(Noted(f, d, p.len), d, k)
             = KadNext(f, d, p.len, k, "UNKNOWN", FALSE, "UNKNOWN")
      <4> HIDE DEF k
      <4> QED BY <1>1, <2>1, KadForgets
    <3>2. g = KadNext(f, d, p.len, k, "UNKNOWN", FALSE, "UNKNOWN")
      <4>1. [noted EXCEPT !.ucb[Other(d)].kad = "UNKNOWN",
                          !.ucb[d].kad = IF reply THEN @ ELSE "UNKNOWN"]
              = KadForgotten(Noted(f, d, p.len), d, k)
        <5>1. noted = Noted(f, d, p.len) /\ d # Other(d) BY <1>1 DEF Noted
        <5>2. noted.ucb \in [Dirs -> {b, [b EXCEPT !.lastLen = p.len], o}] BY <1>1 DEF ClassFlows
        <5> HIDE DEF noted
        <5>3. CASE reply BY <1>1, <3>0, <5>1, <5>2, <5>3 DEF KadForgotten
        <5>4. CASE ~ reply BY <5>1, <5>4 DEF KadForgotten
        <5> QED BY <5>3, <5>4
      <4> HIDE DEF k, noted
      <4> QED BY <2>2, <2>9, <3>1, <4>1
    <3>3. k \in KadStates /\ k \in {b.kad, "UNKNOWN"} BY <1>2, <2>1
    <3> HIDE DEF noted, k
    <3> QED BY <2>1, <2>9, <3>2, <3>3
  <2> QED BY <2>6, <2>7, <2>8, <2>9
<1>6. ASSUME NEW k \in KadStates, NEW l \in KadStates, NEW x \in BOOLEAN,
             NEW v \in KadVerdicts,
             g = KadNext(f, d, p.len, k, l, x, v),
             x = FALSE, v = "UNKNOWN", l = o.kad \/ l = "UNKNOWN",
             k \in {b.kad, "UNKNOWN"} \/ (k = asks /\ k \in KadRequests)
      PROVE  KadGoes(f, g, s)
  <2>1. KadNextIs(f, g, d, p.len, k, l, x, v) BY <1>1, <1>6, KadNextGoes
  <2> HIDE DEF g
  <2>2. g.ucb[d].kad \in KadRequests => \E q \in s[d] : Asked(g.ucb[d], q)
    <3>1. CASE k = asks /\ k \in KadRequests BY <2>1, <3>1 DEF KadNextIs, Asked, KadRequests
    <3>2. CASE k = "UNKNOWN" BY <2>1, <3>2 DEF KadNextIs, KadRequests
    <3>3. CASE k = b.kad BY <1>3, <2>1, <3>3 DEF KadNextIs, Asked
    <3> QED BY <1>6, <3>1, <3>2, <3>3
  <2>3. g.ucb[Other(d)].kad \in KadRequests =>
           \E q \in s[Other(d)] : Asked(g.ucb[Other(d)], q)
    <3>1. CASE l = "UNKNOWN" BY <2>1, <3>1 DEF KadNextIs, KadRequests
    <3>2. CASE l = o.kad BY <1>3, <2>1, <3>2 DEF KadNextIs, Asked
    <3> QED BY <1>6, <3>1, <3>2
  <2>4. g.ucb[d].lastLen # 0 => \E q \in s[d] : q.len = g.ucb[d].lastLen BY <2>1 DEF KadNextIs
  <2>5. g.ucb[Other(d)].lastLen # 0 => \E q \in s[Other(d)] : q.len = g.ucb[Other(d)].lastLen
    BY <1>3, <2>1 DEF KadNextIs
  <2>6. g.kad = "UNKNOWN" BY <1>6, <2>1 DEF KadNextIs
  <2>7. KadGrounds(g, s) BY <2>2, <2>3, <2>4, <2>5, <2>6, KadGroundsOf
  <2> QED BY <2>1, <2>7 DEF KadGoes, KadNextIs
<1>7. ASSUME NEW k \in KadStates, NEW l \in KadStates, NEW x \in BOOLEAN,
             NEW v \in KadVerdicts,
             g = KadNext(f, d, p.len, k, l, x, v),
             verdict # "UNKNOWN", k = b.kad, l = verdict, x = TRUE, v = verdict
      PROVE  KadGoes(f, g, s)
  <2>1. KadNextIs(f, g, d, p.len, k, l, x, v) BY <1>1, <1>7, KadNextGoes
  <2>2. /\ verdict \in KadReplies
        /\ \E q \in s[Other(d)] : KadLengths(verdict, q, p)
    <3>1. s[Other(d)] \in SUBSET Payload BY <1>1
    <3> QED BY <1>1, <1>3, <1>7, <3>1, VerdictGrounds
  <2> HIDE DEF g, verdict
  <2>3. g.ucb[d].kad \in KadRequests => \E q \in s[d] : Asked(g.ucb[d], q)
    BY <1>3, <1>7, <2>1, ZenonT(60) DEF KadNextIs, Asked
  <2>4. g.ucb[Other(d)].kad \notin KadRequests BY <1>7, <2>1, <2>2 DEF KadNextIs, KadReplies, KadRequests
  <2>5. g.ucb[d].lastLen # 0 => \E q \in s[d] : q.len = g.ucb[d].lastLen BY <2>1 DEF KadNextIs
  <2>6. g.ucb[Other(d)].lastLen # 0 => \E q \in s[Other(d)] : q.len = g.ucb[Other(d)].lastLen
    BY <1>3, <2>1 DEF KadNextIs
  <2>7. g.kad = verdict /\ g.ucb[Other(d)].obf BY <1>7, <2>1 DEF KadNextIs
  <2>8. \E e \in Dirs : \E a \in s[e], c \in s[Other(e)] : KadLengths(g.kad, a, c) BY <1>1, <2>2, <2>7
  <2>9. KadGrounds(g, s) BY <2>3, <2>4, <2>5, <2>6, <2>7, <2>8, KadGroundsOf
  <2> QED BY <2>1, <2>9 DEF KadGoes, KadNextIs
<1> QED BY <1>2, <1>4, <1>5, <1>6, <1>7

\* Grounds are kept by what leaves the state of a check alone, and by
\* packets that are sent.
LEMMA UtpKept ==
  ASSUME NEW f, NEW g, UtpSame(f, g), NEW s, UtpGrounds(f, s)
  PROVE  UtpGrounds(g, s)
<1>1. g.ucb["c2s"].isUtp = f.ucb["c2s"].isUtp BY DEF UtpSame, Dirs
<1>2. ASSUME NEW e \in Dirs, NEW q, Opened(f.ucb[e], q)
      PROVE  Opened(g.ucb[e], q)
  BY <1>2 DEF Opened, UtpSame
<1> QED BY <1>1, <1>2 DEF UtpGrounds, UtpSame

\* The same of what is remembered of the lengths.
LEMMA KadKept ==
  ASSUME NEW f, NEW g, KadSame(f, g), NEW s, KadGrounds(f, s)
  PROVE  KadGrounds(g, s)
<1>1. g.kad = f.kad BY DEF KadSame
<1>2. \A e \in Dirs : /\ g.ucb[e].kad = f.ucb[e].kad /\ g.ucb[e].obf = f.ucb[e].obf
                      /\ g.ucb[e].lastLen = f.ucb[e].lastLen
  BY DEF KadSame
<1>3. \A e \in Dirs : \A q : Asked(g.ucb[e], q) <=> Asked(f.ucb[e], q) BY <1>2 DEF Asked
<1> QED BY <1>1, <1>2, <1>3 DEF KadGrounds

\* And of the signatures.
LEMMA VodKept ==
  ASSUME NEW f, NEW g, VodSame(f, g), NEW s, NEW t, VodGrounds(f, s, t),
         Packets(g) < MaxVod => Packets(f) < MaxVod
  PROVE  VodGrounds(g, s, t)
<1>1. g.ucb["c2s"].isVod = f.ucb["c2s"].isVod BY DEF VodSame, Dirs
<1>2. \A e \in Dirs : InARow(f.ucb[e], t[e]) => InARow(g.ucb[e], t[e]) BY DEF InARow, VodSame
<1> QED BY <1>1, <1>2 DEF VodGrounds

\* More packets sent are more evidence.
LEMMA UtpGrows ==
  ASSUME NEW f, NEW s, NEW z, \A e \in Dirs : s[e] \subseteq z[e], UtpGrounds(f, s)
  PROVE  UtpGrounds(f, z)
<1>1. \A e \in Dirs : Other(e) \in Dirs BY Others
<1> QED BY <1>1 DEF UtpGrounds

\* The same of the lengths.
LEMMA KadGrows ==
  ASSUME NEW f, NEW s, NEW z, \A e \in Dirs : s[e] \subseteq z[e], KadGrounds(f, s)
  PROVE  KadGrounds(f, z)
<1>1. \A e \in Dirs : Other(e) \in Dirs BY Others
<1> QED BY <1>1 DEF KadGrounds

\* A flow between two analysers, of packets s.
Between(f, s) == Ready(f) /\ Pair(f) /\ UtpGrounds(f, s) /\ KadGrounds(f, s)

\* A change of types only keeps what holds between two analysers.
LEMMA TypedBetween ==
  ASSUME NEW f, NEW g, NEW s, Between(f, s), OnlyTypes(f, g)
  PROVE  Between(g, s)
BY UtpKept, KadKept, PairSame DEF Between, OnlyTypes, Runs

\* The three behavioural checks, each on the first packets of a flow.
VodReady(f, s, t, u, d, p) ==
    IF f.ucb["c2s"].isVod THEN VodFound(s, u)
    ELSE Packets(f) < MaxVod =>
            /\ \A e \in Dirs : InARow(f.ucb[e], t[e])
            /\ u[Other(d)] = t[Other(d)] /\ FollowsStreak(t[d], u[d], p)

\* What check_udp_vod needs of a flow survives the check before it.
LEMMA VodReadyKept ==
  ASSUME NEW f, NEW g, VodSame(f, g), Runs(f, g), NEW s, NEW t, NEW u, NEW d, NEW p,
         VodReady(f, s, t, u, d, p)
  PROVE  VodReady(g, s, t, u, d, p)
<1>1. g.ucb["c2s"].isVod = f.ucb["c2s"].isVod /\ Packets(g) = Packets(f) BY DEF VodSame, Runs, Dirs, Packets
<1>2. \A e \in Dirs : InARow(f.ucb[e], t[e]) => InARow(g.ucb[e], t[e]) BY DEF InARow, VodSame
<1> QED BY <1>1, <1>2 DEF VodReady

\* The three checks in their order, each on the first packets only.
LEMMA BehaviouralGoes ==
  ASSUME NEW f, NEW d \in Dirs, NEW p \in Payload, conf \in Confs,
         NEW s \in [Dirs -> SUBSET Payload], p \in s[d], Between(f, s),
         NEW t \in [Dirs -> Streaks], NEW u, VodReady(f, s, t, u, d, p)
  PROVE  /\ Goes(f, Behavioural(f, d, p)) /\ Between(Behavioural(f, d, p), s)
         /\ VodGrounds(Behavioural(f, d, p), s, u)
<1> DEFINE n == Packets(f)
           f1 == IF n < MaxUtp THEN CheckUtp(f, d, p) ELSE f
           f2 == IF n < MaxVod THEN CheckVod(f1, d, p) ELSE f1
           f3 == IF n < MaxObfuscate THEN CheckObfuscate(f2, d, p) ELSE f2
<1>1. Behavioural(f, d, p) = f3 BY DEF Behavioural
<1>2. Goes(f, f1) /\ Between(f1, s) /\ VodReady(f1, s, t, u, d, p)
  <2>1. CASE n < MaxUtp
    <3>1. UtpGoes(f, f1, s) BY <2>1, CheckUtpGoes DEF Between
    <3> HIDE DEF f1
    <3> QED BY <3>1, KadKept, VodReadyKept DEF UtpGoes, Between, Goes, Runs, Fades
  <2>2. CASE ~ (n < MaxUtp) BY <2>2 DEF Between, Goes, Runs, Fades
  <2> QED BY <2>1, <2>2
<1> HIDE DEF f1
<1>3. Packets(f1) = n BY <1>2 DEF Goes, Runs, Packets, Dirs
<1>4. Goes(f1, f2) /\ Between(f2, s) /\ VodGrounds(f2, s, u)
  <2>1. CASE n < MaxVod
    <3>1. VodGoes(f1, f2, s, u)
      <4>1. IF f1.ucb["c2s"].isVod THEN VodFound(s, u)
            ELSE /\ \A e \in Dirs : InARow(f1.ucb[e], t[e])
                 /\ u[Other(d)] = t[Other(d)] /\ FollowsStreak(t[d], u[d], p)
        BY <1>2, <1>3, <2>1 DEF VodReady
      <4>2. VodGoes(f1, CheckVod(f1, d, p), s, u) BY <1>2, <4>1, CheckVodGoes DEF Between
      <4> QED BY <2>1, <4>2
    <3> HIDE DEF f2
    <3>2. UtpGrounds(f2, s) /\ KadGrounds(f2, s) BY <1>2, <3>1, UtpKept, KadKept DEF VodGoes, Between
    <3> QED BY <3>1, <3>2 DEF VodGoes, Between, Goes, Runs, Fades, VodGrounds
  <2>2. CASE ~ (n < MaxVod)
    <3>1. f2 = f1 BY <2>2
    <3> HIDE DEF f2
    <3>2. VodGrounds(f1, s, u) BY <1>2, <1>3, <2>2 DEF VodReady, VodGrounds
    <3> QED BY <1>2, <3>1, <3>2 DEF Between, Goes, Runs, Fades
  <2> QED BY <2>1, <2>2
<1> HIDE DEF f2
<1>5. Goes(f2, f3) /\ Between(f3, s) /\ VodGrounds(f3, s, u)
  <2>1. CASE n < MaxObfuscate
    <3>1. KadGoes(f2, f3, s) BY <1>4, <2>1, CheckObfuscateGoes DEF Between
    <3> HIDE DEF f3
    <3>2. Pair(f3) /\ UtpGrounds(f3, s) BY <1>4, <3>1, PairSame, UtpKept DEF KadGoes, Between
    <3>3. Packets(f3) = Packets(f2) BY <3>1 DEF KadGoes, Goes, Runs, Packets, Dirs
    <3>4. VodGrounds(f3, s, u) BY <1>4, <3>1, <3>3, VodKept DEF KadGoes
    <3> QED BY <3>1, <3>2, <3>4 DEF KadGoes, Between, Goes, Runs, Fades
  <2>2. CASE ~ (n < MaxObfuscate) BY <1>4, <2>2 DEF Between, Goes, Runs, Fades
  <2> QED BY <2>1, <2>2
<1> HIDE DEF f3
<1>6. Goes(f, f3) BY <1>2, <1>4, <1>5 DEF Goes, Runs, Fades
<1> QED BY <1>1, <1>5, <1>6

\* A stream that is no longer one is spent.
LEMMA FadesSpent ==
  ASSUME NEW f \in ClassFlows, NEW g, Fades(f, g), NEW e \in Dirs
  PROVE  Spent(g, e) = Spent(f, e) + (IF e \in Gone(f, g) THEN 1 ELSE 0)
<1>1. f.counted[e] \in Seq(Labels) /\ "no" \in Labels BY DEF ClassFlows, Labels, Verdicts
<1>2. Number(f.counted[e], RtpTypes) \in Nat BY <1>1, NumberAppend
<1> QED BY <1>2 DEF Fades, Spent, Stream, Gone

\* A type by p2p_flow_stat, then rtp_flow_stat: only a direction that was
\* to be confirmed is counted, and p2p_flow_stat makes none so.
LEMMA StreamSpent ==
  ASSUME NEW f, Ready(f), conf.located, NEW d \in Dirs, NEW h, NEW g, Ready(h),
         Fades(f, h), h.ucb[d].type \in {f.ucb[d].type} \cup (Types \ FirstTypes),
         MayConfirm(h, g, d),
         NEW e \in Dirs
  PROVE  Spent(g, e) = Spent(f, e) + (IF e \in Gone(f, g) THEN 1 ELSE 0)
<1>1. f \in ClassFlows /\ h \in ClassFlows BY DEF Ready
<1>2. CASE Fades(h, g)
  <2>1. Fades(f, g) BY <1>2 DEF Fades
  <2> QED BY <1>1, <2>1, FadesSpent
<1>3. CASE h.ucb[d].type \in FirstTypes /\ \E t \in RtpTypes : Confirmed(h, g, d, t)
  <2>1. PICK t \in RtpTypes : Confirmed(h, g, d, t) BY <1>3
  <2>2. f.counted[e] \in Seq(Labels) /\ t \in Labels BY <1>1, Kinds DEF ClassFlows
  <2>3. /\ Number(f.counted[e], RtpTypes) \in Nat
        /\ Number(Append(f.counted[e], t), RtpTypes) = Number(f.counted[e], RtpTypes) + 1
    BY <2>2, NumberAppend
  <2>4. h.counted[e] = f.counted[e] BY DEF Fades
  <2>5. CASE e = d
    <3>1. f.ucb[d].type \notin RtpTypes BY <1>3 DEF FirstTypes, RtpTypes
    <3>2. g.counted[d] = Append(f.counted[d], t) /\ g.ucb[d].type \in RtpTypes
      BY <2>1, <2>4, <2>5 DEF Confirmed
    <3> QED BY <2>3, <2>5, <3>1, <3>2 DEF Spent, Stream, Gone
  <2>6. CASE e # d
    <3>1. g.counted[e] = h.counted[e] /\ g.ucb[e].type = h.ucb[e].type
      BY <2>1, <2>6 DEF Confirmed
    <3>2. Spent(g, e) = Spent(h, e) /\ (e \in Gone(f, g) <=> e \in Gone(f, h))
      BY <3>1 DEF Spent, Stream, Gone
    <3> QED BY <1>1, <3>2, FadesSpent
  <2> QED BY <2>5, <2>6
<1> QED BY <1>2, <1>3 DEF MayConfirm

\* All the analysers of a packet, after those of Skype.
LEMMA AnalysersGo ==
  ASSUME NEW f, NEW d \in Dirs, NEW p \in Payload, conf \in Confs,
         NEW s \in [Dirs -> SUBSET Payload], p \in s[d], Between(f, s),
         NEW t \in [Dirs -> Streaks], NEW u, VodReady(f, s, t, u, d, p),
         dropped \in [Dirs -> Nat], Balanced(f, dropped)
  PROVE  /\ Runs(f, Analysers(f, d, p)) /\ Between(Analysers(f, d, p), s)
         /\ VodGrounds(Analysers(f, d, p), s, u)
         /\ Balanced(Analysers(f, d, p), Drops(f, d, p)) /\ Drops(f, d, p) \in [Dirs -> Nat]
<1> DEFINE f1 == P2pFlowStat(f, d, p)
           f2 == RtpFlowStat(f1, d, p)
           g == Analysers(f, d, p)
           went(e) == (IF e \in Gone(f, f2) THEN 1 ELSE 0)
                      + (IF e \in Gone(f2, g) THEN 1 ELSE 0)
<1>1. /\ OnlyTypes(f, f1) /\ Fades(f, f1)
      /\ f1.ucb[d].type \in {f.ucb[d].type} \cup (Types \ FirstTypes)
  BY P2pGoes DEF Between
<1>2. Between(f1, s) /\ VodReady(f1, s, t, u, d, p)
  <2> HIDE DEF f1
  <2> QED BY <1>1, TypedBetween, VodReadyKept DEF OnlyTypes
<1>3. OnlyTypes(f1, f2) /\ MayConfirm(f1, f2, d)
  <2> HIDE DEF f1
  <2> QED BY <1>2, RtpGoes DEF Between
<1>4. Between(f2, s) /\ VodReady(f2, s, t, u, d, p)
  <2> HIDE DEF f1, f2
  <2> QED BY <1>2, <1>3, TypedBetween, VodReadyKept DEF OnlyTypes
<1>5. g = Behavioural(f2, d, p) BY DEF Analysers
<1>6. Drops(f, d, p) = [e \in Dirs |-> dropped[e] + went(e)] BY <1>5 DEF Drops
<1> HIDE DEF f1, f2
<1>7. Goes(f2, g) /\ Between(g, s) /\ VodGrounds(g, s, u)
  <2> HIDE DEF g
  <2>1. /\ Goes(f2, Behavioural(f2, d, p)) /\ Between(Behavioural(f2, d, p), s)
        /\ VodGrounds(Behavioural(f2, d, p), s, u)
    BY <1>4, BehaviouralGoes
  <2> QED BY <1>5, <2>1
<1> HIDE DEF g
<1>8. Runs(f, g) BY <1>1, <1>3, <1>7 DEF OnlyTypes, Goes, Runs
<1>9. ASSUME conf.located, NEW e \in Dirs
      PROVE  Spent(g, e) = dropped[e] + went(e)
  <2>1. Ready(f) /\ Ready(f1) /\ f \in ClassFlows /\ f2 \in ClassFlows
    BY <1>2, <1>4 DEF Between, Ready
  <2>2. Spent(f2, e) = Spent(f, e) + (IF e \in Gone(f, f2) THEN 1 ELSE 0)
    BY <1>1, <1>3, <1>9, <2>1, StreamSpent
  <2>3. Spent(g, e) = Spent(f2, e) + (IF e \in Gone(f2, g) THEN 1 ELSE 0)
    BY <1>7, <2>1, FadesSpent DEF Goes
  <2>4. Spent(f, e) = dropped[e] /\ dropped[e] \in Nat BY <1>9 DEF Balanced
  <2> QED BY <2>2, <2>3, <2>4
<1>10. \A e \in Dirs : went(e) \in Nat OBVIOUS
<1> HIDE DEF went
<1>11. Balanced(g, Drops(f, d, p)) BY <1>6, <1>9 DEF Balanced
<1>12. Drops(f, d, p) \in [Dirs -> Nat] BY <1>6, <1>10
<1> QED BY <1>7, <1>8, <1>11, <1>12 DEF g

\* A step that ends in the flow g, as the next state says it.
LEMMA NextFlow ==
  ASSUME NEW g \in ClassFlows, ~ g.exited, Becomes(g), conf' = conf
  PROVE  /\ Flow' = g
         /\ Tallied(g) => Tallied(Flow)'
         /\ Judged(g) => Judged(Flow)'
         /\ Balanced(g, dropped') => Balanced(Flow, dropped)'
         /\ Pair(g) => Pair(Flow)'
         /\ UtpGrounds(g, sent') => UtpGrounds(Flow, sent)'
         /\ KadGrounds(g, sent') => KadGrounds(Flow, sent)'
         /\ VodGrounds(g, sent', streak') => VodGrounds(Flow, sent, streak)'
<1>1. Flow' = g BY DEF Flow, ClassFlows, Becomes
<1>2. Tallied(g) => Tallied(Flow)' BY <1>1 DEF Tallied, Number, Early
<1>3. Judged(g) => Judged(Flow)' BY <1>1 DEF Judged
<1>4. Pair(g) => Pair(Flow)' BY <1>1 DEF Pair
<1>5. UtpGrounds(g, sent') => UtpGrounds(Flow, sent)' BY <1>1 DEF UtpGrounds
<1>6. KadGrounds(g, sent') => KadGrounds(Flow, sent)' BY <1>1 DEF KadGrounds
<1>7. VodGrounds(g, sent', streak') => VodGrounds(Flow, sent, streak)'
  <2>1. \A e \in Dirs : InARow(g.ucb[e], streak'[e]) => InARow(Flow.ucb[e], streak[e])' BY <1>1 DEF InARow
  <2>2. VodFound(sent', streak') => VodFound(sent, streak)' BY DEF VodFound, MpegCell
  <2>3. Packets(g) = Packets(Flow)' BY <1>1 DEF Packets
  <2> QED BY <1>1, <2>1, <2>2, <2>3 DEF VodGrounds
<1>8. Balanced(g, dropped') => Balanced(Flow, dropped)' BY <1>1 DEF Balanced, Spent, Number, Stream
<1> QED BY <1>1, <1>2, <1>3, <1>4, <1>5, <1>6, <1>7, <1>8

\* The packet is counted before the analysers see it.
PacketAdded(f, d) == [f EXCEPT !.ucb[d].packets = @ + 1]

\* Counting the packet of a direction keeps the flow ready for the
\* analysers.
LEMMA PacketCounted ==
  ASSUME NEW f, Ready(f), NEW d \in Dirs, NEW g, g = PacketAdded(f, d)
  PROVE  /\ Ready(g) /\ UtpSame(f, g) /\ VodSame(f, g) /\ KadSame(f, g)
         /\ Packets(g) = Packets(f) + 1 /\ \A e \in Dirs : Spent(g, e) = Spent(f, e)
<1> DEFINE n == f.ucb[d].packets + 1
           b == [f.ucb[d] EXCEPT !.packets = n]
<1>1. f \in ClassFlows /\ f.ucb \in [Dirs -> Ucb] /\ f.ucb[d] \in Ucb BY DEF Ready, ClassFlows
<1>2. n \in Nat /\ n > 0 BY <1>1 DEF Ucb
<1>3. g = [f EXCEPT !.ucb[d] = b] BY <1>1 DEF ClassFlows, PacketAdded
<1>4. \A e \in Dirs : f.ucb[e].packets \in Nat BY <1>1 DEF Ucb
<1>5. n = f.ucb[d].packets + 1 OBVIOUS
<1> HIDE DEF n
<1>6. /\ b \in Ucb /\ b.packets = n /\ b.type = f.ucb[d].type /\ b.early = f.ucb[d].early
  BY <1>1, <1>2 DEF Ucb
<1>7. /\ b.utp = f.ucb[d].utp /\ b.conn = f.ucb[d].conn /\ b.synseq = f.ucb[d].synseq
      /\ b.isUtp = f.ucb[d].isUtp
      /\ b.sig = f.ucb[d].sig /\ b.count = f.ucb[d].count /\ b.first = f.ucb[d].first
      /\ b.isVod = f.ucb[d].isVod
      /\ b.kad = f.ucb[d].kad /\ b.obf = f.ucb[d].obf /\ b.lastLen = f.ucb[d].lastLen
  BY <1>1, <1>2 DEF Ucb
<1> HIDE DEF b
<1>8. /\ g \in ClassFlows /\ \A e \in Dirs : g.ucb[e] = IF e = d THEN b ELSE f.ucb[e]
      /\ g.kad = f.kad /\ g.counted = f.counted /\ g.exited = f.exited
  BY <1>1, <1>3, <1>6, OneDir
<1>9. UtpSame(f, g) /\ VodSame(f, g) /\ KadSame(f, g) BY <1>7, <1>8 DEF UtpSame, VodSame, KadSame
<1>10. Tallied(g)
  <2>1. \A e \in Dirs : g.ucb[e].early = f.ucb[e].early BY <1>6, <1>8
  <2> QED BY <1>8, <2>1 DEF Ready, Tallied, Early, Dirs
<1>13. \A e \in Dirs : Spent(g, e) = Spent(f, e) BY <1>6, <1>8 DEF Spent, Stream
<1>11. Judged(g) BY <1>6, <1>8 DEF Ready, Judged
<1>12. Packets(g) = Packets(f) + 1 BY <1>4, <1>5, <1>6, <1>8 DEF Packets, Dirs
<1> QED BY <1>8, <1>9, <1>10, <1>11, <1>12, <1>13 DEF Ready

\* The ghost streak is one.
LEMMA StreakTyped ==
  ASSUME streak \in [Dirs -> Streaks], NEW d \in Dirs, NEW p \in Payload
  PROVE  Streak(d, p) \in Streaks /\ FollowsStreak(streak[d], Streak(d, p), p)
<1>1. Signature(p) \in Int \X Int BY DEF Signature, Payload
<1>2. streak[d] \in (Int \X Int) \X Nat BY DEF Streaks
<1>3. streak[d][1] \in Int \X Int /\ streak[d][2] + 1 \in Nat BY <1>2
<1>4. Streak(d, p) \in Streaks BY <1>1, <1>3 DEF Streak, Streaks
<1> QED BY <1>4 DEF Streak, FollowsStreak

\* What CountedFor says of a flow f: what is counted of it, while it is
\* open and when it is closed.
Account(f, k, closed) ==
    conf.located => \A d \in Dirs :
        LET c == f.counted[d]
            late == IF conf.bayes /\ closed THEN 1 ELSE 0
            labelled == /\ closed /\ f.ucb[d].packets > 0
                        /\ \A e \in Dirs : ~ Claimed(f.ucb[e])
        IN  /\ Number(c, RtpTypes) = k[d] + Stream(f.ucb[d])
            /\ Number(c, Verdicts) <= Early(f.ucb[d]) + late
            /\ Len(c) = Number(c, RtpTypes) + Number(c, Verdicts)
                           + (IF labelled THEN 1 ELSE 0)

\* The numbers in an account.
LEMMA Numbers ==
  ASSUME NEW f \in ClassFlows, NEW e \in Dirs
  PROVE  /\ f.counted[e] \in Seq(Labels) /\ Len(f.counted[e]) \in Nat
         /\ Number(f.counted[e], RtpTypes) \in Nat /\ Number(f.counted[e], Verdicts) \in Nat
         /\ Early(f.ucb[e]) \in Nat /\ Stream(f.ucb[e]) \in Nat
<1>1. f.counted[e] \in Seq(Labels) /\ "no" \in Labels BY DEF ClassFlows, Labels, Verdicts
<1> QED BY <1>1, NumberAppend DEF Early, Stream

LEMMA OpenAccount ==
  ASSUME NEW f \in ClassFlows, Tallied(f), NEW k \in [Dirs -> Nat], Balanced(f, k)
  PROVE  Account(f, k, FALSE)
<1>1. ASSUME conf.located, NEW d \in Dirs
      PROVE  Number(f.counted[d], RtpTypes) = k[d] + Stream(f.ucb[d])
  <2>1. Spent(f, d) = k[d] /\ k[d] \in Nat BY <1>1 DEF Balanced
  <2> QED BY <2>1, Numbers DEF Spent
<1>2. ASSUME NEW d \in Dirs
      PROVE  /\ Number(f.counted[d], Verdicts) <= Early(f.ucb[d]) + 0
             /\ Len(f.counted[d])
                  = Number(f.counted[d], RtpTypes) + Number(f.counted[d], Verdicts) + 0
  BY Numbers DEF Tallied
<1> QED BY <1>1, <1>2 DEF Account

LEMMA NextAccount ==
  ASSUME NEW g, Becomes(g), conf' = conf, Account(g, dropped', status' = "closed")
  PROVE  CountedFor'
BY DEF Becomes, Account, CountedFor, Entries, Number, Early, Stream, Claimed

\* A packet keeps the invariant.
LEMMA PacketKeeps ==
  ASSUME ClassInv, NEW d \in Dirs, NEW p \in conf.payloads, Packet(d, p)
  PROVE  ClassInv'
<1> DEFINE f0 == [Flow EXCEPT !.ucb[d].packets = @ + 1]
<1>1. /\ status = "open" /\ sent' = [sent EXCEPT ![d] = @ \cup {p}]
      /\ conf' = conf /\ aged' = aged
      /\ streak' = IF ucb[d].isVod THEN streak ELSE [streak EXCEPT ![d] = Streak(d, p)]
  BY DEF Packet
<1>2. conf \in Confs /\ p \in Payload
  <2>1. conf \in Confs BY DEF ClassInv, Typed
  <2>2. conf.payloads \subseteq Payload BY <2>1, UdpClassAssumption
  <2> QED BY <2>1, <2>2
<1>3. /\ Flow.ucb = ucb /\ Flow \in ClassFlows
      /\ sent \in [Dirs -> SUBSET Payload] /\ streak \in [Dirs -> Streaks]
      /\ dropped \in [Dirs -> Nat]
  BY DEF ClassInv, Typed, Flow
<1>4. Ready(Flow) /\ Pair(Flow) /\ Balanced(Flow, dropped)
  <2>1. ~ Flow.exited BY DEF Flow
  <2> QED BY <1>1, <1>3, <2>1 DEF ClassInv, WhileOpen, Ready
<1>5. /\ Ready(f0) /\ UtpSame(Flow, f0) /\ VodSame(Flow, f0) /\ KadSame(Flow, f0)
      /\ Packets(f0) = Packets(Flow) + 1 /\ \A e \in Dirs : Spent(f0, e) = Spent(Flow, e)
  BY <1>4, PacketCounted DEF PacketAdded
<1>6. \E v \in [Dirs -> Verdicts] :
         LET f == SkypeFlowStat(f0, d, p, v)
         IN  IF f.exited THEN Becomes(f) /\ status' = "exited" /\ dropped' = dropped
             ELSE /\ Becomes(Analysers(f, d, p)) /\ status' = status
                  /\ dropped' = Drops(f, d, p)
  <2>1. NoVerdict \in [Dirs -> Verdicts] BY DEF NoVerdict, Verdicts
  <2> QED BY <2>1 DEF Packet
<1> HIDE DEF f0
<1>7. PICK v \in [Dirs -> Verdicts] :
         LET f == SkypeFlowStat(f0, d, p, v)
         IN  IF f.exited THEN Becomes(f) /\ status' = "exited" /\ dropped' = dropped
             ELSE /\ Becomes(Analysers(f, d, p)) /\ status' = status
                  /\ dropped' = Drops(f, d, p)
  BY <1>6
<1> DEFINE f == SkypeFlowStat(f0, d, p, v)
           g == Analysers(f, d, p)
<1>8. OnlyTypes(f0, f) /\ \A e \in Dirs : Spent(f, e) = Spent(f0, e) BY <1>2, <1>5, SkypeGoes
<1>9. Becomes(g) /\ status' = "open" /\ dropped' = Drops(f, d, p)
  <2>1. ~ f.exited BY <1>8 DEF OnlyTypes, Runs, Ready
  <2> QED BY <1>1, <1>7, <2>1
<1>10. /\ sent' \in [Dirs -> SUBSET Payload] /\ p \in sent'[d]
       /\ \A e \in Dirs : sent[e] \subseteq sent'[e]
  BY <1>1, <1>2, <1>3
<1>11. streak' \in [Dirs -> Streaks] BY <1>1, <1>2, <1>3, StreakTyped
<1>12. Between(f0, sent')
  <2>1. Pair(f0) BY <1>4, <1>5, PairSame
  <2>2. UtpGrounds(f0, sent') BY <1>5, <1>10, UtpKept, UtpGrows DEF ClassInv, Grounds
  <2>3. KadGrounds(f0, sent') BY <1>5, <1>10, KadKept, KadGrows DEF ClassInv, Grounds
  <2> QED BY <1>5, <2>1, <2>2, <2>3 DEF Between
<1>13. VodReady(f0, sent', streak, streak', d, p)
  <2>1. /\ f0.ucb["c2s"].isVod = Flow.ucb["c2s"].isVod
        /\ ucb[d].isVod = Flow.ucb["c2s"].isVod
    BY <1>3, <1>4, <1>5 DEF VodSame, Pair, Dirs
  <2>2. CASE Flow.ucb["c2s"].isVod
    <3>1. VodFound(sent, streak) /\ streak' = streak BY <1>1, <2>1, <2>2 DEF ClassInv, Grounds, VodGrounds
    <3>2. VodFound(sent', streak') BY <1>10, <3>1 DEF VodFound
    <3> QED BY <2>1, <2>2, <3>2 DEF VodReady
  <2>3. CASE ~ Flow.ucb["c2s"].isVod
    <3>1. streak' = [streak EXCEPT ![d] = Streak(d, p)] BY <1>1, <2>1, <2>3
    <3>2. streak'[Other(d)] = streak[Other(d)] /\ streak'[d] = Streak(d, p) BY <1>3, <3>1, Others
    <3>3. FollowsStreak(streak[d], streak'[d], p) BY <1>2, <1>3, <3>2, StreakTyped
    <3>4. Packets(f0) < MaxVod => \A e \in Dirs : InARow(f0.ucb[e], streak[e])
      <4>1. Packets(Flow) \in Nat /\ MaxVod \in Nat
        <5>1. Flow.ucb["c2s"] \in Ucb /\ Flow.ucb["s2c"] \in Ucb BY <1>3, Others DEF ClassFlows
        <5>2. Flow.ucb["c2s"].packets \in Nat /\ Flow.ucb["s2c"].packets \in Nat BY <5>1 DEF Ucb
        <5> QED BY <5>2, UdpClassAssumption DEF Packets
      <4>2. Packets(f0) < MaxVod => Packets(Flow) < MaxVod BY <1>5, <4>1
      <4>3. Packets(Flow) < MaxVod => \A e \in Dirs : InARow(Flow.ucb[e], streak[e])
        BY <2>3 DEF ClassInv, Grounds, VodGrounds
      <4>4. \A e \in Dirs : InARow(Flow.ucb[e], streak[e]) => InARow(f0.ucb[e], streak[e])
        BY <1>5 DEF InARow, VodSame
      <4> QED BY <4>2, <4>3, <4>4
    <3> QED BY <2>1, <2>3, <3>2, <3>3, <3>4 DEF VodReady
  <2> QED BY <2>2, <2>3
<1>14. Between(f, sent') /\ VodReady(f, sent', streak, streak', d, p) /\ Balanced(f, dropped)
  <2> HIDE DEF f
  <2>1. Balanced(f, dropped) BY <1>4, <1>5, <1>8 DEF Balanced
  <2> QED BY <1>8, <1>12, <1>13, <2>1, TypedBetween, VodReadyKept DEF OnlyTypes
<1> HIDE DEF f
<1>15. /\ Between(g, sent') /\ VodGrounds(g, sent', streak')
       /\ Balanced(g, dropped') /\ dropped' \in [Dirs -> Nat]
  BY <1>2, <1>3, <1>9, <1>10, <1>14, AnalysersGo
<1> HIDE DEF g
<1>16. g \in ClassFlows /\ ~ g.exited /\ Tallied(g) /\ Judged(g) BY <1>15 DEF Between, Ready
<1>17. /\ Flow' = g /\ Tallied(Flow)' /\ Judged(Flow)' /\ Pair(Flow)'
       /\ Balanced(Flow, dropped)' /\ UtpGrounds(Flow, sent)' /\ KadGrounds(Flow, sent)'
       /\ VodGrounds(Flow, sent, streak)'
  BY <1>1, <1>9, <1>15, <1>16, NextFlow DEF Between
<1>18. Typed' BY <1>1, <1>2, <1>9, <1>10, <1>11, <1>15, <1>16, <1>17 DEF Typed, ClassInv
<1>19. CountedFor'
  <2>1. Tallied(g) /\ Balanced(g, dropped') BY <1>15, <1>16
  <2>2. Account(g, dropped', FALSE) BY <1>15, <1>16, <2>1, OpenAccount
  <2> QED BY <1>1, <1>9, <2>2, NextAccount
<1> QED BY <1>9, <1>17, <1>18, <1>19 DEF ClassInv, Grounds, WhileOpen, NoExit

\* make_p2p_conn_stats counts each direction that had packets once more,
\* unless one is left to the analysers that found it.
LEMMA P2pStatsOver ==
  ASSUME NEW g \in ClassFlows, g.ucb["c2s"].packets > 0, conf.located, NEW k \in [Dirs -> Nat],
         \A d \in Dirs :
            LET c == g.counted[d]
            IN  /\ Number(c, RtpTypes) = k[d] + Stream(g.ucb[d])
                /\ Number(c, Verdicts) <= Early(g.ucb[d]) + (IF conf.bayes THEN 1 ELSE 0)
                /\ Len(c) = Number(c, RtpTypes) + Number(c, Verdicts)
  PROVE  /\ P2pConnStats(g) \in ClassFlows /\ Account(P2pConnStats(g), k, TRUE)
         /\ P2pConnStats(g).ucb = g.ucb /\ P2pConnStats(g).kad = g.kad
         /\ P2pConnStats(g).exited = g.exited
<1> DEFINE l(d) == L7Type(g, g.ucb[d])
           c == [d \in Dirs |-> IF d = "c2s" \/ g.ucb[d].packets > 0
                                THEN Append(g.counted[d], l(d)) ELSE g.counted[d]]
           f == P2pConnStats(g)
<1>1. g.ucb \in [Dirs -> Ucb] /\ g.counted \in [Dirs -> Seq(Labels)] BY DEF ClassFlows
<1>2. CASE \E d \in Dirs : Claimed(g.ucb[d])
  <2>1. f = g BY <1>2 DEF P2pConnStats
  <2> HIDE DEF f
  <2>2. \A d \in Dirs : Len(g.counted[d]) = Len(g.counted[d]) + 0 BY Numbers
  <2> QED BY <1>2, <2>1, <2>2 DEF Account, f
<1>3. CASE ~ \E d \in Dirs : Claimed(g.ucb[d])
  <2>1. f = [g EXCEPT !.counted = c] BY <1>3 DEF P2pConnStats
  <2>2. \A d \in Dirs : l(d) \in Labels /\ l(d) \notin RtpTypes \cup Verdicts
    <3>1. {"UNKNOWN", "UTP", "OBF_KAD"} \cup Types \subseteq Labels BY DEF Labels, Types
    <3>2. \A d \in Dirs : /\ l(d) \in {"UNKNOWN", "UTP", "OBF_KAD", g.ucb[d].type}
                          /\ g.ucb[d].type \in Types
                          /\ g.ucb[d].type \notin RtpTypes \cup SkypeFlows
      BY <1>1, <1>3 DEF L7Type, FirstTypes, Ucb, Claimed
    <3>3. \A t \in Types : t \notin RtpTypes \cup SkypeFlows => t \notin RtpTypes \cup Verdicts
      BY DEF Types, Verdicts, SkypeFlows, RtpTypes, SkypeTypes, FirstTypes, P2pTypes
    <3>4. \A t \in {"UNKNOWN", "UTP", "OBF_KAD"} : t \notin RtpTypes \cup Verdicts
      BY DEF RtpTypes, Verdicts
    <3> HIDE DEF l
    <3> QED BY <3>1, <3>2, <3>3, <3>4
  <2> HIDE DEF l
  <2>3. ASSUME NEW d \in Dirs
        PROVE  /\ c[d] \in Seq(Labels)
               /\ Number(c[d], RtpTypes) = Number(g.counted[d], RtpTypes)
               /\ Number(c[d], Verdicts) = Number(g.counted[d], Verdicts)
               /\ Len(c[d]) = Len(g.counted[d]) + (IF g.ucb[d].packets > 0 THEN 1 ELSE 0)
    <3>1. Append(g.counted[d], l(d)) \in Seq(Labels) BY <2>2, Numbers
    <3>2. /\ Number(g.counted[d], RtpTypes) \in Nat /\ Number(g.counted[d], Verdicts) \in Nat
          /\ Len(g.counted[d]) \in Nat /\ g.counted[d] \in Seq(Labels)
      BY Numbers
    <3>3. /\ Number(Append(g.counted[d], l(d)), RtpTypes) = Number(g.counted[d], RtpTypes)
          /\ Number(Append(g.counted[d], l(d)), Verdicts) = Number(g.counted[d], Verdicts)
          /\ Len(Append(g.counted[d], l(d))) = Len(g.counted[d]) + 1
      BY <2>2, <3>2, NumberAppend
    <3>4. CASE g.ucb[d].packets > 0
      <4>1. c[d] = Append(g.counted[d], l(d)) BY <3>4
      <4>2. (IF g.ucb[d].packets > 0 THEN 1 ELSE 0) = 1 BY <3>4
      <4> HIDE DEF c
      <4> QED BY <3>1, <3>3, <4>1, <4>2
    <3>5. CASE ~ (g.ucb[d].packets > 0)
      <4>1. c[d] = g.counted[d] BY <3>5
      <4> HIDE DEF c
      <4>2. (IF g.ucb[d].packets > 0 THEN 1 ELSE 0) = 0 BY <3>5
      <4>3. Len(g.counted[d]) = Len(g.counted[d]) + 0 BY <3>2
      <4> QED BY <3>2, <4>1, <4>2, <4>3
    <3> QED BY <3>4, <3>5
  <2>4. c \in [Dirs -> Seq(Labels)] BY <2>3
  <2>5. f \in ClassFlows /\ f.ucb = g.ucb /\ f.kad = g.kad /\ f.exited = g.exited /\ f.counted = c
    <3> HIDE DEF c, f
    <3> QED BY <2>1, <2>4 DEF ClassFlows
  <2> HIDE DEF c, f
  <2>6. Account(f, k, TRUE)
    <3>1. \A e \in Dirs : ~ Claimed(g.ucb[e]) BY <1>3
    <3> QED BY <2>3, <2>5, <3>1, Numbers DEF Account
  <2> QED BY <2>5, <2>6 DEF f
<1> QED BY <1>2, <1>3

\* make_udp_conn_stats never finds a Skype flow that is not judged, so it
\* does not give up.
Closed(f, g, k) ==
    /\ g \in ClassFlows /\ ~ g.exited /\ UtpSame(f, g) /\ VodSame(f, g) /\ KadSame(f, g)
    /\ \A e \in Dirs : g.ucb[e].packets = f.ucb[e].packets
    /\ Account(g, k, TRUE)

\* The analysers at the close of a flow count it, and do not end the
\* program.
LEMMA ConnStatsGo ==
  ASSUME NEW f, Ready(f), NEW v \in [Dirs -> Verdicts], f.ucb["c2s"].packets > 0,
         NEW k \in [Dirs -> Nat], Balanced(f, k)
  PROVE  Closed(f, ConnStats(f, v), k)
<1> DEFINE g == IF conf.bayes THEN SkypeStats(f, v) ELSE f
           h == ConnStats(f, v)
<1>1. f \in ClassFlows /\ Tallied(f) /\ ~ f.exited BY DEF Ready
<1>2. \A e \in Dirs : ~ Lost(f.ucb[e]) BY DEF Ready, Judged, Lost
<1>3. Aside(f, g) /\ ~ g.exited /\ (conf.bayes \/ g = f)
  <2>1. CASE conf.bayes BY <1>1, <1>2, <2>1, StatsGoes
  <2>2. CASE ~ conf.bayes BY <1>1, <2>2 DEF Aside, Judging, UtpSame, VodSame, KadSame
  <2> QED BY <2>1, <2>2
<1>4. h = IF ~ conf.located THEN f ELSE IF g.exited THEN g ELSE P2pConnStats(g) BY DEF ConnStats
<1> HIDE DEF g, h
<1>5. CASE ~ conf.located BY <1>1, <1>4, <1>5 DEF Closed, Account, UtpSame, VodSame, KadSame, h
<1>6. CASE conf.located
  <2>1. h = P2pConnStats(g) BY <1>3, <1>4, <1>6
  <2>2. g \in ClassFlows /\ g.ucb["c2s"].packets > 0 BY <1>3 DEF Aside, Dirs
  <2>3. ASSUME NEW d \in Dirs
        PROVE  LET c == g.counted[d]
               IN  /\ Number(c, RtpTypes) = k[d] + Stream(g.ucb[d])
                   /\ Number(c, Verdicts) <= Early(g.ucb[d]) + (IF conf.bayes THEN 1 ELSE 0)
                   /\ Len(c) = Number(c, RtpTypes) + Number(c, Verdicts)
    <3>1. Spent(g, d) = Spent(f, d) /\ Spent(f, d) = k[d] /\ k[d] \in Nat
      BY <1>1, <1>3, <1>6, JudgedTally DEF Aside, Balanced
    <3>2. Number(g.counted[d], RtpTypes) = k[d] + Stream(g.ucb[d]) BY <2>2, <3>1, Numbers DEF Spent
    <3>3. /\ Number(g.counted[d], Verdicts) <= Early(f.ucb[d]) + (IF conf.bayes THEN 1 ELSE 0)
          /\ Len(g.counted[d]) = Number(g.counted[d], RtpTypes) + Number(g.counted[d], Verdicts)
      <4>1. CASE conf.bayes BY <1>1, <1>3, <4>1, JudgedTally DEF Aside
      <4>2. CASE ~ conf.bayes BY <1>1, <1>3, <4>2, Numbers DEF Tallied
      <4> QED BY <4>1, <4>2
    <3>4. Early(g.ucb[d]) = Early(f.ucb[d]) BY <1>3 DEF Aside, Early
    <3> QED BY <3>2, <3>3, <3>4
  <2>4. /\ h \in ClassFlows /\ Account(h, k, TRUE)
        /\ h.ucb = g.ucb /\ h.kad = g.kad /\ h.exited = g.exited
    BY <1>6, <2>1, <2>2, <2>3, P2pStatsOver
  <2> QED BY <1>3, <2>4 DEF Closed, Aside, UtpSame, VodSame, KadSame, h
<1> QED BY <1>5, <1>6

\* Closing a flow keeps the invariant.
LEMMA CloseKeeps == ASSUME ClassInv, CloseFlow PROVE ClassInv'
<1>1. /\ status = "open" /\ ucb["c2s"].packets > 0 /\ conf' = conf /\ aged' = aged
      /\ sent' = sent /\ streak' = streak /\ dropped' = dropped
  BY DEF CloseFlow
<1>2. Flow.ucb = ucb /\ Flow \in ClassFlows /\ dropped \in [Dirs -> Nat] BY DEF ClassInv, Typed, Flow
<1>3. Ready(Flow) /\ Pair(Flow) /\ Balanced(Flow, dropped)
  <2>1. ~ Flow.exited BY DEF Flow
  <2> QED BY <1>1, <1>2, <2>1 DEF ClassInv, WhileOpen, Ready
<1>4. \E v \in [Dirs -> Verdicts] :
         LET f == ConnStats(Flow, v)
         IN  Becomes(f) /\ status' = IF f.exited THEN "exited" ELSE "closed"
  <2>1. NoVerdict \in [Dirs -> Verdicts] BY DEF NoVerdict, Verdicts
  <2> QED BY <2>1 DEF CloseFlow
<1>5. PICK v \in [Dirs -> Verdicts] :
         LET f == ConnStats(Flow, v)
         IN  Becomes(f) /\ status' = IF f.exited THEN "exited" ELSE "closed"
  BY <1>4
<1> DEFINE g == ConnStats(Flow, v)
<1>6. Closed(Flow, g, dropped) BY <1>1, <1>2, <1>3, ConnStatsGo
<1>7. Becomes(g) /\ status' = "closed" /\ g \in ClassFlows /\ ~ g.exited BY <1>5, <1>6 DEF Closed
<1> HIDE DEF g
<1>8. Pair(g) /\ UtpGrounds(g, sent') /\ KadGrounds(g, sent')
  BY <1>1, <1>3, <1>6, PairSame, UtpKept, KadKept DEF Closed, ClassInv, Grounds
<1>9. VodGrounds(g, sent', streak')
  <2>1. Packets(g) = Packets(Flow) BY <1>6 DEF Closed, Packets, Dirs
  <2> QED BY <1>1, <1>6, <2>1, VodKept DEF Closed, ClassInv, Grounds
<1>10. /\ Flow' = g /\ Pair(Flow)' /\ UtpGrounds(Flow, sent)' /\ KadGrounds(Flow, sent)'
       /\ VodGrounds(Flow, sent, streak)'
  BY <1>1, <1>7, <1>8, <1>9, NextFlow
<1>11. Typed' BY <1>1, <1>7, <1>10 DEF Typed, ClassInv
<1>12. CountedFor'
  <2>1. Account(g, dropped', status' = "closed") BY <1>1, <1>6, <1>7 DEF Closed
  <2> QED BY <1>1, <1>7, <2>1, NextAccount
<1> QED BY <1>7, <1>10, <1>11, <1>12 DEF ClassInv, Grounds, WhileOpen, NoExit

\* A direction that becomes 20 seconds old keeps the invariant.
LEMMA AgeKeeps == ASSUME ClassInv, Age PROVE ClassInv'
<1>1. /\ conf' = conf /\ ucb' = ucb /\ kad' = kad /\ counted' = counted /\ sent' = sent
      /\ streak' = streak /\ status' = status /\ dropped' = dropped
      /\ aged' = {d \in Dirs : ucb[d].packets > 0}
  BY DEF Age
<1>2. Flow' = Flow BY <1>1 DEF Flow
<1>3. Flow \in ClassFlows /\ ~ Flow.exited /\ Becomes(Flow) BY <1>1 DEF Flow, ClassInv, Typed, Becomes
<1>4. /\ Pair(Flow)' /\ UtpGrounds(Flow, sent)' /\ KadGrounds(Flow, sent)'
      /\ VodGrounds(Flow, sent, streak)'
      /\ Tallied(Flow) => Tallied(Flow)' /\ (Judged(Flow) => Judged(Flow)')
      /\ (Balanced(Flow, dropped) => Balanced(Flow, dropped)')
  BY <1>1, <1>3, NextFlow DEF ClassInv, Grounds
<1>5. Typed' BY <1>1, <1>2 DEF ClassInv, Typed
<1>6. CountedFor' /\ NoExit' BY <1>1 DEF ClassInv, CountedFor, Entries, NoExit
<1> QED BY <1>1, <1>4, <1>5, <1>6 DEF ClassInv, Grounds, WhileOpen

\* And so does a step that changes nothing.
LEMMA StutterKeeps == ASSUME ClassInv, UNCHANGED classVars PROVE ClassInv'
<1>1. /\ conf' = conf /\ ucb' = ucb /\ kad' = kad /\ counted' = counted /\ sent' = sent
      /\ streak' = streak /\ status' = status /\ aged' = aged /\ dropped' = dropped
  BY DEF classVars
<1>2. Flow' = Flow BY <1>1 DEF Flow
<1>3. Flow \in ClassFlows /\ ~ Flow.exited /\ Becomes(Flow) BY <1>1 DEF Flow, ClassInv, Typed, Becomes
<1>4. /\ Pair(Flow)' /\ UtpGrounds(Flow, sent)' /\ KadGrounds(Flow, sent)'
      /\ VodGrounds(Flow, sent, streak)'
      /\ (Tallied(Flow) => Tallied(Flow)') /\ (Judged(Flow) => Judged(Flow)')
      /\ (Balanced(Flow, dropped) => Balanced(Flow, dropped)')
  BY <1>1, <1>3, NextFlow DEF ClassInv, Grounds
<1>5. Typed' BY <1>1, <1>2 DEF ClassInv, Typed
<1>6. CountedFor' /\ NoExit' BY <1>1 DEF ClassInv, CountedFor, Entries, NoExit
<1> QED BY <1>1, <1>4, <1>5, <1>6 DEF ClassInv, Grounds, WhileOpen

\* A flow that begins.
LEMMA InitHolds == ClassInit => ClassInv
<1> SUFFICES ASSUME ClassInit PROVE ClassInv OBVIOUS
<1>1. NewDir \in Ucb
  <2>1. [t \in SkypePkts |-> 0] \in [SkypePkts -> Nat] OBVIOUS
  <2>2. /\ "UNKNOWN" \in Types /\ "UNKNOWN" \in UtpStates /\ "UNKNOWN" \in KadStates
        /\ "no" \in Verdicts
    BY DEF Types, UtpStates, KadStates, Verdicts
  <2> QED BY <2>1, <2>2 DEF NewDir, Ucb
<1>2. /\ conf \in Confs /\ aged = {} /\ status = "open"
      /\ \A e \in Dirs : /\ Flow.ucb[e] = NewDir /\ Flow.counted[e] = <<>>
                         /\ sent[e] = {} /\ streak[e] = <<<<0, 0>>, 0>>
      /\ Flow.kad = "UNKNOWN" /\ dropped = [e \in Dirs |-> 0]
  BY DEF ClassInit, Flow
<1>3. Typed
  <2>1. "UNKNOWN" \in KadVerdicts /\ <<>> \in Seq(Labels) /\ {} \in SUBSET Payload
        /\ <<<<0, 0>>, 0>> \in Streaks
    BY DEF KadVerdicts, Streaks
  <2>2. ucb \in [Dirs -> Ucb] /\ counted \in [Dirs -> Seq(Labels)] BY <1>1, <2>1 DEF ClassInit
  <2>3. Flow \in ClassFlows BY <2>1, <2>2 DEF ClassInit, Flow, ClassFlows
  <2>4. sent \in [Dirs -> SUBSET Payload] /\ streak \in [Dirs -> Streaks] BY <2>1 DEF ClassInit
  <2> QED BY <1>2, <2>3, <2>4 DEF Typed
<1>4. /\ NewDir.utp = "UNKNOWN" /\ NewDir.isUtp = FALSE /\ NewDir.isVod = FALSE
      /\ NewDir.kad = "UNKNOWN" /\ NewDir.lastLen = 0 /\ NewDir.count = 0
      /\ NewDir.type = "UNKNOWN" /\ NewDir.packets = 0
  BY DEF NewDir
<1>5. Pair(Flow) BY <1>2, <1>4, Others DEF Pair, UtpSent, UtpSeen
<1>6. Grounds
  <2>1. UtpGrounds(Flow, sent) BY <1>2, <1>4, Others DEF UtpGrounds, UtpSent
  <2>2. KadGrounds(Flow, sent) BY <1>2, <1>4 DEF KadGrounds, KadRequests
  <2>3. VodGrounds(Flow, sent, streak) BY <1>2, <1>4, Others DEF VodGrounds, InARow
  <2> QED BY <2>1, <2>2, <2>3 DEF Grounds
<1>7. Judged(Flow) BY <1>2, <1>4 DEF Judged, SkypeTypes, SkypeFlows
<1>8. \A e \in Dirs : \A types : Number(Flow.counted[e], types) = 0
  <2>1. \A types : {i \in DOMAIN <<>> : <<>>[i] \in types} = {} OBVIOUS
  <2> QED BY <1>2, <2>1, FS_EmptySet DEF Number
<1>9. \A e \in Dirs : Early(Flow.ucb[e]) = 0 /\ Stream(Flow.ucb[e]) = 0
  BY <1>2 DEF Early, Stream, NewDir, RtpTypes
<1>10. Tallied(Flow)
  <2>1. \A e \in Dirs : Len(Flow.counted[e]) = 0 BY <1>2
  <2>2. Flow.ucb["c2s"].early = Flow.ucb["s2c"].early BY <1>2 DEF Dirs
  <2>3. \A e \in Dirs : /\ Number(Flow.counted[e], Verdicts) <= Early(Flow.ucb[e])
                        /\ Len(Flow.counted[e]) = Number(Flow.counted[e], RtpTypes)
                                                    + Number(Flow.counted[e], Verdicts)
    BY <1>8, <1>9, <2>1
  <2> QED BY <2>2, <2>3 DEF Tallied
<1>11. Balanced(Flow, dropped) BY <1>2, <1>8, <1>9 DEF Balanced, Spent
<1>12. CountedFor
  <2>1. Account(Flow, dropped, FALSE) BY <1>2, <1>3, <1>10, <1>11, OpenAccount DEF Typed
  <2> QED BY <1>2, <2>1 DEF Account, CountedFor, Entries, Number, Early, Stream, Flow
<1> QED BY <1>2, <1>3, <1>5, <1>6, <1>7, <1>10, <1>11, <1>12 DEF ClassInv, WhileOpen, NoExit

------------------------------
\* The invariant is inductive: whatever the packets, the options and the
\* limits of the checks are.
THEOREM ClassInductive == ClassSpec => []ClassInv
<1>1. ClassInv /\ [ClassNext]_classVars => ClassInv'
  <2> SUFFICES ASSUME ClassInv, [ClassNext]_classVars PROVE ClassInv' OBVIOUS
  <2>1. CASE \E d \in Dirs : \E p \in conf.payloads : Packet(d, p) BY <2>1, PacketKeeps
  <2>2. CASE Age BY <2>2, AgeKeeps
  <2>3. CASE CloseFlow BY <2>3, CloseKeeps
  <2>4. CASE UNCHANGED classVars BY <2>4, StutterKeeps
  <2> QED BY <2>1, <2>2, <2>3, <2>4 DEF ClassNext
<1> QED BY <1>1, InitHolds, PTL DEF ClassSpec

\* The record of a flow is well formed and its directions are a pair
\* (check_uTP and check_udp_vod write both).
THEOREM FlowSound == ClassSpec => []Sound
<1>1. ClassInv => Sound
  <2> SUFFICES ASSUME ClassInv PROVE Sound OBVIOUS
  <2>1. Flow.ucb = ucb /\ Flow.kad = kad /\ Flow \in ClassFlows BY DEF ClassInv, Typed, Flow
  <2>2. kad \in KadVerdicts /\ ucb \in [Dirs -> Ucb] BY <2>1 DEF ClassFlows
  <2>3. ClassTypeOK BY <2>2 DEF ClassTypeOK, ClassInv, Typed, Ucb, KadVerdicts, KadStates, UtpStates
  <2>4. Paired BY <2>1 DEF ClassInv, Pair, Paired
  <2> QED BY <2>3, <2>4 DEF Sound
<1> QED BY <1>1, ClassInductive, PTL

\* No flow is called uTP, VoD or obfuscated Kad without the packets the
\* checks ask for.
THEOREM GroundsFound == ClassSpec => []Evidence
<1>1. ClassInv => Evidence
  <2> SUFFICES ASSUME ClassInv PROVE Evidence OBVIOUS
  <2>1. Flow.ucb = ucb /\ Flow.kad = kad BY DEF Flow
  <2>2. \A p, q : KadLengths(kad, p, q) => KadPair(p, q) BY DEF KadLengths, KadPair
  <2> QED BY <2>1, <2>2 DEF ClassInv, Grounds, UtpGrounds, KadGrounds, VodGrounds, VodFound, Evidence
<1> QED BY <1>1, ClassInductive, PTL

\* Every count of a flow in L7_UDP_num stands for a stream, a judgement or
\* its label at the close (make_p2p_conn_stats, print_skype_conn_stats_UDP,
\* rtp_flow_stat).
THEOREM CountsExplained == ClassSpec => []CountedFor
<1>1. ClassInv => CountedFor BY DEF ClassInv
<1> QED BY <1>1, ClassInductive, PTL

\* The classifier of Skype never reaches the point where it gives up
\* (skype_conn_stats_UDP, "No idea how I get there !").
THEOREM NeverExits == ClassSpec => []NoExit
<1>1. ClassInv => NoExit BY DEF ClassInv
<1> QED BY <1>1, ClassInductive, PTL
==============================
