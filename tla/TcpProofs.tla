----------------------------- MODULE TcpProofs -----------------------------
(***************************************************************************)
(* TCP.  Of the table: the agreement of ttp[] with the hash lists, the     *)
(* order of the lists, the bound on silent flows and the conservation of   *)
(* flows, for any number of address pairs, buckets and slots and for any   *)
(* timeouts.  Of the classification: the counts of the open sessions, that *)
(* a label only becomes more specific, what every label was taken from,    *)
(* the bytes counted once and the hosts placed as the options say, for any *)
(* segments, limits, options and addresses.                                *)
(***************************************************************************)
EXTENDS TcpTable, TcpClass, FiniteSetTheorems, SequenceTheorems, WellFoundedInduction, TLAPS

\* The variables of SlotLoop play no part in what is used here.
TP == INSTANCE SlotSearchProofs WITH Pairs <- MaxTcpPairs, SearchDept <- ListSearchDept, occ <- {}, old <- 0, num <- 0,
                                     steps <- 0, pc <- "loop"

------------------------------
\* What the operations of SequencesExt and FlowLists do to a list, element
\* by element.

\* Cons shifts the others by one.
LEMMA Pushing ==
  ASSUME NEW E, NEW s \in Seq(E), NEW e \in E
  PROVE  /\ Cons(e, s) \in Seq(E)
         /\ Len(Cons(e, s)) = Len(s) + 1
         /\ Cons(e, s)[1] = e
         /\ \A k \in 2 .. Len(s) + 1 : Cons(e, s)[k] = s[k - 1]
<1>1. <<e>> \in Seq(E) /\ Len(<<e>>) = 1 /\ <<e>>[1] = e /\ Len(s) \in Nat OBVIOUS
<1> QED BY <1>1 DEF Cons

\* Two parts put together are s without its place i.
LEMMA Glued ==
  ASSUME NEW s, NEW l, NEW r, NEW c, NEW n \in Nat, NEW i \in 1 .. n,
         \A k \in 1 .. i - 1 : l[k] = s[k], \A k \in 1 .. n - i : r[k] = s[k + i],
         \A k \in 1 .. n - 1 : c[k] = IF k <= i - 1 THEN l[k] ELSE r[k - (i - 1)]
  PROVE  \A k \in 1 .. n - 1 : c[k] = IF k < i THEN s[k] ELSE s[k + 1]
<1> TAKE k \in 1 .. n - 1
<1>1. CASE k < i BY <1>1
<1>2. CASE k >= i
  <2>1. k - (i - 1) \in 1 .. n - i /\ (k - (i - 1)) + i = k + 1 BY <1>2
  <2>2. c[k] = r[k - (i - 1)] BY <1>2
  <2> QED BY <1>2, <2>1, <2>2
<1> QED BY <1>1, <1>2

\* RemoveAt closes the gap, and keeps the order of the others.
LEMMA Removal ==
  ASSUME NEW E, NEW s \in Seq(E), NEW i \in DOMAIN s
  PROVE  /\ RemoveAt(s, i) \in Seq(E)
         /\ Len(RemoveAt(s, i)) = Len(s) - 1
         /\ \A k \in 1 .. Len(s) - 1 :
              RemoveAt(s, i)[k] = IF k < i THEN s[k] ELSE s[k + 1]
<1> i \in 1 .. Len(s) /\ Len(s) \in Nat OBVIOUS
<1> DEFINE l == SubSeq(s, 1, i - 1)  r == SubSeq(s, i + 1, Len(s))
<1>1. l \in Seq(E) /\ Len(l) = i - 1 /\ \A k \in 1 .. i - 1 : l[k] = s[k] OBVIOUS
<1>2. r \in Seq(E) /\ Len(r) = Len(s) - i /\ \A k \in 1 .. Len(s) - i : r[k] = s[k + i] OBVIOUS
<1>3. RemoveAt(s, i) = l \o r BY DEF RemoveAt
<1> HIDE DEF l, r
<1>4. /\ l \o r \in Seq(E) /\ Len(l \o r) = Len(l) + Len(r)
      /\ \A k \in 1 .. Len(l) + Len(r) :
           (l \o r)[k] = IF k <= Len(l) THEN l[k] ELSE r[k - Len(l)]
  BY <1>1, <1>2, ConcatProperties
<1>5. Len(l \o r) = Len(s) - 1 BY <1>1, <1>2, <1>4
<1>6. Len(l) = i - 1 /\ Len(l) + Len(r) = Len(s) - 1 BY <1>1, <1>2
<1>7. \A k \in 1 .. Len(s) - 1 : (l \o r)[k] = IF k <= i - 1 THEN l[k] ELSE r[k - (i - 1)] BY <1>4, <1>6
<1>8. \A k \in 1 .. Len(s) - 1 : (l \o r)[k] = IF k < i THEN s[k] ELSE s[k + 1] BY <1>1, <1>2, <1>7, Glued
<1> QED BY <1>3, <1>4, <1>5, <1>8

\* The moved entry is first, the others follow in their order.
LEMMA Move ==
  ASSUME NEW E, NEW s \in Seq(E), NEW i \in DOMAIN s
  PROVE  /\ MoveToHead(s, i) \in Seq(E)
         /\ Len(MoveToHead(s, i)) = Len(s)
         /\ MoveToHead(s, i)[1] = s[i]
         /\ \A k \in 2 .. Len(s) : MoveToHead(s, i)[k] = IF k <= i THEN s[k - 1] ELSE s[k]
         /\ Tail(MoveToHead(s, i)) = RemoveAt(s, i)
<1> DEFINE r == RemoveAt(s, i)
<1>1. /\ r \in Seq(E)
      /\ Len(r) = Len(s) - 1
      /\ \A k \in 1 .. Len(s) - 1 : r[k] = IF k < i THEN s[k] ELSE s[k + 1]
  BY Removal
<1>2. MoveToHead(s, i) = <<s[i]>> \o r BY DEF MoveToHead, Cons
<1> HIDE DEF r
<1>3. s[i] \in E /\ i \in 1 .. Len(s) /\ Len(s) \in Nat OBVIOUS
<1>4. <<s[i]>> \in Seq(E) /\ Len(<<s[i]>>) = 1 BY <1>3
<1>5. /\ <<s[i]>> \o r \in Seq(E)
      /\ Len(<<s[i]>> \o r) = Len(s)
      /\ (<<s[i]>> \o r)[1] = s[i]
      /\ \A k \in 2 .. Len(s) : (<<s[i]>> \o r)[k] = r[k - 1]
  BY <1>1, <1>3, <1>4
<1>6. Tail(<<s[i]>> \o r) = r BY <1>1, <1>3, <1>5
<1> QED BY <1>1, <1>2, <1>3, <1>5, <1>6 DEF r

\* The match found is one of the matches.
LEMMA FirstIs ==
  ASSUME NEW E, NEW s \in Seq(E), NEW c, Matches(s, c) # {}
  PROVE  /\ FirstMatch(s, c) \in DOMAIN s
         /\ s[FirstMatch(s, c)].addr_pair = c
<1>1. Matches(s, c) \in SUBSET Nat /\ Matches(s, c) \subseteq DOMAIN s BY DEF Matches
<1>2. \E i \in Matches(s, c) : \A j \in Matches(s, c) : i <= j
  <2>1. TP!SlotAssumption BY TcpTableAssumption DEF TP!SlotAssumption
  <2>2. \A X \in SUBSET Nat : X # {} => \E i \in X : \A j \in X : i <= j BY <2>1, TP!Least
  <2> QED BY <1>1, <2>2
<1>3. FirstMatch(s, c) \in Matches(s, c) BY <1>2 DEF FirstMatch
<1> QED BY <1>3 DEF Matches

------------------------------
\* Where the entries of a changed list t come from: each is the new head
\* or an old entry, the old ones in their old order, and none but the one
\* removed is lost; the entries still have different addresses.
Distinct(s) == \A i, j \in DOMAIN s : s[i].addr_pair = s[j].addr_pair => i = j

Pushed(s, e, t) ==
  /\ DOMAIN t \subseteq Int
  /\ \A k \in DOMAIN t : \/ k = 1 /\ t[k] = e
                         \/ k > 1 /\ k - 1 \in DOMAIN s /\ t[k] = s[k - 1]
  /\ 1 \in DOMAIN t /\ t[1] = e
  /\ \A j \in DOMAIN s : \E k \in DOMAIN t : t[k] = s[j]
  /\ Distinct(s) /\ Matches(s, e.addr_pair) = {} => Distinct(t)

LEMMA PushOrigin ==
  ASSUME NEW E, NEW s \in Seq(E), NEW e \in E, NEW t, t = Cons(e, s)
  PROVE  t \in Seq(E) /\ Pushed(s, e, t)
<1>1. /\ t \in Seq(E)
      /\ Len(t) = Len(s) + 1
      /\ t[1] = e
      /\ \A k \in 2 .. Len(s) + 1 : t[k] = s[k - 1]
  <2>1. /\ Cons(e, s) \in Seq(E)
        /\ Len(Cons(e, s)) = Len(s) + 1
        /\ Cons(e, s)[1] = e
        /\ \A k \in 2 .. Len(s) + 1 : Cons(e, s)[k] = s[k - 1]
    BY Pushing DEF Cons
  <2> QED BY <2>1, Zenon
<1>2. Len(s) \in Nat /\ DOMAIN s = 1 .. Len(s) /\ DOMAIN t = 1 .. Len(s) + 1 BY <1>1
<1>3. ASSUME NEW k \in DOMAIN t
      PROVE  (k = 1 /\ t[k] = e) \/ (k > 1 /\ k - 1 \in DOMAIN s /\ t[k] = s[k - 1])
  BY <1>1, <1>2
<1>4. ASSUME NEW j \in DOMAIN s
      PROVE  j + 1 \in DOMAIN t /\ t[j + 1] = s[j]
  <2>1. j + 1 \in 2 .. Len(s) + 1 /\ (j + 1) - 1 = j BY <1>2
  <2> QED BY <1>1, <1>2, <2>1
<1>5. 1 \in DOMAIN t /\ DOMAIN t \subseteq Int BY <1>2
<1>6. ASSUME Distinct(s), Matches(s, e.addr_pair) = {}
      PROVE  Distinct(t)
  <2> SUFFICES ASSUME NEW i \in DOMAIN t, NEW j \in DOMAIN t, t[i].addr_pair = t[j].addr_pair
               PROVE  i = j
    BY DEF Distinct
  <2>1. \A k \in DOMAIN s : s[k].addr_pair # e.addr_pair BY <1>6 DEF Matches
  <2>2. i \in Int /\ j \in Int BY <1>5
  <2>3. CASE i = 1 BY <1>3, <2>1, <2>2, <2>3
  <2>4. CASE j = 1 BY <1>3, <2>1, <2>2, <2>4
  <2>5. CASE i # 1 /\ j # 1
    <3>1. i - 1 \in DOMAIN s /\ j - 1 \in DOMAIN s
          /\ s[i - 1].addr_pair = s[j - 1].addr_pair
      BY <1>3, <2>5
    <3>2. i - 1 = j - 1 BY <1>6, <3>1 DEF Distinct
    <3> QED BY <2>2, <3>2
  <2> QED BY <2>3, <2>4, <2>5
<1> QED BY <1>1, <1>3, <1>4, <1>5, <1>6 DEF Pushed

Moved(s, i, t) ==
  /\ DOMAIN t \subseteq Int /\ i \in Int
  /\ \A k \in DOMAIN t :
       \/ k = 1 /\ t[k] = s[i]
       \/ k > 1 /\ k <= i /\ k - 1 \in DOMAIN s /\ t[k] = s[k - 1]
       \/ k > i /\ k > 1 /\ k \in DOMAIN s /\ t[k] = s[k]
  /\ \A j \in DOMAIN s : \E k \in DOMAIN t : t[k] = s[j]
  /\ Distinct(s) => Distinct(t)

LEMMA MoveOrigin ==
  ASSUME NEW E, NEW s \in Seq(E), NEW i \in DOMAIN s, NEW t, t = MoveToHead(s, i)
  PROVE  t \in Seq(E) /\ Moved(s, i, t)
<1>1. /\ t \in Seq(E)
      /\ Len(t) = Len(s)
      /\ t[1] = s[i]
      /\ \A k \in 2 .. Len(s) : t[k] = IF k <= i THEN s[k - 1] ELSE s[k]
  BY Move
<1>2. /\ Len(s) \in Nat /\ DOMAIN s = 1 .. Len(s) /\ DOMAIN t = 1 .. Len(s)
      /\ i \in 1 .. Len(s) /\ DOMAIN t \subseteq Int /\ i \in Int
  BY <1>1
<1>3. ASSUME NEW k \in DOMAIN t
      PROVE  \/ k = 1 /\ t[k] = s[i]
             \/ k > 1 /\ k <= i /\ k - 1 \in DOMAIN s /\ t[k] = s[k - 1]
             \/ k > i /\ k > 1 /\ k \in DOMAIN s /\ t[k] = s[k]
  BY <1>1, <1>2
<1>4. ASSUME NEW j \in DOMAIN s
      PROVE  \E k \in DOMAIN t : t[k] = s[j]
  <2>1. CASE j < i
    <3>1. j + 1 \in 2 .. Len(s) /\ j + 1 <= i /\ (j + 1) - 1 = j BY <1>2, <2>1
    <3> QED BY <1>1, <1>2, <3>1
  <2>2. CASE j = i BY <1>1, <1>2, <2>2
  <2>3. CASE j > i
    <3>1. j \in 2 .. Len(s) /\ ~(j <= i) BY <1>2, <2>3
    <3> QED BY <1>1, <1>2, <3>1
  <2> QED BY <1>2, <2>1, <2>2, <2>3
<1>5. ASSUME Distinct(s)
      PROVE  Distinct(t)
  <2> DEFINE o(k) == IF k = 1 THEN i ELSE IF k <= i THEN k - 1 ELSE k
  <2>1. ASSUME NEW k \in DOMAIN t
        PROVE  o(k) \in DOMAIN s /\ t[k] = s[o(k)]
    BY <1>2, <1>3
  <2>2. ASSUME NEW k \in DOMAIN t, NEW j \in DOMAIN t, o(k) = o(j)
        PROVE  k = j
    BY <1>2, <2>2
  <2> HIDE DEF o
  <2> QED BY <1>5, <2>1, <2>2 DEF Distinct
<1> QED BY <1>1, <1>2, <1>3, <1>4, <1>5 DEF Moved

Removed(s, i, t) ==
  /\ DOMAIN t \subseteq Int /\ i \in Int
  /\ \A k \in DOMAIN t : \/ k < i /\ k \in DOMAIN s /\ t[k] = s[k]
                         \/ k >= i /\ k + 1 \in DOMAIN s /\ t[k] = s[k + 1]
  /\ \A j \in DOMAIN s : j # i => \E k \in DOMAIN t : t[k] = s[j]
  /\ Distinct(s) => Distinct(t)

LEMMA RemoveOrigin ==
  ASSUME NEW E, NEW s \in Seq(E), NEW i \in DOMAIN s, NEW t, t = RemoveAt(s, i)
  PROVE  t \in Seq(E) /\ Removed(s, i, t)
<1>1. /\ t \in Seq(E)
      /\ Len(t) = Len(s) - 1
      /\ \A k \in 1 .. Len(s) - 1 : t[k] = IF k < i THEN s[k] ELSE s[k + 1]
  BY Removal
<1>2. /\ Len(s) \in Nat /\ DOMAIN s = 1 .. Len(s) /\ DOMAIN t = 1 .. Len(s) - 1
      /\ i \in 1 .. Len(s) /\ DOMAIN t \subseteq Int /\ i \in Int
  BY <1>1
<1>3. ASSUME NEW k \in DOMAIN t
      PROVE  \/ k < i /\ k \in DOMAIN s /\ t[k] = s[k]
             \/ k >= i /\ k + 1 \in DOMAIN s /\ t[k] = s[k + 1]
  BY <1>1, <1>2
<1>4. ASSUME NEW j \in DOMAIN s, j # i
      PROVE  \E k \in DOMAIN t : t[k] = s[j]
  <2>1. CASE j < i
    <3>1. j \in 1 .. Len(s) - 1 BY <1>2, <2>1
    <3> QED BY <1>1, <1>2, <2>1, <3>1
  <2>2. CASE j > i
    <3>1. j - 1 \in 1 .. Len(s) - 1 /\ ~(j - 1 < i) /\ (j - 1) + 1 = j BY <1>2, <2>2
    <3> QED BY <1>1, <1>2, <3>1
  <2> QED BY <1>2, <1>4, <2>1, <2>2
<1>5. ASSUME Distinct(s)
      PROVE  Distinct(t)
  <2> DEFINE o(k) == IF k < i THEN k ELSE k + 1
  <2>1. ASSUME NEW k \in DOMAIN t
        PROVE  o(k) \in DOMAIN s /\ t[k] = s[o(k)]
    BY <1>2, <1>3
  <2>2. ASSUME NEW k \in DOMAIN t, NEW j \in DOMAIN t, o(k) = o(j)
        PROVE  k = j
    BY <1>2, <2>2
  <2> HIDE DEF o
  <2> QED BY <1>5, <2>1, <2>2 DEF Distinct
<1> QED BY <1>1, <1>2, <1>3, <1>4, <1>5 DEF Removed

------------------------------
\* A slot of the table as FindTTP reaches it.
LEMMA LandingInTable ==
  ASSUME NEW cur \in Slots, NEW occ
  PROVE  S!Landing(cur, occ) \in Slots
<1>1. TP!SlotAssumption BY TcpTableAssumption DEF TP!SlotAssumption
<1>2. cur \in TP!Slots \cup {-1} BY DEF Slots, S!Slots, TP!Slots
<1>3. TP!Landing(cur, occ) \in TP!Slots BY <1>1, <1>2, TP!LandingType
<1> QED
  BY <1>3 DEF Slots, S!Slots, TP!Slots, S!Landing, TP!Landing, S!MaxStep, TP!MaxStep,
              S!Probe, TP!Probe

------------------------------
\* The flow that is to be opened after the cleaning is still unknown then,
\* and there was room for it under the bound on f_TCP_count.
PendingUnknown ==
  pending # NoFlow => /\ ~Known(pending[1])
                      /\ f_TCP_count < MaxFlows
                      /\ ix # NotCleaning

\* The trace never ends in the middle of a cleaning.
OverIdle == over => ix = NotCleaning

\* The slots the cleaning has passed hold no expired flow.
CleanedBehind ==
  \A s \in Slots : s < ix /\ ttp[s] # Free => ~Expired(ttp[s])

\* The inductive invariant.
Core == TypeOK /\ ListsMatchTable /\ PendingUnknown /\ OverIdle

------------------------------
\* What a step, other than the passing of time, does to ttp[] and to the
\* lists is one of four changes.
InsertFlow(c, s, r) ==
  /\ ttp[s] = Free /\ ~Known(c) /\ r.conn = c /\ r.last = 0
  /\ ttp' = [ttp EXCEPT ![s] = r]
  /\ ptp_hashtable' = [ptp_hashtable EXCEPT ![HashOf[c]] =
                         Cons([addr_pair |-> c, ttp_ptr |-> s], @)]

RefreshFlow(c, r) ==
  /\ Known(c) /\ r.conn = c /\ r.last = 0
  /\ ttp' = [ttp EXCEPT ![Found(c)] = r]
  /\ ptp_hashtable' = [ptp_hashtable EXCEPT ![HashOf[c]] = Touched(c)]

RemoveFlow(c) ==
  /\ Known(c)
  /\ ttp' = [ttp EXCEPT ![Found(c)] = Free]
  /\ ptp_hashtable' = [ptp_hashtable EXCEPT ![HashOf[c]] =
                         RemoveAt(@, FirstMatch(@, c))]

Change ==
  \/ UNCHANGED <<ttp, ptp_hashtable>>
  \/ \E c \in Conns, s \in Slots, r \in Pair : InsertFlow(c, s, r)
  \/ \E c \in Conns, r \in Pair : RefreshFlow(c, r)
  \/ \E c \in Conns : RemoveFlow(c)

\* The entry found for a known address, and the slot it leads to.
LEMMA FoundFlow ==
  ASSUME Core, NEW c \in Conns, Known(c)
  PROVE  /\ HashOf[c] \in Buckets
         /\ Bucket(c) \in Seq(Entry)
         /\ FirstMatch(Bucket(c), c) \in DOMAIN Bucket(c)
         /\ Bucket(c)[FirstMatch(Bucket(c), c)].addr_pair = c
         /\ Found(c) \in Slots
         /\ ttp[Found(c)] \in Pair
         /\ ttp[Found(c)].conn = c
         /\ \A b \in Buckets : \A i \in DOMAIN ptp_hashtable[b] :
              ptp_hashtable[b][i].ttp_ptr = Found(c) =>
                b = HashOf[c] /\ i = FirstMatch(Bucket(c), c)
<1>1. HashOf[c] \in Buckets /\ Bucket(c) \in Seq(Entry) BY TcpTableAssumption DEF Core, TypeOK, Bucket
<1>2. /\ FirstMatch(Bucket(c), c) \in DOMAIN Bucket(c)
      /\ Bucket(c)[FirstMatch(Bucket(c), c)].addr_pair = c
  BY <1>1, FirstIs DEF Known
<1>3. Bucket(c)[FirstMatch(Bucket(c), c)] \in Entry BY <1>1, <1>2
<1>4. Found(c) \in Slots BY <1>3 DEF Found, Entry
<1>5. ttp[Found(c)] # Free /\ ttp[Found(c)].conn = c
  BY <1>1, <1>2 DEF Core, ListsMatchTable, EntriesLead, Bucket, Found
<1>6. ttp[Found(c)] \in Pair BY <1>4, <1>5 DEF Core, TypeOK
<1>7. ASSUME NEW b \in Buckets, NEW i \in DOMAIN ptp_hashtable[b],
             ptp_hashtable[b][i].ttp_ptr = Found(c)
      PROVE  b = HashOf[c] /\ i = FirstMatch(Bucket(c), c)
  <2>1. ptp_hashtable[b][i].addr_pair = c /\ b = HashOf[c]
    BY <1>5, <1>7 DEF Core, ListsMatchTable, EntriesLead
  <2> QED BY <1>1, <1>2, <2>1 DEF Core, ListsMatchTable, EntriesDistinct, Bucket
<1> QED BY <1>1, <1>2, <1>4, <1>5, <1>6, <1>7

------------------------------
\* Closing a flow drops the head the hit has made of it.
LEMMA CloseIsRemove ==
  ASSUME Core, NEW c \in Conns, Known(c), NEW r, NEW b,
         CloseFlow(c, r, b)
  PROVE  RemoveFlow(c)
<1>1. Tail(Touched(c)) = RemoveAt(Bucket(c), FirstMatch(Bucket(c), c)) BY FoundFlow, Move DEF Touched
<1> QED BY <1>1 DEF CloseFlow, RemoveFlow, Bucket

\* Storing a packet keeps a record a record, of the same flow.
Update(q, x, y, z, b) ==
  [q EXCEPT !.last = 0, !.syn = x, !.fin = y, !.closed = z, !.only_syn = b]

LEMMA PairUpdate ==
  ASSUME NEW q \in Pair, NEW x \in SUBSET Sides, NEW y \in SUBSET Sides,
         NEW z \in SUBSET Sides, NEW b \in BOOLEAN
  PROVE  /\ Update(q, x, y, z, b) \in Pair
         /\ Update(q, x, y, z, b).conn = q.conn
         /\ Update(q, x, y, z, b).last = 0
  BY DEF Pair, Update

LEMMA StoredType ==
  ASSUME NEW q \in Pair, NEW dir \in Sides, NEW p, NEW a \in BOOLEAN
  PROVE  /\ Stored(q, dir, p, a) \in Pair
         /\ Stored(q, dir, p, a).conn = q.conn
         /\ Stored(q, dir, p, a).last = 0
<1> DEFINE x == AddIf("SYN" \in p, q.syn, dir)
           y == AddIf("FIN" \in p, q.fin, dir)
           z == AddIf("ACK" \in p /\ a /\ Opposite(dir) \in q.fin, q.closed, Opposite(dir))
           b == q.only_syn /\ "SYN" \in p
<1>1. Opposite(dir) \in Sides BY DEF Opposite, Sides
<1>2. x \in SUBSET Sides /\ y \in SUBSET Sides /\ z \in SUBSET Sides BY <1>1 DEF Pair, AddIf
<1>3. b \in BOOLEAN BY DEF Pair
<1>4. Stored(q, dir, p, a) = Update(q, x, y, z, b) BY Zenon DEF Stored, Update
<1> HIDE DEF x, y, z, b
<1>5. /\ Update(q, x, y, z, b) \in Pair
      /\ Update(q, x, y, z, b).conn = q.conn
      /\ Update(q, x, y, z, b).last = 0
  BY <1>2, <1>3, PairUpdate
<1> QED BY <1>4, <1>5, Zenon

\* The flow a SYN opens enters the table at a free slot.
LEMMA OpenIsInsert ==
  ASSUME Core, NEW c \in Conns, NEW p \in Traffic, ~Known(c), OpenFlow(c, p)
  PROVE  \/ UNCHANGED <<ttp, ptp_hashtable>>
         \/ \E s \in Slots, r \in Pair : InsertFlow(c, s, r)
<1> DEFINE s == S!Landing(num_tcp_pairs, Occupied)
           r == Stored(Fresh(c), "C2S", p, FALSE)
<1>1. r \in Pair /\ r.conn = c /\ r.last = 0 BY DEF Stored, Fresh, Pair, AddIf, Sides, Opposite
<1>2. s \in Slots BY LandingInTable DEF Core, TypeOK
<1>3. CASE ~S!Found(num_tcp_pairs, Occupied) \/ "RST" \in p BY <1>3 DEF OpenFlow
<1>4. CASE S!Found(num_tcp_pairs, Occupied) /\ "RST" \notin p
  <2>1. ttp[s] = Free BY <1>2, <1>4 DEF S!Found, Occupied
  <2>2. /\ ttp' = [ttp EXCEPT ![s] = r]
        /\ ptp_hashtable' = [ptp_hashtable EXCEPT ![HashOf[c]] =
                               Cons([addr_pair |-> c, ttp_ptr |-> s], @)]
    BY <1>4 DEF OpenFlow
  <2> HIDE DEF s, r
  <2> QED BY <1>1, <1>2, <2>1, <2>2 DEF InsertFlow
<1> QED BY <1>3, <1>4

\* The expired flow the cleaning is at is the one its own address finds.
LEMMA CleanIsRemove ==
  ASSUME Core, NEW s \in Slots, ttp[s] # Free
  PROVE  LET c == ttp[s].conn
         IN  /\ c \in Conns /\ Known(c) /\ Found(c) = s
             /\ Unlink(Bucket(c), c) = RemoveAt(Bucket(c), FirstMatch(Bucket(c), c))
<1> DEFINE c == ttp[s].conn
<1>1. c \in Conns BY DEF Core, TypeOK, Pair
<1>2. PICK i \in DOMAIN Bucket(c) : Bucket(c)[i] = [addr_pair |-> c, ttp_ptr |-> s]
  BY DEF Core, ListsMatchTable, SlotsReached, Occupied
<1>3. i \in Matches(Bucket(c), c) BY <1>2 DEF Matches
<1>4. Known(c) BY <1>3 DEF Known
<1>5. i = FirstMatch(Bucket(c), c)
  BY <1>1, <1>2, <1>4, FoundFlow DEF Core, ListsMatchTable, EntriesDistinct, Bucket
<1>6. Found(c) = s BY <1>2, <1>5 DEF Found
<1> QED BY <1>1, <1>3, <1>4, <1>6 DEF Unlink

\* Every other step is one of the changes.
LEMMA StepChange ==
  ASSUME Core, [Next]_vars, ~Tick
  PROVE  Change
<1>1. ASSUME NEW c \in Conns, NEW p \in Traffic, RecvFirstSyn(c, p)
      PROVE  Change
  BY <1>1, OpenIsInsert DEF RecvFirstSyn, tables, Change
<1>2. CASE RecvFirstDatagram BY <1>2 DEF RecvFirstDatagram, tables, Change
<1>3. ASSUME NEW c \in Conns, NEW dir \in Sides, NEW p \in Traffic, NEW a \in BOOLEAN,
             Recv(c, dir, p, a)
      PROVE  Change
  <2> DEFINE r == Stored(ttp[Found(c)], dir, p, a)
  <2>1. Known(c) BY <1>3 DEF Recv
  <2>2. r \in Pair /\ r.conn = c /\ r.last = 0 BY <2>1, FoundFlow, StoredType
  <2>3. CASE KeepFlow(c, r) BY <2>1, <2>2, <2>3 DEF KeepFlow, RefreshFlow, Change
  <2>4. ASSUME NEW b, CloseFlow(c, r, b)
        PROVE  Change
    BY <2>1, <2>4, CloseIsRemove DEF Change
  <2>5. CASE KeepFlow(c, r) \/ \E b : CloseFlow(c, r, b) BY <2>3, <2>4, <2>5
  <2> QED BY <1>3, <2>5 DEF Recv
<1>4. ASSUME NEW c \in Conns, RecvDuplicate(c)
      PROVE  Change
  <2> DEFINE r == [ttp[Found(c)] EXCEPT !.last = 0]
  <2>1. Known(c) /\ KeepFlow(c, r) BY <1>4 DEF RecvDuplicate
  <2>2. r \in Pair /\ r.conn = c /\ r.last = 0 BY <2>1, FoundFlow DEF Pair
  <2> QED BY <2>1, <2>2 DEF KeepFlow, RefreshFlow, Change
<1>5. CASE CleanSlot
  <2>1. CASE ttp[ix] # Free /\ Expired(ttp[ix])
    <3>1. ix \in Slots BY <1>5 DEF CleanSlot
    <3> DEFINE c == ttp[ix].conn
    <3>2. c \in Conns /\ Known(c) /\ Found(c) = ix
          /\ Unlink(Bucket(c), c) = RemoveAt(Bucket(c), FirstMatch(Bucket(c), c))
      BY <2>1, <3>1, CleanIsRemove
    <3>3. RemoveFlow(c) BY <1>5, <2>1, <3>2 DEF CleanSlot, RemoveFlow, Bucket
    <3> QED BY <3>2, <3>3 DEF Change
  <2>2. CASE ~(ttp[ix] # Free /\ Expired(ttp[ix])) BY <1>5, <2>2 DEF CleanSlot, Change
  <2> QED BY <2>1, <2>2
<1>6. CASE CleanDone
  <2>1. CASE pending = NoFlow BY <1>6, <2>1 DEF CleanDone, tables, Change
  <2>2. CASE pending # NoFlow
    <3>1. pending[1] \in Conns /\ pending[2] \in Traffic /\ ~Known(pending[1])
      BY <2>2 DEF Core, TypeOK, PendingUnknown
    <3> QED BY <1>6, <2>2, <3>1, OpenIsInsert DEF CleanDone, Change
  <2> QED BY <2>1, <2>2
<1>7. CASE EndOfFile BY <1>7 DEF EndOfFile, tables, Change
<1>8. CASE UNCHANGED vars BY <1>8 DEF vars, tables, Change
<1> QED BY <1>1, <1>2, <1>3, <1>4, <1>5, <1>6, <1>7, <1>8 DEF Next

------------------------------
\* An entry leads to a slot in use, under the address of its flow.
LEMMA EntryFacts ==
  ASSUME Core, NEW b \in Buckets, NEW i \in DOMAIN ptp_hashtable[b]
  PROVE  LET e == ptp_hashtable[b][i]
         IN  /\ e \in Entry /\ e.ttp_ptr \in Slots /\ ttp[e.ttp_ptr] # Free
             /\ HashOf[e.addr_pair] = b /\ ttp[e.ttp_ptr].conn = e.addr_pair
<1>1. ptp_hashtable[b] \in Seq(Entry) BY DEF Core, TypeOK
<1>2. ptp_hashtable[b][i] \in Entry BY <1>1
<1>3. ptp_hashtable[b][i].ttp_ptr \in Slots BY <1>2 DEF Entry
<1> QED BY <1>2, <1>3 DEF Core, ListsMatchTable, EntriesLead

LEMMA EntriesDiffer ==
  EntriesDistinct <=> \A b \in Buckets : Distinct(ptp_hashtable[b])
BY DEF EntriesDistinct, Distinct

LEMMA EntriesDiffer_ ==
  EntriesDistinct' <=> \A b \in Buckets : Distinct(ptp_hashtable'[b])
BY DEF EntriesDistinct, Distinct

\* A slot in use and the entry that leads to it.
LEMMA SlotFacts ==
  ASSUME Core, NEW t \in Slots, ttp[t] # Free
  PROVE  /\ ttp[t] \in Pair /\ HashOf[ttp[t].conn] \in Buckets
         /\ \E j \in DOMAIN ptp_hashtable[HashOf[ttp[t].conn]] :
              ptp_hashtable[HashOf[ttp[t].conn]][j] =
                [addr_pair |-> ttp[t].conn, ttp_ptr |-> t]
<1>1. ttp[t] \in Pair BY DEF Core, TypeOK
<1>2. HashOf[ttp[t].conn] \in Buckets BY <1>1, TcpTableAssumption DEF Pair
<1> QED BY <1>1, <1>2 DEF Core, ListsMatchTable, SlotsReached, Occupied, Bucket

\* How the changed list is made from the old one, change by change.
LEMMA InsertOrigin ==
  ASSUME Core, NEW c \in Conns, NEW s \in Slots, NEW r \in Pair, InsertFlow(c, s, r)
  PROVE  LET h == HashOf[c]
         IN  /\ h \in Buckets
             /\ ptp_hashtable'[h] \in Seq(Entry)
             /\ Pushed(ptp_hashtable[h], [addr_pair |-> c, ttp_ptr |-> s], ptp_hashtable'[h])
             /\ Distinct(ptp_hashtable'[h])
             /\ \A b \in Buckets : b # h => ptp_hashtable'[b] = ptp_hashtable[b]
             /\ \A t \in Slots : ttp'[t] = IF t = s THEN r ELSE ttp[t]
             /\ ttp[s] = Free /\ r # Free /\ r.conn = c /\ r.last = 0
<1> DEFINE h == HashOf[c]
           l == ptp_hashtable[h]
           m == ptp_hashtable'[h]
           e == [addr_pair |-> c, ttp_ptr |-> s]
<1>1. h \in Buckets /\ l \in Seq(Entry) /\ e \in Entry /\ e.addr_pair = c
  BY TcpTableAssumption DEF Core, TypeOK, Entry
<1>2. m = Cons(e, l) /\ \A b \in Buckets : b # h => ptp_hashtable'[b] = ptp_hashtable[b]
  BY <1>1 DEF Core, TypeOK, InsertFlow
<1>3. Distinct(l) /\ Matches(l, e.addr_pair) = {}
  BY <1>1, EntriesDiffer DEF Core, ListsMatchTable, InsertFlow, Known, Bucket
<1>4. /\ \A t \in Slots : ttp'[t] = IF t = s THEN r ELSE ttp[t]
      /\ ttp[s] = Free /\ r # Free /\ r.conn = c /\ r.last = 0
  BY FreeAssumption DEF Core, TypeOK, InsertFlow
<1> HIDE DEF m, l, e
<1>5. m \in Seq(Entry) /\ Pushed(l, e, m) BY <1>1, <1>2, PushOrigin
<1>6. Distinct(m) BY <1>3, <1>5 DEF Pushed
<1> QED BY <1>1, <1>2, <1>4, <1>5, <1>6 DEF m, l, e

LEMMA RefreshOrigin ==
  ASSUME Core, NEW c \in Conns, NEW r \in Pair, RefreshFlow(c, r)
  PROVE  LET h == HashOf[c]
             f == FirstMatch(ptp_hashtable[h], c)
         IN  /\ h \in Buckets
             /\ f \in DOMAIN ptp_hashtable[h] /\ ptp_hashtable[h][f].ttp_ptr = Found(c)
             /\ ptp_hashtable'[h] \in Seq(Entry)
             /\ Moved(ptp_hashtable[h], f, ptp_hashtable'[h])
             /\ Distinct(ptp_hashtable'[h])
             /\ \A b \in Buckets : b # h => ptp_hashtable'[b] = ptp_hashtable[b]
             /\ \A t \in Slots : ttp'[t] = IF t = Found(c) THEN r ELSE ttp[t]
             /\ Found(c) \in Slots /\ ttp[Found(c)] \in Pair /\ ttp[Found(c)].conn = c
             /\ ttp[Found(c)] # Free /\ r # Free /\ r.conn = c /\ r.last = 0
<1> DEFINE h == HashOf[c]
           l == ptp_hashtable[h]
           m == ptp_hashtable'[h]
           f == FirstMatch(l, c)
<1>1. /\ h \in Buckets /\ l \in Seq(Entry) /\ f \in DOMAIN l
      /\ Found(c) \in Slots /\ ttp[Found(c)] \in Pair /\ ttp[Found(c)].conn = c
  BY FoundFlow DEF RefreshFlow, Bucket
<1>2. l[f].ttp_ptr = Found(c) BY DEF Found, Bucket
<1>3. /\ m = MoveToHead(l, f)
      /\ \A b \in Buckets : b # h => ptp_hashtable'[b] = ptp_hashtable[b]
  BY <1>1 DEF Core, TypeOK, RefreshFlow, Touched, Bucket
<1>4. Distinct(l) BY <1>1, EntriesDiffer DEF Core, ListsMatchTable
<1>5. /\ \A t \in Slots : ttp'[t] = IF t = Found(c) THEN r ELSE ttp[t]
      /\ ttp[Found(c)] # Free /\ r # Free /\ r.conn = c /\ r.last = 0
  BY <1>1, FreeAssumption DEF Core, TypeOK, RefreshFlow
<1> HIDE DEF m, f, l
<1>6. m \in Seq(Entry) /\ Moved(l, f, m) BY <1>1, <1>3, MoveOrigin
<1>7. Distinct(m) BY <1>4, <1>6 DEF Moved
<1> QED BY <1>1, <1>2, <1>3, <1>5, <1>6, <1>7 DEF m, f, l

LEMMA RemoveFlowOrigin ==
  ASSUME Core, NEW c \in Conns, RemoveFlow(c)
  PROVE  LET h == HashOf[c]
             f == FirstMatch(ptp_hashtable[h], c)
         IN  /\ h \in Buckets
             /\ f \in DOMAIN ptp_hashtable[h] /\ ptp_hashtable[h][f].ttp_ptr = Found(c)
             /\ ptp_hashtable'[h] \in Seq(Entry)
             /\ Removed(ptp_hashtable[h], f, ptp_hashtable'[h])
             /\ Distinct(ptp_hashtable'[h])
             /\ \A b \in Buckets : b # h => ptp_hashtable'[b] = ptp_hashtable[b]
             /\ \A t \in Slots : ttp'[t] = IF t = Found(c) THEN Free ELSE ttp[t]
             /\ Found(c) \in Slots /\ ttp[Found(c)] \in Pair /\ ttp[Found(c)].conn = c
             /\ ttp[Found(c)] # Free
             /\ \A b \in Buckets : \A i \in DOMAIN ptp_hashtable[b] :
                  ptp_hashtable[b][i].ttp_ptr = Found(c) => b = h /\ i = f
<1> DEFINE h == HashOf[c]
           l == ptp_hashtable[h]
           m == ptp_hashtable'[h]
           f == FirstMatch(l, c)
<1>1. /\ h \in Buckets /\ l \in Seq(Entry) /\ f \in DOMAIN l
      /\ Found(c) \in Slots /\ ttp[Found(c)] \in Pair /\ ttp[Found(c)].conn = c
  BY FoundFlow DEF RemoveFlow, Bucket
<1>2. \A b \in Buckets : \A i \in DOMAIN ptp_hashtable[b] :
        ptp_hashtable[b][i].ttp_ptr = Found(c) => b = h /\ i = f
  BY FoundFlow DEF RemoveFlow, Bucket
<1>3. l[f].ttp_ptr = Found(c) BY DEF Found, Bucket
<1>4. /\ m = RemoveAt(l, f)
      /\ \A b \in Buckets : b # h => ptp_hashtable'[b] = ptp_hashtable[b]
  BY <1>1 DEF Core, TypeOK, RemoveFlow
<1>5. Distinct(l) BY <1>1, EntriesDiffer DEF Core, ListsMatchTable
<1>6. /\ \A t \in Slots : ttp'[t] = IF t = Found(c) THEN Free ELSE ttp[t]
      /\ ttp[Found(c)] # Free
  BY <1>1, FreeAssumption DEF Core, TypeOK, RemoveFlow
<1> HIDE DEF m, f, l
<1>7. m \in Seq(Entry) /\ Removed(l, f, m) BY <1>1, <1>4, RemoveOrigin
<1>8. Distinct(m) BY <1>5, <1>7 DEF Removed
<1> QED BY <1>1, <1>2, <1>3, <1>4, <1>6, <1>7, <1>8 DEF m, f, l

------------------------------
\* The lists and ttp[] agree after a new entry is put at a head.
LEMMA InsertLists ==
  ASSUME Core, NEW c \in Conns, NEW s \in Slots, NEW r \in Pair, InsertFlow(c, s, r)
  PROVE  ListsMatchTable'
<1> DEFINE h == HashOf[c]
           l == ptp_hashtable[h]
           m == ptp_hashtable'[h]
           e == [addr_pair |-> c, ttp_ptr |-> s]
<1>1. /\ h \in Buckets /\ m \in Seq(Entry) /\ Pushed(l, e, m) /\ Distinct(m)
      /\ \A b \in Buckets : b # h => ptp_hashtable'[b] = ptp_hashtable[b]
      /\ \A t \in Slots : ttp'[t] = IF t = s THEN r ELSE ttp[t]
      /\ ttp[s] = Free /\ r # Free /\ r.conn = c
  BY InsertOrigin
<1>2. \A b \in Buckets : \A i \in DOMAIN ptp_hashtable[b] :
        ptp_hashtable[b][i].ttp_ptr \in Slots \ {s}
  BY <1>1, EntryFacts
<1>3. EntriesLead'
  <2> SUFFICES ASSUME NEW b \in Buckets, NEW k \in DOMAIN ptp_hashtable'[b]
               PROVE  LET x == ptp_hashtable'[b][k]
                      IN  /\ HashOf[x.addr_pair] = b /\ ttp'[x.ttp_ptr] # Free
                          /\ ttp'[x.ttp_ptr].conn = x.addr_pair
    BY DEF EntriesLead
  <2>1. CASE \E j \in DOMAIN ptp_hashtable[b] : ptp_hashtable'[b][k] = ptp_hashtable[b][j]
    BY <1>1, <1>2, <2>1, EntryFacts
  <2>2. CASE b = h /\ m[k] = e BY <1>1, <2>2
  <2>3. b # h \/ m[k] = e \/ \E j \in DOMAIN l : m[k] = l[j] BY <1>1 DEF Pushed
  <2> QED BY <1>1, <2>1, <2>2, <2>3
<1>4. EntriesDistinct' BY <1>1, EntriesDiffer, EntriesDiffer_ DEF Core, ListsMatchTable
<1>5. SlotsReached'
  <2> SUFFICES ASSUME NEW t \in Slots, ttp'[t] # Free
               PROVE  \E i \in DOMAIN ptp_hashtable'[HashOf[ttp'[t].conn]] :
                        ptp_hashtable'[HashOf[ttp'[t].conn]][i] =
                          [addr_pair |-> ttp'[t].conn, ttp_ptr |-> t]
    BY DEF SlotsReached, Occupied, Bucket
  <2>1. CASE t = s BY <1>1, <2>1 DEF Pushed
  <2>2. CASE t # s
    <3> DEFINE g == HashOf[ttp[t].conn]
    <3>1. ttp'[t] = ttp[t] /\ ttp[t] # Free BY <1>1, <2>2
    <3>2. PICK j \in DOMAIN ptp_hashtable[g] :
            g \in Buckets /\ ptp_hashtable[g][j] = [addr_pair |-> ttp[t].conn, ttp_ptr |-> t]
      BY <3>1, SlotFacts
    <3> HIDE DEF g
    <3>3. \E i \in DOMAIN ptp_hashtable'[g] : ptp_hashtable'[g][i] = ptp_hashtable[g][j]
      BY <1>1, <3>2 DEF Pushed
    <3> QED BY <3>1, <3>2, <3>3 DEF g
  <2> QED BY <2>1, <2>2
<1> QED BY <1>3, <1>4, <1>5 DEF ListsMatchTable

\* They agree after an entry is moved to the head and its record replaced.
LEMMA RefreshLists ==
  ASSUME Core, NEW c \in Conns, NEW r \in Pair, RefreshFlow(c, r)
  PROVE  ListsMatchTable'
<1> DEFINE h == HashOf[c]
           l == ptp_hashtable[h]
           m == ptp_hashtable'[h]
           f == FirstMatch(l, c)
<1>1. /\ h \in Buckets /\ f \in DOMAIN l /\ Moved(l, f, m) /\ Distinct(m)
      /\ \A b \in Buckets : b # h => ptp_hashtable'[b] = ptp_hashtable[b]
      /\ \A t \in Slots : ttp'[t] = IF t = Found(c) THEN r ELSE ttp[t]
      /\ Found(c) \in Slots /\ ttp[Found(c)].conn = c /\ ttp[Found(c)] # Free
      /\ r # Free /\ r.conn = c
  BY RefreshOrigin
<1>2. \A t \in Slots : /\ ttp'[t] # Free <=> ttp[t] # Free
                       /\ ttp'[t].conn = ttp[t].conn
  BY <1>1
<1>3. EntriesLead'
  <2> SUFFICES ASSUME NEW b \in Buckets, NEW k \in DOMAIN ptp_hashtable'[b]
               PROVE  LET x == ptp_hashtable'[b][k]
                      IN  /\ HashOf[x.addr_pair] = b /\ ttp'[x.ttp_ptr] # Free
                          /\ ttp'[x.ttp_ptr].conn = x.addr_pair
    BY DEF EntriesLead
  <2>1. \E j \in DOMAIN ptp_hashtable[b] : ptp_hashtable'[b][k] = ptp_hashtable[b][j] BY <1>1 DEF Moved
  <2> QED BY <1>2, <2>1, EntryFacts
<1>4. EntriesDistinct' BY <1>1, EntriesDiffer, EntriesDiffer_ DEF Core, ListsMatchTable
<1>5. SlotsReached'
  <2> SUFFICES ASSUME NEW t \in Slots, ttp'[t] # Free
               PROVE  \E i \in DOMAIN ptp_hashtable'[HashOf[ttp'[t].conn]] :
                        ptp_hashtable'[HashOf[ttp'[t].conn]][i] =
                          [addr_pair |-> ttp'[t].conn, ttp_ptr |-> t]
    BY DEF SlotsReached, Occupied, Bucket
  <2> DEFINE g == HashOf[ttp[t].conn]
  <2>1. ttp'[t].conn = ttp[t].conn /\ ttp[t] # Free BY <1>2
  <2>2. PICK j \in DOMAIN ptp_hashtable[g] :
          g \in Buckets /\ ptp_hashtable[g][j] = [addr_pair |-> ttp[t].conn, ttp_ptr |-> t]
    BY <2>1, SlotFacts
  <2> HIDE DEF g
  <2>3. \E i \in DOMAIN ptp_hashtable'[g] : ptp_hashtable'[g][i] = ptp_hashtable[g][j] BY <1>1, <2>2 DEF Moved
  <2> QED BY <2>1, <2>2, <2>3 DEF g
<1> QED BY <1>3, <1>4, <1>5 DEF ListsMatchTable

\* They agree after a flow is closed.
LEMMA RemoveLists ==
  ASSUME Core, NEW c \in Conns, RemoveFlow(c)
  PROVE  ListsMatchTable'
<1> DEFINE h == HashOf[c]
           l == ptp_hashtable[h]
           m == ptp_hashtable'[h]
           f == FirstMatch(l, c)
<1>1. /\ h \in Buckets /\ f \in DOMAIN l /\ Removed(l, f, m) /\ Distinct(m)
      /\ l[f].ttp_ptr = Found(c)
      /\ \A b \in Buckets : b # h => ptp_hashtable'[b] = ptp_hashtable[b]
      /\ \A t \in Slots : ttp'[t] = IF t = Found(c) THEN Free ELSE ttp[t]
      /\ Found(c) \in Slots
      /\ \A b \in Buckets : \A i \in DOMAIN ptp_hashtable[b] :
           ptp_hashtable[b][i].ttp_ptr = Found(c) => b = h /\ i = f
  BY RemoveFlowOrigin
<1>2. EntriesLead'
  <2> SUFFICES ASSUME NEW b \in Buckets, NEW k \in DOMAIN ptp_hashtable'[b]
               PROVE  LET x == ptp_hashtable'[b][k]
                      IN  /\ HashOf[x.addr_pair] = b /\ ttp'[x.ttp_ptr] # Free
                          /\ ttp'[x.ttp_ptr].conn = x.addr_pair
    BY DEF EntriesLead
  <2>1. PICK j \in DOMAIN ptp_hashtable[b] :
          ptp_hashtable'[b][k] = ptp_hashtable[b][j] /\ (b = h => j # f)
    <3>1. CASE b # h BY <1>1, <3>1
    <3>2. CASE b = h
      <4>1. k \in Int /\ f \in Int /\ k \in DOMAIN m BY <1>1, <3>2 DEF Removed
      <4>2. CASE k < f /\ k \in DOMAIN l /\ m[k] = l[k] BY <3>2, <4>1, <4>2
      <4>3. CASE k >= f /\ k + 1 \in DOMAIN l /\ m[k] = l[k + 1] BY <3>2, <4>1, <4>3
      <4> QED BY <1>1, <4>1, <4>2, <4>3 DEF Removed
    <3> QED BY <3>1, <3>2
  <2>2. ptp_hashtable[b][j].ttp_ptr # Found(c) BY <1>1, <2>1
  <2> QED BY <1>1, <2>1, <2>2, EntryFacts
<1>3. EntriesDistinct' BY <1>1, EntriesDiffer, EntriesDiffer_ DEF Core, ListsMatchTable
<1>4. SlotsReached'
  <2> SUFFICES ASSUME NEW t \in Slots, ttp'[t] # Free
               PROVE  \E i \in DOMAIN ptp_hashtable'[HashOf[ttp'[t].conn]] :
                        ptp_hashtable'[HashOf[ttp'[t].conn]][i] =
                          [addr_pair |-> ttp'[t].conn, ttp_ptr |-> t]
    BY DEF SlotsReached, Occupied, Bucket
  <2> DEFINE g == HashOf[ttp[t].conn]
  <2>1. ttp'[t] = ttp[t] /\ ttp[t] # Free /\ t # Found(c) BY <1>1
  <2>2. PICK j \in DOMAIN ptp_hashtable[g] :
          g \in Buckets /\ ptp_hashtable[g][j] = [addr_pair |-> ttp[t].conn, ttp_ptr |-> t]
    BY <2>1, SlotFacts
  <2> HIDE DEF g
  <2>3. ptp_hashtable[g][j] # l[f] BY <1>1, <2>1, <2>2
  <2>4. \E i \in DOMAIN ptp_hashtable'[g] : ptp_hashtable'[g][i] = ptp_hashtable[g][j]
    BY <1>1, <2>2, <2>3 DEF Removed
  <2> QED BY <2>1, <2>2, <2>4 DEF g
<1> QED BY <1>2, <1>3, <1>4 DEF ListsMatchTable

\* A step of the clock ages every flow by one, and nothing else changes in
\* ttp[] or in the lists.
LEMMA TickFacts ==
  ASSUME Core, Tick
  PROVE  /\ ptp_hashtable' = ptp_hashtable
         /\ \A t \in Slots : ttp[t] = Free <=> ttp'[t] = Free
         /\ \A t \in Slots : ttp[t] # Free =>
              /\ ttp'[t] \in Pair
              /\ ttp'[t].conn = ttp[t].conn /\ ttp'[t].last = ttp[t].last + 1
              /\ Singleton(ttp'[t]) <=> Singleton(ttp[t])
         /\ ttp' \in [Slots -> Pair \cup {Free}]
<1>1. ptp_hashtable' = ptp_hashtable BY DEF Tick
<1>2. ASSUME NEW q \in Pair, NEW n \in Nat
      PROVE  /\ [q EXCEPT !.last = n] \in Pair
             /\ [q EXCEPT !.last = n].conn = q.conn
             /\ [q EXCEPT !.last = n].last = n
             /\ [q EXCEPT !.last = n].syn = q.syn
             /\ [q EXCEPT !.last = n].only_syn = q.only_syn
  BY DEF Pair
<1>3. ASSUME NEW t \in Slots, ttp[t] # Free
      PROVE  /\ ttp'[t] \in Pair
             /\ ttp'[t].conn = ttp[t].conn /\ ttp'[t].last = ttp[t].last + 1
             /\ Singleton(ttp'[t]) <=> Singleton(ttp[t])
  <2>1. ttp[t] \in Pair BY <1>3 DEF Core, TypeOK
  <2>2. ttp[t].last + 1 \in Nat BY <2>1 DEF Pair
  <2>3. ttp'[t] = [ttp[t] EXCEPT !.last = ttp[t].last + 1] BY <1>3 DEF Tick
  <2>4. ttp'[t].syn = ttp[t].syn /\ ttp'[t].only_syn = ttp[t].only_syn BY <1>2, <2>1, <2>2, <2>3
  <2>5. Singleton(ttp'[t]) <=> Singleton(ttp[t]) BY <2>4, Zenon DEF Singleton
  <2> QED BY <1>2, <2>1, <2>2, <2>3, <2>5
<1>4. \A t \in Slots : ttp[t] = Free <=> ttp'[t] = Free BY <1>3, FreeAssumption DEF Tick
<1>5. ttp' \in [Slots -> Pair \cup {Free}] BY <1>3, <1>4 DEF Tick
<1> QED BY <1>1, <1>3, <1>4, <1>5

\* Every step keeps the lists and ttp[] in agreement.
LEMMA ListsStep ==
  ASSUME Core, [Next]_vars
  PROVE  ListsMatchTable'
<1>1. CASE Tick
  <2>1. /\ \A b \in Buckets : \A i \in DOMAIN ptp_hashtable[b] :
             ptp_hashtable[b][i].ttp_ptr \in Slots
    BY EntryFacts
  <2>2. EntriesLead' BY <1>1, <2>1, TickFacts, EntryFacts DEF EntriesLead
  <2>3. EntriesDistinct' BY <1>1, TickFacts DEF Core, ListsMatchTable, EntriesDistinct
  <2>4. SlotsReached' BY <1>1, TickFacts DEF Core, ListsMatchTable, SlotsReached, Occupied, Bucket
  <2> QED BY <2>2, <2>3, <2>4 DEF ListsMatchTable
<1>2. CASE ~Tick
  <2>1. Change BY <1>2, StepChange
  <2>2. CASE UNCHANGED <<ttp, ptp_hashtable>>
    BY <2>2 DEF Core, ListsMatchTable, EntriesLead, SlotsReached, EntriesDistinct,
                Occupied, Bucket
  <2> QED BY <2>1, <2>2, InsertLists, RefreshLists, RemoveLists DEF Change
<1> QED BY <1>1, <1>2

------------------------------
\* Type correctness, variable by variable.
LEMMA SlotsFinite ==
  /\ IsFiniteSet(Slots) /\ Cardinality(Slots) = MaxTcpPairs
  /\ \A X \in SUBSET Slots : /\ IsFiniteSet(X) /\ Cardinality(X) \in Nat
                             /\ Cardinality(X) <= MaxTcpPairs
<1>1. MaxTcpPairs \in Nat /\ MaxTcpPairs > 0 BY TcpTableAssumption
<1>2. Slots = 0 .. MaxTcpPairs - 1 BY DEF Slots, S!Slots
<1>3. IsFiniteSet(Slots) /\ Cardinality(Slots) = MaxTcpPairs BY <1>1, <1>2, FS_Interval
<1> QED BY <1>3, FS_Subset, FS_CardinalityType

LEMMA LogType ==
  ASSUME TypeOK, NEW r, NEW b \in BOOLEAN, LogFlow(r, b) \/ NoLine
  PROVE  complete' \in Nat /\ nocomplete' \in Nat /\ unfiled' \in Nat
BY DEF TypeOK, LogFlow, NoLine

LEMMA CounterType ==
  ASSUME NEW n \in 0 .. ULongMax, NEW k \in 0 .. ULongMax
  PROVE  Plus(n) \in 0 .. ULongMax /\ Minus(n, k) \in 0 .. ULongMax
BY TcpTableAssumption DEF Plus, Minus

\* ttp[] and the lists.
LEMMA TableType ==
  ASSUME Core, [Next]_vars
  PROVE  /\ ttp' \in [Slots -> Pair \cup {Free}]
         /\ ptp_hashtable' \in [Buckets -> Seq(Entry)]
<1>1. CASE Tick BY <1>1, TickFacts DEF Core, TypeOK
<1>2. CASE ~Tick
  <2>1. Change BY <1>2, StepChange
  <2>2. CASE UNCHANGED <<ttp, ptp_hashtable>> BY <2>2 DEF Core, TypeOK
  <2>3. ASSUME NEW c \in Conns, NEW s \in Slots, NEW r \in Pair, InsertFlow(c, s, r)
        PROVE  /\ ttp' \in [Slots -> Pair \cup {Free}]
               /\ ptp_hashtable' \in [Buckets -> Seq(Entry)]
    <3>1. HashOf[c] \in Buckets /\ ptp_hashtable'[HashOf[c]] \in Seq(Entry) BY <2>3, InsertOrigin
    <3> QED BY <2>3, <3>1 DEF InsertFlow, Core, TypeOK
  <2>4. ASSUME NEW c \in Conns, NEW r \in Pair, RefreshFlow(c, r)
        PROVE  /\ ttp' \in [Slots -> Pair \cup {Free}]
               /\ ptp_hashtable' \in [Buckets -> Seq(Entry)]
    <3>1. HashOf[c] \in Buckets /\ ptp_hashtable'[HashOf[c]] \in Seq(Entry) BY <2>4, RefreshOrigin
    <3> QED BY <2>4, <3>1 DEF RefreshFlow, Core, TypeOK
  <2>5. ASSUME NEW c \in Conns, RemoveFlow(c)
        PROVE  /\ ttp' \in [Slots -> Pair \cup {Free}]
               /\ ptp_hashtable' \in [Buckets -> Seq(Entry)]
    <3>1. HashOf[c] \in Buckets /\ ptp_hashtable'[HashOf[c]] \in Seq(Entry) BY <2>5, RemoveFlowOrigin
    <3> QED BY <2>5, <3>1 DEF RemoveFlow, Core, TypeOK
  <2> QED BY <2>1, <2>2, <2>3, <2>4, <2>5 DEF Change
<1> QED BY <1>1, <1>2

\* The counters, after a flow is opened or closed.
LEMMA OpenType ==
  ASSUME Core, NEW c \in Conns, NEW p, f_TCP_count < MaxFlows, OpenFlow(c, p)
  PROVE  /\ num_tcp_pairs' \in Slots
         /\ f_TCP_count' \in 0 .. MaxFlows
         /\ tot_conn_TCP' \in 0 .. ULongMax
         /\ complete' \in Nat /\ nocomplete' \in Nat /\ missed' \in Nat /\ unfiled' \in Nat
<1> DEFINE r == Stored(Fresh(c), "C2S", p, FALSE)
<1>1. TypeOK BY DEF Core
<1>2. num_tcp_pairs' \in Slots BY <1>1, LandingInTable DEF OpenFlow, TypeOK
<1>3. f_TCP_count' \in 0 .. MaxFlows /\ missed' \in Nat
  <2>1. f_TCP_count' = f_TCP_count + 1 /\ (missed' = missed \/ missed' = missed + 1) BY DEF OpenFlow
  <2>2. f_TCP_count \in 0 .. MaxFlows /\ missed \in Nat BY <1>1 DEF TypeOK
  <2> QED BY <2>1, <2>2, TcpTableAssumption
<1>4. tot_conn_TCP' \in 0 .. ULongMax BY <1>1, CounterType DEF OpenFlow, TypeOK
<1>5. LogFlow(r, FALSE) \/ NoLine BY DEF OpenFlow
<1> HIDE DEF r
<1>6. complete' \in Nat /\ nocomplete' \in Nat /\ unfiled' \in Nat BY <1>1, <1>5, LogType
<1> QED BY <1>2, <1>3, <1>4, <1>6

LEMMA CloseType ==
  ASSUME TypeOK, NEW c, NEW r, NEW b \in BOOLEAN,
         CloseFlow(c, r, b)
  PROVE  /\ tot_conn_TCP' \in 0 .. ULongMax
         /\ complete' \in Nat /\ nocomplete' \in Nat /\ unfiled' \in Nat
<1>1. LogFlow(r, b) /\ tot_conn_TCP' = Minus(tot_conn_TCP, 1) BY DEF CloseFlow
<1>2. tot_conn_TCP' \in 0 .. ULongMax BY <1>1, CounterType, TcpTableAssumption DEF TypeOK
<1> QED BY <1>1, <1>2, LogType

LEMMA TypeStep ==
  ASSUME Core, [Next]_vars
  PROVE  TypeOK'
<1>1. TypeOK BY DEF Core
<1>2. ttp' \in [Slots -> Pair \cup {Free}] /\ ptp_hashtable' \in [Buckets -> Seq(Entry)] BY TableType
<1> DEFINE
      Rest == /\ num_tcp_pairs \in Slots
              /\ since \in 0 .. MaxGap
              /\ ix \in 0 .. MaxTcpPairs \cup {NotCleaning}
              /\ pending \in (Conns \X Traffic) \cup {NoFlow}
              /\ f_TCP_count \in 0 .. MaxFlows
              /\ tot_conn_TCP \in 0 .. ULongMax
              /\ complete \in Nat /\ nocomplete \in Nat /\ missed \in Nat /\ unfiled \in Nat
              /\ file \in 1 .. Files
              /\ over \in BOOLEAN
<1> SUFFICES Rest' BY <1>2 DEF TypeOK
<1>3. MaxTcpPairs \in Nat /\ 0 \in 0 .. MaxTcpPairs /\ MaxGap \in Nat BY TcpTableAssumption
<1>4. ASSUME NEW c \in Conns, NEW p \in Traffic, RecvFirstSyn(c, p)
      PROVE  Rest'
  <2>1. CASE Due BY <1>1, <1>3, <1>4, <2>1 DEF RecvFirstSyn, tables, counts, input, TypeOK
  <2>2. CASE ~Due
    <3>1. OpenFlow(c, p) /\ f_TCP_count < MaxFlows BY <1>4, <2>2 DEF RecvFirstSyn
    <3> QED BY <1>1, <1>4, <2>2, <3>1, OpenType DEF RecvFirstSyn, input, TypeOK
  <2> QED BY <2>1, <2>2
<1>5. CASE RecvFirstDatagram BY <1>1, <1>3, <1>5 DEF RecvFirstDatagram, tables, counts, input, TypeOK
<1>6. ASSUME NEW c \in Conns, NEW dir \in Sides, NEW p \in Traffic, NEW a \in BOOLEAN,
             Recv(c, dir, p, a)
      PROVE  Rest'
  <2> DEFINE r == Stored(ttp[Found(c)], dir, p, a)
  <2>1. /\ tot_conn_TCP' \in 0 .. ULongMax
        /\ complete' \in Nat /\ nocomplete' \in Nat /\ unfiled' \in Nat
    <3>1. CASE KeepFlow(c, r) BY <1>1, <3>1 DEF KeepFlow, NoLine, TypeOK
    <3>2. BothSyn(r) \in BOOLEAN BY DEF BothSyn
    <3>3. CASE \/ CloseFlow(c, r, BothSyn(r))
               \/ CloseFlow(c, r, TRUE)
      BY <1>1, <3>2, <3>3, CloseType
    <3> QED BY <1>6, <3>1, <3>3 DEF Recv
  <2> QED BY <1>1, <1>6, <2>1 DEF Recv, input, TypeOK
<1>7. ASSUME NEW c \in Conns, RecvDuplicate(c)
      PROVE  Rest'
  BY <1>1, <1>7 DEF RecvDuplicate, KeepFlow, NoLine, input, TypeOK
<1>8. CASE CleanSlot
  <2>1. /\ tot_conn_TCP' \in 0 .. ULongMax
        /\ complete' \in Nat /\ nocomplete' \in Nat /\ unfiled' \in Nat
    <3>1. BothSyn(ttp[ix]) \in BOOLEAN BY DEF BothSyn
    <3>2. LogFlow(ttp[ix], BothSyn(ttp[ix])) \/ NoLine BY <1>8 DEF CleanSlot
    <3>3. tot_conn_TCP' = tot_conn_TCP \/ tot_conn_TCP' = Minus(tot_conn_TCP, 1) BY <1>8 DEF CleanSlot
    <3>4. tot_conn_TCP \in 0 .. ULongMax /\ 1 \in 0 .. ULongMax BY <1>1, TcpTableAssumption DEF TypeOK
    <3>5. tot_conn_TCP' \in 0 .. ULongMax BY <3>3, <3>4, CounterType
    <3> QED BY <1>1, <3>1, <3>2, <3>5, LogType
  <2>2. ix' \in 0 .. MaxTcpPairs BY <1>3, <1>8 DEF CleanSlot, Slots, S!Slots
  <2>3. UNCHANGED <<num_tcp_pairs, since, pending, f_TCP_count, missed, input>> BY <1>8 DEF CleanSlot
  <2> QED BY <1>1, <2>1, <2>2, <2>3 DEF input, TypeOK
<1>9. CASE CleanDone
  <2>1. since' \in 0 .. MaxGap /\ ix' \in 0 .. MaxTcpPairs \cup {NotCleaning}
        /\ pending' \in (Conns \X Traffic) \cup {NoFlow}
        /\ file' \in 1 .. Files /\ over' \in BOOLEAN
    BY <1>1, <1>3, <1>9 DEF CleanDone, input, TypeOK
  <2>2. CASE pending = NoFlow BY <1>1, <1>9, <2>1, <2>2 DEF CleanDone, tables, counts, TypeOK
  <2>3. CASE pending # NoFlow
    <3>1. pending[1] \in Conns /\ f_TCP_count < MaxFlows BY <2>3 DEF Core, TypeOK, PendingUnknown
    <3>2. OpenFlow(pending[1], pending[2]) BY <1>9, <2>3 DEF CleanDone
    <3>3. /\ num_tcp_pairs' \in Slots
          /\ f_TCP_count' \in 0 .. MaxFlows
          /\ tot_conn_TCP' \in 0 .. ULongMax
          /\ complete' \in Nat /\ nocomplete' \in Nat /\ missed' \in Nat /\ unfiled' \in Nat
      BY <3>1, <3>2, OpenType
    <3> QED BY <2>1, <3>3, Zenon
  <2> QED BY <2>2, <2>3
<1>10. CASE Tick
  <2>1. since' \in 0 .. MaxGap BY <1>1, <1>3, <1>10 DEF Tick, TypeOK
  <2>2. UNCHANGED <<num_tcp_pairs, ix, pending, counts, input>> BY <1>10 DEF Tick
  <2> QED BY <1>1, <2>1, <2>2 DEF counts, input, TypeOK
<1>11. CASE EndOfFile
  <2> DEFINE filed == {s \in Occupied : ttp[s].conn \in Located}
  <2>1. Occupied \in SUBSET Slots /\ filed \in SUBSET Slots /\ Occupied \ filed \in SUBSET Slots
    BY DEF Occupied
  <2>2. /\ Cardinality(Occupied) \in 0 .. ULongMax
        /\ Cardinality(filed) \in Nat /\ Cardinality(Occupied \ filed) \in Nat
    BY <2>1, SlotsFinite, TcpTableAssumption
  <2>3. complete' \in Nat /\ nocomplete' \in Nat /\ unfiled' \in Nat
    BY <1>1, <1>11, <2>2 DEF EndOfFile, TraceDone, TypeOK
  <2>4. tot_conn_TCP' \in 0 .. ULongMax
    <3>1. \/ tot_conn_TCP' = 0
          \/ tot_conn_TCP' = Minus(tot_conn_TCP, Cardinality(Occupied))
      BY <1>11 DEF EndOfFile
    <3>2. tot_conn_TCP \in 0 .. ULongMax /\ 0 \in 0 .. ULongMax BY <1>1, TcpTableAssumption DEF TypeOK
    <3> QED BY <2>2, <3>1, <3>2, CounterType
  <2>5. file' \in 1 .. Files BY <1>1, <1>11, TcpTableAssumption DEF EndOfFile, TypeOK
  <2>6. over' \in BOOLEAN BY <1>1, <1>11, Zenon DEF EndOfFile, TypeOK
  <2>7. UNCHANGED <<tables, since, ix, pending, f_TCP_count, missed>> BY <1>11 DEF EndOfFile
  <2> QED BY <1>1, <2>3, <2>4, <2>5, <2>6, <2>7 DEF tables, TypeOK
<1>12. CASE UNCHANGED vars BY <1>1, <1>12 DEF vars, tables, counts, input, TypeOK
<1> HIDE DEF Rest
<1> QED BY <1>4, <1>5, <1>6, <1>7, <1>8, <1>9, <1>10, <1>11, <1>12 DEF Next

------------------------------
\* What a change does to the set of addresses FindTTP knows.
LEMMA KnownInsert ==
  ASSUME Core, NEW c \in Conns, NEW s \in Slots, NEW r \in Pair, InsertFlow(c, s, r),
         NEW d \in Conns
  PROVE  Known(d)' <=> (Known(d) \/ d = c)
<1> DEFINE h == HashOf[c]
           l == ptp_hashtable[h]
           m == ptp_hashtable'[h]
           e == [addr_pair |-> c, ttp_ptr |-> s]
<1>1. Pushed(l, e, m) /\ \A b \in Buckets : b # h => ptp_hashtable'[b] = ptp_hashtable[b] BY InsertOrigin
<1>2. HashOf[d] \in Buckets BY TcpTableAssumption
<1>3. CASE HashOf[d] # h BY <1>1, <1>2, <1>3 DEF Known, Bucket
<1>4. CASE HashOf[d] = h
  <2> HIDE DEF e
  <2>1. Known(d) => Known(d)' BY <1>1, <1>4 DEF Pushed, Known, Bucket, Matches
  <2>2. d = c => Known(d)' BY <1>1, <1>4 DEF Pushed, Known, Bucket, Matches, e
  <2>3. Known(d)' => Known(d) \/ d = c BY <1>1, <1>4 DEF Pushed, Known, Bucket, Matches, e
  <2> QED BY <2>1, <2>2, <2>3
<1> QED BY <1>3, <1>4

LEMMA KnownRefresh ==
  ASSUME Core, NEW c \in Conns, NEW r \in Pair, RefreshFlow(c, r), NEW d \in Conns
  PROVE  Known(d)' <=> Known(d)
<1> DEFINE h == HashOf[c]
           l == ptp_hashtable[h]
           m == ptp_hashtable'[h]
           f == FirstMatch(l, c)
<1>1. /\ Moved(l, f, m) /\ f \in DOMAIN l
      /\ \A b \in Buckets : b # h => ptp_hashtable'[b] = ptp_hashtable[b]
  BY RefreshOrigin
<1>2. HashOf[d] \in Buckets BY TcpTableAssumption
<1> HIDE DEF f
<1>3. CASE HashOf[d] # h BY <1>1, <1>2, <1>3 DEF Known, Bucket
<1>4. CASE HashOf[d] = h BY <1>1, <1>4 DEF Moved, Known, Bucket, Matches
<1> QED BY <1>3, <1>4

LEMMA KnownRemove ==
  ASSUME Core, NEW c \in Conns, RemoveFlow(c), NEW d \in Conns
  PROVE  Known(d)' <=> (Known(d) /\ d # c)
<1> DEFINE h == HashOf[c]
           l == ptp_hashtable[h]
           m == ptp_hashtable'[h]
           f == FirstMatch(l, c)
<1>1. /\ Removed(l, f, m) /\ f \in DOMAIN l /\ h \in Buckets /\ Distinct(l)
      /\ \A b \in Buckets : b # h => ptp_hashtable'[b] = ptp_hashtable[b]
  BY RemoveFlowOrigin, EntriesDiffer DEF Core, ListsMatchTable
<1>2. HashOf[d] \in Buckets BY TcpTableAssumption
<1>3. l[f].addr_pair = c BY FoundFlow DEF RemoveFlow, Bucket
<1> HIDE DEF f
<1>4. CASE HashOf[d] # h BY <1>1, <1>2, <1>4 DEF Known, Bucket
<1>5. CASE HashOf[d] = h
  <2>1. \A k \in DOMAIN m : \E j \in DOMAIN l : j # f /\ m[k] = l[j]
    <3> SUFFICES ASSUME NEW k \in DOMAIN m
                 PROVE  \E j \in DOMAIN l : j # f /\ m[k] = l[j]
      OBVIOUS
    <3>1. k \in Int /\ f \in Int BY <1>1 DEF Removed
    <3>2. CASE k < f /\ k \in DOMAIN l /\ m[k] = l[k] BY <3>1, <3>2
    <3>3. CASE k >= f /\ k + 1 \in DOMAIN l /\ m[k] = l[k + 1] BY <3>1, <3>3
    <3> QED BY <1>1, <3>2, <3>3 DEF Removed
  <2>2. Known(d) /\ d # c => Known(d)' BY <1>1, <1>3, <1>5 DEF Removed, Known, Bucket, Matches
  <2>3. Known(d)' => Known(d) BY <1>5, <2>1 DEF Known, Bucket, Matches
  <2>4. \A k \in DOMAIN m : m[k].addr_pair # c BY <1>1, <1>3, <2>1 DEF Distinct
  <2>5. Known(d)' => d # c BY <1>5, <2>4 DEF Known, Bucket, Matches
  <2> QED BY <2>2, <2>3, <2>5
<1> QED BY <1>4, <1>5

\* The flow that waits for the cleaning to end stays unknown.
LEMMA PendingStep ==
  ASSUME Core, [Next]_vars
  PROVE  PendingUnknown' /\ OverIdle'
<1>1. Reading => pending = NoFlow BY DEF Reading, Core, PendingUnknown
<1>2. TypeOK /\ PendingUnknown /\ OverIdle BY DEF Core
<1>3. \A i \in 0 .. MaxTcpPairs : i # NotCleaning BY TcpTableAssumption DEF NotCleaning
<1>4. 0 \in 0 .. MaxTcpPairs BY TcpTableAssumption
<1>5. ASSUME NEW c \in Conns, NEW p \in Traffic, RecvFirstSyn(c, p)
      PROVE  PendingUnknown' /\ OverIdle'
  <2>1. CASE Due
    <3>1. pending' = <<c, p>> /\ ix' = 0 /\ UNCHANGED <<tables, counts, over>>
      BY <1>5, <2>1 DEF RecvFirstSyn, input
    <3>2. ~Known(c) /\ f_TCP_count < MaxFlows /\ ~over BY <1>5 DEF RecvFirstSyn, Reading
    <3>3. PendingUnknown' BY <1>3, <1>4, <3>1, <3>2 DEF PendingUnknown, tables, counts, Known, Bucket
    <3> QED BY <3>1, <3>2, <3>3 DEF OverIdle
  <2>2. CASE ~Due
    <3>1. Reading /\ UNCHANGED <<ix, pending, over>> BY <1>5, <2>2 DEF RecvFirstSyn, input
    <3> QED BY <1>1, <1>2, <3>1 DEF PendingUnknown, OverIdle
  <2> QED BY <2>1, <2>2
<1>6. CASE RecvFirstDatagram
  <2>1. pending' = NoFlow /\ over' = over /\ ~over BY <1>6 DEF RecvFirstDatagram, Reading, input
  <2> QED BY <2>1, Zenon DEF PendingUnknown, OverIdle
<1>7. CASE Reading /\ UNCHANGED <<ix, pending>> BY <1>1, <1>7 DEF PendingUnknown, OverIdle, Reading
<1>8. CASE CleanSlot
  <2>1. ix \in 0 .. MaxTcpPairs /\ ix' = ix + 1 /\ ix' # NotCleaning /\ ix # NotCleaning
    BY <1>8, TcpTableAssumption DEF CleanSlot, Slots, S!Slots, NotCleaning
  <2>2. UNCHANGED <<pending, f_TCP_count, over>> BY <1>8 DEF CleanSlot, input
  <2>3. OverIdle' BY <1>2, <2>1, <2>2 DEF OverIdle
  <2>4. ASSUME pending # NoFlow
        PROVE  ~Known(pending[1])'
    <3>1. pending[1] \in Conns /\ ~Known(pending[1]) BY <1>2, <2>4 DEF TypeOK, PendingUnknown
    <3>2. CASE ttp[ix] # Free /\ Expired(ttp[ix])
      <4>1. RemoveFlow(ttp[ix].conn) /\ ttp[ix].conn \in Conns
        BY <1>8, <3>2, CleanIsRemove DEF CleanSlot, RemoveFlow, Bucket
      <4>2. \A d \in Conns : Known(d)' <=> (Known(d) /\ d # ttp[ix].conn) BY <4>1, KnownRemove
      <4> QED BY <2>2, <3>1, <4>2 DEF Known, Bucket
    <3>3. CASE ~(ttp[ix] # Free /\ Expired(ttp[ix])) BY <1>8, <2>2, <3>1, <3>3 DEF CleanSlot, Known, Bucket
    <3> QED BY <3>2, <3>3
  <2> QED BY <1>2, <2>1, <2>2, <2>3, <2>4 DEF PendingUnknown, Known, Bucket
<1>9. CASE CleanDone BY <1>9 DEF CleanDone, PendingUnknown, OverIdle
<1>10. CASE EndOfFile
  <2>1. Reading /\ UNCHANGED <<ix, pending>> BY <1>10 DEF EndOfFile
  <2> QED BY <1>1, <2>1 DEF PendingUnknown, OverIdle, Reading
<1>11. CASE UNCHANGED vars
  BY <1>2, <1>11 DEF vars, tables, counts, input, PendingUnknown, OverIdle, Known, Bucket
<1>12. ASSUME NEW c \in Conns, NEW dir \in Sides, NEW p \in Traffic, NEW a \in BOOLEAN,
              Recv(c, dir, p, a)
       PROVE  Reading /\ UNCHANGED <<ix, pending>>
  BY <1>12 DEF Recv
<1>13. ASSUME NEW c \in Conns, RecvDuplicate(c)
       PROVE  Reading /\ UNCHANGED <<ix, pending>>
  BY <1>13 DEF RecvDuplicate
<1>14. Tick => Reading /\ UNCHANGED <<ix, pending>> BY DEF Tick
<1> QED BY <1>5, <1>6, <1>7, <1>8, <1>9, <1>10, <1>11, <1>12, <1>13, <1>14 DEF Next

LEMMA CoreInit == Init => Core
<1> SUFFICES ASSUME Init
             PROVE  Core
  OBVIOUS
<1>1. TypeOK
  <2>1. <<>> \in Seq(Entry) OBVIOUS
  <2>2. ptp_hashtable \in [Buckets -> Seq(Entry)] BY <2>1, Zenon DEF Init
  <2>3. ttp \in [Slots -> Pair \cup {Free}] BY DEF Init
  <2>4. /\ 0 \in Slots /\ 0 \in 0 .. MaxGap /\ 0 \in 0 .. MaxFlows
        /\ 0 \in 0 .. ULongMax /\ 0 \in Nat /\ 1 \in 1 .. Files
    BY TcpTableAssumption DEF Slots, S!Slots
  <2> QED BY <2>2, <2>3, <2>4, Zenon DEF Init, TypeOK
<1>2. ListsMatchTable
  BY TcpTableAssumption
     DEF Init, ListsMatchTable, EntriesLead, SlotsReached, EntriesDistinct, Occupied
<1>3. PendingUnknown /\ OverIdle BY DEF Init, PendingUnknown, OverIdle
<1> QED BY <1>1, <1>2, <1>3 DEF Core

LEMMA CoreStep ==
  ASSUME Core, [Next]_vars
  PROVE  Core'
BY TypeStep, ListsStep, PendingStep DEF Core

LEMMA CoreInvariant == Spec => []Core
<1>1. Init => Core BY CoreInit
<1>2. Core /\ [Next]_vars => Core' BY CoreStep
<1> QED BY <1>1, <1>2, PTL DEF Spec

\* The variables of the flow table keep their types: in particular
\* num_tcp_pairs stays in the table and tot_conn_TCP in an unsigned long.
THEOREM TypeCorrect == Spec => []TypeOK
<1>1. Core => TypeOK BY DEF Core
<1> QED BY <1>1, CoreInvariant, PTL

\* FindTTP reaches every tracked flow, and nothing else, whatever packets,
\* cleanings and files the engine has gone through.
THEOREM ListsAgree == Spec => []ListsMatchTable
<1>1. Core => ListsMatchTable BY DEF Core
<1> QED BY <1>1, CoreInvariant, PTL

------------------------------
\* The order of the lists.
LEMMA SortedInsert ==
  ASSUME Core, SortedByAccess, NEW c \in Conns, NEW s \in Slots, NEW r \in Pair,
         InsertFlow(c, s, r)
  PROVE  SortedByAccess'
<1> DEFINE h == HashOf[c]
           l == ptp_hashtable[h]
           m == ptp_hashtable'[h]
           e == [addr_pair |-> c, ttp_ptr |-> s]
<1>1. /\ h \in Buckets /\ Pushed(l, e, m)
      /\ \A b \in Buckets : b # h => ptp_hashtable'[b] = ptp_hashtable[b]
      /\ \A t \in Slots : ttp'[t] = IF t = s THEN r ELSE ttp[t]
      /\ ttp[s] = Free /\ r.last = 0
  BY InsertOrigin
<1>2. \A b \in Buckets : \A i \in DOMAIN ptp_hashtable[b] :
        LET t == ptp_hashtable[b][i].ttp_ptr
        IN  t \in Slots /\ ttp'[t] = ttp[t] /\ ttp[t].last \in Nat
  BY <1>1, EntryFacts DEF Core, TypeOK, Pair
<1>3. SUFFICES ASSUME NEW b \in Buckets,
                      NEW i \in DOMAIN ptp_hashtable'[b], NEW j \in DOMAIN ptp_hashtable'[b],
                      i < j
               PROVE  ttp'[ptp_hashtable'[b][i].ttp_ptr].last
                        <= ttp'[ptp_hashtable'[b][j].ttp_ptr].last
  BY DEF SortedByAccess
<1>4. CASE b # h BY <1>1, <1>2, <1>3, <1>4 DEF SortedByAccess
<1>5. CASE b = h
  <2>1. i \in Int /\ j \in Int /\ i \in DOMAIN m /\ j \in DOMAIN m BY <1>1, <1>5 DEF Pushed
  <2>2. j > 1 /\ j - 1 \in DOMAIN l /\ m[j] = l[j - 1]
    <3>1. i = 1 \/ i > 1 BY <1>1, <2>1 DEF Pushed
    <3>2. j # 1 BY <1>3, <2>1, <3>1
    <3> QED BY <1>1, <2>1, <3>2 DEF Pushed
  <2>3. CASE i = 1
    <3>1. ttp'[m[i].ttp_ptr].last = 0 BY <1>1, <2>3 DEF Pushed
    <3>2. ttp'[m[j].ttp_ptr].last \in Nat BY <1>1, <1>2, <2>2
    <3> QED BY <1>5, <3>1, <3>2
  <2>4. CASE i > 1 /\ i - 1 \in DOMAIN l /\ m[i] = l[i - 1]
    <3>1. i - 1 < j - 1 BY <1>3, <2>1
    <3>2. ttp[l[i - 1].ttp_ptr].last <= ttp[l[j - 1].ttp_ptr].last
      BY <1>1, <2>2, <2>4, <3>1 DEF SortedByAccess
    <3> QED BY <1>1, <1>2, <1>5, <2>2, <2>4, <3>2
  <2> QED BY <1>1, <2>1, <2>3, <2>4 DEF Pushed
<1> QED BY <1>4, <1>5

LEMMA SortedRefresh ==
  ASSUME Core, SortedByAccess, NEW c \in Conns, NEW r \in Pair, RefreshFlow(c, r)
  PROVE  SortedByAccess'
<1> DEFINE h == HashOf[c]
           l == ptp_hashtable[h]
           m == ptp_hashtable'[h]
           f == FirstMatch(l, c)
<1>1. /\ h \in Buckets /\ f \in DOMAIN l /\ l[f].ttp_ptr = Found(c) /\ Moved(l, f, m)
      /\ \A b \in Buckets : b # h => ptp_hashtable'[b] = ptp_hashtable[b]
      /\ \A t \in Slots : ttp'[t] = IF t = Found(c) THEN r ELSE ttp[t]
      /\ Found(c) \in Slots /\ r.last = 0
  BY RefreshOrigin
<1>2. \A b \in Buckets : \A i \in DOMAIN ptp_hashtable[b] :
        LET t == ptp_hashtable[b][i].ttp_ptr
        IN  /\ t \in Slots /\ ttp[t].last \in Nat /\ ttp'[t].last \in Nat
            /\ b # h \/ i # f => ttp'[t] = ttp[t]
  <2> SUFFICES ASSUME NEW b \in Buckets, NEW i \in DOMAIN ptp_hashtable[b]
               PROVE  LET t == ptp_hashtable[b][i].ttp_ptr
                      IN  /\ t \in Slots /\ ttp[t].last \in Nat /\ ttp'[t].last \in Nat
                          /\ b # h \/ i # f => ttp'[t] = ttp[t]
    OBVIOUS
  <2> DEFINE t == ptp_hashtable[b][i].ttp_ptr
  <2>1. t \in Slots /\ ttp[t] # Free BY EntryFacts
  <2>2. ttp[t].last \in Nat BY <2>1 DEF Core, TypeOK, Pair
  <2>3. t = Found(c) => b = h /\ i = f BY FoundFlow DEF RefreshFlow, Bucket
  <2>4. ttp'[t] = ttp[t] \/ (t = Found(c) /\ ttp'[t].last = 0) BY <1>1, <2>1
  <2> QED BY <2>1, <2>2, <2>3, <2>4
<1> HIDE DEF f
<1>3. SUFFICES ASSUME NEW b \in Buckets,
                      NEW i \in DOMAIN ptp_hashtable'[b], NEW j \in DOMAIN ptp_hashtable'[b],
                      i < j
               PROVE  ttp'[ptp_hashtable'[b][i].ttp_ptr].last
                        <= ttp'[ptp_hashtable'[b][j].ttp_ptr].last
  BY DEF SortedByAccess
<1>4. CASE b # h BY <1>1, <1>2, <1>3, <1>4 DEF SortedByAccess
<1>5. CASE b = h
  <2> DEFINE From(k, o) == o \in DOMAIN l /\ m[k] = l[o]
  <2>1. i \in Int /\ j \in Int /\ f \in Int /\ i \in DOMAIN m /\ j \in DOMAIN m BY <1>1, <1>5 DEF Moved
  <2>2. i >= 1 /\ j > 1
    <3>1. i = 1 \/ i > 1 BY <1>1, <2>1 DEF Moved
    <3> QED BY <1>3, <2>1, <3>1
  <2>3. CASE i = 1
    <3>1. ttp'[m[i].ttp_ptr].last = 0 BY <1>1, <2>1, <2>3 DEF Moved
    <3>2. ttp'[m[j].ttp_ptr].last \in Nat BY <1>1, <1>2, <2>1 DEF Moved
    <3> QED BY <1>5, <3>1, <3>2
  <2>4. CASE i # 1
    <3>1. PICK x \in DOMAIN l : /\ m[i] = l[x] /\ x # f
                               /\ ((x = i - 1 /\ i <= f) \/ (x = i /\ i > f))
      <4>1. CASE i <= f /\ i - 1 \in DOMAIN l /\ m[i] = l[i - 1] BY <2>1, <4>1
      <4>2. CASE i > f /\ i \in DOMAIN l /\ m[i] = l[i] BY <2>1, <4>2
      <4> QED BY <1>1, <2>1, <2>4, <4>1, <4>2 DEF Moved
    <3>2. PICK y \in DOMAIN l : /\ m[j] = l[y] /\ y # f
                               /\ ((y = j - 1 /\ j <= f) \/ (y = j /\ j > f))
      <4>1. CASE j <= f /\ j - 1 \in DOMAIN l /\ m[j] = l[j - 1] BY <2>1, <4>1
      <4>2. CASE j > f /\ j \in DOMAIN l /\ m[j] = l[j] BY <2>1, <4>2
      <4> QED BY <1>1, <2>1, <2>2, <4>1, <4>2 DEF Moved
    <3>3. x < y BY <1>3, <2>1, <3>1, <3>2
    <3>4. ttp[l[x].ttp_ptr].last <= ttp[l[y].ttp_ptr].last BY <1>1, <3>3 DEF SortedByAccess
    <3>5. ttp'[l[x].ttp_ptr] = ttp[l[x].ttp_ptr] /\ ttp'[l[y].ttp_ptr] = ttp[l[y].ttp_ptr]
      BY <1>1, <1>2, <3>1, <3>2
    <3> QED BY <1>5, <3>1, <3>2, <3>4, <3>5
  <2> QED BY <2>3, <2>4
<1> QED BY <1>4, <1>5

LEMMA SortedRemove ==
  ASSUME Core, SortedByAccess, NEW c \in Conns, RemoveFlow(c)
  PROVE  SortedByAccess'
<1> DEFINE h == HashOf[c]
           l == ptp_hashtable[h]
           m == ptp_hashtable'[h]
           f == FirstMatch(l, c)
<1>1. /\ h \in Buckets /\ f \in DOMAIN l /\ Removed(l, f, m)
      /\ \A b \in Buckets : b # h => ptp_hashtable'[b] = ptp_hashtable[b]
      /\ \A t \in Slots : ttp'[t] = IF t = Found(c) THEN Free ELSE ttp[t]
      /\ \A b \in Buckets : \A i \in DOMAIN ptp_hashtable[b] :
           ptp_hashtable[b][i].ttp_ptr = Found(c) => b = h /\ i = f
  BY RemoveFlowOrigin
<1>2. \A b \in Buckets : \A i \in DOMAIN ptp_hashtable[b] :
        b # h \/ i # f =>
          ttp'[ptp_hashtable[b][i].ttp_ptr] = ttp[ptp_hashtable[b][i].ttp_ptr]
  BY <1>1, EntryFacts
<1> HIDE DEF f
<1>3. SUFFICES ASSUME NEW b \in Buckets,
                      NEW i \in DOMAIN ptp_hashtable'[b], NEW j \in DOMAIN ptp_hashtable'[b],
                      i < j
               PROVE  ttp'[ptp_hashtable'[b][i].ttp_ptr].last
                        <= ttp'[ptp_hashtable'[b][j].ttp_ptr].last
  BY DEF SortedByAccess
<1>4. CASE b # h BY <1>1, <1>2, <1>3, <1>4 DEF SortedByAccess
<1>5. CASE b = h
  <2>1. i \in Int /\ j \in Int /\ f \in Int /\ i \in DOMAIN m /\ j \in DOMAIN m BY <1>1, <1>5 DEF Removed
  <2>2. PICK x \in DOMAIN l : /\ m[i] = l[x] /\ x # f
                             /\ ((x = i /\ i < f) \/ (x = i + 1 /\ i >= f))
    <3>1. CASE i < f /\ i \in DOMAIN l /\ m[i] = l[i] BY <2>1, <3>1
    <3>2. CASE i >= f /\ i + 1 \in DOMAIN l /\ m[i] = l[i + 1] BY <2>1, <3>2
    <3> QED BY <1>1, <2>1, <3>1, <3>2 DEF Removed
  <2>3. PICK y \in DOMAIN l : /\ m[j] = l[y] /\ y # f
                             /\ ((y = j /\ j < f) \/ (y = j + 1 /\ j >= f))
    <3>1. CASE j < f /\ j \in DOMAIN l /\ m[j] = l[j] BY <2>1, <3>1
    <3>2. CASE j >= f /\ j + 1 \in DOMAIN l /\ m[j] = l[j + 1] BY <2>1, <3>2
    <3> QED BY <1>1, <2>1, <3>1, <3>2 DEF Removed
  <2>4. x < y BY <1>3, <2>1, <2>2, <2>3
  <2>5. ttp[l[x].ttp_ptr].last <= ttp[l[y].ttp_ptr].last BY <1>1, <2>4 DEF SortedByAccess
  <2>6. ttp'[l[x].ttp_ptr] = ttp[l[x].ttp_ptr] /\ ttp'[l[y].ttp_ptr] = ttp[l[y].ttp_ptr]
    BY <1>1, <1>2, <2>2, <2>3
  <2> QED BY <1>5, <2>2, <2>3, <2>5, <2>6
<1> QED BY <1>4, <1>5

LEMMA SortedStep ==
  ASSUME Core, SortedByAccess, [Next]_vars
  PROVE  SortedByAccess'
<1>1. CASE Tick
  <2> SUFFICES ASSUME NEW b \in Buckets,
                      NEW i \in DOMAIN ptp_hashtable[b], NEW j \in DOMAIN ptp_hashtable[b],
                      i < j
               PROVE  ttp'[ptp_hashtable[b][i].ttp_ptr].last
                        <= ttp'[ptp_hashtable[b][j].ttp_ptr].last
    BY <1>1, TickFacts DEF SortedByAccess
  <2> DEFINE x == ptp_hashtable[b][i].ttp_ptr
             y == ptp_hashtable[b][j].ttp_ptr
  <2>1. x \in Slots /\ ttp[x] # Free /\ y \in Slots /\ ttp[y] # Free BY EntryFacts
  <2>2. ttp'[x].last = ttp[x].last + 1 /\ ttp'[y].last = ttp[y].last + 1 BY <1>1, <2>1, TickFacts
  <2>3. ttp[x].last \in Nat /\ ttp[y].last \in Nat BY <2>1 DEF Core, TypeOK, Pair
  <2>4. ttp[x].last <= ttp[y].last BY DEF SortedByAccess
  <2> QED BY <2>2, <2>3, <2>4
<1>2. CASE ~Tick
  <2>1. Change BY <1>2, StepChange
  <2>2. CASE UNCHANGED <<ttp, ptp_hashtable>> BY <2>2 DEF SortedByAccess
  <2> QED BY <2>1, <2>2, SortedInsert, SortedRefresh, SortedRemove DEF Change
<1> QED BY <1>1, <1>2

\* The lists are sorted by most recent access: a flow is never behind one
\* that has been silent for longer.
THEOREM Sorted == Spec => []SortedByAccess
<1>1. Init => SortedByAccess BY DEF Init, SortedByAccess
<1>2. Core /\ SortedByAccess /\ [Next]_vars => SortedByAccess' BY SortedStep
<1> QED BY <1>1, <1>2, CoreInvariant, PTL DEF Spec

------------------------------
\* The bound on silent flows.  A change leaves a slot as it was, frees it,
\* or puts a flow into it that has just been heard.
LEMMA KeptFlow ==
  ASSUME Core, Change, NEW t \in Slots
  PROVE  ttp'[t] = ttp[t] \/ ttp'[t] = Free \/ (ttp'[t] \in Pair /\ ttp'[t].last = 0)
<1>1. CASE UNCHANGED <<ttp, ptp_hashtable>> BY <1>1
<1>2. ASSUME NEW c \in Conns, NEW s \in Slots, NEW r \in Pair, InsertFlow(c, s, r)
      PROVE  ttp'[t] = ttp[t] \/ ttp'[t] = Free \/ (ttp'[t] \in Pair /\ ttp'[t].last = 0)
  <2>1. /\ \A u \in Slots : ttp'[u] = IF u = s THEN r ELSE ttp[u]
        /\ r \in Pair /\ r.last = 0
    BY <1>2 DEF InsertFlow, Core, TypeOK
  <2> QED BY <2>1
<1>3. ASSUME NEW c \in Conns, NEW r \in Pair, RefreshFlow(c, r)
      PROVE  ttp'[t] = ttp[t] \/ ttp'[t] = Free \/ (ttp'[t] \in Pair /\ ttp'[t].last = 0)
  BY <1>3, RefreshOrigin
<1>4. ASSUME NEW c \in Conns, RemoveFlow(c)
      PROVE  ttp'[t] = ttp[t] \/ ttp'[t] = Free
  BY <1>4, RemoveFlowOrigin
<1> QED BY <1>1, <1>2, <1>3, <1>4 DEF Change

LEMMA CleanedStep ==
  ASSUME Core, CleanedBehind, [Next]_vars
  PROVE  CleanedBehind'
<1>1. CASE ix' \in {0, NotCleaning} BY <1>1, TcpTableAssumption DEF CleanedBehind, Slots, S!Slots, NotCleaning
<1>2. CASE CleanSlot
  <2>1. ix \in Slots /\ ix' = ix + 1 /\ ~Tick
    BY <1>2, TcpTableAssumption DEF CleanSlot, Tick, Reading, Slots, S!Slots, NotCleaning
  <2>2. ASSUME NEW t \in Slots, t < ix', ttp'[t] # Free
        PROVE  ttp'[t] = ttp[t] /\ ~Expired(ttp[t])
    <3>1. t = ix \/ (t # ix /\ t < ix) BY <2>1, <2>2, TcpTableAssumption DEF Slots, S!Slots
    <3>2. CASE ttp[ix] # Free /\ Expired(ttp[ix])
      <4>1. ttp'[ix] = Free /\ \A u \in Slots : u # ix => ttp'[u] = ttp[u]
        BY <1>2, <2>1, <3>2 DEF CleanSlot, Core, TypeOK
      <4> QED BY <2>2, <3>1, <4>1 DEF CleanedBehind
    <3>3. CASE ~(ttp[ix] # Free /\ Expired(ttp[ix]))
      <4>1. ttp' = ttp BY <1>2, <3>3 DEF CleanSlot
      <4> QED BY <2>2, <3>1, <3>3, <4>1 DEF CleanedBehind
    <3> QED BY <3>2, <3>3
  <2> QED BY <2>2, Zenon DEF CleanedBehind
<1>3. CASE UNCHANGED vars BY <1>3 DEF vars, tables, CleanedBehind
<1>4. Reading => ix = NotCleaning BY DEF Reading
<1>5. ASSUME NEW c \in Conns, NEW p \in Traffic, RecvFirstSyn(c, p)
      PROVE  ix' \in {0, NotCleaning}
  BY <1>4, <1>5 DEF RecvFirstSyn
<1>6. ASSUME NEW c \in Conns, NEW dir \in Sides, NEW p \in Traffic, NEW a \in BOOLEAN,
             Recv(c, dir, p, a)
      PROVE  ix' \in {0, NotCleaning}
  BY <1>4, <1>6 DEF Recv
<1>7. ASSUME NEW c \in Conns, RecvDuplicate(c)
      PROVE  ix' \in {0, NotCleaning}
  BY <1>4, <1>7 DEF RecvDuplicate
<1>8. RecvFirstDatagram \/ CleanDone \/ Tick \/ EndOfFile => ix' \in {0, NotCleaning}
  BY <1>4 DEF RecvFirstDatagram, CleanDone, Tick, EndOfFile
<1> QED BY <1>1, <1>2, <1>3, <1>5, <1>6, <1>7, <1>8 DEF Next

\* Only the clock and the end of a cleaning change the time since the last
\* one.
LEMMA SinceStep ==
  ASSUME [Next]_vars, ~Tick, ~CleanDone
  PROVE  since' = since
<1>1. ASSUME NEW c \in Conns, NEW p \in Traffic, RecvFirstSyn(c, p)
      PROVE  since' = since
  BY <1>1 DEF RecvFirstSyn
<1>2. ASSUME NEW c \in Conns, NEW dir \in Sides, NEW p \in Traffic, NEW a \in BOOLEAN,
             Recv(c, dir, p, a)
      PROVE  since' = since
  BY <1>2 DEF Recv
<1>3. ASSUME NEW c \in Conns, RecvDuplicate(c)
      PROVE  since' = since
  BY <1>3 DEF RecvDuplicate
<1>4. RecvFirstDatagram \/ CleanSlot \/ EndOfFile => since' = since
  BY DEF RecvFirstDatagram, CleanSlot, EndOfFile
<1>5. UNCHANGED vars => since' = since BY DEF vars
<1> QED BY <1>1, <1>2, <1>3, <1>4, <1>5 DEF Next

LEMMA StaleStep ==
  ASSUME Core, CleanedBehind, StaleBound, [Next]_vars
  PROVE  StaleBound'
<1>1. SingletonTime \in Nat /\ IdleTime \in Nat /\ since \in Nat /\ since' \in Nat
  <2>1. TypeOK /\ TypeOK' BY TypeStep DEF Core
  <2> QED BY <2>1, TcpTableAssumption DEF TypeOK
<1> SUFFICES ASSUME NEW t \in Slots, ttp'[t] # Free
             PROVE  /\ ttp'[t].last <= IdleTime + since'
                    /\ Singleton(ttp'[t]) => ttp'[t].last <= SingletonTime + since'
  BY DEF StaleBound, Occupied
<1>2. CASE Tick
  <2>1. ttp[t] # Free BY <1>2, TickFacts
  <2>2. /\ ttp'[t].last = ttp[t].last + 1
        /\ Singleton(ttp'[t]) <=> Singleton(ttp[t])
    BY <1>2, <2>1, TickFacts
  <2>3. since' = since + 1 BY <1>2 DEF Tick
  <2>4. /\ ttp[t].last <= IdleTime + since
        /\ Singleton(ttp[t]) => ttp[t].last <= SingletonTime + since
    BY <2>1 DEF StaleBound, Occupied
  <2> QED
    <3>1. ttp[t].last \in Nat BY <2>1 DEF Core, TypeOK, Pair
    <3>2. ttp'[t].last <= IdleTime + since' BY <1>1, <2>2, <2>3, <2>4, <3>1
    <3>3. ASSUME Singleton(ttp'[t])
          PROVE  ttp'[t].last <= SingletonTime + since'
      BY <1>1, <2>2, <2>3, <2>4, <3>1, <3>3
    <3> QED BY <3>2, <3>3
<1>3. CASE ~Tick
  <2>1. ttp'[t] = ttp[t] \/ ttp'[t].last = 0 BY <1>3, StepChange, KeptFlow
  <2>2. CASE ttp'[t].last = 0
    <3>1. \A m, n \in Nat : 0 <= m + n OBVIOUS
    <3>2. 0 <= IdleTime + since' /\ 0 <= SingletonTime + since' BY <1>1, <3>1, Zenon
    <3> QED BY <2>2, <3>2
  <2>3. CASE ttp'[t] = ttp[t] /\ ~CleanDone
    <3>1. since' = since BY <1>3, <2>3, SinceStep
    <3> QED BY <2>3, <3>1 DEF StaleBound, Occupied
  <2>4. CASE ttp'[t] = ttp[t] /\ CleanDone
    <3>1. ix = MaxTcpPairs /\ since' = 0 BY <2>4 DEF CleanDone
    <3>2. t < ix BY <3>1, TcpTableAssumption DEF Slots, S!Slots
    <3>3. ~Expired(ttp[t]) BY <2>4, <3>2 DEF CleanedBehind
    <3>4. ttp[t].last \in Nat BY <2>4 DEF Core, TypeOK, Pair
    <3> QED BY <1>1, <2>4, <3>1, <3>3, <3>4 DEF Expired
  <2> QED BY <2>1, <2>2, <2>3, <2>4
<1> QED BY <1>2, <1>3

\* No flow outlives TCP_IDLE_TIME, and no singleton TCP_SINGLETON_TIME, by
\* more than the time since the last cleaning.
THEOREM StaleBounded == Spec => []StaleBound
<1>1. Init => CleanedBehind /\ StaleBound BY DEF Init, CleanedBehind, StaleBound, Occupied
<1>2. Core /\ CleanedBehind /\ StaleBound /\ [Next]_vars => (CleanedBehind /\ StaleBound)'
  BY CleanedStep, StaleStep
<1> QED BY <1>1, <1>2, CoreInvariant, PTL DEF Spec

------------------------------
\* The account of the flows, for one input file: what a step does to the
\* table and, at once, to the counters.
Still ==
  /\ \/ UNCHANGED <<ttp, ptp_hashtable>>
     \/ Tick
     \/ \E c \in Conns, r \in Pair : RefreshFlow(c, r)
  /\ Reported' = Reported
  /\ UNCHANGED <<missed, f_TCP_count, tot_conn_TCP, over>>

Opens ==
  /\ \E c \in Conns, s \in Slots, r \in Pair : InsertFlow(c, s, r)
  /\ ~over /\ over' = over
  /\ tot_conn_TCP' = Plus(tot_conn_TCP)
  /\ f_TCP_count' = f_TCP_count + 1
  /\ Reported' = Reported /\ missed' = missed

Refuses ==
  /\ UNCHANGED <<ttp, ptp_hashtable, tot_conn_TCP, over>>
  /\ f_TCP_count' = f_TCP_count + 1
  /\ Reported' = Reported /\ missed' = missed + 1

Flashes ==
  /\ UNCHANGED <<ttp, ptp_hashtable, tot_conn_TCP, over>>
  /\ f_TCP_count' = f_TCP_count + 1
  /\ Reported' = Reported + 1 /\ missed' = missed

Closes ==
  /\ \E c \in Conns : RemoveFlow(c)
  /\ ~over /\ over' = over
  /\ tot_conn_TCP' = Minus(tot_conn_TCP, 1)
  /\ f_TCP_count' = f_TCP_count
  /\ Reported' = Reported + 1 /\ missed' = missed

Ends ==
  /\ UNCHANGED <<ttp, ptp_hashtable>>
  /\ ~over /\ over'
  /\ tot_conn_TCP' = Minus(tot_conn_TCP, Cardinality(Occupied))
  /\ f_TCP_count' = f_TCP_count
  /\ Reported' = Reported + Cardinality(Occupied) /\ missed' = missed

\* A flow that is logged or left out of the logs is reported once.
LEMMA LogOnce ==
  ASSUME TypeOK, NEW r, NEW b \in BOOLEAN
  PROVE  /\ LogFlow(r, b) => Reported' = Reported + 1
         /\ NoLine => Reported' = Reported
<1>1. complete \in Nat /\ nocomplete \in Nat /\ unfiled \in Nat BY DEF TypeOK
<1>2. ASSUME LogFlow(r, b)
      PROVE  Reported' = Reported + 1
  BY <1>1, <1>2 DEF LogFlow, Reported
<1>3. NoLine => Reported' = Reported BY <1>1 DEF NoLine, Reported
<1> QED BY <1>2, <1>3

LEMMA OpenKind ==
  ASSUME Core, NEW c \in Conns, NEW p \in Traffic, ~Known(c), ~over, over' = over,
         OpenFlow(c, p)
  PROVE  Opens \/ Refuses \/ Flashes
<1> DEFINE s == S!Landing(num_tcp_pairs, Occupied)
           r == Stored(Fresh(c), "C2S", p, FALSE)
<1>1. TypeOK /\ f_TCP_count' = f_TCP_count + 1 BY DEF Core, OpenFlow
<1>2. CASE ~S!Found(num_tcp_pairs, Occupied)
  <2>1. NoLine /\ missed' = missed + 1 /\ UNCHANGED <<ttp, ptp_hashtable, tot_conn_TCP>> BY <1>2 DEF OpenFlow
  <2> QED BY <1>1, <2>1, LogOnce DEF Refuses
<1>3. CASE S!Found(num_tcp_pairs, Occupied) /\ "RST" \in p
  <2>1. LogFlow(r, FALSE) /\ UNCHANGED <<ttp, ptp_hashtable, tot_conn_TCP, missed>> BY <1>3 DEF OpenFlow
  <2> HIDE DEF r
  <2>2. Reported' = Reported + 1 BY <1>1, <2>1, LogOnce
  <2> QED BY <1>1, <2>1, <2>2 DEF Flashes
<1>4. CASE S!Found(num_tcp_pairs, Occupied) /\ "RST" \notin p
  <2>1. /\ ttp' = [ttp EXCEPT ![s] = r]
        /\ ptp_hashtable' = [ptp_hashtable EXCEPT ![HashOf[c]] =
                               Cons([addr_pair |-> c, ttp_ptr |-> s], @)]
        /\ tot_conn_TCP' = Plus(tot_conn_TCP) /\ NoLine /\ missed' = missed
    BY <1>4 DEF OpenFlow
  <2>2. r \in Pair /\ r.conn = c /\ r.last = 0 BY DEF Stored, Fresh, Pair, AddIf, Sides, Opposite
  <2>3. s \in Slots BY LandingInTable DEF Core, TypeOK
  <2>4. ttp[s] = Free BY <1>4, <2>3 DEF S!Found, Occupied
  <2> HIDE DEF s, r
  <2>5. InsertFlow(c, s, r) BY <2>1, <2>2, <2>4 DEF InsertFlow
  <2>6. Reported' = Reported BY <1>1, <2>1, LogOnce
  <2> QED BY <1>1, <2>1, <2>2, <2>3, <2>5, <2>6 DEF Opens
<1> QED BY <1>2, <1>3, <1>4

LEMMA CloseKind ==
  ASSUME Core, NEW c \in Conns, Known(c), NEW r, NEW b \in BOOLEAN,
         CloseFlow(c, r, b), ~over, over' = over,
         UNCHANGED <<f_TCP_count, missed>>
  PROVE  Closes
<1>1. RemoveFlow(c) BY CloseIsRemove
<1>2. LogFlow(r, b) /\ tot_conn_TCP' = Minus(tot_conn_TCP, 1) BY DEF CloseFlow
<1>3. Reported' = Reported + 1 BY <1>2, LogOnce DEF Core
<1> QED BY <1>1, <1>2, <1>3 DEF Closes

LEMMA StepKind ==
  ASSUME Core, [Next]_vars, Files = 1
  PROVE  Still \/ Opens \/ Refuses \/ Flashes \/ Closes \/ Ends
<1>1. TypeOK /\ (over => ix = NotCleaning) BY DEF Core, OverIdle
<1>2. ASSUME NEW c \in Conns, NEW p \in Traffic, RecvFirstSyn(c, p)
      PROVE  Still \/ Opens \/ Refuses \/ Flashes
  <2>1. CASE Due BY <1>2, <2>1 DEF RecvFirstSyn, tables, counts, input, Still, Reported
  <2>2. CASE ~Due
    <3>1. OpenFlow(c, p) /\ ~Known(c) /\ ~over /\ over' = over BY <1>2, <2>2 DEF RecvFirstSyn, Reading, input
    <3> QED BY <3>1, OpenKind
  <2> QED BY <2>1, <2>2
<1>3. CASE RecvFirstDatagram BY <1>3 DEF RecvFirstDatagram, tables, counts, input, Still, Reported
<1>4. ASSUME NEW c \in Conns, NEW r \in Pair, Known(c), KeepFlow(c, r), r.conn = c,
             r.last = 0, UNCHANGED <<f_TCP_count, missed, over>>
      PROVE  Still
  <2>1. RefreshFlow(c, r) /\ NoLine /\ tot_conn_TCP' = tot_conn_TCP BY <1>4 DEF KeepFlow, RefreshFlow
  <2>2. Reported' = Reported BY <1>1, <2>1, LogOnce
  <2> QED BY <1>4, <2>1, <2>2 DEF Still
<1>5. ASSUME NEW c \in Conns, NEW dir \in Sides, NEW p \in Traffic, NEW a \in BOOLEAN,
             Recv(c, dir, p, a)
      PROVE  Still \/ Closes
  <2> DEFINE r == Stored(ttp[Found(c)], dir, p, a)
  <2>1. Known(c) /\ ~over /\ UNCHANGED <<f_TCP_count, missed, over>> BY <1>5 DEF Recv, Reading, input
  <2>2. r \in Pair /\ r.conn = c /\ r.last = 0 BY <2>1, FoundFlow, StoredType
  <2>3. BothSyn(r) \in BOOLEAN BY DEF BothSyn
  <2>4. KeepFlow(c, r) => Still BY <1>4, <2>1, <2>2
  <2>5. \A b \in BOOLEAN : CloseFlow(c, r, b) => Closes BY <2>1, CloseKind
  <2>6. \/ KeepFlow(c, r)
        \/ CloseFlow(c, r, BothSyn(r))
        \/ CloseFlow(c, r, TRUE)
    BY <1>5 DEF Recv
  <2> HIDE DEF r
  <2> QED BY <2>3, <2>4, <2>5, <2>6
<1>6. ASSUME NEW c \in Conns, RecvDuplicate(c)
      PROVE  Still
  <2> DEFINE r == [ttp[Found(c)] EXCEPT !.last = 0]
  <2>1. Known(c) /\ KeepFlow(c, r) /\ UNCHANGED <<f_TCP_count, missed, over>> BY <1>6 DEF RecvDuplicate, input
  <2>2. r \in Pair /\ r.conn = c /\ r.last = 0 BY <2>1, FoundFlow DEF Pair
  <2> QED BY <1>4, <2>1, <2>2
<1>7. CASE CleanSlot
  <2>1. ix \in Slots /\ UNCHANGED <<f_TCP_count, missed, over>> BY <1>7 DEF CleanSlot, input
  <2>2. ~over BY <1>1, <2>1, TcpTableAssumption DEF Slots, S!Slots, NotCleaning
  <2>3. CASE ttp[ix] # Free /\ Expired(ttp[ix])
    <3> DEFINE c == ttp[ix].conn
    <3>1. c \in Conns /\ RemoveFlow(c) BY <1>7, <2>1, <2>3, CleanIsRemove DEF CleanSlot, RemoveFlow, Bucket
    <3>2. LogFlow(ttp[ix], BothSyn(ttp[ix])) /\ tot_conn_TCP' = Minus(tot_conn_TCP, 1)
      BY <1>7, <2>3 DEF CleanSlot
    <3>3. BothSyn(ttp[ix]) \in BOOLEAN BY DEF BothSyn
    <3>4. Reported' = Reported + 1 BY <1>1, <3>2, <3>3, LogOnce
    <3> QED BY <2>1, <2>2, <3>1, <3>2, <3>4 DEF Closes
  <2>4. CASE ~(ttp[ix] # Free /\ Expired(ttp[ix]))
    <3>1. NoLine /\ UNCHANGED <<ttp, ptp_hashtable, tot_conn_TCP>> BY <1>7, <2>4 DEF CleanSlot
    <3>2. Reported' = Reported BY <1>1, <3>1, LogOnce
    <3> QED BY <2>1, <3>1, <3>2 DEF Still
  <2> QED BY <2>3, <2>4
<1>8. CASE CleanDone
  <2>1. CASE pending = NoFlow BY <1>8, <2>1 DEF CleanDone, tables, counts, input, Still, Reported
  <2>2. CASE pending # NoFlow
    <3>1. pending[1] \in Conns /\ pending[2] \in Traffic /\ ~Known(pending[1])
      BY <2>2 DEF Core, TypeOK, PendingUnknown
    <3>2. ix = MaxTcpPairs /\ OpenFlow(pending[1], pending[2]) /\ over' = over
      BY <1>8, <2>2 DEF CleanDone, input
    <3>3. ~over BY <1>1, <3>2, TcpTableAssumption DEF NotCleaning
    <3> QED BY <3>1, <3>2, <3>3, OpenKind
  <2> QED BY <2>1, <2>2
<1>9. CASE Tick BY <1>9 DEF Tick, counts, input, Still, Reported
<1>10. CASE EndOfFile
  <2> DEFINE filed == {s \in Occupied : ttp[s].conn \in Located}
  <2>1. file = 1 BY <1>1 DEF TypeOK
  <2>2. /\ UNCHANGED <<ttp, ptp_hashtable, f_TCP_count, missed>>
        /\ tot_conn_TCP' = Minus(tot_conn_TCP, Cardinality(Occupied))
    BY <1>10, <2>1 DEF EndOfFile, tables
  <2>3. ~over /\ over' BY <1>10, <2>1 DEF EndOfFile, Reading
  <2>4. /\ complete' = complete
        /\ nocomplete' = nocomplete + Cardinality(filed)
        /\ unfiled' = unfiled + Cardinality(Occupied \ filed)
    BY <1>10 DEF EndOfFile, TraceDone
  <2>5. /\ Cardinality(filed) \in Nat /\ Cardinality(Occupied) \in Nat
        /\ Cardinality(Occupied \ filed) = Cardinality(Occupied) - Cardinality(filed)
    <3>1. IsFiniteSet(Occupied) /\ filed \subseteq Occupied /\ Occupied \cap filed = filed
      BY SlotsFinite DEF Occupied
    <3> HIDE DEF filed
    <3> QED
      <4>1. IsFiniteSet(filed) /\ IsFiniteSet(Occupied \ filed) BY <3>1, FS_Subset, FS_Difference
      <4>2. Cardinality(Occupied \ filed) = Cardinality(Occupied) - Cardinality(Occupied \cap filed)
        BY <3>1, FS_Difference
      <4> QED BY <3>1, <4>1, <4>2, FS_CardinalityType
  <2>6. Reported' = Reported + Cardinality(Occupied)
    <3>1. complete \in Nat /\ nocomplete \in Nat /\ unfiled \in Nat BY <1>1 DEF TypeOK
    <3>2. Reported' = complete' + nocomplete' + unfiled' BY DEF Reported
    <3> HIDE DEF filed
    <3> QED BY <2>4, <2>5, <3>1, <3>2 DEF Reported
  <2> QED BY <2>2, <2>3, <2>6 DEF Ends
<1>11. CASE UNCHANGED vars BY <1>11 DEF vars, tables, counts, input, Still, Reported
<1> QED BY <1>2, <1>3, <1>5, <1>6, <1>7, <1>8, <1>9, <1>10, <1>11 DEF Next

\* How many slots are in use after a change.
LEMMA CountSame ==
  ASSUME Core, Still
  PROVE  Occupied' = Occupied
<1>1. ASSUME NEW c \in Conns, NEW r \in Pair, RefreshFlow(c, r)
      PROVE  Occupied' = Occupied
  BY <1>1, RefreshOrigin DEF Occupied
<1>2. CASE Tick BY <1>2, TickFacts DEF Occupied
<1> QED BY <1>1, <1>2 DEF Still, Occupied

LEMMA CountOpen ==
  ASSUME Core, Opens
  PROVE  /\ Cardinality(Occupied') = Cardinality(Occupied) + 1
         /\ Cardinality(Occupied) < MaxTcpPairs
<1>1. PICK c \in Conns, s \in Slots, r \in Pair : InsertFlow(c, s, r) BY DEF Opens
<1>2. ttp[s] = Free /\ \A t \in Slots : ttp'[t] = IF t = s THEN r ELSE ttp[t]
  BY <1>1 DEF InsertFlow, Core, TypeOK
<1>3. Occupied' = Occupied \cup {s} /\ s \notin Occupied BY <1>2, FreeAssumption DEF Occupied
<1>4. Occupied \in SUBSET Slots /\ Occupied' \in SUBSET Slots BY DEF Occupied
<1>5. IsFiniteSet(Occupied) /\ Cardinality(Occupied) \in Nat
      /\ Cardinality(Occupied') <= MaxTcpPairs
  BY <1>4, SlotsFinite
<1>6. Cardinality(Occupied') = Cardinality(Occupied) + 1 BY <1>3, <1>5, FS_AddElement
<1> QED BY <1>5, <1>6, TcpTableAssumption

LEMMA CountClose ==
  ASSUME Core, Closes
  PROVE  Cardinality(Occupied') = Cardinality(Occupied) - 1
<1>1. PICK c \in Conns : RemoveFlow(c) BY DEF Closes
<1>2. /\ \A t \in Slots : ttp'[t] = IF t = Found(c) THEN Free ELSE ttp[t]
      /\ Found(c) \in Slots /\ ttp[Found(c)] # Free
  BY <1>1, RemoveFlowOrigin
<1>3. Occupied' = Occupied \ {Found(c)} /\ Found(c) \in Occupied BY <1>2 DEF Occupied
<1>4. IsFiniteSet(Occupied) BY SlotsFinite DEF Occupied
<1> QED BY <1>3, <1>4, FS_RemoveElement

LEMMA ConservedStep ==
  ASSUME Core, Conserved, [Next]_vars, Files = 1
  PROVE  Conserved'
<1> DEFINE n == Cardinality(Occupied)
<1>1. n \in Nat /\ n <= ULongMax /\ ULongMax \in Nat BY SlotsFinite, TcpTableAssumption DEF Occupied
<1>2. Reported \in Nat /\ missed \in Nat BY DEF Core, TypeOK, Reported
<1>3. /\ f_TCP_count = Reported + missed + Tracked
      /\ tot_conn_TCP = Tracked
  BY DEF Conserved
<1>4. CASE Still
  <2>1. Tracked' = Tracked BY <1>4, CountSame DEF Still, Tracked
  <2> QED BY <1>3, <1>4, <2>1 DEF Still, Conserved
<1>5. CASE Opens
  <2>1. Cardinality(Occupied') = n + 1 /\ n < MaxTcpPairs BY <1>5, CountOpen
  <2>2. Tracked = n /\ Tracked' = n + 1 BY <1>5, <2>1 DEF Opens, Tracked
  <2>3. Plus(tot_conn_TCP) = n + 1 BY <1>1, <1>3, <2>1, <2>2, TcpTableAssumption DEF Plus
  <2> HIDE DEF n
  <2> QED BY <1>1, <1>2, <1>3, <1>5, <2>2, <2>3 DEF Opens, Conserved
<1>6. CASE Refuses \/ Flashes
  <2>1. Tracked' = Tracked /\ Tracked \in Nat BY <1>1, <1>6 DEF Refuses, Flashes, Tracked, Occupied
  <2> QED BY <1>2, <1>3, <1>6, <2>1 DEF Refuses, Flashes, Conserved
<1>7. CASE Closes
  <2>1. Cardinality(Occupied') = n - 1 /\ Cardinality(Occupied') \in Nat
    BY <1>7, CountClose, SlotsFinite DEF Occupied
  <2>2. Tracked = n /\ Tracked' = n - 1 BY <1>7, <2>1 DEF Closes, Tracked
  <2>3. Minus(tot_conn_TCP, 1) = n - 1 BY <1>1, <1>3, <2>1, <2>2 DEF Minus
  <2> HIDE DEF n
  <2> QED BY <1>1, <1>2, <1>3, <1>7, <2>2, <2>3 DEF Closes, Conserved
<1>8. CASE Ends
  <2>1. Tracked = n /\ Tracked' = 0 BY <1>8 DEF Ends, Tracked
  <2>2. Minus(tot_conn_TCP, n) = 0 BY <1>1, <1>3, <2>1 DEF Minus
  <2> HIDE DEF n
  <2>3. /\ Reported' = Reported + n /\ tot_conn_TCP' = Minus(tot_conn_TCP, n)
        /\ f_TCP_count' = f_TCP_count /\ missed' = missed
    BY <1>8 DEF Ends, n
  <2> QED BY <1>1, <1>2, <1>3, <2>1, <2>2, <2>3 DEF Conserved
<1> QED BY <1>4, <1>5, <1>6, <1>7, <1>8, StepKind

\* With one input file every flow is tracked, refused or reported exactly
\* once, and tot_conn_TCP is the number of the tracked ones.
THEOREM FlowsConserved ==
  ASSUME Files = 1
  PROVE  Spec => []Conserved
<1>1. Init => Conserved
  <2> SUFFICES ASSUME Init
               PROVE  Conserved
    OBVIOUS
  <2>1. Occupied = {} BY DEF Init, Occupied
  <2>2. Cardinality(Occupied) = 0 BY <2>1, FS_EmptySet
  <2> QED BY <2>2 DEF Init, Conserved, Tracked, Reported
<1>2. Core /\ Conserved /\ [Next]_vars => Conserved' BY ConservedStep
<1> QED BY <1>1, <1>2, CoreInvariant, PTL DEF Spec

------------------------------
\* The refinement of FlowLog.  The tracked flows are as many as the known
\* addresses: the slots in use and the addresses they hold are in
\* one-to-one correspondence.
LEMMA AsManyKnown ==
  ASSUME Core
  PROVE  Cardinality({c \in Conns : Known(c)}) = Cardinality(Occupied)
<1> DEFINE K == {c \in Conns : Known(c)}
           f == [s \in Occupied |-> ttp[s].conn]
<1>1. \A s \in Occupied : ttp[s].conn \in Conns /\ Known(ttp[s].conn) /\ Found(ttp[s].conn) = s
  BY CleanIsRemove DEF Occupied
<1>2. \A c \in K : Found(c) \in Occupied /\ ttp[Found(c)].conn = c BY FoundFlow, FreeAssumption DEF Occupied
<1> HIDE DEF K
<1>3. f \in [Occupied -> K] BY <1>1 DEF K
<1>4. \A s, t \in Occupied : f[s] = f[t] => s = t BY <1>1
<1>5. \A c \in K : \E s \in Occupied : f[s] = c BY <1>2
<1>6. ExistsBijection(Occupied, K)
  BY <1>3, <1>4, <1>5 DEF ExistsBijection, Bijection, Injection, Surjection, IsInjective
<1>7. IsFiniteSet(Occupied) BY SlotsFinite DEF Occupied
<1> QED BY <1>6, <1>7, FS_Bijection DEF K

LEMMA LogStep ==
  ASSUME Core, [Next]_vars, Files = 1
  PROVE  [Log!Next]_(Log!vars)
<1>1. CASE Still
  <2>1. \A d \in Conns : Known(d)' <=> Known(d)
    <3>1. ASSUME NEW c \in Conns, NEW r \in Pair, RefreshFlow(c, r)
          PROVE  \A d \in Conns : Known(d)' <=> Known(d)
      BY <3>1, KnownRefresh
    <3>2. CASE ptp_hashtable' = ptp_hashtable BY <3>2 DEF Known, Bucket
    <3> QED BY <1>1, <3>1, <3>2, TickFacts DEF Still
  <2>2. openFlows' = openFlows BY <1>1, <2>1 DEF Still, openFlows
  <2> QED BY <1>1, <2>2 DEF Still, Log!vars
<1>2. CASE Opens
  <2>1. PICK c \in Conns, s \in Slots, r \in Pair : InsertFlow(c, s, r) BY <1>2 DEF Opens
  <2>2. \A d \in Conns : Known(d)' <=> (Known(d) \/ d = c) BY <2>1, KnownInsert
  <2>3. ~Known(c) /\ ~over /\ ~over' BY <1>2, <2>1 DEF Opens, InsertFlow
  <2>4. c \notin openFlows /\ openFlows' = openFlows \cup {c} BY <2>2, <2>3 DEF openFlows
  <2> QED BY <1>2, <2>4 DEF Opens, Log!Next, Log!Open
<1>3. CASE Refuses
  <2>1. openFlows' = openFlows BY <1>3 DEF Refuses, openFlows, Known, Bucket
  <2> QED BY <1>3, <2>1 DEF Refuses, Log!Next, Log!Refuse
<1>4. CASE Flashes
  <2>1. openFlows' = openFlows BY <1>4 DEF Flashes, openFlows, Known, Bucket
  <2> QED BY <1>4, <2>1 DEF Flashes, Log!Next, Log!Flash
<1>5. CASE Closes
  <2>1. PICK c \in Conns : RemoveFlow(c) BY <1>5 DEF Closes
  <2>2. \A d \in Conns : Known(d)' <=> (Known(d) /\ d # c) BY <2>1, KnownRemove
  <2>3. Known(c) /\ ~over /\ ~over' BY <1>5, <2>1 DEF Closes, RemoveFlow
  <2>4. c \in openFlows /\ openFlows' = openFlows \ {c} BY <2>2, <2>3 DEF openFlows
  <2> QED BY <1>5, <2>4 DEF Closes, Log!Next, Log!Close
<1>6. CASE Ends
  <2>1. openFlows = {c \in Conns : Known(c)} /\ openFlows' = {} BY <1>6 DEF Ends, openFlows
  <2>2. Cardinality(openFlows) = Cardinality(Occupied) BY <2>1, AsManyKnown
  <2>3. Reported' = Reported + Cardinality(Occupied) /\ missed' = missed BY <1>6 DEF Ends
  <2>4. Log!Cardinality(openFlows) = Cardinality(openFlows) BY Zenon DEF Log!Cardinality, Cardinality
  <2>5. Log!End BY <2>1, <2>2, <2>3, <2>4 DEF Log!End
  <2> QED BY <2>5 DEF Log!Next
<1> QED BY <1>1, <1>2, <1>3, <1>4, <1>5, <1>6, StepKind

\* Seen from outside, the table, its lists and its cleaning are a set of
\* open flows that each leave it with one report.
THEOREM Implementation ==
  ASSUME Files = 1
  PROVE  Spec => ImplementsFlowLog
<1>1. Init => Log!Init
  <2> SUFFICES ASSUME Init
               PROVE  Log!Init
    OBVIOUS
  <2>1. \A c \in Conns : ~Known(c) BY TcpTableAssumption DEF Init, Known, Matches, Bucket
  <2>2. openFlows = {} BY <2>1 DEF openFlows
  <2>3. Reported = 0 /\ missed = 0 BY DEF Init, Reported
  <2> QED BY <2>2, <2>3 DEF Log!Init
<1>2. Core /\ [Next]_vars => [Log!Next]_(Log!vars) BY LogStep
<1> QED BY <1>1, <1>2, CoreInvariant, PTL DEF Spec, ImplementsFlowLog, Log!Spec

\* The table and its lists as FindTTP relies on them (tcp.c:476-560), for
\* any size, any hash function, any traffic and any number of files.
THEOREM TableKept == Spec => []TableSound
<1>1. TypeOK /\ ListsMatchTable /\ SortedByAccess => TableSound BY DEF TableSound
<1> QED BY <1>1, TypeCorrect, ListsAgree, Sorted, PTL

------------------------------
(***************************************************************************)
(* TcpClass.                                                               *)
(***************************************************************************)

------------------------------
\* Chat sessions (TcpChat).  The record of a session.
Chat == [ft : ChatTypes, seen : [Dirs -> SUBSET Noted], arrived : BOOLEAN,
         chats : Int, presences : Int]

\* The chats of an MSN login that carried messages may drift.
Drifted(c) == /\ c.ft \in {"MSN_LOGIN", "MSN_PRESENCE"}
              /\ \E d \in Dirs : "MSG" \in c.seen[d]

\* What is counted of a session that is open.
Online(c) == /\ c.presences = One(c.ft \in Present)
             /\ c.chats = One(c.ft \in Chatting) \/ Drifted(c)

\* A message of a contact of Yahoo is a message.
Yahoo(c) == \A d \in Dirs : "MSG_Y" \in c.seen[d] => "MSG" \in c.seen[d]

\* The protocol of a session is that of the state; before a chat state,
\* there is a tunnel at most.
MsnChats == ChatStates \ {"YMSGP", "XMPP"}
Speaks(state, c) ==
    /\ state = "YMSGP" => c.ft \in {"UNKNOWN"} \cup YmsgTypes
    /\ state = "XMPP" => c.ft \in {"UNKNOWN"} \cup JabberTypes
    /\ state \in MsnChats => c.ft \in {"UNKNOWN"} \cup MsnTypes
    /\ state \notin ChatStates => c.ft \in {"UNKNOWN", "MSN_TUNNEL"}
    /\ state \notin ChatStates \cup MsnWaits \cup {"IGNORE"} => c.ft = "UNKNOWN"

Session(state, c) == c \in Chat /\ Yahoo(c) /\ Online(c) /\ Speaks(state, c)

\* Noting commands of one direction.
LEMMA Noting ==
  ASSUME NEW c \in Chat, NEW d \in Dirs, NEW cmds \in SUBSET Noted
  PROVE  /\ Note(c, d, cmds) \in Chat
         /\ Note(c, d, cmds).ft = c.ft /\ Note(c, d, cmds).arrived = c.arrived
         /\ Note(c, d, cmds).chats = c.chats /\ Note(c, d, cmds).presences = c.presences
         /\ \A e \in Dirs : Note(c, d, cmds).seen[e] = IF e = d THEN c.seen[e] \cup cmds ELSE c.seen[e]
BY DEF Note, Chat

\* A session that changed its type and its counts.
Became(c, g, ft, chats, presences) ==
    /\ g \in Chat /\ g.seen = c.seen /\ g.ft = ft /\ g.chats = c.chats + chats
    /\ g.presences = c.presences + presences

\* Another type, and another count.
LEMMA Retyping ==
  ASSUME NEW c \in Chat, NEW t \in ChatTypes
  PROVE  Became(c, [c EXCEPT !.ft = t], t, 0, 0)
<1>1. [c EXCEPT !.ft = t] \in Chat BY Zenon DEF Chat
<1> QED BY <1>1 DEF Chat, Became

\* One count.
LEMMA Counting ==
  ASSUME NEW c \in Chat, NEW n \in Int
  PROVE  Became(c, Chats(c, n), c.ft, n, 0) /\ Became(c, Presences(c, n), c.ft, 0, n)
BY DEF Chat, Became, Chats, Presences

\* Another type with another count.
LEMMA Arriving ==
  ASSUME NEW c \in Chat, NEW t \in ChatTypes, NEW n \in Int
  PROVE  /\ Became(c, Chats([c EXCEPT !.ft = t], n), t, n, 0)
         /\ Became(c, Presences([c EXCEPT !.ft = t], n), t, 0, n)
<1> DEFINE x == [c EXCEPT !.ft = t]
<1>1. Became(c, x, t, 0, 0) BY Retyping
<1> HIDE DEF x
<1>2. x \in Chat /\ x.ft = t BY <1>1 DEF Became
<1>3. Became(x, Chats(x, n), t, n, 0) /\ Became(x, Presences(x, n), t, 0, n) BY <1>2, Counting
<1>4. Became(c, Chats(x, n), t, n, 0) /\ Became(c, Presences(x, n), t, 0, n)
  <2>1. c.chats \in Int /\ c.presences \in Int BY DEF Chat
  <2> QED BY <1>1, <1>3, <2>1 DEF Became
<1> QED BY <1>4 DEF x

\* classify_msn_flow keeps a session of MSN what it is.
LEMMA MsnKept ==
  ASSUME NEW c \in Chat, Yahoo(c), Online(c), c.ft \in {"UNKNOWN"} \cup MsnTypes, NEW d \in Dirs
  PROVE  LET g == ClassifyMsn(c, d) IN
         g \in Chat /\ Yahoo(g) /\ Online(g) /\ g.ft \in {"UNKNOWN"} \cup MsnTypes
<1> DEFINE m == MsnChat(c, d)
           l == MsnLogin(m, d)
           h == IF c.ft \in {"UNKNOWN", "MSN_LOGIN", "MSN_TUNNEL"} THEN l ELSE c
           g == ClassifyMsn(c, d)
<1>1. IF c.ft \in {"UNKNOWN", "MSN_TUNNEL"} /\ "MSG" \in c.seen[d]
      THEN Became(c, m, "MSN_CHAT", 1, 0) ELSE m = c
  <2>1. "MSN_CHAT" \in ChatTypes BY DEF ChatTypes, MsnTypes
  <2>2. Became(c, Chats([c EXCEPT !.ft = "MSN_CHAT"], 1), "MSN_CHAT", 1, 0) BY <2>1, Arriving
  <2> QED BY <2>2, Zenon DEF MsnChat
<1>2. ASSUME m \in Chat
      PROVE  IF "VER" \notin m.seen[d] THEN l = m
             ELSE IF "USR" \in m.seen[d] THEN Became(m, l, "MSN_PRESENCE", 0, 1)
             ELSE Became(m, l, "MSN_LOGIN", 0, 0)
  <2>1. {"MSN_LOGIN", "MSN_PRESENCE"} \subseteq ChatTypes BY DEF ChatTypes, MsnTypes
  <2> HIDE DEF m
  <2>2. Became(m, Presences([m EXCEPT !.ft = "MSN_PRESENCE"], 1), "MSN_PRESENCE", 0, 1)
    BY <1>2, <2>1, Arriving
  <2>3. Became(m, [m EXCEPT !.ft = "MSN_LOGIN"], "MSN_LOGIN", 0, 0) BY <1>2, <2>1, Retyping
  <2> QED BY <2>2, <2>3, Zenon DEF MsnLogin
<1>3. ASSUME h \in Chat
      PROVE  g = h \/ (/\ Became(h, g, "MSN_PRESENCE", 1, 0) /\ h.ft = "MSN_PRESENCE"
                       /\ "MSG_Y" \in h.seen[d])
  <2>1. g = MsnYahoo(h, d) BY DEF ClassifyMsn
  <2> HIDE DEF h, g
  <2> DEFINE x == [h EXCEPT !.arrived = TRUE]
  <2>2. x \in Chat /\ x.chats = h.chats /\ x.presences = h.presences /\ x.seen = h.seen /\ x.ft = h.ft
    BY <1>3, Zenon DEF Chat
  <2>3. g = h \/ /\ h.ft = "MSN_PRESENCE" /\ "MSG_Y" \in h.seen[d] /\ g = Chats(x, 1)
    BY <2>1, Zenon DEF MsnYahoo
  <2> HIDE DEF x
  <2> QED BY <1>3, <2>2, <2>3 DEF Chats, Chat, Became
<1> HIDE DEF m, l, g
<1>4. m \in Chat /\ m.seen = c.seen BY <1>1 DEF Became
<1>5. l \in Chat /\ l.seen = c.seen BY <1>2, <1>4 DEF Became
<1>6. h \in Chat /\ h.seen = c.seen /\ Online(h) /\ h.ft \in {"UNKNOWN"} \cup MsnTypes
  <2>1. CASE c.ft \in {"UNKNOWN", "MSN_LOGIN", "MSN_TUNNEL"}
    <3>1. h = l BY <2>1
    <3>2. c.chats \in Int /\ c.presences \in Int /\ c.presences = 0 BY <2>1 DEF Online, Chat, One, Present
    <3>3. c.chats = 0 \/ Drifted(c) BY <2>1 DEF Online, One, Chatting
    <3> HIDE DEF h
    <3> QED
      BY <2>1, <3>1, <3>2, <3>3, <1>1, <1>2, <1>4, <1>5
         DEF Became, Online, Drifted, One, Present, Chatting, MsnTypes
  <2>2. CASE c.ft \notin {"UNKNOWN", "MSN_LOGIN", "MSN_TUNNEL"} BY <2>2
  <2> QED BY <2>1, <2>2
<1> HIDE DEF h
<1>7. g \in Chat /\ g.seen = c.seen BY <1>3, <1>6 DEF Became
<1>8. Online(g) /\ g.ft \in {"UNKNOWN"} \cup MsnTypes
  BY <1>3, <1>6, <1>7 DEF Became, Online, Drifted, One, Present, Chatting, MsnTypes, Yahoo, Chat
<1> QED BY <1>7, <1>8 DEF Yahoo, g

\* A session of a protocol without drift: types in T, counts as they say.
Counts(c, T) == /\ c \in Chat /\ c.ft \in T
                /\ c.presences = One(c.ft \in Present) /\ c.chats = One(c.ft \in Chatting)
Steady == ({"UNKNOWN"} \cup YmsgTypes) \cup JabberTypes

\* A change of type that goes with the change of the counts.
Fair(from, to, chats, presences) ==
    /\ One(to \in Present) = One(from \in Present) + presences
    /\ One(to \in Chatting) = One(from \in Chatting) + chats

\* Such a change keeps the counts what the type says.
LEMMA FairKept ==
  ASSUME NEW T \in SUBSET Steady, NEW c, Counts(c, T), NEW g, NEW ft \in T, NEW m \in Int, NEW n \in Int,
         Became(c, g, ft, m, n), Fair(c.ft, ft, m, n)
  PROVE  Counts(g, T) /\ g.seen = c.seen
BY DEF Counts, Became, Fair, Chat, One

\* classify_ymsg_flow keeps a session of Yahoo! what it is.
LEMMA YmsgKept ==
  ASSUME NEW c, Counts(c, {"UNKNOWN"} \cup YmsgTypes), NEW d \in Dirs
  PROVE  LET g == ClassifyYmsg(c, d) IN
         Counts(g, {"UNKNOWN"} \cup YmsgTypes) /\ g.seen = c.seen
<1> DEFINE T == {"UNKNOWN"} \cup YmsgTypes
           p == YmsgPeers(c)
           m == YmsgMessage(p, d)
           g == YmsgLogin(m, d)
<1>0. T \in SUBSET Steady /\ T \subseteq ChatTypes BY DEF Steady, ChatTypes
<1>1. Counts(p, T) /\ p.seen = c.seen
  <2>1. CASE c.ft = "YMSG_PRESENCE" /\ "P2Pcheck" \in c.seen["s2c"]
    <3>1. "YMSG_P2P" \in T /\ Fair(c.ft, "YMSG_P2P", 0, -1)
      BY <2>1 DEF YmsgTypes, Fair, One, Present, Chatting
    <3>2. c \in Chat /\ "YMSG_P2P" \in ChatTypes BY <3>1, <1>0 DEF Counts
    <3>3. Became(c, Presences([c EXCEPT !.ft = "YMSG_P2P"], -1), "YMSG_P2P", 0, -1) BY <3>2, Arriving
    <3>4. p = Presences([c EXCEPT !.ft = "YMSG_P2P"], -1) BY <2>1, Zenon DEF YmsgPeers
    <3> QED BY <1>0, <3>1, <3>3, <3>4, FairKept
  <2>2. CASE ~ (c.ft = "YMSG_PRESENCE" /\ "P2Pcheck" \in c.seen["s2c"]) BY <2>2 DEF YmsgPeers
  <2> QED BY <2>1, <2>2
<1> HIDE DEF p
<1>2. Counts(m, T) /\ m.seen = c.seen
  <2> DEFINE to(t) == Chats([p EXCEPT !.ft = t], 1)
  <2>1. m = p \/ (p.ft \in {"UNKNOWN", "YMSG_YMSG"} /\ m = to("YMSG_CHAT"))
              \/ (p.ft = "YMSG_PRESENCE" /\ m = to("YMSG_PRESENCE_CHAT"))
    BY DEF YmsgMessage
  <2>2. p \in Chat BY <1>1 DEF Counts
  <2>3. "YMSG_CHAT" \in T /\ "YMSG_PRESENCE_CHAT" \in T BY DEF YmsgTypes
  <2>4. Became(p, to("YMSG_CHAT"), "YMSG_CHAT", 1, 0)
        /\ Became(p, to("YMSG_PRESENCE_CHAT"), "YMSG_PRESENCE_CHAT", 1, 0)
    BY <1>0, <2>2, <2>3, Arriving
  <2>5. p.ft \in {"UNKNOWN", "YMSG_YMSG"} => Fair(p.ft, "YMSG_CHAT", 1, 0) BY DEF Fair, One, Present, Chatting
  <2>6. p.ft = "YMSG_PRESENCE" => Fair(p.ft, "YMSG_PRESENCE_CHAT", 1, 0) BY DEF Fair, One, Present, Chatting
  <2> HIDE DEF to, m, T
  <2>7. CASE m = p BY <1>1, <2>7
  <2>8. CASE p.ft \in {"UNKNOWN", "YMSG_YMSG"} /\ m = to("YMSG_CHAT")
    BY <1>0, <1>1, <2>3, <2>4, <2>5, <2>8, FairKept
  <2>9. CASE p.ft = "YMSG_PRESENCE" /\ m = to("YMSG_PRESENCE_CHAT")
    BY <1>0, <1>1, <2>3, <2>4, <2>6, <2>9, FairKept
  <2> QED BY <2>1, <2>7, <2>8, <2>9
<1> HIDE DEF m
<1>3. Counts(g, T) /\ g.seen = c.seen
  <2>1. CASE m.ft \in {"UNKNOWN", "YMSG_YMSG"} /\ "AUTH_RESP" \in m.seen[d]
    <3>1. "YMSG_PRESENCE" \in T /\ Fair(m.ft, "YMSG_PRESENCE", 0, 1)
      BY <2>1 DEF YmsgTypes, Fair, One, Present, Chatting
    <3>2. m \in Chat /\ "YMSG_PRESENCE" \in ChatTypes BY <3>1, <1>0, <1>2 DEF Counts
    <3>3. Became(m, Presences([m EXCEPT !.ft = "YMSG_PRESENCE"], 1), "YMSG_PRESENCE", 0, 1) BY <3>2, Arriving
    <3>4. g = Presences([m EXCEPT !.ft = "YMSG_PRESENCE"], 1) BY <2>1, Zenon DEF YmsgLogin
    <3> QED BY <1>0, <1>2, <3>1, <3>3, <3>4, FairKept
  <2>2. CASE ~ (m.ft \in {"UNKNOWN", "YMSG_YMSG"} /\ "AUTH_RESP" \in m.seen[d]) BY <1>2, <2>2 DEF YmsgLogin
  <2> QED BY <2>1, <2>2
<1> QED BY <1>3 DEF ClassifyYmsg, m, p

\* classify_jabber_flow keeps a session of Jabber what it is.
LEMMA JabberKept ==
  ASSUME NEW c, Counts(c, {"UNKNOWN"} \cup JabberTypes), NEW d \in Dirs
  PROVE  LET g == ClassifyJabber(c, d) IN
         Counts(g, {"UNKNOWN"} \cup JabberTypes) /\ g.seen = c.seen
<1> DEFINE T == {"UNKNOWN"} \cup JabberTypes
           m == JabberMessage(c, d)
           g == JabberPresence(m, d)
<1>0. T \in SUBSET Steady /\ T \subseteq ChatTypes BY DEF Steady, ChatTypes
<1>1. Counts(m, T) /\ m.seen = c.seen
  <2>1. CASE c.ft = "XMPP_PRESENCE" /\ "MESSAGE" \in c.seen[d]
    <3>1. "XMPP_CHAT" \in T /\ Fair(c.ft, "XMPP_CHAT", 1, 0)
      BY <2>1 DEF JabberTypes, Fair, One, Present, Chatting
    <3>2. c \in Chat /\ "XMPP_CHAT" \in ChatTypes BY <3>1, <1>0 DEF Counts
    <3>3. Became(c, Chats([c EXCEPT !.ft = "XMPP_CHAT"], 1), "XMPP_CHAT", 1, 0) BY <3>2, Arriving
    <3>4. m = Chats([c EXCEPT !.ft = "XMPP_CHAT"], 1) BY <2>1, Zenon DEF JabberMessage
    <3> QED BY <1>0, <3>1, <3>3, <3>4, FairKept
  <2>2. CASE ~ (c.ft = "XMPP_PRESENCE" /\ "MESSAGE" \in c.seen[d]) BY <2>2 DEF JabberMessage
  <2> QED BY <2>1, <2>2
<1> HIDE DEF m
<1>2. Counts(g, T) /\ g.seen = c.seen
  <2>1. CASE m.ft = "UNKNOWN" /\ "PRESENCE" \in m.seen[d]
    <3>1. "XMPP_PRESENCE" \in T /\ Fair(m.ft, "XMPP_PRESENCE", 0, 1)
      BY <2>1 DEF JabberTypes, Fair, One, Present, Chatting
    <3>2. m \in Chat /\ "XMPP_PRESENCE" \in ChatTypes BY <3>1, <1>0, <1>1 DEF Counts
    <3>3. Became(m, Presences([m EXCEPT !.ft = "XMPP_PRESENCE"], 1), "XMPP_PRESENCE", 0, 1) BY <3>2, Arriving
    <3>4. g = Presences([m EXCEPT !.ft = "XMPP_PRESENCE"], 1) BY <2>1, Zenon DEF JabberPresence
    <3> QED BY <1>0, <1>1, <3>1, <3>3, <3>4, FairKept
  <2>2. CASE ~ (m.ft = "UNKNOWN" /\ "PRESENCE" \in m.seen[d]) BY <1>1, <2>2 DEF JabberPresence
  <2> QED BY <2>1, <2>2
<1> QED BY <1>2 DEF ClassifyJabber, m

\* What ChatState does to the session.
Talked(state, c, d, cmd) ==
    CASE state = "YMSGP" -> ClassifyYmsg(FindYmsg(c, d, cmd), d)
      [] state = "XMPP" -> ClassifyJabber(FindJabber(c, d, cmd), d)
      [] OTHER -> ClassifyMsn(FindMsn(c, d, cmd), d)

\* Noting what is no message of MSN keeps a session what it is.
LEMMA NotedKept ==
  ASSUME NEW T \in SUBSET Steady, NEW c, Counts(c, T), Yahoo(c), NEW d \in Dirs, NEW cmds \in SUBSET Noted,
         "MSG_Y" \notin cmds
  PROVE  Counts(Note(c, d, cmds), T) /\ Yahoo(Note(c, d, cmds))
<1> DEFINE n == Note(c, d, cmds)
<1>1. /\ n \in Chat /\ n.ft = c.ft /\ n.chats = c.chats /\ n.presences = c.presences
      /\ \A e \in Dirs : n.seen[e] = IF e = d THEN c.seen[e] \cup cmds ELSE c.seen[e]
  BY Noting, ZenonT(60) DEF Counts
<1> HIDE DEF n
<1> QED BY <1>1 DEF Counts, Yahoo, n

\* A session of Yahoo! or of Jabber by its counts.
LEMMA SteadySession ==
  ASSUME NEW c, NEW T \in SUBSET Steady
  PROVE  Counts(c, T) <=> c \in Chat /\ Online(c) /\ c.ft \in T
BY DEF Counts, Online, Drifted, Steady, YmsgTypes, JabberTypes

\* A message of a chat connection keeps its session what it is.
LEMMA SessionKept ==
  ASSUME NEW state \in ChatStates, NEW c, Session(state, c), NEW d \in Dirs, NEW cmd
  PROVE  Session(state, Talked(state, c, d, cmd))
<1>0. c \in Chat /\ Yahoo(c) /\ Online(c) BY DEF Session
<1>1. CASE state = "YMSGP"
  <2> DEFINE T == {"UNKNOWN"} \cup YmsgTypes
             x == IF c.ft = "UNKNOWN" THEN [c EXCEPT !.ft = "YMSG_YMSG"] ELSE c
             n == FindYmsg(c, d, cmd)
             g == ClassifyYmsg(n, d)
  <2>0. T \in SUBSET Steady BY DEF Steady
  <2>1. Counts(c, T)
    <3>1. c.ft \in T BY <1>1 DEF Session, Speaks, MsnChats, ChatStates
    <3> QED BY <1>0, <2>0, <3>1, SteadySession
  <2>2. Counts(x, T) /\ Yahoo(x)
    <3>1. CASE c.ft = "UNKNOWN"
      <4>1. "YMSG_YMSG" \in T /\ "YMSG_YMSG" \in ChatTypes /\ Fair(c.ft, "YMSG_YMSG", 0, 0)
        BY <3>1 DEF YmsgTypes, ChatTypes, Fair, One, Present, Chatting
      <4>2. Became(c, [c EXCEPT !.ft = "YMSG_YMSG"], "YMSG_YMSG", 0, 0) BY <1>0, <4>1, Retyping
      <4>3. x = [c EXCEPT !.ft = "YMSG_YMSG"] BY <3>1
      <4> HIDE DEF x, T
      <4>4. Counts(x, T) /\ x.seen = c.seen BY <2>0, <2>1, <4>1, <4>2, <4>3, FairKept
      <4> QED BY <1>0, <4>4 DEF Yahoo
    <3>2. CASE c.ft # "UNKNOWN" BY <1>0, <2>1, <3>2
    <3> QED BY <3>1, <3>2
  <2>3. Counts(n, T) /\ Yahoo(n)
    <3>1. n = c \/ (cmd \in {"YMSG", "AUTH_RESP", "MESSAGE", "P2Pcheck"} /\ n = Note(x, d, {cmd} \ {"YMSG"}))
      <4>1. [c EXCEPT !.ft = IF @ = "UNKNOWN" THEN "YMSG_YMSG" ELSE @] = x
        <5>1. c = [c EXCEPT !.ft = c.ft] BY <1>0, Zenon DEF Chat
        <5> QED BY <5>1
      <4> HIDE DEF x
      <4> QED BY <4>1 DEF FindYmsg
    <3> HIDE DEF x, T
    <3>2. cmd \in {"YMSG", "AUTH_RESP", "MESSAGE", "P2Pcheck"} =>
             {cmd} \ {"YMSG"} \in SUBSET Noted /\ "MSG_Y" \notin {cmd} \ {"YMSG"}
      BY DEF Noted
    <3> QED BY <1>0, <2>0, <2>1, <2>2, <3>1, <3>2, NotedKept
  <2> HIDE DEF n, T
  <2>4. Counts(g, T) /\ g.seen = n.seen BY <2>3, YmsgKept DEF T
  <2>5. Yahoo(g) /\ g \in Chat /\ Online(g) /\ g.ft \in T BY <2>0, <2>3, <2>4, SteadySession DEF Yahoo
  <2>6. Talked(state, c, d, cmd) = g BY <1>1 DEF Talked, n
  <2> QED BY <1>1, <2>5, <2>6 DEF Session, Speaks, MsnChats, ChatStates, T
<1>2. CASE state = "XMPP"
  <2> DEFINE T == {"UNKNOWN"} \cup JabberTypes
             n == FindJabber(c, d, cmd)
             g == ClassifyJabber(n, d)
  <2>0. T \in SUBSET Steady BY DEF Steady
  <2>1. Counts(c, T)
    <3>1. c.ft \in T BY <1>2 DEF Session, Speaks, MsnChats, ChatStates
    <3> QED BY <1>0, <2>0, <3>1, SteadySession
  <2>2. Counts(n, T) /\ Yahoo(n)
    <3>1. n = c \/ n = Note(c, d, {"PRESENCE"}) \/ n = Note(c, d, {"MESSAGE"}) BY DEF FindJabber
    <3> HIDE DEF T
    <3>2. {"PRESENCE"} \in SUBSET Noted /\ {"MESSAGE"} \in SUBSET Noted BY DEF Noted
    <3> QED BY <1>0, <2>0, <2>1, <3>1, <3>2, NotedKept
  <2> HIDE DEF n, T
  <2>3. Counts(g, T) /\ g.seen = n.seen BY <2>2, JabberKept DEF T
  <2>4. Yahoo(g) /\ g \in Chat /\ Online(g) /\ g.ft \in T BY <2>0, <2>2, <2>3, SteadySession DEF Yahoo
  <2>5. Talked(state, c, d, cmd) = g BY <1>2 DEF Talked, n
  <2> QED BY <1>2, <2>4, <2>5 DEF Session, Speaks, MsnChats, ChatStates, T
<1>3. CASE state \notin {"YMSGP", "XMPP"}
  <2> DEFINE cmds == CASE cmd \in {"VER", "USR", "ANS", "IRO", "MSG"} -> {cmd}
                       [] cmd \in {"UUM", "UBM"} -> {"MSG", "MSG_Y"}
                       [] OTHER -> {}
             n == FindMsn(c, d, cmd)
             g == ClassifyMsn(n, d)
  <2>1. cmds \in SUBSET Noted /\ ("MSG_Y" \in cmds => "MSG" \in cmds) BY DEF Noted
  <2>2. n = Note(c, d, cmds) BY DEF FindMsn
  <2> HIDE DEF cmds, n
  <2>3. /\ n \in Chat /\ n.ft = c.ft /\ n.chats = c.chats /\ n.presences = c.presences
        /\ \A e \in Dirs : n.seen[e] = IF e = d THEN c.seen[e] \cup cmds ELSE c.seen[e]
    BY <1>0, <2>1, <2>2, Noting
  <2>4. Yahoo(n) /\ Online(n) BY <1>0, <2>1, <2>3 DEF Yahoo, Online, Drifted
  <2>5. n.ft \in {"UNKNOWN"} \cup MsnTypes BY <1>3, <2>3 DEF Session, Speaks, MsnChats, ChatStates
  <2>6. g \in Chat /\ Yahoo(g) /\ Online(g) /\ g.ft \in {"UNKNOWN"} \cup MsnTypes BY <2>3, <2>4, <2>5, MsnKept
  <2>7. Talked(state, c, d, cmd) = g BY <1>3 DEF Talked, n
  <2> QED BY <1>3, <2>6, <2>7 DEF Session, Speaks, MsnChats, ChatStates
<1> QED BY <1>1, <1>2, <1>3

\* Those who leave: what print_*_conn_stats take from the counts.
LEMMA Leaving ==
  ASSUME NEW state, NEW c, Session(state, c)
  PROVE  LET g == Leave(c) IN
         /\ g \in Chat /\ g.ft = c.ft /\ g.seen = c.seen /\ g.presences = 0
         /\ g.chats = 0 \/ Drifted(c)
<1> DEFINE a == LeaveMsn(c)
           b == LeaveYmsg(a)
           g == LeaveJabber(b)
<1>0. c \in Chat /\ Yahoo(c) /\ Online(c) /\ c.chats \in Int /\ c.presences \in Int BY DEF Session, Chat
<1>1. ASSUME NEW x \in Chat, NEW n \in Int
      PROVE  Became(x, Chats(x, n), x.ft, n, 0) /\ Became(x, Presences(x, n), x.ft, 0, n)
             /\ Became(x, x, x.ft, 0, 0)
  BY Counting DEF Became, Chat
<1>2. \/ c.ft = "MSN_CHAT" /\ Became(c, a, c.ft, -1, 0)
      \/ c.ft = "MSN_PRESENCE" /\ "MSG_Y" \notin c.seen["c2s"] /\ Became(c, a, c.ft, 0, -1)
      \/ c.ft = "MSN_PRESENCE" /\ "MSG_Y" \in c.seen["c2s"] /\ Became(c, a, c.ft, -1, -1)
      \/ c.ft \notin {"MSN_CHAT", "MSN_PRESENCE"} /\ a = c
  <2>1. CASE c.ft = "MSN_CHAT" BY <1>0, <1>1, <2>1 DEF LeaveMsn
  <2>2. CASE c.ft = "MSN_PRESENCE" /\ "MSG_Y" \notin c.seen["c2s"]
    <3>1. a = Presences(c, -1) BY <2>2 DEF LeaveMsn
    <3>2. Became(c, Presences(c, -1), c.ft, 0, -1) BY <1>0, <1>1
    <3> HIDE DEF a
    <3> QED BY <2>2, <3>1, <3>2
  <2>3. CASE c.ft = "MSN_PRESENCE" /\ "MSG_Y" \in c.seen["c2s"]
    <3>1. a = Presences(Chats(c, -1), -1) BY <2>3 DEF LeaveMsn
    <3> DEFINE x == Chats(c, -1)
    <3>2. Became(c, x, c.ft, -1, 0) BY <1>0, <1>1
    <3> HIDE DEF x, a
    <3>3. Became(x, Presences(x, -1), x.ft, 0, -1)
      <4>1. x \in Chat BY <3>2 DEF Became
      <4> QED BY <1>1, <4>1
    <3>4. a = Presences(x, -1) BY <3>1 DEF x
    <3> QED BY <1>0, <2>3, <3>2, <3>3, <3>4 DEF Became
  <2>4. CASE c.ft \notin {"MSN_CHAT", "MSN_PRESENCE"} BY <2>4 DEF LeaveMsn
  <2> QED BY <2>1, <2>2, <2>3, <2>4
<1> HIDE DEF a
<1>3. a \in Chat /\ a.ft = c.ft /\ a.seen = c.seen BY <1>0, <1>2 DEF Became
<1>4. \/ a.ft = "YMSG_CHAT" /\ Became(a, b, a.ft, -1, 0)
      \/ a.ft = "YMSG_PRESENCE" /\ Became(a, b, a.ft, 0, -1)
      \/ a.ft = "YMSG_PRESENCE_CHAT" /\ Became(a, b, a.ft, -1, -1)
      \/ a.ft \notin {"YMSG_CHAT", "YMSG_PRESENCE", "YMSG_PRESENCE_CHAT"} /\ b = a
  <2>1. CASE a.ft \in {"YMSG_CHAT", "YMSG_PRESENCE"} BY <1>1, <1>3, <2>1 DEF LeaveYmsg
  <2>2. CASE a.ft = "YMSG_PRESENCE_CHAT"
    <3>1. b = Presences(Chats(a, -1), -1) BY <2>2 DEF LeaveYmsg
    <3> DEFINE x == Chats(a, -1)
    <3>2. Became(a, x, a.ft, -1, 0) BY <1>3, <1>1
    <3> HIDE DEF x, b
    <3>3. Became(x, Presences(x, -1), x.ft, 0, -1)
      <4>1. x \in Chat BY <3>2 DEF Became
      <4> QED BY <1>1, <4>1
    <3>4. b = Presences(x, -1) BY <3>1 DEF x
    <3>5. a.chats \in Int /\ a.presences \in Int BY <1>3 DEF Chat
    <3> QED BY <2>2, <3>2, <3>3, <3>4, <3>5 DEF Became
  <2>3. CASE a.ft \notin {"YMSG_CHAT", "YMSG_PRESENCE", "YMSG_PRESENCE_CHAT"} BY <2>3 DEF LeaveYmsg
  <2> QED BY <2>1, <2>2, <2>3
<1> HIDE DEF b
<1>5. b \in Chat /\ b.ft = c.ft /\ b.seen = c.seen BY <1>3, <1>4 DEF Became
<1>6. \/ b.ft = "XMPP_PRESENCE" /\ Became(b, g, b.ft, 0, -1)
      \/ b.ft = "XMPP_CHAT" /\ Became(b, g, b.ft, -1, -1)
      \/ b.ft \notin {"XMPP_CHAT", "XMPP_PRESENCE"} /\ g = b
  <2>1. CASE b.ft = "XMPP_PRESENCE" BY <1>1, <1>5, <2>1 DEF LeaveJabber
  <2>2. CASE b.ft = "XMPP_CHAT"
    <3>1. g = Presences(Chats(b, -1), -1) BY <2>2 DEF LeaveJabber
    <3> DEFINE x == Chats(b, -1)
    <3>2. Became(b, x, b.ft, -1, 0) BY <1>5, <1>1
    <3> HIDE DEF x, g
    <3>3. Became(x, Presences(x, -1), x.ft, 0, -1)
      <4>1. x \in Chat BY <3>2 DEF Became
      <4> QED BY <1>1, <4>1
    <3>4. g = Presences(x, -1) BY <3>1 DEF x
    <3>5. b.chats \in Int /\ b.presences \in Int BY <1>5 DEF Chat
    <3> QED BY <2>2, <3>2, <3>3, <3>4, <3>5 DEF Became
  <2>3. CASE b.ft \notin {"XMPP_CHAT", "XMPP_PRESENCE"} BY <2>3 DEF LeaveJabber
  <2> QED BY <2>1, <2>2, <2>3
<1> HIDE DEF g
<1>7. g \in Chat /\ g.ft = c.ft /\ g.seen = c.seen BY <1>5, <1>6 DEF Became
<1>8. /\ c.presences = One(c.ft \in Present)
      /\ c.chats = One(c.ft \in Chatting) \/ Drifted(c)
      /\ "MSG_Y" \in c.seen["c2s"] => "MSG" \in c.seen["c2s"]
  BY <1>0 DEF Online, Yahoo, Dirs
<1>9. c.ft \in ChatTypes BY <1>0 DEF Chat
<1>10. "c2s" \in Dirs BY DEF Dirs
<1>11. g.presences = 0 /\ (g.chats = 0 \/ Drifted(c))
  BY <1>0, <1>2, <1>3, <1>4, <1>5, <1>6, <1>8, <1>9, <1>10
     DEF Became, One, Present, Chatting, Drifted, ChatTypes, MsnTypes, YmsgTypes, JabberTypes
<1> QED BY <1>7, <1>11 DEF Leave, g, b, a

------------------------------
\* A connection (TcpClass).  Its record.
ClassesGiven == {"GET", "POST", "YOUTUBE_VIDEO204", "VIDEO_CONTENT"}
                \cup {ClassOf[cmd][path] : cmd \in WebRequests, path \in Paths}

\* Strings (the provers do not know that a literal is one).
Text == STRING \cup {"--", "none", "no"}
VideoStates == [state : {"UNKNOWN", "HTTP_COMMAND", "IGNORE"}, packets : Nat,
                ctype : Text, content : Text]
Kept == [id : Text, itag : Text, seek : Nat, redir : Nat \X Nat, mobile : BOOLEAN, device : Nat]
Conn ==
  [state : States, type : SUBSET ConTypes, packets : Nat, web : ClassesGiven,
   chat : Chat, high : BOOLEAN, nibbles : Nat, sizes : SUBSET Nat,
   rtmpSeen : SUBSET Dirs, rtmpHand : SUBSET Dirs, seq : [Dirs -> Nat],
   msgs : [Dirs -> Seq(Nat)], last : [Dirs -> Nat],
   p2p : Text \X Nat, p2pOpen : BOOLEAN, own : Kept, yt : Kept, video : VideoStates]

\* What one part of the analysis leaves to the others: the state machine
\* with its chat, the request, the sizes of segments, the messages and the
\* peer to peer commands.
SameState(f, g) == g.state = f.state /\ g.chat = f.chat
SameWeb(f, g) == g.web = f.web /\ g.own = f.own
SameSizes(f, g) == g.sizes = f.sizes
SameRtmp(f, g) == g.rtmpSeen = f.rtmpSeen /\ g.rtmpHand = f.rtmpHand
SameMsgs(f, g) == g.msgs = f.msgs /\ g.seq = f.seq
SamePeer(f, g) == g.p2p = f.p2p
SameOthers(f, g) == SameSizes(f, g) /\ SameRtmp(f, g) /\ SameMsgs(f, g) /\ SamePeer(f, g)

\* A new packet in its direction.
LEMMA ArrivesGoes ==
  ASSUME NEW f \in Conn, NEW s \in Segment, NEW again \in BOOLEAN, NEW bare \in Nat
  PROVE  LET g == Arrives(f, s, again, bare) IN
         /\ g \in Conn /\ SameState(f, g) /\ SameWeb(f, g) /\ SameSizes(f, g) /\ SameRtmp(f, g)
         /\ SamePeer(f, g) /\ g.type = f.type /\ g.msgs = f.msgs
         /\ \A e \in Dirs : g.seq[e] = IF e = s.dir /\ ~again THEN s.off + s.len ELSE f.seq[e]
<1> DEFINE n == f.packets + bare + 1
           q == [f.seq EXCEPT ![s.dir] = IF again THEN @ ELSE s.off + s.len]
           x == [f EXCEPT !.packets = n]
           y == [x EXCEPT !.seq = q]
<1>1. s.dir \in Dirs /\ s.off \in Nat /\ s.len \in Nat /\ n \in Nat /\ f.seq \in [Dirs -> Nat]
  BY DEF Segment, Conn
<1>2. q \in [Dirs -> Nat] /\ \A e \in Dirs : q[e] = IF e = s.dir /\ ~again THEN s.off + s.len ELSE f.seq[e]
  BY <1>1
<1>3. Arrives(f, s, again, bare) = y BY Zenon DEF Arrives, Conn
<1> HIDE DEF n, q
<1>4. x \in Conn BY <1>1, ZenonT(60) DEF Conn
<1>5. x.state = f.state /\ x.chat = f.chat /\ x.web = f.web /\ x.own = f.own /\ x.type = f.type
      /\ x.sizes = f.sizes /\ x.rtmpSeen = f.rtmpSeen /\ x.rtmpHand = f.rtmpHand
      /\ x.msgs = f.msgs /\ x.p2p = f.p2p
  BY DEF Conn
<1> HIDE DEF x
<1>6. y \in Conn BY <1>2, <1>4, ZenonT(60) DEF Conn
<1>7. y.state = x.state /\ y.chat = x.chat /\ y.web = x.web /\ y.own = x.own /\ y.type = x.type
      /\ y.sizes = x.sizes /\ y.rtmpSeen = x.rtmpSeen /\ y.rtmpHand = x.rtmpHand
      /\ y.msgs = x.msgs /\ y.p2p = x.p2p /\ y.seq = q
  BY <1>4 DEF Conn
<1> QED BY <1>2, <1>3, <1>5, <1>6, <1>7 DEF SameState, SameWeb, SameSizes, SameRtmp, SamePeer

\* The fields of a connection that take part in what it is called.
SameRest(f, g) == SameState(f, g) /\ SameWeb(f, g) /\ SameSizes(f, g) /\ SameRtmp(f, g) /\ SamePeer(f, g)

\* A message is new if one ends here.
LEMMA MessageGoes ==
  ASSUME NEW f \in Conn, NEW s \in Segment
  PROVE  LET g == Message(f, s) IN
         /\ g \in Conn /\ SameRest(f, g) /\ g.type = f.type /\ g.seq = f.seq
         /\ \A e \in Dirs : Len(g.msgs[e]) > 0 => Len(f.msgs[e]) > 0 \/ (e = s.dir /\ s.psh)
<1> DEFINE d == s.dir
           n == f.seq[d] - f.last[d]
           m == [f.msgs EXCEPT ![d] = Append(@, n)]
           l == [f.last EXCEPT ![d] = f.seq[d]]
           x == [f EXCEPT !.msgs = m]
           y == [x EXCEPT !.last = l]
<1>1. /\ d \in Dirs /\ f.seq \in [Dirs -> Nat] /\ f.last \in [Dirs -> Nat] /\ f.msgs \in [Dirs -> Seq(Nat)]
      /\ s.psh \in BOOLEAN
  BY DEF Segment, Conn
<1>2. CASE s.psh /\ f.last[d] < f.seq[d]
  <2>1. n \in Nat BY <1>1, <1>2
  <2>2. f.msgs[d] \in Seq(Nat) BY <1>1
  <2>3. Append(f.msgs[d], n) \in Seq(Nat) BY <2>1, <2>2
  <2>4. m \in [Dirs -> Seq(Nat)] /\ \A e \in Dirs : e # d => m[e] = f.msgs[e] BY <1>1, <2>3
  <2>5. l \in [Dirs -> Nat] BY <1>1
  <2>6. Message(f, s) = y BY <1>2, Zenon DEF Message, Conn
  <2>7. x \in Conn
    <3> HIDE DEF m
    <3> QED BY <2>4, ZenonT(60) DEF Conn
  <2>8. SameRest(f, x) /\ x.type = f.type /\ x.seq = f.seq /\ x.msgs = m
    <3> HIDE DEF m
    <3> QED BY DEF Conn, SameRest, SameState, SameWeb, SameSizes, SameRtmp, SamePeer
  <2> HIDE DEF x, l, m
  <2>9. y \in Conn BY <2>5, <2>7, ZenonT(60) DEF Conn
  <2>10. SameRest(x, y) /\ y.type = x.type /\ y.seq = x.seq /\ y.msgs = x.msgs
    BY <2>7 DEF Conn, SameRest, SameState, SameWeb, SameSizes, SameRtmp, SamePeer
  <2>11. SameRest(f, y) /\ y.type = f.type /\ y.seq = f.seq /\ y.msgs = m
    BY <2>8, <2>10 DEF SameRest, SameState, SameWeb, SameSizes, SameRtmp, SamePeer
  <2>12. \A e \in Dirs : Len(m[e]) > 0 => Len(f.msgs[e]) > 0 \/ (e = d /\ s.psh) BY <1>2, <2>4
  <2> HIDE DEF y
  <2> QED BY <2>6, <2>9, <2>11, <2>12
<1>3. CASE ~ (s.psh /\ f.last[d] < f.seq[d])
  <2>1. Message(f, s) = f BY <1>3 DEF Message
  <2> QED BY <2>1 DEF SameRest, SameState, SameWeb, SameSizes, SameRtmp, SamePeer
<1> QED BY <1>2, <1>3

\* Types are changed alone by some parts.
LEMMA TypeGoes ==
  ASSUME NEW f \in Conn, NEW T \in SUBSET ConTypes
  PROVE  LET g == [f EXCEPT !.type = T] IN
         g \in Conn /\ SameRest(f, g) /\ SameMsgs(f, g) /\ g.type = T /\ g.high = f.high
<1> DEFINE g == [f EXCEPT !.type = T]
<1>1. g \in Conn BY ZenonT(60) DEF Conn
<1> QED BY <1>1 DEF Conn, SameRest, SameState, SameWeb, SameSizes, SameRtmp, SamePeer, SameMsgs

\* What the types become: guesses give way to what is known, and RTMP may
\* be given up.
Certain == ConTypes \ (Weak \cup {"RTMP"})
Rises(T, U) ==
    \A x \in T : x \in U \cup {"RTMP"} \/ (x \in Weak /\ U \cap Certain # {})

\* A rise after a rise is one.
LEMMA RisesOn ==
  ASSUME NEW T, NEW U, NEW V, Rises(T, U), Rises(U, V)
  PROVE  Rises(T, V)
BY DEF Rises, Certain

\* A peer to peer command that was seen.
Peered(b, s, c) ==
    /\ SameState(b, c) /\ SameWeb(b, c) /\ SameSizes(b, c) /\ SameRtmp(b, c) /\ SameMsgs(b, c)
    /\ Rises(b.type, c.type) /\ c.type \subseteq b.type \cup (IF s.p2p = NoP2p THEN {} ELSE {"P2P"})
    /\ b.p2p # NoP2p => Family(c.p2p) = Family(b.p2p)
    /\ c.p2p \in {b.p2p, s.p2p} /\ (c.type = b.type \/ c.type = (b.type \ Weak) \cup {"P2P"})

\* It is taken note of.
LEMMA P2pGoes ==
  ASSUME NEW f \in Conn, NEW s \in Segment
  PROVE  P2pFlowStat(f, s) \in Conn /\ Peered(f, s, P2pFlowStat(f, s))
<1> DEFINE T == (f.type \ Weak) \cup {"P2P"}
           c == IF f.p2p # NoP2p /\ Family(f.p2p) # Family(s.p2p) THEN f.p2p ELSE s.p2p
           x == [f EXCEPT !.type = T]
           y == [x EXCEPT !.p2p = c]
           m == P2pMatch(f, s.p2p)
<1>1. f.type \in SUBSET ConTypes /\ s.p2p \in Text \X Nat /\ f.p2p \in Text \X Nat BY DEF Conn, Segment, Text
<1>2. f \in Conn /\ Peered(f, s, f)
  <2>1. SameState(f, f) /\ SameWeb(f, f) /\ SameSizes(f, f) /\ SameRtmp(f, f) /\ SameMsgs(f, f)
    BY DEF SameState, SameWeb, SameSizes, SameRtmp, SameMsgs
  <2>2. Rises(f.type, f.type) BY DEF Rises
  <2> QED BY <2>1, <2>2 DEF Peered
<1>3. m \in Conn /\ Peered(f, s, m)
  <2>1. CASE s.p2p = NoP2p
    <3>1. m = f BY <2>1 DEF P2pMatch
    <3> QED BY <1>2, <3>1, Zenon
  <2>2. CASE s.p2p # NoP2p
    <3>1. m = y BY <2>2, Zenon DEF P2pMatch, Conn
    <3>2. T \in SUBSET ConTypes /\ "P2P" \in Certain BY <1>1 DEF ConTypes, Certain, Weak
    <3>3. Rises(f.type, T) /\ T \subseteq f.type \cup {"P2P"} BY <3>2 DEF Rises
    <3>4. c \in Text \X Nat /\ c \in {f.p2p, s.p2p} /\ (f.p2p # NoP2p => Family(c) = Family(f.p2p)) BY <1>1
    <3>5. T = (f.type \ Weak) \cup {"P2P"} OBVIOUS
    <3> HIDE DEF c, T
    <3>6. x \in Conn /\ SameRest(f, x) /\ SameMsgs(f, x) /\ x.type = T BY <3>2, TypeGoes
    <3> HIDE DEF x
    <3>7. y \in Conn BY <3>4, <3>6, ZenonT(60) DEF Conn
    <3>8. SameState(x, y) /\ SameWeb(x, y) /\ SameSizes(x, y) /\ SameRtmp(x, y) /\ SameMsgs(x, y)
          /\ y.type = x.type /\ y.p2p = c
      BY <3>6 DEF Conn, SameState, SameWeb, SameSizes, SameRtmp, SameMsgs
    <3> HIDE DEF y
    <3> QED
      BY <2>2, <3>1, <3>3, <3>4, <3>6, <3>7, <3>8, <3>5
         DEF Peered, SameRest, SameState, SameWeb, SameSizes, SameRtmp, SameMsgs
  <2> QED BY <2>1, <2>2
<1> HIDE DEF m
<1> DEFINE b == Family(m.p2p) = "EDK" \/ m.packets <= MaxCon
           g == [m EXCEPT !.p2pOpen = b]
<1>4. b \in BOOLEAN OBVIOUS
<1>5. P2pFlowStat(f, s) = IF ~f.p2pOpen THEN f ELSE g BY DEF P2pFlowStat, m
<1> HIDE DEF b
<1>6. g \in Conn BY <1>3, <1>4, ZenonT(60) DEF Conn
<1>7. SameState(m, g) /\ SameWeb(m, g) /\ SameSizes(m, g) /\ SameRtmp(m, g) /\ SameMsgs(m, g)
      /\ g.type = m.type /\ g.p2p = m.p2p
  BY <1>3 DEF Conn, SameState, SameWeb, SameSizes, SameRtmp, SameMsgs
<1> HIDE DEF g
<1>8. CASE ~f.p2pOpen
  <2>1. P2pFlowStat(f, s) = f BY <1>5, <1>8
  <2> QED BY <1>2, <2>1, Zenon
<1>9. CASE f.p2pOpen
  <2>1. P2pFlowStat(f, s) = g BY <1>5, <1>9, Zenon
  <2> QED BY <1>3, <1>6, <1>7, <2>1 DEF Peered, SameState, SameWeb, SameSizes, SameRtmp, SameMsgs, Rises
<1>10. f.p2pOpen \in BOOLEAN BY DEF Conn
<1> QED BY <1>8, <1>9, <1>10

\* The entropy of a segment (compute_nibbles).
LEMMA NibblesGoes ==
  ASSUME NEW f \in Conn, NEW high \in BOOLEAN
  PROVE  LET g == Nibbles(f, high) IN
         g \in Conn /\ SameRest(f, g) /\ SameMsgs(f, g) /\ g.type = f.type
<1> DEFINE n == f.nibbles + 1
           x == [f EXCEPT !.nibbles = n]
           y == [x EXCEPT !.high = high]
<1>1. n \in Nat BY DEF Conn
<1>2. Nibbles(f, high) = IF f.nibbles < 4 THEN y ELSE f BY DEF Nibbles
<1> HIDE DEF n
<1>3. x \in Conn BY <1>1, ZenonT(60) DEF Conn
<1>4. SameRest(f, x) /\ SameMsgs(f, x) /\ x.type = f.type
  BY DEF Conn, SameRest, SameState, SameWeb, SameSizes, SameRtmp, SamePeer, SameMsgs
<1> HIDE DEF x
<1>5. y \in Conn BY <1>3, ZenonT(60) DEF Conn
<1>6. SameRest(x, y) /\ SameMsgs(x, y) /\ y.type = x.type
  BY <1>3, Zenon DEF Conn, SameRest, SameState, SameWeb, SameSizes, SameRtmp, SamePeer, SameMsgs
<1> HIDE DEF y
<1>7. SameRest(f, y) /\ SameMsgs(f, y) /\ y.type = f.type
  BY <1>4, <1>6 DEF SameRest, SameState, SameWeb, SameSizes, SameRtmp, SamePeer, SameMsgs
<1>8. SameRest(f, f) /\ SameMsgs(f, f)
  BY DEF SameRest, SameState, SameWeb, SameSizes, SameRtmp, SamePeer, SameMsgs
<1>9. CASE f.nibbles < 4 BY <1>2, <1>5, <1>7, <1>9
<1>10. CASE ~ (f.nibbles < 4) BY <1>2, <1>8, <1>10
<1> QED BY <1>9, <1>10

\* What ed2k_obfuscate_check may conclude of a segment of a size, after
\* those noted, and what it may note.
Answers(sizes, n) == \/ n = 55 /\ sizes \cap {1183, 11} # {}
                     \/ n = 18 /\ 22 \in sizes
                     \/ n = 46 /\ 6 \in sizes
Notes(sizes, s, k) == \/ k \in sizes
                      \/ k \in {11, 22, 6} /\ s.psh /\ s.len = k
                      \/ k = 1183 /\ 11 \in sizes

\* The sizes of obfuscated eDonkey.
LEMMA Ed2kGoes ==
  ASSUME NEW f \in Conn, NEW s \in Segment
  PROVE  LET g == Ed2k(f, s) IN
         /\ g \in Conn /\ SameState(f, g) /\ SameWeb(f, g) /\ SameRtmp(f, g) /\ SamePeer(f, g)
         /\ SameMsgs(f, g)
         /\ \A k \in g.sizes : Notes(f.sizes, s, k)
         /\ \/ g.type = f.type
            \/ g.type = f.type \cup {"OBF"} /\ s.psh /\ Answers(f.sizes, s.len)
<1> DEFINE g == Ed2k(f, s)
           M(k) == [f EXCEPT !.sizes = f.sizes \cup {k}]
           o == [f EXCEPT !.type = f.type \cup {"OBF"}]
<1>1. f.type \in SUBSET ConTypes /\ f.sizes \in SUBSET Nat /\ s.len \in Nat /\ s.psh \in BOOLEAN
  BY DEF Conn, Segment
<1>2. \/ g = f
      \/ \E k \in Nat : g = M(k) /\ Notes(f.sizes, s, k)
      \/ g = o /\ s.psh /\ Answers(f.sizes, s.len)
  <2>1. CASE ~s.psh
    <3>1. g = f BY <2>1 DEF Ed2k
    <3> QED BY <3>1
  <2>2. CASE s.psh /\ s.len \in {11, 22, 6}
    <3>1. g = M(s.len) BY <2>2 DEF Ed2k
    <3> QED BY <1>1, <2>2, <3>1 DEF Notes
  <2>3. CASE s.psh /\ s.len = 83 /\ 11 \in f.sizes
    <3>1. g = M(1183) BY <2>3 DEF Ed2k
    <3>2. Notes(f.sizes, s, 1183) BY <2>3 DEF Notes
    <3> HIDE DEF g, M
    <3> QED BY <3>1, <3>2
  <2>4. CASE s.psh /\ Answers(f.sizes, s.len)
    <3>1. g = o BY <2>4 DEF Ed2k, Answers
    <3> QED BY <2>4, <3>1
  <2>5. CASE /\ s.psh /\ ~Answers(f.sizes, s.len) /\ s.len \notin {11, 22, 6}
             /\ ~(s.len = 83 /\ 11 \in f.sizes)
    BY <2>5 DEF Ed2k, Answers
  <2> QED BY <1>1, <2>1, <2>2, <2>3, <2>4, <2>5
<1>3. CASE g = f BY <1>3 DEF SameState, SameWeb, SameRtmp, SamePeer, SameMsgs, Notes
<1>4. ASSUME NEW k \in Nat, g = M(k), Notes(f.sizes, s, k)
      PROVE  /\ g \in Conn /\ SameState(f, g) /\ SameWeb(f, g) /\ SameRtmp(f, g) /\ SamePeer(f, g)
             /\ SameMsgs(f, g) /\ g.type = f.type /\ g.sizes = f.sizes \cup {k}
  <2> DEFINE K == f.sizes \cup {k}
  <2>1. K \in SUBSET Nat BY <1>1
  <2>2. g = [f EXCEPT !.sizes = K] BY <1>4
  <2> HIDE DEF K, g
  <2>3. g \in Conn BY <2>1, <2>2, ZenonT(60) DEF Conn
  <2>4. g.sizes = K BY <2>2 DEF Conn
  <2> QED BY <2>2, <2>3, <2>4 DEF Conn, SameState, SameWeb, SameRtmp, SamePeer, SameMsgs, K
<1>5. ASSUME g = o, s.psh, Answers(f.sizes, s.len)
      PROVE  /\ g \in Conn /\ SameState(f, g) /\ SameWeb(f, g) /\ SameRtmp(f, g) /\ SamePeer(f, g)
             /\ SameMsgs(f, g) /\ g.type = f.type \cup {"OBF"} /\ \A k \in g.sizes : Notes(f.sizes, s, k)
  <2>1. f.type \cup {"OBF"} \in SUBSET ConTypes BY <1>1 DEF ConTypes, Weak
  <2>2. g \in Conn /\ SameRest(f, g) /\ SameMsgs(f, g) /\ g.type = f.type \cup {"OBF"} BY <1>5, <2>1, TypeGoes
  <2> HIDE DEF g
  <2>3. g.sizes = f.sizes BY <2>2 DEF SameRest, SameSizes
  <2>4. \A k \in g.sizes : Notes(f.sizes, s, k) BY <2>3 DEF Notes
  <2> QED BY <2>2, <2>4 DEF SameRest
<1> HIDE DEF g
<1>6. ASSUME NEW k \in Nat, g = M(k), Notes(f.sizes, s, k)
      PROVE  \A j \in g.sizes : Notes(f.sizes, s, j)
  BY <1>4, <1>6 DEF Notes
<1> QED BY <1>2, <1>3, <1>4, <1>5, <1>6 DEF g

\* A segment that is taken for the first of its side.
FirstOf(f, s) == s.dir \notin f.rtmpSeen /\ f.seq[s.dir] = s.len

\* The handshake of RTMP.
LEMMA RtmpGoes ==
  ASSUME NEW f \in Conn, NEW s \in Segment
  PROVE  LET g == Rtmp(f, s) IN
         /\ g \in Conn /\ SameState(f, g) /\ SameWeb(f, g) /\ SameSizes(f, g) /\ SamePeer(f, g)
         /\ SameMsgs(f, g)
         /\ f.rtmpSeen \subseteq g.rtmpSeen /\ f.rtmpHand \subseteq g.rtmpHand
         /\ \A e \in g.rtmpHand : e \in f.rtmpHand \/ (e = s.dir /\ s.rtmp /\ FirstOf(f, s))
         /\ FirstOf(f, s) => s.dir \in g.rtmpSeen
         /\ g.type = f.type \/ (g.type = f.type \cup {"RTMP"} /\ g.rtmpHand = Dirs)
<1> DEFINE g == Rtmp(f, s)
           seen == IF FirstOf(f, s) THEN f.rtmpSeen \cup {s.dir} ELSE f.rtmpSeen
           hand == IF FirstOf(f, s) /\ s.rtmp THEN f.rtmpHand \cup {s.dir} ELSE f.rtmpHand
           T == IF hand = Dirs THEN f.type \cup {"RTMP"} ELSE f.type
           x == [f EXCEPT !.rtmpSeen = seen]
           y == [x EXCEPT !.rtmpHand = hand]
           z == [y EXCEPT !.type = T]
<1>1. f.type \in SUBSET ConTypes /\ f.rtmpSeen \in SUBSET Dirs /\ f.rtmpHand \in SUBSET Dirs /\ s.dir \in Dirs
  BY DEF Conn, Segment
<1>2. g = IF f.rtmpSeen = Dirs THEN f ELSE z BY Zenon DEF Rtmp, FirstOf, Conn
<1>3. seen \in SUBSET Dirs /\ f.rtmpSeen \subseteq seen /\ (FirstOf(f, s) => s.dir \in seen) BY <1>1
<1>4. hand \in SUBSET Dirs /\ f.rtmpHand \subseteq hand
      /\ \A e \in hand : e \in f.rtmpHand \/ (e = s.dir /\ s.rtmp /\ FirstOf(f, s))
  BY <1>1
<1>5. T \in SUBSET ConTypes /\ (T = f.type \/ (T = f.type \cup {"RTMP"} /\ hand = Dirs)) BY <1>1 DEF ConTypes
<1> HIDE DEF seen, hand, T
<1>6. x \in Conn BY <1>3, ZenonT(60) DEF Conn
<1>7. SameState(f, x) /\ SameWeb(f, x) /\ SameSizes(f, x) /\ SamePeer(f, x) /\ SameMsgs(f, x)
      /\ x.rtmpSeen = seen
  BY DEF Conn, SameState, SameWeb, SameSizes, SamePeer, SameMsgs
<1> HIDE DEF x
<1>8. y \in Conn BY <1>4, <1>6, ZenonT(60) DEF Conn
<1>9. SameState(x, y) /\ SameWeb(x, y) /\ SameSizes(x, y) /\ SamePeer(x, y) /\ SameMsgs(x, y)
      /\ y.rtmpSeen = x.rtmpSeen /\ y.rtmpHand = hand
  BY <1>6 DEF Conn, SameState, SameWeb, SameSizes, SamePeer, SameMsgs
<1> HIDE DEF y
<1>10. z \in Conn /\ SameRest(y, z) /\ SameMsgs(y, z) /\ z.type = T BY <1>5, <1>8, TypeGoes
<1> HIDE DEF z
<1>11. /\ SameState(f, z) /\ SameWeb(f, z) /\ SameSizes(f, z) /\ SamePeer(f, z) /\ SameMsgs(f, z)
       /\ z.rtmpSeen = seen /\ z.rtmpHand = hand
  BY <1>7, <1>9, <1>10 DEF SameRest, SameState, SameWeb, SameSizes, SamePeer, SameMsgs, SameRtmp
<1> HIDE DEF g
<1>12. CASE f.rtmpSeen = Dirs
  <2>1. g = f /\ ~FirstOf(f, s) BY <1>1, <1>2, <1>12 DEF FirstOf
  <2> QED BY <2>1 DEF SameState, SameWeb, SameSizes, SamePeer, SameMsgs, g
<1>13. CASE f.rtmpSeen # Dirs BY <1>2, <1>3, <1>4, <1>5, <1>10, <1>11, <1>13 DEF g
<1> QED BY <1>12, <1>13

\* The guess of encrypted BitTorrent.
LEMMA MseGoes ==
  ASSUME NEW f \in Conn
  PROVE  LET g == Mse(f) IN
         /\ g \in Conn /\ SameRest(f, g) /\ SameMsgs(f, g)
         /\ g.type = f.type \/ (f.type = {} /\ g.type = {"MSE"} /\ Spoken(f, 0))
<1>1. Mse(f) = f \/ (Mse(f) = [f EXCEPT !.type = {"MSE"}] /\ f.type = {} /\ Spoken(f, 0)) BY DEF Mse
<1>2. {"MSE"} \in SUBSET ConTypes BY DEF ConTypes, Weak
<1>3. SameRest(f, f) /\ SameMsgs(f, f)
  BY DEF SameRest, SameState, SameWeb, SameSizes, SameRtmp, SamePeer, SameMsgs
<1> QED BY <1>1, <1>2, <1>3, TypeGoes, ZenonT(60)

\* What is left alone is left alone.
LEMMA SameAll ==
  ASSUME NEW f
  PROVE  SameState(f, f) /\ SameWeb(f, f) /\ SameOthers(f, f) /\ SameRest(f, f)
BY DEF SameRest, SameState, SameWeb, SameSizes, SameRtmp, SamePeer, SameMsgs, SameOthers

\* The streaming analyser changes what it found alone.
LEMMA VideoGoes ==
  ASSUME NEW f \in Conn, NEW s \in Segment
  PROVE  LET g == VideoFlowStat(f, s) IN
         g \in Conn /\ SameRest(f, g) /\ SameMsgs(f, g) /\ g.type = f.type
<1> DEFINE v == f.video
           w == VideoStep(f, s)
           u == IF f.packets > MaxCon THEN [w EXCEPT !.state = "IGNORE"] ELSE w
           g == [f EXCEPT !.video = u]
<1>1. v \in VideoStates /\ s.ctype \in Text /\ s.content \in Text BY DEF Conn, Segment, Text
<1>2. w \in VideoStates
  <2>1. [v EXCEPT !.state = "HTTP_COMMAND"] \in VideoStates /\ [v EXCEPT !.state = "IGNORE"] \in VideoStates
    BY <1>1 DEF VideoStates
  <2>2. VideoAnswer(v, s) \in VideoStates BY <1>1 DEF VideoStates, VideoAnswer
  <2>3. w \in {v, [v EXCEPT !.state = "HTTP_COMMAND"], [v EXCEPT !.state = "IGNORE"], VideoAnswer(v, s)}
    BY DEF VideoStep
  <2> QED BY <1>1, <2>1, <2>2, <2>3
<1> HIDE DEF w
<1>3. u \in VideoStates
  <2>1. [w EXCEPT !.state = "IGNORE"] \in VideoStates BY <1>2 DEF VideoStates
  <2> QED BY <1>2, <2>1
<1>4. VideoFlowStat(f, s) = IF f.video.state = "IGNORE" THEN f ELSE g BY DEF VideoFlowStat, w
<1> HIDE DEF u
<1>5. g \in Conn BY <1>3, ZenonT(60) DEF Conn
<1>6. SameRest(f, g) /\ SameMsgs(f, g) /\ g.type = f.type
  BY DEF Conn, SameRest, SameState, SameWeb, SameSizes, SameRtmp, SamePeer, SameMsgs
<1>7. SameRest(f, f) /\ SameMsgs(f, f) BY SameAll DEF SameOthers
<1> HIDE DEF g
<1>8. CASE f.video.state = "IGNORE" BY <1>4, <1>7, <1>8
<1>9. CASE f.video.state # "IGNORE" BY <1>4, <1>5, <1>6, <1>9
<1> QED BY <1>8, <1>9

\* Asking for the label gives up RTMP at most.
LEMMA AskedGoes ==
  ASSUME NEW f \in Conn
  PROVE  LET g == Asked(f) IN
         /\ g \in Conn /\ SameRest(f, g) /\ SameMsgs(f, g) /\ g.type \in {f.type, f.type \ {"RTMP"}}
         /\ Rises(f.type, g.type)
<1> DEFINE T == f.type \ {"RTMP"}
           g == [f EXCEPT !.type = T]
<1>1. T \in SUBSET ConTypes BY DEF Conn
<1>2. Asked(f) = f \/ Asked(f) = g BY DEF Asked
<1>3. Rises(f.type, f.type) /\ Rises(f.type, T) BY DEF Rises
<1>4. SameRest(f, f) /\ SameMsgs(f, f) BY SameAll DEF SameOthers
<1> HIDE DEF T
<1>5. g \in Conn /\ SameRest(f, g) /\ SameMsgs(f, g) /\ g.type = T BY <1>1, TypeGoes
<1> HIDE DEF g
<1> QED BY <1>2, <1>3, <1>4, <1>5 DEF T

------------------------------
\* One change of the state machine: another state, another session,
\* another protocol.
LEMMA StateGoes ==
  ASSUME NEW f \in Conn, NEW t \in States
  PROVE  LET g == [f EXCEPT !.state = t] IN
         /\ g \in Conn /\ g.state = t /\ g.chat = f.chat /\ SameWeb(f, g) /\ SameOthers(f, g)
         /\ g.type = f.type /\ g.yt = f.yt
<1> DEFINE g == [f EXCEPT !.state = t]
<1>1. g \in Conn BY ZenonT(60) DEF Conn
<1> QED BY <1>1 DEF Conn, SameOthers, SameWeb, SameSizes, SameRtmp, SamePeer, SameMsgs

\* Another session.
LEMMA ChatGoes ==
  ASSUME NEW f \in Conn, NEW c \in Chat
  PROVE  LET g == [f EXCEPT !.chat = c] IN
         /\ g \in Conn /\ g.chat = c /\ g.state = f.state /\ SameWeb(f, g) /\ SameOthers(f, g)
         /\ g.type = f.type /\ g.yt = f.yt
<1> DEFINE g == [f EXCEPT !.chat = c]
<1>1. g \in Conn BY ZenonT(60) DEF Conn
<1> QED BY <1>1 DEF Conn, SameOthers, SameWeb, SameSizes, SameRtmp, SamePeer, SameMsgs

\* Another protocol, in another state.
LEMMA RecognisedGoes ==
  ASSUME NEW f \in Conn, NEW p \in ConTypes, NEW t \in States
  PROVE  LET g == Recognised(f, p, t) IN
         /\ g \in Conn /\ g.state = t /\ g.chat = f.chat /\ SameWeb(f, g) /\ SameOthers(f, g)
         /\ g.type = (f.type \ Weak) \cup {p}
<1> DEFINE T == (f.type \ Weak) \cup {p}
           x == [f EXCEPT !.type = T]
           y == [x EXCEPT !.state = t]
<1>1. T \in SUBSET ConTypes BY DEF Conn
<1>2. Recognised(f, p, t) = y BY Zenon DEF Recognised, Conn
<1> HIDE DEF T
<1>3. x \in Conn /\ SameRest(f, x) /\ SameMsgs(f, x) /\ x.type = T BY <1>1, TypeGoes
<1> HIDE DEF x
<1>4. y \in Conn /\ y.state = t /\ y.chat = x.chat /\ SameWeb(x, y) /\ SameOthers(x, y) /\ y.type = x.type
  BY <1>3, StateGoes
<1> HIDE DEF y
<1> QED
  BY <1>2, <1>3, <1>4
     DEF T, SameRest, SameState, SameOthers, SameWeb, SameSizes, SameRtmp, SamePeer, SameMsgs

\* A session before the chat: nothing is counted yet, and a tunnel was
\* found by the commands of MSN only.
Quiet(state, c) ==
    /\ c \in Chat /\ Yahoo(c) /\ Online(c) /\ c.ft \in {"UNKNOWN", "MSN_TUNNEL"}
    /\ c.ft = "MSN_TUNNEL" => state \in MsnChats \cup MsnWaits \cup {"IGNORE"}

\* What must have been said for a state to be entered.
Entered(from, s, t, T) ==
    /\ t = "HTTP_COMMAND" => from = "UNKNOWN" /\ s.dir = "c2s" /\ s.cmd \in WebRequests
    /\ t = "RTSP_COMMAND" => s.dir = "c2s" /\ s.cmd = "DESCRIBE"
    /\ t = "SMTP_OPENING" => s.dir = "s2c" /\ s.cmd = "SMTP_220"
    /\ t = "POP3_OPENING" => s.dir = "s2c" /\ s.cmd = "POP_OK"
    /\ t = "IMAP_OPENING" => s.dir = "s2c" /\ s.cmd = "IMAP_OK"
    /\ t = "IMAP_COMMAND" => from = "IMAP_OPENING" /\ s.dir = "c2s" /\ s.cmd = "TAG"
    /\ t = "SSH_SERVER" => s.dir = "s2c" /\ s.cmd = "SSH"
    /\ t = "SSL_HANDSHAKE" => from = "UNKNOWN" /\ s.dir = "c2s" /\ s.cmd = "SSL_CLIENT"
    /\ t = "HTTP_RESPONSE" => "HTTP" \in T
    /\ t = "RTSP_RESPONSE" => "RTSP" \in T
    /\ t = "UNKNOWN" => from = "SSL_HANDSHAKE"

\* What must be said, in which state, for a protocol to be recognised.
Shown(from, s, p) ==
    /\ p = "HTTP" => from = "HTTP_COMMAND" /\ s.dir = "s2c" /\ s.cmd = "HTTP"
    /\ p = "ICY" => from = "HTTP_COMMAND" /\ s.dir = "s2c" /\ s.cmd = "ICY"
    /\ p = "RTSP" => \/ from = "RTSP_COMMAND" /\ s.dir = "s2c" /\ s.cmd = "RTSP"
                     \/ from = "HTTP_RESPONSE" /\ s.dir = "s2c" /\ s.rtsp
    /\ p = "RTP" => from = "RTSP_RESPONSE" /\ s.dir = "s2c" /\ s.cmd = "RTP"
    /\ p = "MSN" => s.dir = "s2c" /\ s.cmd \in MsnCommands
    /\ p = "YMSG" => s.cmd = "YMSG"
    /\ p = "XMPP" => s.cmd = "XMPP_SMELL"
    /\ p = "SMTP" => from = "SMTP_OPENING" /\ s.dir = "c2s" /\ s.cmd = "HELO"
    /\ p = "POP3" => from = "POP3_OPENING" /\ s.dir = "c2s" /\ s.cmd = "USER"
    /\ p = "IMAP" => from = "IMAP_COMMAND" /\ s.dir = "s2c" /\ s.cmd \in {"TAG", "STAR"}
    /\ p = "SSL" => from = "SSL_HANDSHAKE" /\ s.dir = "s2c" /\ s.cmd = "SSL_SERVER"
    /\ p = "SSH" => from = "SSH_SERVER" /\ s.dir = "c2s" /\ s.cmd = "SSH"

\* The protocols a connection may have in a state, and those that may
\* follow.  A guess from entropy is alone, and one protocol runs inside
\* another only in the four ways there are.
Begins == {"UNKNOWN", "HTTP_COMMAND", "RTSP_COMMAND", "SMTP_OPENING", "POP3_OPENING", "IMAP_OPENING",
           "IMAP_COMMAND", "SSH_SERVER", "SSL_HANDSHAKE"}
Within == {{"HTTP", "RTSP"}, {"HTTP", "RTSP", "RTP"}, {"RTSP", "RTP"}, {"HTTP", "MSN"}}
Fits(t, T) ==
    LET protos == T \cap Protocols
    IN  /\ t \in Begins => protos = {}
        /\ t = "HTTP_RESPONSE" => protos = {"HTTP"}
        /\ t = "RTSP_RESPONSE" => protos \in {{"RTSP"}, {"HTTP", "RTSP"}}
        /\ t \in MsnChats \cup MsnWaits => protos \in {{}, {"MSN"}, {"HTTP", "MSN"}}
        /\ protos = {} \/ (\E p \in Protocols : protos = {p}) \/ protos \in Within
        /\ "MSE" \in T => T \subseteq Weak \cup {"RTMP"}
Follows(from, p, t) ==
    \/ /\ from \in Begins
       /\ t \in {"IGNORE", "YMSGP", "XMPP", "SSL_SERVER"}
          \/ (p = "HTTP" /\ t = "HTTP_RESPONSE") \/ (p = "RTSP" /\ t = "RTSP_RESPONSE")
    \/ from = "HTTP_RESPONSE" /\ p = "RTSP" /\ t = "RTSP_RESPONSE"
    \/ from = "RTSP_RESPONSE" /\ p = "RTP" /\ t = "IGNORE"

\* What a request leaves of YouTube: what it asked for, but for a first
\* request with POST.
Posted(f, s, g) == f.state = "UNKNOWN" /\ s.cmd = "POST" /\ g.own = f.own
Asks(f, s, g) ==
    /\ s.cmd \in WebRequests /\ (f.state = "UNKNOWN" \/ f.web \in Unspecific)
    /\ \/ g.web = Class(s)
       \/ g.web = "YOUTUBE_VIDEO204" /\ f.web = "YOUTUBE_204" /\ Class(s) = "YOUTUBE_VIDEO"
    /\ Class(s) \in YouTubeVideo => g.own = Video(Blank, s.par) \/ Posted(f, s, g)
    /\ Class(s) \in YouTubeSite => g.own.id = Or(s.par.id, "--") \/ Posted(f, s, g)

\* A step of the state machine: types, state, session and request.
Early == {"UNKNOWN", "SSL_HANDSHAKE"}
TypeTurns(f, s, g) ==
    \/ g.type = f.type
    \/ \E p \in Protocols : g.type = (f.type \ Weak) \cup {p} /\ Shown(f.state, s, p)
StateTurns(f, s, g) == g.state \in {f.state, "IGNORE"} \/ Entered(f.state, s, g.state, g.type)
ChatTurns(f, g) == Quiet(f.state, f.chat) => Quiet(g.state, g.chat)
FitTurns(f, g) == Fits(f.state, f.type) => Fits(g.state, g.type)
WebTurns(f, s, g) ==
    \/ SameWeb(f, g)
    \/ f.state = "HTTP_RESPONSE" /\ g.web = "VIDEO_CONTENT" /\ f.web = "GET" /\ g.own = f.own
    \/ Asks(f, s, g) /\ g.state \notin Early
Turns(f, s, g) ==
    /\ g \in Conn /\ SameOthers(f, g) /\ TypeTurns(f, s, g) /\ StateTurns(f, s, g)
    /\ ChatTurns(f, g) /\ WebTurns(f, s, g) /\ FitTurns(f, g)

\* Types fit when their protocols do, and no more is known beside a guess.
LEMMA FitsOn ==
  ASSUME NEW t, NEW T, Fits(t, T), NEW U, U \cap Protocols = T \cap Protocols,
         "MSE" \in U => ("MSE" \in T /\ U \subseteq T \cup Weak \cup {"RTMP"}) \/ U = {"MSE"}
  PROVE  Fits(t, U) /\ Fits("IGNORE", U)
<1>1. "MSE" \in U => U \subseteq Weak \cup {"RTMP"} BY DEF Fits, Weak
<1>2. "IGNORE" \notin Begins \cup MsnChats \cup MsnWaits \cup {"HTTP_RESPONSE", "RTSP_RESPONSE"}
  BY DEF Begins, MsnChats, ChatStates, MsnWaits
<1> QED BY <1>1, <1>2 DEF Fits

\* A protocol recognised where it may be fits.
LEMMA FitsNext ==
  ASSUME NEW from, NEW T, Fits(from, T), NEW p \in Protocols, NEW t,
         \/ Follows(from, p, t)
         \/ p = "MSN" /\ from \in Begins \cup MsnWaits \cup {"HTTP_RESPONSE"} /\ t \in MsnChats \cup MsnWaits
  PROVE  Fits(t, (T \ Weak) \cup {p})
<1> DEFINE U == (T \ Weak) \cup {p}
           protos == T \cap Protocols
<1>1. "MSE" \notin U /\ U \cap Protocols = protos \cup {p} BY DEF Weak, Protocols
<1>2. /\ from \in Begins => protos = {}
      /\ from = "HTTP_RESPONSE" => protos = {"HTTP"}
      /\ from = "RTSP_RESPONSE" => protos \in {{"RTSP"}, {"HTTP", "RTSP"}}
      /\ from \in MsnWaits => protos \in {{}, {"MSN"}, {"HTTP", "MSN"}}
  BY DEF Fits
<1>3. t \notin Begins BY DEF Follows, Begins, MsnChats, ChatStates, MsnWaits
<1> HIDE DEF U, protos
<1>4. CASE from \in Begins
  <2>1. U \cap Protocols = {p} BY <1>1, <1>2, <1>4
  <2>2. /\ t = "HTTP_RESPONSE" => p = "HTTP"
        /\ t = "RTSP_RESPONSE" => p = "RTSP"
        /\ t \in MsnChats \cup MsnWaits => p = "MSN"
    BY <1>4 DEF Follows, Begins, MsnChats, ChatStates, MsnWaits
  <2> QED BY <1>1, <1>3, <2>1, <2>2 DEF Fits, U
<1>5. CASE from \in {"HTTP_RESPONSE"} \cup MsnWaits /\ p = "MSN" /\ t \in MsnChats \cup MsnWaits
  <2>1. U \cap Protocols \in {{"MSN"}, {"HTTP", "MSN"}} BY <1>1, <1>2, <1>5
  <2> QED BY <1>1, <1>3, <1>5, <2>1 DEF Fits, Within, MsnChats, ChatStates, MsnWaits, U
<1>6. CASE from = "HTTP_RESPONSE" /\ p = "RTSP" /\ t = "RTSP_RESPONSE"
  <2>1. U \cap Protocols = {"HTTP", "RTSP"} BY <1>1, <1>2, <1>6
  <2> QED BY <1>1, <1>3, <1>6, <2>1 DEF Fits, Within, MsnChats, ChatStates, MsnWaits, U
<1>7. CASE from = "RTSP_RESPONSE" /\ p = "RTP" /\ t = "IGNORE"
  <2>1. U \cap Protocols \in {{"RTSP", "RTP"}, {"HTTP", "RTSP", "RTP"}} BY <1>1, <1>2, <1>7
  <2> QED BY <1>1, <1>3, <1>7, <2>1 DEF Fits, Within, MsnChats, ChatStates, MsnWaits, U
<1> QED BY <1>4, <1>5, <1>6, <1>7 DEF Follows

\* Nothing happens.
LEMMA StayTurns ==
  ASSUME NEW f \in Conn, NEW s \in Segment
  PROVE  Turns(f, s, f)
BY SameAll DEF Turns, TypeTurns, StateTurns, ChatTurns, WebTurns, FitTurns

\* Another state only.
LEMMA ToState ==
  ASSUME NEW f \in Conn, NEW s \in Segment, NEW t \in States,
         t = "IGNORE" \/ ({f.state, t} \subseteq Begins /\ Entered(f.state, s, t, f.type))
  PROVE  Turns(f, s, [f EXCEPT !.state = t])
<1> DEFINE g == [f EXCEPT !.state = t]
<1>1. /\ g \in Conn /\ g.state = t /\ g.chat = f.chat /\ SameWeb(f, g) /\ SameOthers(f, g)
      /\ g.type = f.type
  BY StateGoes
<1> HIDE DEF g
<1>2. ChatTurns(f, g) BY <1>1 DEF ChatTurns, Quiet, Begins, MsnChats, ChatStates, MsnWaits
<1>3. StateTurns(f, s, g) BY <1>1 DEF StateTurns
<1>4. FitTurns(f, g)
  <2> SUFFICES ASSUME Fits(f.state, f.type) PROVE Fits(t, f.type) BY <1>1 DEF FitTurns
  <2>1. CASE t = "IGNORE" BY <2>1, FitsOn
  <2>2. CASE {f.state, t} \subseteq Begins BY <2>2 DEF Fits, Begins, MsnChats, ChatStates, MsnWaits
  <2> QED BY <2>1, <2>2
<1> QED BY <1>1, <1>2, <1>3, <1>4 DEF Turns, TypeTurns, WebTurns, g

\* A protocol recognised in a state.
LEMMA ToProtocol ==
  ASSUME NEW f \in Conn, NEW s \in Segment, NEW p \in Protocols, NEW t \in States,
         Follows(f.state, p, t), Shown(f.state, s, p), Entered(f.state, s, t, {p})
  PROVE  Turns(f, s, Recognised(f, p, t))
<1> DEFINE g == Recognised(f, p, t)
<1>0. p \in ConTypes BY DEF ConTypes
<1>1. /\ g \in Conn /\ g.state = t /\ g.chat = f.chat /\ SameWeb(f, g) /\ SameOthers(f, g)
      /\ g.type = (f.type \ Weak) \cup {p}
  BY <1>0, RecognisedGoes
<1> HIDE DEF g
<1>2. ChatTurns(f, g) BY <1>1 DEF ChatTurns, Quiet, Follows, Begins, MsnChats, ChatStates, MsnWaits
<1>3. StateTurns(f, s, g) BY <1>1 DEF StateTurns, Entered
<1>4. TypeTurns(f, s, g) BY <1>1 DEF TypeTurns
<1>5. FitTurns(f, g) BY <1>1, FitsNext DEF FitTurns
<1> QED BY <1>1, <1>2, <1>3, <1>4, <1>5 DEF Turns, WebTurns, g

\* Too many packets: nothing more is looked at.
LEMMA LimitTurns ==
  ASSUME NEW f \in Conn, NEW s \in Segment, NEW g, Turns(f, s, g), NEW n
  PROVE  Turns(f, s, Limit(g, n))
<1> DEFINE h == [g EXCEPT !.state = "IGNORE"]
<1>0. g \in Conn /\ "IGNORE" \in States BY DEF Turns, States
<1>1. /\ h \in Conn /\ h.state = "IGNORE" /\ h.chat = g.chat /\ SameWeb(g, h) /\ SameOthers(g, h)
      /\ h.type = g.type
  BY <1>0, StateGoes
<1>2. Limit(g, n) = g \/ Limit(g, n) = h BY DEF Limit
<1> HIDE DEF h
<1>3. SameOthers(f, h) BY <1>1 DEF Turns, SameOthers, SameSizes, SameRtmp, SameMsgs, SamePeer
<1>4. ChatTurns(f, h) BY <1>1 DEF ChatTurns, Quiet, Turns
<1>5. TypeTurns(f, s, h) /\ StateTurns(f, s, h) BY <1>1 DEF Turns, TypeTurns, StateTurns
<1>6. WebTurns(f, s, h)
  <2>1. h.web = g.web /\ h.own = g.own BY <1>1 DEF SameWeb
  <2>2. Asks(f, s, g) => Asks(f, s, h) BY <2>1 DEF Asks, Posted
  <2> QED BY <1>1, <2>1, <2>2 DEF Turns, WebTurns, SameWeb, Early
<1>7. FitTurns(f, h) BY <1>1, FitsOn DEF Turns, FitTurns
<1> QED BY <1>1, <1>2, <1>3, <1>4, <1>5, <1>6, <1>7 DEF Turns

\* A command of the MSN server.
LEMMA MsnServerTurns ==
  ASSUME NEW f \in Conn, NEW s \in Segment, s.dir = "s2c", s.cmd \in MsnCommands, NEW tunnel \in BOOLEAN,
         f.state \in Begins \cup MsnWaits \cup {"HTTP_RESPONSE"}
  PROVE  Turns(f, s, MsnServer(f, s.cmd, tunnel))
<1> DEFINE c1 == IF tunnel THEN [f.chat EXCEPT !.ft = "MSN_TUNNEL"] ELSE f.chat
           c2 == Note(c1, "s2c", {s.cmd})
           x == [f EXCEPT !.chat = c1]
           y == [x EXCEPT !.chat = c2]
           t == MsnAnswered[s.cmd]
           g == Recognised(y, "MSN", t)
<1>0. f.chat \in Chat /\ "s2c" \in Dirs /\ {s.cmd} \in SUBSET Noted /\ "MSN" \in ConTypes
  BY DEF Conn, Dirs, MsnCommands, Noted, ConTypes, Protocols
<1>1. t \in States /\ t \in MsnChats \cup MsnWaits
  <2>1. t \in {"MSN_VER_S2C", "MSN_USR_S2C", "MSN_ANS_COMMAND", "MSN_IRO_COMMAND"}
    <3>1. s.cmd \in {"VER", "USR", "ANS", "IRO"} BY DEF MsnCommands
    <3>2. CASE s.cmd = "VER" BY <3>2 DEF MsnAnswered, MsnAsked
    <3>3. CASE s.cmd = "USR" BY <3>3 DEF MsnAnswered, MsnAsked
    <3>4. CASE s.cmd = "ANS" BY <3>4 DEF MsnAnswered, MsnAsked
    <3>5. CASE s.cmd = "IRO" BY <3>5 DEF MsnAnswered, MsnAsked
    <3> QED BY <3>1, <3>2, <3>3, <3>4, <3>5
  <2> QED BY <2>1 DEF States, MsnChats, ChatStates, MsnWaits
<1>2. c1 \in Chat /\ c1.seen = f.chat.seen /\ c1.chats = f.chat.chats /\ c1.presences = f.chat.presences
      /\ c1.ft \in {f.chat.ft, "MSN_TUNNEL"}
  <2>1. "MSN_TUNNEL" \in ChatTypes BY DEF ChatTypes, MsnTypes
  <2>2. Became(f.chat, [f.chat EXCEPT !.ft = "MSN_TUNNEL"], "MSN_TUNNEL", 0, 0) BY <1>0, <2>1, Retyping
  <2>3. f.chat.chats \in Int /\ f.chat.presences \in Int BY <1>0 DEF Chat
  <2> QED BY <1>0, <2>2, <2>3 DEF Became
<1>3. MsnServer(f, s.cmd, tunnel) = g
  <2>1. (IF tunnel THEN [f EXCEPT !.chat.ft = "MSN_TUNNEL"] ELSE f) = x
    <3>1. f = [f EXCEPT !.chat = f.chat] BY Zenon DEF Conn
    <3> QED BY <3>1
  <2>2. x.chat = c1 BY DEF Conn
  <2>3. [x EXCEPT !.chat = Note(@, "s2c", {s.cmd})] = y BY <2>2
  <2> HIDE DEF c1, x, y
  <2> QED BY <2>1, <2>3 DEF MsnServer
<1>4. /\ c2 \in Chat /\ c2.ft = c1.ft /\ c2.chats = c1.chats /\ c2.presences = c1.presences
      /\ \A e \in Dirs : c2.seen[e] = IF e = "s2c" THEN c1.seen[e] \cup {s.cmd} ELSE c1.seen[e]
  <2>1. c1 \in Chat /\ "s2c" \in Dirs /\ {s.cmd} \in SUBSET Noted BY <1>0, <1>2
  <2> HIDE DEF c1
  <2> QED BY <2>1, Noting, SMTT(30)
<1> HIDE DEF c1, c2, t
<1>5. /\ x \in Conn /\ x.state = f.state /\ SameWeb(f, x) /\ SameOthers(f, x) /\ x.type = f.type
  BY <1>2, ChatGoes
<1> HIDE DEF x
<1>6. /\ y \in Conn /\ y.chat = c2 /\ y.state = x.state /\ SameWeb(x, y) /\ SameOthers(x, y)
      /\ y.type = x.type
  BY <1>4, <1>5, ChatGoes
<1> HIDE DEF y
<1>7. /\ g \in Conn /\ g.state = t /\ g.chat = y.chat /\ SameWeb(y, g) /\ SameOthers(y, g)
      /\ g.type = (y.type \ Weak) \cup {"MSN"}
  BY <1>0, <1>1, <1>6, RecognisedGoes
<1> HIDE DEF g
<1>8. SameWeb(f, g) /\ SameOthers(f, g)
  BY <1>5, <1>6, <1>7 DEF SameWeb, SameOthers, SameSizes, SameRtmp, SameMsgs, SamePeer
<1>9. TypeTurns(f, s, g)
  <2>1. g.type = (f.type \ Weak) \cup {"MSN"} BY <1>5, <1>6, <1>7
  <2>2. "MSN" \in Protocols /\ Shown(f.state, s, "MSN") BY DEF Protocols, Shown
  <2> QED BY <2>1, <2>2 DEF TypeTurns
<1>10. StateTurns(f, s, g) BY <1>1, <1>7 DEF StateTurns, Entered, MsnChats, ChatStates, MsnWaits
<1>11. ChatTurns(f, g)
  <2> SUFFICES ASSUME Quiet(f.state, f.chat) PROVE Quiet(t, c2) BY <1>6, <1>7 DEF ChatTurns
  <2>1. c2 \in Chat /\ c2.ft \in {"UNKNOWN", "MSN_TUNNEL"} BY <1>2, <1>4 DEF Quiet
  <2>2. Yahoo(c2)
    <3> SUFFICES ASSUME NEW e \in Dirs, "MSG_Y" \in c2.seen[e] PROVE "MSG" \in c2.seen[e] BY DEF Yahoo
    <3>1. s.cmd # "MSG_Y" BY DEF MsnCommands
    <3>2. "MSG_Y" \in f.chat.seen[e] /\ f.chat.seen[e] \subseteq c2.seen[e] BY <1>2, <1>4, <3>1
    <3>3. "MSG" \in f.chat.seen[e] BY <3>2 DEF Quiet, Yahoo
    <3> QED BY <3>2, <3>3
  <2>3. Online(c2) BY <1>2, <1>4 DEF Quiet, Online, Drifted, One, Present, Chatting
  <2> QED BY <1>1, <2>1, <2>2, <2>3 DEF Quiet
<1>12. FitTurns(f, g)
  <2>1. g.state = t /\ g.type = (f.type \ Weak) \cup {"MSN"} /\ "MSN" \in Protocols
    BY <1>5, <1>6, <1>7 DEF Protocols
  <2> QED BY <1>1, <2>1, FitsNext DEF FitTurns
<1> QED BY <1>3, <1>7, <1>8, <1>9, <1>10, <1>11, <1>12 DEF Turns, WebTurns

\* What a request leaves in the yt_ variables.
LEMMA ParseGoes ==
  ASSUME NEW yt \in Kept, NEW q \in Parameters, NEW first \in BOOLEAN, NEW class
  PROVE  LET y == Parse(Cleared(yt, first), class, q) IN
         /\ y \in Kept
         /\ class \in YouTubeVideo => y = Video(Blank, q)
         /\ class \in YouTubeSite => y.id = Or(q.id, "--")
<1> DEFINE c == Cleared(yt, first)
           n == Or(q.id, "--")
           y == Parse(c, class, q)
<1>1. c \in Kept /\ c.id = "--" /\ c.itag = "--"
  <2>1. Blank \in Kept /\ Blank.id = "--" /\ Blank.itag = "--" BY DEF Blank, Kept, Text
  <2> DEFINE x == [yt EXCEPT !.id = "--"]
             z == [x EXCEPT !.itag = "--"]
  <2>2. x \in Kept /\ x.id = "--" BY DEF Kept, Text
  <2>3. [yt EXCEPT !.id = "--", !.itag = "--"] = z OBVIOUS
  <2> HIDE DEF x
  <2>4. z \in Kept /\ z.id = "--" /\ z.itag = "--" BY <2>2 DEF Kept, Text
  <2> HIDE DEF z
  <2>5. c = Blank \/ c = z BY <2>3 DEF Cleared
  <2> QED BY <2>1, <2>4, <2>5
<1>2. /\ q.id \in Text /\ q.itag \in Text /\ q.begin \in Nat /\ q.counter \in Nat \cup {-1}
      /\ n \in Text
  BY DEF Parameters, Or, Text
<1>3. Redirect(q) \in Nat \X Nat
  <2> DEFINE count == IF q.counter = -1 THEN 0 ELSE q.counter
             mode == CASE q.counter = -1 /\ q.st = "none" -> 0
                       [] q.counter # -1 /\ q.st = "none" -> 1
                       [] q.counter # -1 /\ q.st = "tcts" -> 2
                       [] q.counter # -1 /\ q.st = "nx" -> 3
                       [] q.counter = -1 /\ q.st = "lc" -> 4
                       [] q.counter = -1 /\ q.st = "nx" -> 5
                       [] OTHER -> 6
             again == CASE mode = 0 -> 0 [] mode = 1 -> count [] OTHER -> count + 1
  <2>1. count \in Nat BY <1>2
  <2>2. mode \in Nat OBVIOUS
  <2> HIDE DEF count, mode
  <2>3. again \in {0, count, count + 1} OBVIOUS
  <2> HIDE DEF again
  <2>4. Redirect(q) = <<mode, again>> BY DEF Redirect, mode, count, again
  <2> QED BY <2>1, <2>2, <2>3, <2>4
<1>4. Mobile(q) \in BOOLEAN /\ Device(q) \in Nat
  <2>1. Device(q) \in {0, 1, 2, 3} BY DEF Device
  <2>2. Mobile(q) \in BOOLEAN BY DEF Mobile
  <2> QED BY <2>1, <2>2
<1> HIDE DEF c
<1>5. Video(c, q) = Video(Blank, q) /\ Video(c, q) \in Kept
  <2>1. Video(c, q) = Video(Blank, q) BY <1>1 DEF Video, Blank
  <2>2. Or(q.id, c.id) \in Text /\ Or(q.itag, c.itag) \in Text BY <1>1, <1>2 DEF Or, Text
  <2>3. Video(c, q) \in Kept BY <1>2, <1>3, <1>4, <2>2 DEF Video, Kept
  <2> QED BY <2>1, <2>3
<1> DEFINE p == [c EXCEPT !.id = n]
<1>6. p \in Kept /\ p.id = n BY <1>1, <1>2 DEF Kept
<1>7. [c EXCEPT !.id = Or(q.id, @)] = p BY <1>1
<1> HIDE DEF p
<1>8. CASE class \in YouTubeVideo
  <2>1. class \notin YouTubeSite BY <1>8 DEF YouTubeVideo, YouTubeSite
  <2>2. y = Video(c, q) BY <1>8, <2>1 DEF Parse
  <2> QED BY <1>5, <2>1, <2>2 DEF c
<1>9. CASE class \in YouTubeSite
  <2>1. class \notin YouTubeVideo BY <1>9 DEF YouTubeVideo, YouTubeSite
  <2>2. y = p BY <1>7, <1>9, <2>1 DEF Parse
  <2> QED BY <1>6, <2>1, <2>2 DEF c, n
<1>10. CASE class \notin YouTubeVideo \cup YouTubeSite
  <2>1. y = c BY <1>10 DEF Parse
  <2> QED BY <1>1, <1>10, <2>1 DEF c
<1> QED BY <1>8, <1>9, <1>10

\* A request sets the variables, and a class is kept with them.
LEMMA LookGoes ==
  ASSUME NEW f \in Conn, NEW s \in Segment, NEW first \in BOOLEAN
  PROVE  LET g == Look(f, s, first) IN
         /\ g \in Conn /\ g.state = f.state /\ g.chat = f.chat /\ SameWeb(f, g) /\ SameOthers(f, g)
         /\ g.type = f.type
         /\ Class(s) \in YouTubeVideo => g.yt = Video(Blank, s.par)
         /\ Class(s) \in YouTubeSite => g.yt.id = Or(s.par.id, "--")
<1> DEFINE y == Parse(Cleared(f.yt, first), Class(s), s.par)
           g == [f EXCEPT !.yt = y]
<1>1. f.yt \in Kept /\ s.par \in Parameters BY DEF Conn, Segment
<1>2. /\ y \in Kept
      /\ Class(s) \in YouTubeVideo => y = Video(Blank, s.par)
      /\ Class(s) \in YouTubeSite => y.id = Or(s.par.id, "--")
  BY <1>1, ParseGoes
<1>3. Look(f, s, first) = g BY DEF Look
<1> HIDE DEF y
<1>4. g \in Conn BY <1>2, ZenonT(60) DEF Conn
<1>5. /\ g.state = f.state /\ g.chat = f.chat /\ SameWeb(f, g) /\ SameOthers(f, g)
      /\ g.type = f.type /\ g.yt = y
  BY DEF Conn, SameOthers, SameWeb, SameSizes, SameRtmp, SamePeer, SameMsgs
<1> HIDE DEF g
<1> QED BY <1>2, <1>3, <1>4, <1>5

\* The class of the request only.
LEMMA WebGoes ==
  ASSUME NEW f \in Conn, NEW class \in ClassesGiven
  PROVE  LET g == [f EXCEPT !.web = class] IN
         /\ g \in Conn /\ SameState(f, g) /\ SameOthers(f, g) /\ g.type = f.type
         /\ g.web = class /\ g.own = f.own /\ g.yt = f.yt
<1> DEFINE g == [f EXCEPT !.web = class]
<1>1. g \in Conn BY ZenonT(60) DEF Conn
<1> QED BY <1>1 DEF Conn, SameOthers, SameState, SameSizes, SameRtmp, SamePeer, SameMsgs

\* The class of the request, and the variables of YouTube with some.
LEMMA KeepGoes ==
  ASSUME NEW f \in Conn, NEW class \in ClassesGiven
  PROVE  LET g == Keep(f, class) IN
         /\ g \in Conn /\ SameState(f, g) /\ SameOthers(f, g) /\ g.type = f.type
         /\ g.web = class /\ (class \in YouTubeVideo \cup YouTubeSite => g.own = f.yt)
<1> DEFINE x == [f EXCEPT !.web = class]
           y == [x EXCEPT !.own = f.yt]
<1>1. /\ x \in Conn /\ SameState(f, x) /\ SameOthers(f, x) /\ x.type = f.type
      /\ x.web = class /\ x.own = f.own /\ x.yt = f.yt
  BY WebGoes
<1>2. Keep(f, class) = IF class \in YouTubeVideo \cup YouTubeSite THEN y ELSE x BY Zenon DEF Keep, Conn
<1>3. f.yt \in Kept BY DEF Conn
<1> HIDE DEF x
<1>4. y \in Conn BY <1>1, <1>3, ZenonT(60) DEF Conn
<1>5. SameState(x, y) /\ SameOthers(x, y) /\ y.type = x.type /\ y.web = x.web /\ y.own = f.yt
  BY <1>1 DEF Conn, SameOthers, SameState, SameSizes, SameRtmp, SamePeer, SameMsgs
<1> HIDE DEF y
<1>6. SameState(f, y) /\ SameOthers(f, y)
  BY <1>1, <1>5 DEF SameOthers, SameState, SameSizes, SameRtmp, SamePeer, SameMsgs
<1>7. CASE class \in YouTubeVideo \cup YouTubeSite BY <1>1, <1>2, <1>4, <1>5, <1>6, <1>7
<1>8. CASE class \notin YouTubeVideo \cup YouTubeSite BY <1>1, <1>2, <1>8
<1> QED BY <1>7, <1>8

\* A first request.
LEMMA FirstRequestTurns ==
  ASSUME NEW f \in Conn, NEW s \in Segment, f.state = "UNKNOWN", s.dir = "c2s", s.cmd \in WebRequests
  PROVE  Turns(f, s, FirstRequest(f, s))
<1> DEFINE x == Look(f, s, TRUE)
           y == [x EXCEPT !.web = Class(s)]
           z == [y EXCEPT !.state = "HTTP_COMMAND"]
           g == FirstRequest(f, s)
<1>1. Class(s) \in ClassesGiven /\ "HTTP_COMMAND" \in States BY DEF Class, ClassesGiven, Segment, States
<1>2. /\ x \in Conn /\ x.state = f.state /\ x.chat = f.chat /\ SameWeb(f, x) /\ SameOthers(f, x)
      /\ x.type = f.type
      /\ Class(s) \in YouTubeVideo => x.yt = Video(Blank, s.par)
      /\ Class(s) \in YouTubeSite => x.yt.id = Or(s.par.id, "--")
  BY LookGoes
<1> HIDE DEF x
<1>3. /\ y \in Conn /\ SameState(x, y) /\ SameOthers(x, y) /\ y.type = x.type
      /\ y.web = Class(s) /\ y.own = x.own /\ y.yt = x.yt
  BY <1>1, <1>2, WebGoes
<1> HIDE DEF y
<1>4. /\ z \in Conn /\ z.state = "HTTP_COMMAND" /\ z.chat = y.chat /\ SameWeb(y, z) /\ SameOthers(y, z)
      /\ z.type = y.type /\ z.yt = y.yt
  BY <1>1, <1>3, StateGoes
<1>5. g = IF s.cmd = "GET" THEN Keep(z, Class(s)) ELSE z
  <2>1. z = [x EXCEPT !.web = Class(s), !.state = "HTTP_COMMAND"] BY DEF z, y
  <2> HIDE DEF z
  <2> QED BY <2>1 DEF FirstRequest, x
<1> HIDE DEF z
<1>6. /\ z.state = "HTTP_COMMAND" /\ z.chat = f.chat /\ z.type = f.type /\ SameOthers(f, z)
      /\ z.web = Class(s) /\ z.own = f.own
      /\ Class(s) \in YouTubeVideo => z.yt = Video(Blank, s.par)
      /\ Class(s) \in YouTubeSite => z.yt.id = Or(s.par.id, "--")
  BY <1>2, <1>3, <1>4 DEF SameState, SameWeb, SameOthers, SameSizes, SameRtmp, SameMsgs, SamePeer
<1>7. /\ g \in Conn /\ g.state = "HTTP_COMMAND" /\ g.chat = f.chat /\ g.type = f.type
      /\ SameOthers(f, g) /\ Asks(f, s, g)
  <2>1. CASE s.cmd = "GET"
    <3> DEFINE k == Keep(z, Class(s))
    <3>1. /\ k \in Conn /\ SameState(z, k) /\ SameOthers(z, k) /\ k.type = z.type /\ k.web = Class(s)
          /\ Class(s) \in YouTubeVideo \cup YouTubeSite => k.own = z.yt
      BY <1>1, <1>4, KeepGoes
    <3>2. g = k BY <1>5, <2>1
    <3> HIDE DEF k, g
    <3> QED
      BY <1>6, <3>1, <3>2
         DEF Asks, SameState, SameOthers, SameSizes, SameRtmp, SameMsgs, SamePeer
  <2>2. CASE s.cmd = "POST"
    <3>1. g = z BY <1>5, <2>2
    <3> HIDE DEF g
    <3> QED BY <1>4, <1>6, <2>2, <3>1 DEF Asks, Posted
  <2> QED BY <2>1, <2>2 DEF WebRequests
<1> HIDE DEF g
<1>8. ChatTurns(f, g) BY <1>7 DEF ChatTurns, Quiet, MsnChats, ChatStates, MsnWaits
<1>9. StateTurns(f, s, g) BY <1>7 DEF StateTurns, Entered
<1>10. FitTurns(f, g) BY <1>7 DEF FitTurns, Fits, Begins, MsnChats, ChatStates, MsnWaits
<1> QED BY <1>7, <1>8, <1>9, <1>10 DEF Turns, TypeTurns, WebTurns, Early, g

\* A later request.
LEMMA WebRequestTurns ==
  ASSUME NEW f \in Conn, NEW s \in Segment, f.state = "HTTP_RESPONSE", s.cmd \in WebRequests
  PROVE  Turns(f, s, WebRequest(f, s))
<1> DEFINE x == Look(f, s, FALSE)
           g == WebRequest(f, s)
           class == IF f.web = "YOUTUBE_204" /\ Class(s) = "YOUTUBE_VIDEO" THEN "YOUTUBE_VIDEO204"
                    ELSE Class(s)
           k == Keep(x, class)
<1>1. class \in ClassesGiven BY DEF Class, ClassesGiven, Segment
<1>2. /\ x \in Conn /\ x.state = f.state /\ x.chat = f.chat /\ SameWeb(f, x) /\ SameOthers(f, x)
      /\ x.type = f.type
      /\ Class(s) \in YouTubeVideo => x.yt = Video(Blank, s.par)
      /\ Class(s) \in YouTubeSite => x.yt.id = Or(s.par.id, "--")
  BY LookGoes
<1>3. g = f \/ g = x \/ (g = k /\ f.web \in Unspecific)
  <2>1. CASE f.web \notin Unspecific BY <2>1 DEF WebRequest, Unspecific
  <2>2. CASE f.web \in Unspecific /\ f.web = "YOUTUBE_204" /\ Class(s) = "YOUTUBE_VIDEO"
    <3>1. class = "YOUTUBE_VIDEO204" BY <2>2
    <3>2. g = Keep(x, "YOUTUBE_VIDEO204") BY <2>2 DEF WebRequest
    <3> QED BY <2>2, <3>1, <3>2
  <2>3. CASE f.web \in Unspecific /\ ~(f.web = "YOUTUBE_204" /\ Class(s) = "YOUTUBE_VIDEO")
    <3>1. class = Class(s) BY <2>3
    <3>2. g = x \/ g = Keep(x, Class(s)) BY <2>3 DEF WebRequest
    <3> QED BY <2>3, <3>1, <3>2
  <2> QED BY <2>1, <2>2, <2>3
<1> HIDE DEF x
<1>4. Turns(f, s, x) BY <1>2 DEF Turns, TypeTurns, StateTurns, ChatTurns, WebTurns, FitTurns
<1>5. ASSUME f.web \in Unspecific PROVE Turns(f, s, k)
  <2>1. class \in YouTubeVideo => Class(s) \in YouTubeVideo BY DEF YouTubeVideo
  <2>2. Class(s) \in YouTubeVideo => class \in YouTubeVideo BY DEF YouTubeVideo
  <2>3. Class(s) \in YouTubeSite => class = Class(s) BY DEF YouTubeSite
  <2>4. class = Class(s) \/ (class = "YOUTUBE_VIDEO204" /\ f.web = "YOUTUBE_204" /\ Class(s) = "YOUTUBE_VIDEO")
    OBVIOUS
  <2> HIDE DEF class
  <2>5. /\ k \in Conn /\ SameState(x, k) /\ SameOthers(x, k) /\ k.type = x.type
        /\ k.web = class /\ (class \in YouTubeVideo \cup YouTubeSite => k.own = x.yt)
    BY <1>1, <1>2, KeepGoes
  <2> HIDE DEF k
  <2>6. Asks(f, s, k) BY <1>2, <1>5, <2>2, <2>3, <2>4, <2>5 DEF Asks
  <2>7. k.state = f.state /\ k.chat = f.chat /\ SameOthers(f, k) /\ k.type = f.type
    BY <1>2, <2>5 DEF SameState, SameOthers, SameSizes, SameRtmp, SameMsgs, SamePeer
  <2> QED BY <2>5, <2>6, <2>7 DEF Turns, TypeTurns, StateTurns, ChatTurns, WebTurns, Early, FitTurns
<1> HIDE DEF k, g
<1> QED BY <1>3, <1>4, <1>5, StayTurns DEF g

\* The first segment that says something.
LEMMA UnknownTurns ==
  ASSUME NEW f \in Conn, NEW s \in Segment, f.state = "UNKNOWN"
  PROVE  Turns(f, s, Unknown(f, s))
<1> DEFINE c == s.cmd
           g == Unknown(f, s)
           hello == s.dir = "c2s" /\ c = "SSL_CLIENT"
<1>0. s.dir \in {"c2s", "s2c"} /\ DOMAIN ClientOpens = {"GET", "POST", "DESCRIBE"}
      /\ DOMAIN ServerOpens = {"SMTP_220", "POP_OK", "IMAP_OK", "SSH"}
      /\ Openings = {"GET", "POST", "DESCRIBE", "SMTP_220", "POP_OK", "IMAP_OK", "SSH",
                     "VER", "USR", "ANS", "IRO", "YMSG", "XMPP_SMELL"}
  <2>1. DOMAIN ClientOpens = {"GET", "POST", "DESCRIBE"} BY DEF ClientOpens
  <2>2. DOMAIN ServerOpens = {"SMTP_220", "POP_OK", "IMAP_OK", "SSH"} BY DEF ServerOpens
  <2> QED BY <2>1, <2>2 DEF Openings, MsnCommands, Segment, Dirs
<1>1. f.state \in Begins BY DEF Begins
<1>2. CASE s.dir = "c2s" /\ c \in WebRequests
  <2>1. g = FirstRequest(f, s) BY <1>0, <1>2 DEF Unknown, WebRequests, MsnCommands
  <2> QED BY <1>2, <2>1, FirstRequestTurns
<1>3. CASE s.dir = "c2s" /\ c = "DESCRIBE"
  <2>1. g = [f EXCEPT !.state = "RTSP_COMMAND"]
    BY <1>0, <1>3 DEF Unknown, WebRequests, MsnCommands, ClientOpens
  <2>2. "RTSP_COMMAND" \in States \cap Begins /\ Entered(f.state, s, "RTSP_COMMAND", f.type)
    BY <1>3 DEF States, Begins, Entered
  <2> QED BY <1>1, <2>1, <2>2, ToState
<1>4. CASE s.dir = "s2c" /\ c \in DOMAIN ServerOpens
  <2> DEFINE t == ServerOpens[c]
  <2>1. g = [f EXCEPT !.state = t] BY <1>0, <1>4 DEF Unknown, MsnCommands
  <2>2. t \in States \cap Begins /\ Entered(f.state, s, t, f.type)
    BY <1>0, <1>4 DEF States, Begins, Entered, ServerOpens
  <2> HIDE DEF t
  <2> QED BY <1>1, <2>1, <2>2, ToState
<1>5. CASE c = "YMSG"
  <2>1. g = Recognised(f, "YMSG", "YMSGP") BY <1>0, <1>5 DEF Unknown, MsnCommands
  <2>2. "YMSG" \in Protocols /\ "YMSGP" \in States /\ Shown(f.state, s, "YMSG")
        /\ Entered(f.state, s, "YMSGP", {"YMSG"}) /\ Follows(f.state, "YMSG", "YMSGP")
    BY <1>1, <1>5 DEF Follows, Protocols, States, ChatStates, Shown, Entered
  <2> QED BY <1>1, <2>1, <2>2, ToProtocol
<1>6. CASE c = "XMPP_SMELL"
  <2>1. g = Recognised(f, "XMPP", "XMPP") BY <1>0, <1>6 DEF Unknown, MsnCommands
  <2>2. "XMPP" \in Protocols /\ "XMPP" \in States /\ Shown(f.state, s, "XMPP")
        /\ Entered(f.state, s, "XMPP", {"XMPP"}) /\ Follows(f.state, "XMPP", "XMPP")
    BY <1>1, <1>6 DEF Follows, Protocols, States, ChatStates, Shown, Entered
  <2> QED BY <1>1, <2>1, <2>2, ToProtocol
<1>7. CASE s.dir = "s2c" /\ c \in MsnCommands
  <2>1. g = MsnServer(f, c, FALSE) BY <1>0, <1>7 DEF Unknown, MsnCommands
  <2> QED BY <1>1, <1>7, <2>1, MsnServerTurns
<1>8. CASE s.dir = "c2s" /\ c \in MsnCommands
  <2>1. g = [f EXCEPT !.state = MsnAsked[c], !.chat = Note(@, "c2s", {c})]
    BY <1>0, <1>8 DEF Unknown, MsnCommands
  <2> DEFINE t == MsnAsked[c]
             n == Note(f.chat, "c2s", {c})
             x == [f EXCEPT !.state = t]
             y == [x EXCEPT !.chat = n]
  <2>2. t \in States /\ t \in MsnWaits \cup MsnChats
    <3>1. t \in {"MSN_VER_C2S", "MSN_USR_C2S", "MSN_ANS_COMMAND", "MSN_IRO_COMMAND"}
      BY <1>8 DEF MsnCommands, MsnAsked
    <3> QED BY <3>1 DEF States, MsnWaits, MsnChats, ChatStates
  <2>3. g = y BY <2>1, Zenon DEF Conn
  <2>4. f.chat \in Chat /\ "c2s" \in Dirs /\ {c} \in SUBSET Noted BY <1>8 DEF Conn, Dirs, MsnCommands, Noted
  <2>5. /\ n \in Chat /\ n.ft = f.chat.ft /\ n.chats = f.chat.chats /\ n.presences = f.chat.presences
        /\ \A e \in Dirs : n.seen[e] = IF e = "c2s" THEN f.chat.seen[e] \cup {c} ELSE f.chat.seen[e]
    <3> DEFINE k == f.chat
               m == {c}
    <3>1. k \in Chat /\ "c2s" \in Dirs /\ m \in SUBSET Noted BY <2>4
    <3>2. n = Note(k, "c2s", m) OBVIOUS
    <3> HIDE DEF n, k, m
    <3>3. /\ n \in Chat /\ n.ft = k.ft /\ n.chats = k.chats /\ n.presences = k.presences
          /\ \A e \in Dirs : n.seen[e] = IF e = "c2s" THEN k.seen[e] \cup m ELSE k.seen[e]
      BY <3>1, <3>2, Noting
    <3> QED BY <3>3 DEF k, m
  <2> HIDE DEF t, n, g
  <2>6. /\ x \in Conn /\ x.state = t /\ x.chat = f.chat /\ SameWeb(f, x) /\ SameOthers(f, x)
        /\ x.type = f.type
    BY <2>2, StateGoes
  <2> HIDE DEF x
  <2>7. /\ y \in Conn /\ y.chat = n /\ y.state = x.state /\ SameWeb(x, y) /\ SameOthers(x, y)
        /\ y.type = x.type
    BY <2>5, <2>6, ChatGoes
  <2> HIDE DEF y
  <2>8. SameWeb(f, y) /\ SameOthers(f, y)
    BY <2>6, <2>7 DEF SameWeb, SameOthers, SameSizes, SameRtmp, SameMsgs, SamePeer
  <2>9. StateTurns(f, s, y) BY <2>2, <2>6, <2>7 DEF StateTurns, Entered, MsnChats, ChatStates, MsnWaits
  <2>10. ChatTurns(f, y)
    <3> SUFFICES ASSUME Quiet(f.state, f.chat) PROVE Quiet(t, n) BY <2>6, <2>7 DEF ChatTurns
    <3>1. n \in Chat /\ n.ft \in {"UNKNOWN", "MSN_TUNNEL"} /\ Online(n) BY <2>5 DEF Quiet, Online, Drifted
    <3>2. Yahoo(n)
      <4> SUFFICES ASSUME NEW e \in Dirs, "MSG_Y" \in n.seen[e] PROVE "MSG" \in n.seen[e] BY DEF Yahoo
      <4>1. c # "MSG_Y" BY <1>8 DEF MsnCommands
      <4>2. "MSG_Y" \in f.chat.seen[e] /\ f.chat.seen[e] \subseteq n.seen[e] BY <2>5, <4>1
      <4> QED BY <4>2 DEF Quiet, Yahoo
    <3> QED BY <2>2, <3>1, <3>2 DEF Quiet
  <2>11. FitTurns(f, y) BY <1>1, <2>2, <2>6, <2>7 DEF FitTurns, Fits, Begins, MsnChats, ChatStates, MsnWaits
  <2> QED BY <2>3, <2>6, <2>7, <2>8, <2>9, <2>10, <2>11 DEF Turns, TypeTurns, WebTurns, g
<1>9. CASE hello
  <2>1. g = [f EXCEPT !.state = "SSL_HANDSHAKE"] BY <1>0, <1>9 DEF Unknown, MsnCommands
  <2>2. "SSL_HANDSHAKE" \in States \cap Begins /\ Entered(f.state, s, "SSL_HANDSHAKE", f.type)
    BY <1>9 DEF States, Begins, Entered
  <2> QED BY <1>1, <2>1, <2>2, ToState
<1>10. CASE c \notin Openings /\ ~hello
  <2>1. g = Limit(f, MaxUnknown) BY <1>0, <1>10 DEF Unknown, MsnCommands
  <2> QED BY <2>1, StayTurns, LimitTurns
<1>11. CASE \/ s.dir = "s2c" /\ c \in DOMAIN ClientOpens
            \/ s.dir = "c2s" /\ c \in DOMAIN ServerOpens
  <2>1. g = f BY <1>0, <1>11 DEF Unknown, MsnCommands
  <2> QED BY <2>1, StayTurns
<1> QED BY <1>0, <1>2, <1>3, <1>4, <1>5, <1>6, <1>7, <1>8, <1>9, <1>10, <1>11 DEF WebRequests, MsnCommands

\* One side opened, the other must answer.
LEMMA WaitTurns ==
  ASSUME NEW f \in Conn, NEW s \in Segment, f.state \in DOMAIN Waits
  PROVE  Turns(f, s, Wait(f, s))
<1> DEFINE w == Waits[f.state]
           g == Wait(f, s)
<1>1. f.state \in {"SMTP_OPENING", "POP3_OPENING", "IMAP_COMMAND", "SSH_SERVER"} BY DEF Waits
<1>2. "IGNORE" \in States /\ \A p : Follows(f.state, p, "IGNORE") BY <1>1 DEF Follows, Begins, States
<1>3. w[3] \in Protocols /\ Entered(f.state, s, "IGNORE", {w[3]})
      /\ (s.dir = w[1] /\ s.cmd \in w[2] => Shown(f.state, s, w[3]))
  <2>1. CASE f.state = "SMTP_OPENING"
    <3>1. w = <<"c2s", {"HELO"}, "SMTP">> BY <2>1 DEF Waits
    <3> QED BY <2>1, <3>1 DEF Protocols, Entered, Shown
  <2>2. CASE f.state = "POP3_OPENING"
    <3>1. w = <<"c2s", {"USER"}, "POP3">> BY <2>2 DEF Waits
    <3> QED BY <2>2, <3>1 DEF Protocols, Entered, Shown
  <2>3. CASE f.state = "IMAP_COMMAND"
    <3>1. w = <<"s2c", {"TAG", "STAR"}, "IMAP">> BY <2>3 DEF Waits
    <3> QED BY <2>3, <3>1 DEF Protocols, Entered, Shown
  <2>4. CASE f.state = "SSH_SERVER"
    <3>1. w = <<"c2s", {"SSH"}, "SSH">> BY <2>4 DEF Waits
    <3> QED BY <2>4, <3>1 DEF Protocols, Entered, Shown
  <2> QED BY <1>1, <2>1, <2>2, <2>3, <2>4
<1>4. g = CASE s.dir # w[1] -> f
            [] s.dir = w[1] /\ s.cmd \in w[2] -> Recognised(f, w[3], "IGNORE")
            [] OTHER -> Limit(f, MaxCommand)
  BY DEF Wait
<1> HIDE DEF w, g
<1>5. CASE s.dir # w[1]
  <2>1. g = f BY <1>4, <1>5
  <2> QED BY <2>1, StayTurns DEF g
<1>6. CASE s.dir = w[1] /\ s.cmd \in w[2]
  <2>1. g = Recognised(f, w[3], "IGNORE") BY <1>4, <1>6
  <2>2. Turns(f, s, Recognised(f, w[3], "IGNORE"))
    <3> DEFINE p == w[3]
    <3>1. p \in Protocols /\ Entered(f.state, s, "IGNORE", {p}) /\ Shown(f.state, s, p) BY <1>3, <1>6
    <3> HIDE DEF p
    <3>2. Turns(f, s, Recognised(f, p, "IGNORE")) BY <1>2, <3>1, ToProtocol
    <3> QED BY <3>2 DEF p
  <2> QED BY <2>1, <2>2 DEF g
<1>7. CASE s.dir = w[1] /\ s.cmd \notin w[2]
  <2>1. g = Limit(f, MaxCommand) BY <1>4, <1>7
  <2> QED BY <2>1, StayTurns, LimitTurns DEF g
<1> QED BY <1>5, <1>6, <1>7

\* The opening of an IMAP server.
LEMMA ImapOpeningTurns ==
  ASSUME NEW f \in Conn, NEW s \in Segment, f.state = "IMAP_OPENING"
  PROVE  Turns(f, s, ImapOpening(f, s))
<1> DEFINE g == ImapOpening(f, s)
<1>1. s.dir \in {"c2s", "s2c"} BY DEF Segment, Dirs
<1>2. CASE s.dir = "s2c"
  <2>1. g = f BY <1>2 DEF ImapOpening
  <2> QED BY <2>1, StayTurns
<1>3. CASE s.dir = "c2s" /\ s.cmd = "TAG"
  <2>1. g = [f EXCEPT !.state = "IMAP_COMMAND"] BY <1>3 DEF ImapOpening
  <2>2. "IMAP_COMMAND" \in States /\ Entered(f.state, s, "IMAP_COMMAND", f.type)
        /\ {f.state, "IMAP_COMMAND"} \subseteq Begins
    BY <1>3 DEF States, Entered, Begins
  <2> QED BY <2>1, <2>2, ToState
<1>4. CASE s.dir = "c2s" /\ s.cmd # "TAG"
  <2>1. g = Limit(f, MaxCommand) BY <1>4 DEF ImapOpening
  <2> QED BY <2>1, StayTurns, LimitTurns
<1> QED BY <1>1, <1>2, <1>3, <1>4

\* The web: an answer to a request, and what follows it.
LEMMA HttpCommandTurns ==
  ASSUME NEW f \in Conn, NEW s \in Segment, f.state = "HTTP_COMMAND"
  PROVE  Turns(f, s, HttpCommand(f, s))
<1> DEFINE x == CASE s.cmd = "HTTP" -> Recognised(f, "HTTP", "HTTP_RESPONSE")
                  [] s.cmd = "ICY" -> Recognised(f, "ICY", "IGNORE")
                  [] s.cmd \in MsnCommands -> MsnServer(f, s.cmd, TRUE)
                  [] OTHER -> f
<1>1. s.dir \in {"c2s", "s2c"} /\ f.state \in Begins /\ Follows(f.state, "HTTP", "HTTP_RESPONSE")
      /\ Follows(f.state, "ICY", "IGNORE")
  BY DEF Segment, Dirs, Follows, Begins
<1>2. ASSUME s.dir = "s2c" PROVE Turns(f, s, x)
  <2>1. CASE s.cmd = "HTTP"
    <3>1. x = Recognised(f, "HTTP", "HTTP_RESPONSE") BY <2>1 DEF MsnCommands
    <3>2. "HTTP" \in Protocols /\ "HTTP_RESPONSE" \in States /\ Shown(f.state, s, "HTTP")
          /\ Entered(f.state, s, "HTTP_RESPONSE", {"HTTP"})
      BY <1>2, <2>1 DEF Protocols, States, Shown, Entered
    <3> QED BY <1>1, <3>1, <3>2, ToProtocol
  <2>2. CASE s.cmd = "ICY"
    <3>1. x = Recognised(f, "ICY", "IGNORE") BY <2>2 DEF MsnCommands
    <3>2. "ICY" \in Protocols /\ "IGNORE" \in States /\ Shown(f.state, s, "ICY")
          /\ Entered(f.state, s, "IGNORE", {"ICY"})
      BY <1>2, <2>2 DEF Protocols, States, Shown, Entered
    <3> QED BY <1>1, <3>1, <3>2, ToProtocol
  <2>3. CASE s.cmd \in MsnCommands
    <3>1. x = MsnServer(f, s.cmd, TRUE) BY <2>3 DEF MsnCommands
    <3> QED BY <1>1, <1>2, <2>3, <3>1, MsnServerTurns
  <2>4. CASE s.cmd \notin MsnCommands \cup {"HTTP", "ICY"}
    <3>1. x = f BY <2>4
    <3> QED BY <3>1, StayTurns
  <2> QED BY <2>1, <2>2, <2>3, <2>4
<1>3. HttpCommand(f, s) = IF s.dir = "c2s" THEN f ELSE Limit(x, MaxCommand) BY DEF HttpCommand
<1> HIDE DEF x
<1> QED BY <1>1, <1>2, <1>3, StayTurns, LimitTurns

\* A connection with an answer in HTTP.
LEMMA HttpResponseTurns ==
  ASSUME NEW f \in Conn, NEW s \in Segment, f.state = "HTTP_RESPONSE"
  PROVE  Turns(f, s, HttpResponse(f, s))
<1> DEFINE b == HttpBody(f, s)
           x == CASE s.dir = "s2c" -> b
                  [] s.dir = "c2s" /\ s.cmd \in WebRequests -> WebRequest(f, s)
                  [] OTHER -> f
<1>1. s.dir \in {"c2s", "s2c"} /\ Follows(f.state, "RTSP", "RTSP_RESPONSE") /\ s.rtsp \in BOOLEAN
  BY DEF Segment, Dirs, Follows
<1>2. ASSUME s.dir = "s2c" PROVE Turns(f, s, b)
  <2>1. CASE s.cmd \in MsnCommands
    <3>1. b = MsnServer(f, s.cmd, TRUE) BY <2>1 DEF HttpBody, MsnCommands
    <3> QED BY <1>2, <2>1, <3>1, MsnServerTurns
  <2>2. CASE s.cmd = "FLV"
    <3> DEFINE v == [f EXCEPT !.web = "VIDEO_CONTENT"]
    <3>1. b = IF f.web = "GET" THEN v ELSE f BY <2>2 DEF HttpBody, MsnCommands
    <3>2. /\ v \in Conn /\ SameState(f, v) /\ SameOthers(f, v) /\ v.type = f.type
          /\ v.web = "VIDEO_CONTENT" /\ v.own = f.own
      BY WebGoes DEF ClassesGiven
    <3> HIDE DEF v, b
    <3>3. f.web = "GET" => Turns(f, s, v)
      BY <3>2 DEF Turns, TypeTurns, StateTurns, ChatTurns, WebTurns, FitTurns, SameState
    <3> QED BY <3>1, <3>3, StayTurns
  <2>3. CASE s.cmd \notin MsnCommands \cup {"FLV"} /\ s.rtsp
    <3>1. b = Recognised(f, "RTSP", "RTSP_RESPONSE") BY <2>3 DEF HttpBody
    <3>2. "RTSP" \in Protocols /\ "RTSP_RESPONSE" \in States /\ Shown(f.state, s, "RTSP")
          /\ Entered(f.state, s, "RTSP_RESPONSE", {"RTSP"})
      BY <1>2, <2>3 DEF Protocols, States, Shown, Entered
    <3> QED BY <1>1, <3>1, <3>2, ToProtocol
  <2>4. CASE s.cmd \notin MsnCommands \cup {"FLV"} /\ ~s.rtsp
    <3>1. b = f BY <2>4 DEF HttpBody
    <3> QED BY <3>1, StayTurns
  <2> QED BY <1>1, <2>1, <2>2, <2>3, <2>4
<1>3. Turns(f, s, x)
  <2>1. CASE s.dir = "s2c"
    <3>1. x = b BY <2>1
    <3> HIDE DEF x, b
    <3> QED BY <1>2, <2>1, <3>1
  <2>2. CASE s.dir = "c2s" /\ s.cmd \in WebRequests
    <3>1. x = WebRequest(f, s) BY <2>2
    <3> QED BY <2>2, <3>1, WebRequestTurns
  <2>3. CASE s.dir = "c2s" /\ s.cmd \notin WebRequests
    <3>1. x = f BY <2>3
    <3> QED BY <3>1, StayTurns
  <2> QED BY <1>1, <2>1, <2>2, <2>3
<1>4. HttpResponse(f, s) = Limit(x, MaxResponse) BY DEF HttpResponse
<1> HIDE DEF x
<1> QED BY <1>3, <1>4, LimitTurns

\* RTSP, and what may be streamed with it.
LEMMA RtspTurns ==
  ASSUME NEW f \in Conn, NEW s \in Segment
  PROVE  /\ f.state = "RTSP_COMMAND" => Turns(f, s, RtspCommand(f, s))
         /\ f.state = "RTSP_RESPONSE" => Turns(f, s, RtspResponse(f, s))
<1>0. s.dir \in {"c2s", "s2c"} BY DEF Segment, Dirs
<1>1. ASSUME f.state = "RTSP_COMMAND" PROVE Turns(f, s, RtspCommand(f, s))
  <2> DEFINE x == Recognised(f, "RTSP", "RTSP_RESPONSE")
  <2>1. RtspCommand(f, s) = IF s.dir = "c2s" THEN f ELSE Limit(IF s.cmd = "RTSP" THEN x ELSE f, MaxCommand)
    BY DEF RtspCommand
  <2>2. Follows(f.state, "RTSP", "RTSP_RESPONSE") BY <1>1 DEF Follows, Begins
  <2>3. ASSUME s.dir = "s2c", s.cmd = "RTSP" PROVE Turns(f, s, x)
    <3>1. "RTSP" \in Protocols /\ "RTSP_RESPONSE" \in States /\ Shown(f.state, s, "RTSP")
          /\ Entered(f.state, s, "RTSP_RESPONSE", {"RTSP"})
      BY <1>1, <2>3 DEF Protocols, States, Shown, Entered
    <3> QED BY <2>2, <3>1, ToProtocol
  <2> HIDE DEF x
  <2> QED BY <1>0, <2>1, <2>3, StayTurns, LimitTurns
<1>2. ASSUME f.state = "RTSP_RESPONSE" PROVE Turns(f, s, RtspResponse(f, s))
  <2> DEFINE x == Recognised(f, "RTP", "IGNORE")
             y == IF s.dir = "s2c" /\ s.cmd = "RTP" THEN x ELSE f
  <2>1. RtspResponse(f, s) = Limit(y, MaxResponse) BY DEF RtspResponse
  <2>2. Follows(f.state, "RTP", "IGNORE") BY <1>2 DEF Follows
  <2>3. ASSUME s.dir = "s2c", s.cmd = "RTP" PROVE Turns(f, s, x)
    <3>1. "RTP" \in Protocols /\ "IGNORE" \in States /\ Shown(f.state, s, "RTP")
          /\ Entered(f.state, s, "IGNORE", {"RTP"})
      BY <1>2, <2>3 DEF Protocols, States, Shown, Entered
    <3> QED BY <2>2, <3>1, ToProtocol
  <2> HIDE DEF x
  <2>4. Turns(f, s, y) BY <2>3, StayTurns
  <2> HIDE DEF y
  <2> QED BY <2>1, <2>4, LimitTurns
<1> QED BY <1>1, <1>2

\* MSN waits for its server; TLS for the server, or for a packet too many.
LEMMA ServerTurns ==
  ASSUME NEW f \in Conn, NEW s \in Segment
  PROVE  /\ f.state \in MsnWaits => Turns(f, s, MsnWait(f, s))
         /\ f.state = "SSL_HANDSHAKE" => Turns(f, s, SslHandshake(f, s))
         /\ f.state = "SSL_SERVER" => Turns(f, s, SslServer(f, s))
<1>1. ASSUME f.state \in MsnWaits PROVE Turns(f, s, MsnWait(f, s))
  <2>1. CASE s.dir = "s2c" /\ s.cmd \in MsnCommands
    <3>1. MsnWait(f, s) = MsnServer(f, s.cmd, FALSE) BY <2>1 DEF MsnWait
    <3> QED BY <1>1, <2>1, <3>1, MsnServerTurns
  <2>2. CASE ~(s.dir = "s2c" /\ s.cmd \in MsnCommands)
    <3>1. MsnWait(f, s) = f BY <2>2 DEF MsnWait
    <3> QED BY <3>1, StayTurns
  <2> QED BY <2>1, <2>2
<1>2. ASSUME f.state = "SSL_HANDSHAKE" PROVE Turns(f, s, SslHandshake(f, s))
  <2> DEFINE t == IF s.name THEN "IGNORE" ELSE "SSL_SERVER"
             x == Recognised(f, "SSL", t)
             y == [f EXCEPT !.state = "UNKNOWN"]
  <2>0. {f.state, "UNKNOWN"} \subseteq Begins /\ Follows(f.state, "SSL", t) BY <1>2 DEF Begins, Follows
  <2>1. SslHandshake(f, s) = IF s.dir = "s2c" /\ s.cmd = "SSL_SERVER" THEN x
                             ELSE IF f.packets > MaxSsl THEN y ELSE f
    BY DEF SslHandshake
  <2>2. ASSUME s.dir = "s2c", s.cmd = "SSL_SERVER" PROVE Turns(f, s, x)
    <3>1. "SSL" \in Protocols /\ t \in States /\ Shown(f.state, s, "SSL")
          /\ Entered(f.state, s, t, {"SSL"})
      BY <1>2, <2>2 DEF Protocols, States, Shown, Entered
    <3> HIDE DEF t
    <3> QED BY <2>0, <3>1, ToProtocol
  <2>3. Turns(f, s, y)
    <3>1. "UNKNOWN" \in States /\ Entered(f.state, s, "UNKNOWN", f.type) BY <1>2 DEF States, Entered
    <3> QED BY <2>0, <3>1, ToState
  <2> HIDE DEF x, y
  <2> QED BY <2>1, <2>2, <2>3, StayTurns
<1>3. Turns(f, s, SslServer(f, s))
  <2>1. "IGNORE" \in States BY DEF States
  <2>2. Turns(f, s, [f EXCEPT !.state = "IGNORE"]) BY <2>1, ToState
  <2>3. SslServer(f, s) = f \/ SslServer(f, s) = [f EXCEPT !.state = "IGNORE"] BY DEF SslServer
  <2> QED BY <2>2, <2>3, StayTurns
<1> QED BY <1>1, <1>2, <1>3

\* Every step of a connection that is not in a chat.
LEMMA StepTurns ==
  ASSUME NEW f \in Conn, NEW s \in Segment, f.state \notin ChatStates \cup {"IGNORE"}
  PROVE  Turns(f, s, Step(f, s))
<1> DEFINE g == Step(f, s)
<1>1. DOMAIN Waits = {"SMTP_OPENING", "POP3_OPENING", "IMAP_COMMAND", "SSH_SERVER"} BY DEF Waits
<1>2. f.state \in {"UNKNOWN", "RTSP_COMMAND", "RTSP_RESPONSE", "HTTP_COMMAND", "HTTP_RESPONSE",
                   "IMAP_OPENING", "SSL_HANDSHAKE", "SSL_SERVER"} \cup MsnWaits \cup DOMAIN Waits
  BY <1>1 DEF Conn, States
<1>3. CASE f.state = "UNKNOWN"
  <2>1. g = Unknown(f, s) BY <1>1, <1>3 DEF Step, MsnWaits
  <2> QED BY <1>3, <2>1, UnknownTurns
<1>4. CASE f.state \in DOMAIN Waits
  <2>1. g = Wait(f, s) BY <1>1, <1>4 DEF Step, MsnWaits
  <2> QED BY <1>4, <2>1, WaitTurns
<1>5. CASE f.state = "IMAP_OPENING"
  <2>1. g = ImapOpening(f, s) BY <1>1, <1>5 DEF Step, MsnWaits
  <2> QED BY <1>5, <2>1, ImapOpeningTurns
<1>6. CASE f.state = "HTTP_COMMAND"
  <2>1. g = HttpCommand(f, s) BY <1>1, <1>6 DEF Step, MsnWaits
  <2> QED BY <1>6, <2>1, HttpCommandTurns
<1>7. CASE f.state = "HTTP_RESPONSE"
  <2>1. g = HttpResponse(f, s) BY <1>1, <1>7 DEF Step, MsnWaits
  <2> QED BY <1>7, <2>1, HttpResponseTurns
<1>8. CASE f.state = "RTSP_COMMAND"
  <2>1. g = RtspCommand(f, s) BY <1>1, <1>8 DEF Step, MsnWaits
  <2> QED BY <1>8, <2>1, RtspTurns
<1>9. CASE f.state = "RTSP_RESPONSE"
  <2>1. g = RtspResponse(f, s) BY <1>1, <1>9 DEF Step, MsnWaits
  <2> QED BY <1>9, <2>1, RtspTurns
<1>10. CASE f.state \in MsnWaits
  <2>1. g = MsnWait(f, s) BY <1>1, <1>10 DEF Step, MsnWaits
  <2> QED BY <1>10, <2>1, ServerTurns
<1>11. CASE f.state = "SSL_HANDSHAKE"
  <2>1. g = SslHandshake(f, s) BY <1>1, <1>11 DEF Step, MsnWaits
  <2> QED BY <1>11, <2>1, ServerTurns
<1>12. CASE f.state = "SSL_SERVER"
  <2>1. g = SslServer(f, s) BY <1>1, <1>12 DEF Step, MsnWaits
  <2> QED BY <1>12, <2>1, ServerTurns
<1> QED BY <1>2, <1>3, <1>4, <1>5, <1>6, <1>7, <1>8, <1>9, <1>10, <1>11, <1>12

------------------------------
\* A packet.  What the classifiers of sizes make of a segment.
Guesses(f, s, g) ==
    /\ g \in Conn /\ SameState(f, g) /\ SameWeb(f, g) /\ SamePeer(f, g) /\ SameMsgs(f, g)
    /\ \A k \in g.sizes : Notes(f.sizes, s, k)
    /\ f.rtmpSeen \subseteq g.rtmpSeen /\ f.rtmpHand \subseteq g.rtmpHand
    /\ \A e \in g.rtmpHand : e \in f.rtmpHand \/ (e = s.dir /\ s.rtmp /\ FirstOf(f, s))
    /\ FirstOf(f, s) => s.dir \in g.rtmpSeen
    /\ f.type \subseteq g.type /\ FitTurns(f, g)
    /\ \A x \in g.type :
          \/ x \in f.type
          \/ x = "OBF" /\ s.psh /\ Answers(f.sizes, s.len)
          \/ x = "RTMP" /\ g.rtmpHand = Dirs
          \/ x = "MSE" /\ Spoken(f, 0)

\* The three classifiers, one after the other.
LEMMA GuessesMade ==
  ASSUME NEW f \in Conn, NEW s \in Segment, NEW high \in BOOLEAN
  PROVE  Guesses(f, s, Mse(Rtmp(Ed2k(Nibbles(f, high), s), s)))
<1> DEFINE n == Nibbles(f, high)
           e == Ed2k(n, s)
           r == Rtmp(e, s)
           g == Mse(r)
<1>1. n \in Conn /\ SameRest(f, n) /\ SameMsgs(f, n) /\ n.type = f.type BY NibblesGoes
<1> HIDE DEF n
<1>2. /\ e \in Conn /\ SameState(n, e) /\ SameWeb(n, e) /\ SameRtmp(n, e) /\ SamePeer(n, e)
      /\ SameMsgs(n, e)
      /\ \A k \in e.sizes : Notes(n.sizes, s, k)
      /\ \/ e.type = n.type
         \/ e.type = n.type \cup {"OBF"} /\ s.psh /\ Answers(n.sizes, s.len)
  BY <1>1, Ed2kGoes
<1> HIDE DEF e
<1>3. /\ r \in Conn /\ SameState(e, r) /\ SameWeb(e, r) /\ SameSizes(e, r) /\ SamePeer(e, r)
      /\ SameMsgs(e, r)
      /\ e.rtmpSeen \subseteq r.rtmpSeen /\ e.rtmpHand \subseteq r.rtmpHand
      /\ \A d \in r.rtmpHand : d \in e.rtmpHand \/ (d = s.dir /\ s.rtmp /\ FirstOf(e, s))
      /\ FirstOf(e, s) => s.dir \in r.rtmpSeen
      /\ r.type = e.type \/ (r.type = e.type \cup {"RTMP"} /\ r.rtmpHand = Dirs)
  BY <1>2, RtmpGoes
<1> HIDE DEF r
<1>4. /\ g \in Conn /\ SameRest(r, g) /\ SameMsgs(r, g)
      /\ g.type = r.type \/ (r.type = {} /\ g.type = {"MSE"} /\ Spoken(r, 0))
  BY <1>3, MseGoes
<1> HIDE DEF g
<1>5. SameState(f, g) /\ SameWeb(f, g) /\ SamePeer(f, g) /\ SameMsgs(f, g)
  BY <1>1, <1>2, <1>3, <1>4 DEF SameRest, SameState, SameWeb, SamePeer, SameMsgs
<1>6. n.sizes = f.sizes /\ g.sizes = r.sizes /\ r.sizes = e.sizes
      /\ e.rtmpSeen = f.rtmpSeen /\ e.rtmpHand = f.rtmpHand
      /\ g.rtmpSeen = r.rtmpSeen /\ g.rtmpHand = r.rtmpHand
      /\ r.msgs = f.msgs /\ e.seq = f.seq
  BY <1>1, <1>2, <1>3, <1>4 DEF SameRest, SameSizes, SameRtmp, SameMsgs
<1>7. \A k \in g.sizes : Notes(f.sizes, s, k) BY <1>2, <1>6
<1>8. FirstOf(e, s) <=> FirstOf(f, s) BY <1>6 DEF FirstOf
<1>9. Spoken(r, 0) <=> Spoken(f, 0) BY <1>6 DEF Spoken
<1>10. f.type \subseteq g.type BY <1>1, <1>2, <1>3, <1>4
<1>11. ASSUME NEW x \in g.type
       PROVE  \/ x \in f.type
              \/ x = "OBF" /\ s.psh /\ Answers(f.sizes, s.len)
              \/ x = "RTMP" /\ g.rtmpHand = Dirs
              \/ x = "MSE" /\ Spoken(f, 0)
  <2>1. x \in r.type \/ (x = "MSE" /\ Spoken(f, 0)) BY <1>4, <1>9
  <2>2. x \in r.type => x \in e.type \/ (x = "RTMP" /\ g.rtmpHand = Dirs) BY <1>3, <1>6
  <2>3. x \in e.type => x \in f.type \/ (x = "OBF" /\ s.psh /\ Answers(f.sizes, s.len)) BY <1>1, <1>2, <1>6
  <2> QED BY <2>1, <2>2, <2>3
<1> HIDE DEF n
<1>12. /\ f.rtmpSeen \subseteq g.rtmpSeen /\ f.rtmpHand \subseteq g.rtmpHand
       /\ \A d \in g.rtmpHand : d \in f.rtmpHand \/ (d = s.dir /\ s.rtmp /\ FirstOf(f, s))
       /\ FirstOf(f, s) => s.dir \in g.rtmpSeen
  BY <1>3, <1>6, <1>8
<1>13. FitTurns(f, g)
  <2>1. g.state = f.state /\ g.type \subseteq f.type \cup {"OBF", "RTMP", "MSE"}
        /\ ("MSE" \in g.type => "MSE" \in f.type \/ g.type = {"MSE"})
    BY <1>1, <1>2, <1>3, <1>4, <1>5 DEF SameState
  <2>2. g.type \cap Protocols = f.type \cap Protocols BY <1>10, <2>1 DEF Protocols
  <2>3. {"OBF", "RTMP", "MSE"} = Weak \cup {"RTMP"} BY DEF Weak
  <2> QED BY <2>1, <2>2, <2>3, FitsOn DEF FitTurns
<1>14. Guesses(f, s, g) BY <1>4, <1>5, <1>7, <1>10, <1>11, <1>12, <1>13 DEF Guesses
<1> QED BY <1>14 DEF g, r, e, n

\* A message of a chat.
LEMMA ChatStateGoes ==
  ASSUME NEW f \in Conn, NEW s \in Segment, f.state \in ChatStates, Session(f.state, f.chat)
  PROVE  LET g == ChatState(f, s) IN
         /\ g \in Conn /\ g.state = f.state /\ Session(g.state, g.chat) /\ SameWeb(f, g)
         /\ SameOthers(f, g) /\ g.type = f.type
<1> DEFINE c == Talked(f.state, f.chat, s.dir, s.cmd)
           g == [f EXCEPT !.chat = c]
<1>1. Session(f.state, c)
  <2>1. s.dir \in Dirs BY DEF Segment
  <2> QED BY <2>1, SessionKept
<1>2. c \in Chat BY <1>1 DEF Session
<1>3. ChatState(f, s) = g BY DEF ChatState, Talked
<1> HIDE DEF c
<1>4. /\ g \in Conn /\ g.chat = c /\ g.state = f.state /\ SameWeb(f, g) /\ SameOthers(f, g)
      /\ g.type = f.type
  BY <1>2, ChatGoes
<1> HIDE DEF g
<1> QED BY <1>1, <1>3, <1>4

\* A session before the chat is a session.
LEMMA QuietSession ==
  ASSUME NEW state, NEW c
  PROVE  /\ Quiet(state, c) => Session(state, c)
         /\ state \notin ChatStates /\ Session(state, c) => Quiet(state, c)
<1>1. ASSUME Quiet(state, c) PROVE Session(state, c)
  <2>1. Speaks(state, c) BY <1>1 DEF Quiet, Speaks, MsnTypes, MsnChats, ChatStates, MsnWaits
  <2> QED BY <1>1, <2>1 DEF Quiet, Session
<1>2. ASSUME state \notin ChatStates, Session(state, c) PROVE Quiet(state, c)
  BY <1>2 DEF Quiet, Session, Speaks, MsnChats
<1> QED BY <1>1, <1>2

\* Layer 7.
Layer7(f, s, g) ==
    \/ f.state = "IGNORE" /\ g \in Conn /\ SameRest(f, g) /\ SameMsgs(f, g) /\ g.type = f.type
    \/ \E m \in Conn :
          /\ Guesses(f, s, m)
          /\ \/ /\ f.state \in ChatStates /\ g \in Conn /\ g.state = m.state /\ SameWeb(m, g)
                /\ SameOthers(m, g) /\ g.type = m.type
             \/ f.state \notin ChatStates \cup {"IGNORE"} /\ Turns(m, s, g)

\* Layer 7 keeps the record and the session.
LEMMA Layer7Goes ==
  ASSUME NEW f \in Conn, NEW s \in Segment, NEW high \in BOOLEAN, Session(f.state, f.chat)
  PROVE  LET g == TcpL7(f, s, high) IN
         g \in Conn /\ Session(g.state, g.chat) /\ Layer7(f, s, g)
<1> DEFINE n == Nibbles(f, high)
           m == Mse(Rtmp(Ed2k(n, s), s))
           h == Step(m, s)
           c == ChatState(m, s)
           g == TcpL7(f, s, high)
<1> SUFFICES g \in Conn /\ Session(g.state, g.chat) /\ Layer7(f, s, g) OBVIOUS
<1>1. g = CASE f.state = "IGNORE" -> n
            [] f.state \in ChatStates -> c
            [] OTHER -> Limit(h, MaxCon)
  BY DEF TcpL7
<1>2. n \in Conn /\ SameRest(f, n) /\ SameMsgs(f, n) /\ n.type = f.type BY NibblesGoes
<1>3. Guesses(f, s, m) BY GuessesMade
<1> HIDE DEF n, m
<1>4. m \in Conn /\ m.state = f.state /\ m.chat = f.chat BY <1>3 DEF Guesses, SameState
<1>5. CASE f.state = "IGNORE"
  <2>1. g = n BY <1>1, <1>5 DEF ChatStates
  <2> HIDE DEF g
  <2> QED BY <1>2, <1>5, <2>1 DEF Layer7, SameRest, SameState
<1>6. CASE f.state \in ChatStates
  <2>1. g = c BY <1>1, <1>6 DEF ChatStates
  <2> HIDE DEF g
  <2>2. /\ c \in Conn /\ c.state = m.state /\ Session(c.state, c.chat) /\ SameWeb(m, c)
        /\ SameOthers(m, c) /\ c.type = m.type
    BY <1>4, <1>6, ChatStateGoes
  <2> HIDE DEF c
  <2> QED BY <1>3, <1>4, <1>6, <2>1, <2>2 DEF Layer7
<1>7. CASE f.state \notin ChatStates \cup {"IGNORE"}
  <2>1. g = Limit(h, MaxCon) BY <1>1, <1>7
  <2> HIDE DEF g
  <2>2. Turns(m, s, h) BY <1>4, <1>7, StepTurns
  <2> HIDE DEF h
  <2>3. Turns(m, s, g) BY <1>4, <2>1, <2>2, LimitTurns
  <2>4. Session(g.state, g.chat) BY <1>4, <1>7, <2>3, QuietSession DEF Turns, ChatTurns
  <2> QED BY <1>3, <1>4, <1>7, <2>3, <2>4 DEF Layer7, Turns
<1> QED BY <1>5, <1>6, <1>7

\* The whole of a packet: it arrives (b), is looked at for peer to peer
\* (c), goes through layer 7 (l) and the label is asked for.
Arrived(f, s, again, b) ==
    /\ SameRest(f, b) /\ b.type = f.type
    /\ \A e \in Dirs : b.seq[e] = IF e = s.dir /\ ~again THEN s.off + s.len ELSE f.seq[e]
    /\ \A e \in Dirs : Len(b.msgs[e]) > 0 => Len(f.msgs[e]) > 0 \/ (e = s.dir /\ s.psh)
Labelled(l, g) ==
    /\ SameRest(l, g) /\ SameMsgs(l, g) /\ g.type \in {l.type, l.type \ {"RTMP"}}
Passes(f, s, again, g) ==
    \E b, c, l \in Conn :
        Arrived(f, s, again, b) /\ Peered(b, s, c) /\ Layer7(c, s, l) /\ Labelled(l, g)

\* A packet goes that way.
LEMMA PacketGoes ==
  ASSUME NEW f \in Conn, NEW s \in Segment, NEW again \in BOOLEAN, NEW bare \in Nat,
         NEW high \in BOOLEAN, Session(f.state, f.chat)
  PROVE  LET g == Asked(Analysed(Message(Arrives(f, s, again, bare), s), s, high)) IN
         g \in Conn /\ Session(g.state, g.chat) /\ Passes(f, s, again, g)
<1> DEFINE a == Arrives(f, s, again, bare)
           b == Message(a, s)
           c == P2pFlowStat(b, s)
           l == TcpL7(c, s, high)
           v == VideoFlowStat(l, s)
           g == Asked(v)
<1> SUFFICES g \in Conn /\ Session(g.state, g.chat) /\ Passes(f, s, again, g) BY DEF Analysed
<1>1. /\ a \in Conn /\ SameState(f, a) /\ SameWeb(f, a) /\ SameSizes(f, a) /\ SameRtmp(f, a)
      /\ SamePeer(f, a) /\ a.type = f.type /\ a.msgs = f.msgs
      /\ \A e \in Dirs : a.seq[e] = IF e = s.dir /\ ~again THEN s.off + s.len ELSE f.seq[e]
  BY ArrivesGoes
<1> HIDE DEF a
<1>2. /\ b \in Conn /\ SameRest(a, b) /\ b.type = a.type /\ b.seq = a.seq
      /\ \A e \in Dirs : Len(b.msgs[e]) > 0 => Len(a.msgs[e]) > 0 \/ (e = s.dir /\ s.psh)
  BY <1>1, MessageGoes
<1> HIDE DEF b
<1>3. Arrived(f, s, again, b)
  <2>1. SameRest(f, b) BY <1>1, <1>2 DEF SameRest, SameState, SameWeb, SameSizes, SameRtmp, SamePeer
  <2>2. \A e \in Dirs : b.seq[e] = IF e = s.dir /\ ~again THEN s.off + s.len ELSE f.seq[e]
    BY <1>1, <1>2, Zenon
  <2>3. \A e \in Dirs : Len(b.msgs[e]) > 0 => Len(f.msgs[e]) > 0 \/ (e = s.dir /\ s.psh) BY <1>1, <1>2
  <2> QED BY <1>1, <1>2, <2>1, <2>2, <2>3, Zenon DEF Arrived
<1>4. c \in Conn /\ Peered(b, s, c) BY <1>2, P2pGoes
<1> HIDE DEF c
<1>5. Session(c.state, c.chat) BY <1>3, <1>4 DEF Arrived, Peered, SameRest, SameState
<1>6. l \in Conn /\ Session(l.state, l.chat) /\ Layer7(c, s, l) BY <1>4, <1>5, Layer7Goes
<1> HIDE DEF l
<1>7. v \in Conn /\ SameRest(l, v) /\ SameMsgs(l, v) /\ v.type = l.type BY <1>6, VideoGoes
<1> HIDE DEF v
<1>8. g \in Conn /\ SameRest(v, g) /\ SameMsgs(v, g) /\ g.type \in {v.type, v.type \ {"RTMP"}}
  BY <1>7, AskedGoes
<1> HIDE DEF g
<1>9. Labelled(l, g)
  BY <1>7, <1>8
     DEF Labelled, SameRest, SameState, SameWeb, SameSizes, SameRtmp, SamePeer, SameMsgs
<1>10. Session(g.state, g.chat) BY <1>6, <1>9 DEF Labelled, SameRest, SameState
<1>11. Passes(f, s, again, g) BY <1>2, <1>3, <1>4, <1>6, <1>9 DEF Passes
<1> QED BY <1>8, <1>10, <1>11

------------------------------
\* The invariant: records, the session, and what a connection is before it
\* says anything.
SessionOK == /\ open => Session(pair.state, pair.chat)
             /\ ~open => /\ pair.chat.presences = 0
                         /\ pair.chat.chats = 0 \/ Drifted(pair.chat)
EarlyOK == pair.state \in Early => pair.web = "GET" /\ pair.own = Blank
Types == /\ conf \in Confs /\ pair \in Conn /\ open \in BOOLEAN /\ sent \in Seq(Segment)
ClassInvariant == Types /\ SessionOK /\ EarlyOK

\* A new connection.
LEMMA ClassStarts ==
  ASSUME ClassInit
  PROVE  ClassInvariant
<1>1. conf \in Confs /\ open = TRUE /\ sent = <<>> /\ pair = NewPair(conf.before) /\ conf.before \in Nat
  BY TcpClassAssumption DEF ClassInit
<1>2. NoChat \in Chat BY DEF NoChat, Chat, ChatTypes
<1>3. Session("UNKNOWN", NoChat)
  BY <1>2 DEF Session, Yahoo, Online, Speaks, NoChat, One, Present, Chatting, ChatStates, MsnChats
<1>4. Blank \in Kept BY DEF Blank, Kept, Text
<1>5. NoP2p \in Text \X Nat BY DEF NoP2p, Text
<1>6. [state |-> "UNKNOWN", packets |-> 0, ctype |-> "none", content |-> "none"] \in VideoStates
  BY DEF VideoStates, Text
<1>7. "UNKNOWN" \in States /\ "GET" \in ClassesGiven BY DEF States, ClassesGiven
<1>8. /\ [d \in Dirs |-> 0] \in [Dirs -> Nat] /\ [d \in Dirs |-> <<>>] \in [Dirs -> Seq(Nat)]
      /\ {} \in SUBSET ConTypes /\ {} \in SUBSET Nat /\ {} \in SUBSET Dirs
      /\ 0 \in Nat /\ FALSE \in BOOLEAN /\ TRUE \in BOOLEAN
  OBVIOUS
<1>9. NewPair(conf.before) \in Conn BY <1>1, <1>2, <1>4, <1>5, <1>6, <1>7, <1>8, ZenonT(60) DEF NewPair, Conn
<1>10. /\ pair.state = "UNKNOWN" /\ pair.chat = NoChat /\ pair.web = "GET" /\ pair.own = Blank
  BY <1>1 DEF NewPair
<1>11. Types BY <1>1, <1>9 DEF Types
<1> QED BY <1>1, <1>3, <1>10, <1>11 DEF ClassInvariant, SessionOK, EarlyOK

\* The request: unchanged, video of a plain one, or asked for.
LEMMA PassesWeb ==
  ASSUME NEW f \in Conn, NEW s \in Segment, NEW again, NEW g, Passes(f, s, again, g),
         f.state \in Early => f.web = "GET" /\ f.own = Blank
  PROVE  /\ g.state \in Early => g.web = "GET" /\ g.own = Blank
         /\ \/ SameWeb(f, g)
            \/ g.web = "VIDEO_CONTENT" /\ f.web = "GET" /\ g.own = f.own
            \/ Asks(f, s, g)
<1> PICK b, c, l \in Conn : Arrived(f, s, again, b) /\ Peered(b, s, c) /\ Layer7(c, s, l) /\ Labelled(l, g)
  BY DEF Passes
<1>1. c.state = f.state /\ c.web = f.web /\ c.own = f.own /\ g.state = l.state /\ g.web = l.web
      /\ g.own = l.own
  BY DEF Arrived, Peered, Labelled, SameRest, SameState, SameWeb
<1>2. CASE f.state = "IGNORE"
  <2>1. g.state = "IGNORE" /\ SameWeb(f, g) BY <1>1, <1>2 DEF Layer7, Guesses, SameRest, SameState, SameWeb
  <2> QED BY <2>1 DEF Early
<1>3. CASE f.state # "IGNORE"
  <2> PICK m \in Conn :
          /\ Guesses(c, s, m)
          /\ \/ /\ c.state \in ChatStates /\ l \in Conn /\ l.state = m.state /\ SameWeb(m, l)
                /\ SameOthers(m, l) /\ l.type = m.type
             \/ c.state \notin ChatStates \cup {"IGNORE"} /\ Turns(m, s, l)
    BY <1>1, <1>3 DEF Layer7
  <2>1. m.state = f.state /\ m.web = f.web /\ m.own = f.own BY <1>1 DEF Guesses, SameState, SameWeb
  <2>2. CASE l.state = m.state /\ SameWeb(m, l) BY <1>1, <2>1, <2>2 DEF SameWeb
  <2>3. CASE Turns(m, s, l)
    <3>1. l.state \in Early => m.state \in Early BY <2>3 DEF Turns, StateTurns, Entered, Early
    <3>2. \/ SameWeb(m, l)
          \/ m.state = "HTTP_RESPONSE" /\ l.web = "VIDEO_CONTENT" /\ m.web = "GET" /\ l.own = m.own
          \/ Asks(m, s, l) /\ l.state \notin Early
      BY <2>3 DEF Turns, WebTurns
    <3>3. Asks(m, s, l) => Asks(f, s, g) BY <1>1, <2>1 DEF Asks, Posted
    <3>4. l.state \in Early => SameWeb(m, l) BY <3>1, <3>2 DEF Early
    <3> QED BY <1>1, <2>1, <3>1, <3>2, <3>3, <3>4 DEF SameWeb
  <2> QED BY <2>2, <2>3
<1> QED BY <1>2, <1>3

\* The close: the session is left, and Skype may be found.
Closed(f, v, g) ==
    /\ g \in Conn /\ g.state = f.state /\ g.chat = Leave(f.chat) /\ SameWeb(f, g) /\ SameOthers(f, g)
    /\ Rises(f.type, g.type) /\ g.type \subseteq f.type \cup (IF v = {} THEN {} ELSE {"SKYPE"})
    /\ FitTurns(f, g)

\* The close does that.
LEMMA CloseGoes ==
  ASSUME NEW f \in Conn, Session(f.state, f.chat), NEW v, NEW whole
  PROVE  LET x == [f EXCEPT !.chat = Leave(@)] IN
         Closed(f, v, IF whole THEN Asked(Skype(x, v)) ELSE x)
<1> DEFINE c == Leave(f.chat)
           x == [f EXCEPT !.chat = c]
           y == Skype(x, v)
           z == Asked(y)
<1>1. c \in Chat BY Leaving
<1> HIDE DEF c
<1>2. /\ x \in Conn /\ x.chat = c /\ x.state = f.state /\ SameWeb(f, x) /\ SameOthers(f, x)
      /\ x.type = f.type
  BY <1>1, ChatGoes
<1> HIDE DEF x
<1>3. /\ y \in Conn /\ y.chat = c /\ y.state = f.state /\ SameWeb(f, y) /\ SameOthers(f, y)
      /\ Rises(f.type, y.type) /\ y.type \subseteq f.type \cup (IF v = {} THEN {} ELSE {"SKYPE"})
      /\ y.type = f.type \/ y.type = (f.type \ Weak) \cup {"SKYPE"}
  <2>1. CASE v = {}
    <3>1. y = x BY <2>1 DEF Skype
    <3>2. Rises(f.type, f.type) BY DEF Rises
    <3> HIDE DEF y
    <3> QED BY <1>2, <3>1, <3>2
  <2>2. CASE v # {}
    <3> DEFINE t == x.state
               w == Recognised(x, "SKYPE", t)
    <3>1. y = w BY <2>2 DEF Skype
    <3>2. "SKYPE" \in ConTypes /\ t \in States BY <1>2 DEF ConTypes, Conn
    <3> HIDE DEF t
    <3>3. /\ w \in Conn /\ w.state = t /\ w.chat = x.chat /\ SameWeb(x, w) /\ SameOthers(x, w)
          /\ w.type = (x.type \ Weak) \cup {"SKYPE"}
      BY <1>2, <3>2, RecognisedGoes
    <3> HIDE DEF w, y
    <3>4. Rises(f.type, w.type)
      <4>1. "SKYPE" \in Certain BY DEF Certain, ConTypes, Weak
      <4> QED BY <1>2, <3>3, <4>1 DEF Rises
    <3>5. SameWeb(f, w) /\ SameOthers(f, w)
      BY <1>2, <3>3 DEF SameWeb, SameOthers, SameSizes, SameRtmp, SameMsgs, SamePeer
    <3> QED BY <1>2, <2>2, <3>1, <3>3, <3>4, <3>5 DEF t
  <2> QED BY <2>1, <2>2
<1> HIDE DEF y
<1>4. z \in Conn /\ SameRest(y, z) /\ SameMsgs(y, z) /\ z.type \in {y.type, y.type \ {"RTMP"}}
      /\ Rises(y.type, z.type)
  BY <1>3, AskedGoes
<1> HIDE DEF z
<1>5. FitTurns(f, x) /\ FitTurns(f, z)
  <2>1. z.state = f.state /\ z.type \cap Protocols = f.type \cap Protocols
        /\ ("MSE" \in z.type => z.type \subseteq f.type)
    BY <1>3, <1>4 DEF Protocols, Weak, SameRest, SameState
  <2>2. "MSE" \in z.type => "MSE" \in f.type BY <2>1
  <2> QED BY <1>2, <2>1, <2>2, FitsOn DEF FitTurns
<1>6. Closed(f, v, x)
  <2>1. Rises(f.type, f.type) BY DEF Rises
  <2> QED BY <1>2, <1>5, <2>1 DEF Closed, c
<1>7. Closed(f, v, z)
  <2>1. Rises(f.type, z.type) BY <1>3, <1>4, RisesOn
  <2>2. z.state = f.state /\ z.chat = c /\ SameWeb(f, z) /\ SameOthers(f, z)
    BY <1>3, <1>4
       DEF SameRest, SameState, SameWeb, SameOthers, SameSizes, SameRtmp, SameMsgs, SamePeer
  <2> DEFINE E == IF v = {} THEN {} ELSE {"SKYPE"}
  <2>3. z.type \subseteq f.type \cup E
    <3> HIDE DEF E
    <3> QED BY <1>3, <1>4 DEF E
  <2> QED BY <1>4, <1>5, <2>1, <2>2, <2>3 DEF Closed, c
<1> QED BY <1>6, <1>7, Zenon DEF z, y, x, c

\* Another request changes the variables a connection does not own.
LEMMA OtherGoes ==
  ASSUME NEW f \in Conn, NEW y \in YtVars
  PROVE  LET g == [f EXCEPT !.yt = y] IN
         g \in Conn /\ SameRest(f, g) /\ SameMsgs(f, g) /\ g.type = f.type
<1> DEFINE g == [f EXCEPT !.yt = y]
<1>1. y \in Kept BY DEF YtVars, Kept, Text
<1>2. g \in Conn BY <1>1, ZenonT(60) DEF Conn
<1> QED BY <1>2 DEF Conn, SameRest, SameState, SameWeb, SameSizes, SameRtmp, SamePeer, SameMsgs

\* The steps, with what they do to the connection.
PacketStep(s) == /\ Packet /\ open /\ open' = open /\ conf' = conf /\ s \in conf.segments
                 /\ sent' = Append(sent, s) /\ pair' \in Conn /\ Session(pair'.state, pair'.chat)
                 /\ Passes(pair, s, s \in ToSet(sent), pair')
OtherStep == /\ open' = open /\ conf' = conf /\ sent' = sent /\ rates' = rates /\ counted' = counted
             /\ pair' \in Conn /\ SameRest(pair, pair') /\ SameMsgs(pair, pair')
             /\ pair'.type = pair.type
CloseStep(v) == /\ (\E e : Close(e, v)) /\ open /\ open' = FALSE /\ conf' = conf /\ sent' = sent
                /\ v \in SUBSET (IF conf.bayes THEN Dirs ELSE {}) /\ Closed(pair, v, pair')

\* Every step is one of the three.
LEMMA ClassSteps ==
  ASSUME Types, SessionOK, [ClassNext]_classVars
  PROVE  (\E s \in Segment : PacketStep(s)) \/ OtherStep \/ (\E v : CloseStep(v))
<1>0. /\ pair \in Conn /\ conf \in Confs /\ open \in BOOLEAN
      /\ conf.segments \subseteq Segment /\ conf.high \subseteq BOOLEAN /\ conf.others \subseteq YtVars
      /\ conf.bare \subseteq Nat
      /\ open => Session(pair.state, pair.chat)
  BY TcpClassAssumption DEF Types, SessionOK
<1>1. ASSUME Packet PROVE \E s \in Segment : PacketStep(s)
  <2> PICK s \in conf.segments, high \in conf.high, bare \in conf.bare :
          /\ open
          /\ pair' = Asked(Analysed(Message(Arrives(pair, s, s \in ToSet(sent), bare), s), s, high))
          /\ sent' = Append(sent, s)
          /\ UNCHANGED <<conf, counted, open>>
    BY <1>1 DEF Packet
  <2> DEFINE again == s \in ToSet(sent)
  <2>1. again \in BOOLEAN /\ s \in Segment /\ high \in BOOLEAN /\ bare \in Nat BY <1>0
  <2>2. pair' = Asked(Analysed(Message(Arrives(pair, s, again, bare), s), s, high)) OBVIOUS
  <2> HIDE DEF again
  <2>3. pair' \in Conn /\ Session(pair'.state, pair'.chat) /\ Passes(pair, s, again, pair')
    BY <1>0, <2>1, <2>2, PacketGoes
  <2> QED BY <1>1, <2>1, <2>3 DEF PacketStep, again
<1>2. ASSUME OtherRequest PROVE OtherStep
  <2> PICK y \in conf.others : pair' = [pair EXCEPT !.yt = y] /\ UNCHANGED <<conf, sent, rates, counted, open>>
    BY <1>2 DEF OtherRequest
  <2>1. y \in YtVars BY <1>0
  <2> QED BY <1>0, <2>1, OtherGoes DEF OtherStep
<1>3. ASSUME NEW e, NEW v \in SUBSET (IF conf.bayes THEN Dirs ELSE {}), Close(e, v)
      PROVE  CloseStep(v)
  <2> DEFINE x == [pair EXCEPT !.chat = Leave(@)]
             whole == e.complete
  <2>1. open /\ open' = FALSE /\ UNCHANGED <<conf, sent>>
        /\ pair' = IF whole THEN Asked(Skype(x, v)) ELSE x
    BY <1>3 DEF Close
  <2> HIDE DEF whole
  <2>2. Closed(pair, v, IF whole THEN Asked(Skype(x, v)) ELSE x) BY <1>0, <2>1, CloseGoes
  <2> HIDE DEF x
  <2> QED BY <1>3, <2>1, <2>2 DEF CloseStep
<1>4. ASSUME UNCHANGED classVars PROVE OtherStep BY <1>0, <1>4, SameAll DEF OtherStep, classVars, SameOthers
<1> QED BY <1>1, <1>2, <1>3, <1>4 DEF ClassNext

\* Every step keeps the invariant.
LEMMA ClassKeeps ==
  ASSUME ClassInvariant, [ClassNext]_classVars
  PROVE  ClassInvariant'
<1>0. Types /\ SessionOK /\ EarlyOK BY DEF ClassInvariant
<1>1. ASSUME NEW s \in Segment, PacketStep(s) PROVE ClassInvariant'
  <2>1. Types' BY <1>0, <1>1 DEF Types, PacketStep
  <2>2. SessionOK' BY <1>1 DEF SessionOK, PacketStep
  <2>3. EarlyOK'
    <3>1. Passes(pair, s, s \in ToSet(sent), pair') /\ pair \in Conn BY <1>0, <1>1 DEF PacketStep, Types
    <3> DEFINE again == s \in ToSet(sent)
    <3>2. Passes(pair, s, again, pair') BY <3>1
    <3> HIDE DEF again
    <3> QED BY <1>0, <3>1, <3>2, PassesWeb DEF EarlyOK
  <2> QED BY <2>1, <2>2, <2>3 DEF ClassInvariant
<1>2. ASSUME OtherStep PROVE ClassInvariant'
  <2>1. Types' BY <1>0, <1>2 DEF Types, OtherStep
  <2>2. SessionOK' BY <1>0, <1>2 DEF SessionOK, OtherStep, SameRest, SameState
  <2>3. EarlyOK' BY <1>0, <1>2 DEF EarlyOK, OtherStep, SameRest, SameState, SameWeb
  <2> QED BY <2>1, <2>2, <2>3 DEF ClassInvariant
<1>3. ASSUME NEW v, CloseStep(v) PROVE ClassInvariant'
  <2>1. Types' BY <1>0, <1>3 DEF Types, CloseStep, Closed
  <2>2. SessionOK'
    <3>1. Session(pair.state, pair.chat) BY <1>0, <1>3 DEF SessionOK, CloseStep
    <3>2. /\ Leave(pair.chat).ft = pair.chat.ft /\ Leave(pair.chat).seen = pair.chat.seen
          /\ Leave(pair.chat).presences = 0
          /\ Leave(pair.chat).chats = 0 \/ Drifted(pair.chat)
      BY <3>1, Leaving
    <3>3. pair'.chat = Leave(pair.chat) BY <1>3 DEF CloseStep, Closed
    <3> QED BY <1>3, <3>2, <3>3 DEF SessionOK, CloseStep, Drifted
  <2>3. EarlyOK' BY <1>0, <1>3 DEF EarlyOK, CloseStep, Closed, SameWeb
  <2> QED BY <2>1, <2>2, <2>3 DEF ClassInvariant
<1> QED BY <1>0, <1>1, <1>2, <1>3, ClassSteps

\* The invariant of a connection.
THEOREM ConnectionOK == ClassSpec => []ClassInvariant
<1>1. ClassInit => ClassInvariant BY ClassStarts
<1>2. ClassInvariant /\ [ClassNext]_classVars => ClassInvariant' BY ClassKeeps
<1> QED BY <1>1, <1>2, PTL DEF ClassSpec

\* The counts of the sessions now open.
THEOREM SessionsCounted == ClassSpec => []OnlineCounts
<1>1. ClassInvariant => OnlineCounts
  <2> SUFFICES ASSUME ClassInvariant PROVE OnlineCounts OBVIOUS
  <2>1. CASE open BY <2>1 DEF ClassInvariant, SessionOK, Session, Online, OnlineCounts, Drifted, One
  <2>2. CASE ~open BY <2>2 DEF ClassInvariant, SessionOK, OnlineCounts, Drifted, One
  <2> QED BY <2>1, <2>2
<1> QED BY <1>1, ConnectionOK, PTL

------------------------------
\* Labels.  A set of numbers that is bounded has a greatest.
LEMMA Greatest ==
  ASSUME NEW n \in Nat, NEW X \in SUBSET (1..n), X # {}
  PROVE  \E i \in X : \A j \in X : j <= i
<1> DEFINE Y == {k \in Nat : n - k \in X}
<1>1. Y \in SUBSET Nat /\ Y # {}
  <2>1. PICK i \in X : TRUE OBVIOUS
  <2>2. n - i \in Y
    <3>1. i \in 1..n BY <2>1
    <3>2. n - i \in Nat /\ n - (n - i) = i BY <3>1
    <3> QED BY <2>1, <3>2
  <2> QED BY <2>2
<1>2. \E k \in Y : \A j \in Y : ~ (<<j, k>> \in OpToRel(<, Nat)) BY <1>1, NatLessThanWellFounded, WFMin
<1>3. \A j, i \in Nat : <<j, i>> \in OpToRel(<, Nat) <=> j < i BY DEF OpToRel
<1>4. PICK k \in Y : \A j \in Y : ~ (<<j, k>> \in OpToRel(<, Nat)) BY <1>2
<1>5. \A j \in Y : ~ (j < k) BY <1>1, <1>3, <1>4
<1>6. ASSUME NEW j \in X PROVE j <= n - k
  <2>1. j \in 1..n /\ k \in Nat BY <1>1
  <2>2. n - j \in Nat /\ n - (n - j) = j BY <2>1
  <2>3. n - j \in Y BY <1>6, <2>2
  <2>4. ~ (n - j < k) BY <1>5, <2>3
  <2> QED BY <2>1, <2>2, <2>4
<1>7. n - k \in X BY <1>4
<1> QED BY <1>6, <1>7

\* Every label has a place of its own among the priorities.
LEMMA Places ==
  /\ DOMAIN Priority = 1..17 /\ Len(Priority) = 17
  /\ \A l \in ConTypes : \E i \in 1..17 : Priority[i] = l
  /\ \A i, j \in 1..17 : Priority[i] = Priority[j] => i = j
  /\ \A i \in 1..17 : Priority[i] \in ConTypes
  /\ Priority[1] = "MSE" /\ Priority[2] = "OBF" /\ Priority[3] = "RTMP"
<1>1. /\ Priority[1] = "MSE" /\ Priority[2] = "OBF" /\ Priority[3] = "RTMP" /\ Priority[4] = "HTTP"
      /\ Priority[5] = "RTSP" /\ Priority[6] = "RTP" /\ Priority[7] = "ICY" /\ Priority[8] = "MSN"
      /\ Priority[9] = "YMSG" /\ Priority[10] = "XMPP" /\ Priority[11] = "SMTP"
      /\ Priority[12] = "POP3" /\ Priority[13] = "IMAP" /\ Priority[14] = "SSL"
      /\ Priority[15] = "SSH" /\ Priority[16] = "P2P" /\ Priority[17] = "SKYPE"
  BY DEF Priority
<1>2. DOMAIN Priority = 1..17 /\ Len(Priority) = 17 BY DEF Priority
<1>3. 1..17 = {1, 2, 3, 4, 5, 6, 7, 8, 9, 10, 11, 12, 13, 14, 15, 16, 17} OBVIOUS
<1>4. \A l \in ConTypes : \E i \in 1..17 : Priority[i] = l BY <1>1, <1>3 DEF ConTypes, Weak, Protocols
<1>5. \A i, j \in 1..17 : Priority[i] = Priority[j] => i = j BY <1>1, <1>3
<1>6. \A i \in 1..17 : Priority[i] \in ConTypes BY <1>1, <1>3 DEF ConTypes, Weak, Protocols
<1> QED BY <1>1, <1>2, <1>4, <1>5, <1>6

\* The rank of a label is its place.
LEMMA Ranks ==
  /\ \A i \in 1..17 : Rank(Priority[i]) = i
  /\ \A l \in ConTypes : Rank(l) \in 1..17 /\ Priority[Rank(l)] = l
  /\ Rank("UNKNOWN") = 0
<1>1. "UNKNOWN" \notin ConTypes BY DEF ConTypes, Weak, Protocols
<1>2. ASSUME NEW l \in ConTypes PROVE Rank(l) \in 1..17 /\ Priority[Rank(l)] = l
  <2>1. \E i \in DOMAIN Priority : Priority[i] = l BY Places
  <2>2. Rank(l) = CHOOSE i \in DOMAIN Priority : Priority[i] = l BY <1>1 DEF Rank
  <2>3. Rank(l) \in DOMAIN Priority /\ Priority[Rank(l)] = l BY <2>1, <2>2
  <2> QED BY <2>3, Places
<1>3. ASSUME NEW i \in 1..17 PROVE Rank(Priority[i]) = i
  <2>1. Priority[i] \in ConTypes BY Places
  <2>2. Rank(Priority[i]) \in 1..17 /\ Priority[Rank(Priority[i])] = Priority[i] BY <1>2, <2>1
  <2> QED BY <2>2, Places
<1>4. Rank("UNKNOWN") = 0 BY DEF Rank
<1> QED BY <1>2, <1>3, <1>4

\* The label is the first of the labels.
LEMMA LabelIs ==
  ASSUME NEW f, Labels(f) \subseteq ConTypes
  PROVE  /\ Labels(f) = {} => Label(f) = "UNKNOWN"
         /\ Labels(f) # {} => Label(f) \in Labels(f)
         /\ \A l \in Labels(f) : Rank(l) <= Rank(Label(f))
<1>1. CASE Labels(f) = {} BY <1>1 DEF Label
<1>2. CASE Labels(f) # {}
  <2> DEFINE X == {i \in 1..17 : Priority[i] \in Labels(f)}
             Top(i) == Priority[i] \in Labels(f) /\ \A j \in i + 1..Len(Priority) : Priority[j] \notin Labels(f)
             t == CHOOSE i \in DOMAIN Priority : Top(i)
  <2>1. X # {} /\ X \in SUBSET (1..17) BY <1>2, Places
  <2>2. PICK i \in X : \A j \in X : j <= i BY <2>1, Greatest
  <2>3. Top(i) /\ i \in DOMAIN Priority
    <3>1. i \in 1..17 /\ Priority[i] \in Labels(f) BY <2>2
    <3>2. ASSUME NEW j \in i + 1..Len(Priority) PROVE Priority[j] \notin Labels(f)
      <4>1. j \in 1..17 /\ j > i BY <3>1, Places
      <4> QED BY <2>2, <4>1
    <3> QED BY <3>1, <3>2, Places
  <2>4. Top(t) /\ t \in DOMAIN Priority
    <3> HIDE DEF Top
    <3> QED BY <2>3
  <2>5. Label(f) = Priority[t] BY <1>2 DEF Label
  <2> HIDE DEF t
  <2>6. t \in 1..17 BY <2>4, Places
  <2>7. Rank(Label(f)) = t BY <2>5, <2>6, Ranks
  <2>8. ASSUME NEW l \in Labels(f) PROVE Rank(l) <= t
    <3>1. Rank(l) \in 1..17 /\ Priority[Rank(l)] = l BY Ranks
    <3>2. Rank(l) \notin t + 1..Len(Priority) BY <2>4, <2>8, <3>1
    <3> QED BY <2>6, <3>1, <3>2, Places
  <2> QED BY <1>2, <2>4, <2>5, <2>7, <2>8
<1> QED BY <1>1, <1>2

\* What is certain comes before what is guessed.
LEMMA CertainFirst ==
  ASSUME NEW l \in Certain, NEW w \in Weak
  PROVE  Rank(w) <= Rank(l)
<1>1. l \in ConTypes /\ w \in ConTypes /\ l \notin {"MSE", "OBF", "RTMP"} /\ w \in {"MSE", "OBF"}
  BY DEF Certain, ConTypes, Weak
<1>2. Rank(l) \in 1..17 /\ Priority[Rank(l)] = l BY <1>1, Ranks
<1>3. Rank(l) # 1 /\ Rank(l) # 2 BY <1>1, <1>2, Places
<1>4. Rank(w) = 1 \/ Rank(w) = 2 BY <1>1, Ranks, Places
<1> QED BY <1>2, <1>3, <1>4

\* A label only becomes more specific when the types rise.
LEMMA LabelRises ==
  ASSUME NEW f \in Conn, NEW g \in Conn, Rises(f.type, g.type)
  PROVE  Rank(Label(g)) >= Rank(Label(f)) \/ Label(f) = "RTMP"
<1>1. Labels(f) \subseteq ConTypes /\ Labels(g) \subseteq ConTypes /\ Labels(f) \subseteq f.type
      /\ g.type \ {"RTMP"} \subseteq Labels(g)
  BY DEF Labels, Conn
<1> DEFINE l == Label(f)
           m == Label(g)
<1>2. Rank(m) \in Nat
  <2>1. m = "UNKNOWN" \/ m \in ConTypes BY <1>1, LabelIs
  <2> HIDE DEF m
  <2> QED BY <2>1, Ranks
<1>3. CASE Labels(f) = {}
  <2>1. Rank(l) = 0 BY <1>1, <1>3, LabelIs, Ranks
  <2> HIDE DEF l, m
  <2> QED BY <1>2, <2>1 DEF l, m
<1>4. CASE Labels(f) # {} /\ l # "RTMP"
  <2>1. l \in f.type /\ l \in ConTypes BY <1>1, <1>4, LabelIs
  <2>2. l \in g.type \/ (l \in Weak /\ g.type \cap Certain # {}) BY <1>4, <2>1 DEF Rises
  <2>3. ASSUME NEW k \in g.type, k # "RTMP" PROVE Rank(k) <= Rank(m)
    <3>1. k \in Labels(g) BY <1>1, <2>3
    <3> QED BY <1>1, <3>1, LabelIs
  <2> HIDE DEF l, m
  <2>4. CASE l \in g.type
    <3>1. Rank(l) <= Rank(m) /\ Rank(l) \in 1..17 BY <1>4, <2>1, <2>3, <2>4, Ranks
    <3> QED BY <1>2, <3>1 DEF l, m
  <2>5. CASE l \in Weak /\ g.type \cap Certain # {}
    <3> PICK c \in Certain : c \in g.type BY <2>5
    <3>1. Rank(l) <= Rank(c) /\ Rank(c) <= Rank(m) BY <2>3, <2>5, CertainFirst DEF Certain
    <3>2. Rank(l) \in 1..17 /\ Rank(c) \in 1..17 BY <2>1, Ranks DEF Certain
    <3> QED BY <1>2, <3>1, <3>2 DEF l, m
  <2> QED BY <2>2, <2>4, <2>5
<1> QED BY <1>3, <1>4

\* A packet makes the types rise and keeps the family.
LEMMA PassesRise ==
  ASSUME NEW f \in Conn, NEW s \in Segment, NEW again, NEW g \in Conn, Passes(f, s, again, g)
  PROVE  /\ Rises(f.type, g.type) /\ (f.p2p # NoP2p => Family(g.p2p) = Family(f.p2p))
         /\ FitTurns(f, g) /\ g.p2p \in {f.p2p, s.p2p}
<1> PICK b, c, l \in Conn : Arrived(f, s, again, b) /\ Peered(b, s, c) /\ Layer7(c, s, l) /\ Labelled(l, g)
  BY DEF Passes
<1>1. Rises(f.type, c.type) /\ (f.p2p # NoP2p => Family(c.p2p) = Family(f.p2p)) /\ c.p2p \in {f.p2p, s.p2p}
  BY DEF Arrived, Peered, SameRest, SamePeer
<1>2. FitTurns(f, c)
  <2>1. c.state = f.state /\ (c.type = f.type \/ c.type = (f.type \ Weak) \cup {"P2P"})
    BY DEF Arrived, Peered, SameRest, SameState
  <2>2. c.type \cap Protocols = f.type \cap Protocols /\ ("MSE" \in c.type => c.type = f.type)
    BY <2>1 DEF Protocols, Weak
  <2> QED BY <2>1, <2>2, FitsOn DEF FitTurns
<1>3. Rises(c.type, l.type) /\ l.p2p = c.p2p /\ FitTurns(c, l)
  <2>1. CASE c.state = "IGNORE" /\ SameRest(c, l) /\ l.type = c.type
    BY <2>1 DEF Rises, SameRest, SamePeer, SameState, FitTurns
  <2>2. ASSUME NEW m \in Conn, Guesses(c, s, m), SameOthers(m, l), l.type = m.type, l.state = m.state
        PROVE  Rises(c.type, l.type) /\ l.p2p = c.p2p /\ FitTurns(c, l)
    BY <2>2 DEF Guesses, Rises, SameOthers, SamePeer, FitTurns
  <2>3. ASSUME NEW m \in Conn, Guesses(c, s, m), Turns(m, s, l)
        PROVE  Rises(c.type, l.type) /\ l.p2p = c.p2p /\ FitTurns(c, l)
    <3>1. l.p2p = c.p2p BY <2>3 DEF Guesses, Turns, SameOthers, SamePeer
    <3>2. l.type = m.type \/ \E p \in Protocols : l.type = (m.type \ Weak) \cup {p}
      BY <2>3 DEF Turns, TypeTurns
    <3>3. Protocols \subseteq Certain BY DEF Protocols, Certain, ConTypes, Weak
    <3>4. c.type \subseteq m.type BY <2>3 DEF Guesses
    <3>5. Rises(c.type, l.type) BY <3>2, <3>3, <3>4 DEF Rises
    <3>6. FitTurns(c, l) BY <2>3 DEF Guesses, Turns, FitTurns
    <3> QED BY <3>1, <3>5, <3>6
  <2> QED BY <2>1, <2>2, <2>3 DEF Layer7
<1>4. Rises(l.type, g.type) /\ g.p2p = l.p2p BY DEF Labelled, Rises, SameRest, SamePeer
<1>5. Rises(c.type, g.type) BY <1>3, <1>4, RisesOn
<1>6. Rises(f.type, g.type) BY <1>1, <1>5, RisesOn
<1>7. FitTurns(l, g)
  <2>1. g.state = l.state /\ g.type \subseteq l.type /\ g.type \cap Protocols = l.type \cap Protocols
    BY DEF Labelled, SameRest, SameState, Protocols
  <2> QED BY <2>1, FitsOn DEF FitTurns
<1> QED BY <1>1, <1>3, <1>4, <1>6, <1>2, <1>7 DEF FitTurns

\* What a connection was called only becomes more specific.
THEOREM LabelsSettle == ClassSpec => Settles
<1>1. ClassInvariant /\ [ClassNext]_classVars => [Settled]_classVars
  <2> SUFFICES ASSUME ClassInvariant, [ClassNext]_classVars PROVE Settled OBVIOUS
  <2>0. Types /\ SessionOK /\ EarlyOK /\ pair \in Conn BY DEF ClassInvariant, Types
  <2>1. ASSUME NEW s \in Segment, PacketStep(s) PROVE Settled
    <3> DEFINE again == s \in ToSet(sent)
    <3>1. Passes(pair, s, again, pair') /\ pair' \in Conn BY <2>1 DEF PacketStep
    <3> HIDE DEF again
    <3>2. Rises(pair.type, pair'.type) /\ (pair.p2p # NoP2p => Family(pair'.p2p) = Family(pair.p2p))
      BY <2>0, <3>1, PassesRise
    <3>3. Rank(Label(pair')) >= Rank(Label(pair)) \/ Label(pair) = "RTMP" BY <2>0, <3>1, <3>2, LabelRises
    <3>4. \/ SameWeb(pair, pair')
          \/ pair'.web = "VIDEO_CONTENT" /\ pair.web = "GET"
          \/ Asks(pair, s, pair')
      BY <2>0, <3>1, PassesWeb DEF EarlyOK
    <3>5. pair.state = "UNKNOWN" => pair.web = "GET" BY <2>0 DEF EarlyOK, Early
    <3>6. pair.web \notin WebRequests \cup {"YOUTUBE_204"} => pair'.web = pair.web
      BY <3>4, <3>5 DEF SameWeb, Asks, Unspecific, WebRequests
    <3> QED BY <3>2, <3>3, <3>6 DEF Settled
  <2>2. ASSUME pair' \in Conn, Rises(pair.type, pair'.type), SameWeb(pair, pair'), SamePeer(pair, pair')
        PROVE  Settled
    <3>1. Rank(Label(pair')) >= Rank(Label(pair)) \/ Label(pair) = "RTMP" BY <2>0, <2>2, LabelRises
    <3> QED BY <2>2, <3>1 DEF Settled, SameWeb, SamePeer
  <2>3. ASSUME OtherStep PROVE Settled
    <3>1. Rises(pair.type, pair'.type) BY <2>3 DEF OtherStep, Rises
    <3> QED BY <2>2, <2>3, <3>1 DEF OtherStep, SameRest
  <2>4. ASSUME NEW v, CloseStep(v) PROVE Settled BY <2>2, <2>4 DEF CloseStep, Closed, SameOthers
  <2> QED BY <2>0, <2>1, <2>3, <2>4, ClassSteps
<1> QED BY <1>1, ConnectionOK, PTL DEF ClassSpec, Settles

------------------------------
\* The segments seen, H, and what was said in them.
Heard(H, x) == \E i \in DOMAIN H : H[i] = x
InTurn(H, x, y) == \E i, j \in DOMAIN H : i < j /\ H[i] = x /\ H[j] = y
Opened(H, d, cmds) == \E x \in Segment : Heard(H, x) /\ x.dir = d /\ x.cmd \in cmds
Answered(H, d, opening, answer) ==
    \E x, y \in Segment : /\ InTurn(H, x, y) /\ x.dir = d /\ x.cmd \in opening
                          /\ y.dir = Other(d) /\ y.cmd \in answer
PushHeard(H, d) == \E x \in Segment : Heard(H, x) /\ x.dir = d /\ x.psh
OfSize(H, m) == \E x \in Segment : Heard(H, x) /\ x.psh /\ x.len = m
Sizes(H, m, n) ==
    \E x, y \in Segment : InTurn(H, x, y) /\ x.psh /\ y.psh /\ x.len = m /\ y.len = n
Leads(H, x) == \/ x.off = 0
               \/ /\ InTurn(H, x, x)
                  /\ \E t \in Segment : Heard(H, t) /\ t.dir = x.dir /\ t # x /\ t.off + t.len = x.len
Handed(H, d) == \E x \in Segment : Heard(H, x) /\ x.dir = d /\ x.rtmp /\ Leads(H, x)

\* What a protocol is recognised by, among the types T.
Ground(H, T, p) ==
    /\ p = "HTTP" => Answered(H, "c2s", WebRequests, {"HTTP"})
    /\ p = "ICY" => Answered(H, "c2s", WebRequests, {"ICY"})
    /\ p = "RTSP" => \/ Answered(H, "c2s", {"DESCRIBE"}, {"RTSP"})
                     \/ "HTTP" \in T /\ \E x \in Segment : Heard(H, x) /\ x.dir = "s2c" /\ x.rtsp
    /\ p = "RTP" => "RTSP" \in T /\ Opened(H, "s2c", {"RTP"})
    /\ p = "MSN" => Opened(H, "s2c", MsnCommands)
    /\ p = "YMSG" => \E x \in Segment : Heard(H, x) /\ x.cmd = "YMSG"
    /\ p = "XMPP" => \E x \in Segment : Heard(H, x) /\ x.cmd = "XMPP_SMELL"
    /\ p = "SMTP" => Answered(H, "s2c", {"SMTP_220"}, {"HELO"})
    /\ p = "POP3" => Answered(H, "s2c", {"POP_OK"}, {"USER"})
    /\ p = "IMAP" => /\ Answered(H, "s2c", {"IMAP_OK"}, {"TAG"})
                     /\ Answered(H, "c2s", {"TAG"}, {"TAG", "STAR"})
    /\ p = "SSL" => Answered(H, "c2s", {"SSL_CLIENT"}, {"SSL_SERVER"})
    /\ p = "SSH" => Answered(H, "s2c", {"SSH"}, {"SSH"})
    /\ p = "P2P" => \E x \in Segment : Heard(H, x) /\ x.p2p # NoP2p
    /\ p = "OBF" => Sizes(H, 11, 55) \/ Sizes(H, 22, 18) \/ Sizes(H, 6, 46)
    /\ p = "RTMP" => \A d \in Dirs : Handed(H, d)
    /\ p = "MSE" => \A d \in Dirs : PushHeard(H, d)

\* What a state was entered by.
StateGround(H, T, t) ==
    /\ t = "HTTP_COMMAND" => Opened(H, "c2s", WebRequests)
    /\ t = "HTTP_RESPONSE" => "HTTP" \in T
    /\ t = "RTSP_COMMAND" => Opened(H, "c2s", {"DESCRIBE"})
    /\ t = "RTSP_RESPONSE" => "RTSP" \in T
    /\ t = "SMTP_OPENING" => Opened(H, "s2c", {"SMTP_220"})
    /\ t = "POP3_OPENING" => Opened(H, "s2c", {"POP_OK"})
    /\ t = "IMAP_OPENING" => Opened(H, "s2c", {"IMAP_OK"})
    /\ t = "IMAP_COMMAND" => Answered(H, "s2c", {"IMAP_OK"}, {"TAG"}) /\ Opened(H, "c2s", {"TAG"})
    /\ t = "SSL_HANDSHAKE" => Opened(H, "c2s", {"SSL_CLIENT"})
    /\ t = "SSH_SERVER" => Opened(H, "s2c", {"SSH"})

\* What the sizes noted, the messages counted and the ends of the streams
\* come from.
SizeGround(H, f) ==
    /\ \A k \in f.sizes : \/ k \in {11, 22, 6} /\ OfSize(H, k)
                          \/ k = 1183 /\ OfSize(H, 11)
    /\ \A d \in Dirs : Len(f.msgs[d]) > 0 => PushHeard(H, d)
    /\ \A x \in Segment : Heard(H, x) =>
          \E t \in Segment : Heard(H, t) /\ t.dir = x.dir /\ f.seq[x.dir] = t.off + t.len
    /\ \A d \in f.rtmpHand : Handed(H, d)

\* The requests the class and the variables of YouTube come from.
WebGround(H, f) ==
    LET asked(x, class) == Heard(H, x) /\ x.cmd \in WebRequests /\ Class(x) = class
        nothing(x) == x.cmd = "POST" /\ f.own = Blank
    IN  /\ f.web \in {"YOUTUBE_204", "YOUTUBE_VIDEO"} =>
              \E x \in Segment : asked(x, f.web) /\ (f.own = Video(Blank, x.par) \/ nothing(x))
        /\ f.web = "YOUTUBE_VIDEO204" =>
              /\ \E x \in Segment : asked(x, "YOUTUBE_204")
              /\ \E x \in Segment : asked(x, "YOUTUBE_VIDEO") /\ f.own = Video(Blank, x.par)
        /\ f.web \in YouTubeSite =>
              \E x \in Segment : asked(x, f.web) /\ (f.own.id = Or(x.par.id, "--") \/ nothing(x))

Grounded(H, f) ==
    /\ \A p \in f.type : p # "SKYPE" => Ground(H, f.type, p)
    /\ StateGround(H, f.type, f.state) /\ SizeGround(H, f) /\ WebGround(H, f)

\* One more segment: what was heard was heard, in the same turn, and the
\* new one comes after all of it.
More(H, s, R) ==
    /\ \A x \in Segment : Heard(R, x) <=> Heard(H, x) \/ x = s
    /\ \A x, y \in Segment : InTurn(H, x, y) => InTurn(R, x, y)
    /\ \A x \in Segment : Heard(H, x) => InTurn(R, x, s)

\* A segment appended is one more.
LEMMA MoreHeard ==
  ASSUME NEW H \in Seq(Segment), NEW s \in Segment
  PROVE  More(H, s, Append(H, s))
<1> DEFINE R == Append(H, s)
           n == Len(H) + 1
<1>1. /\ DOMAIN H = 1..Len(H) /\ Len(H) \in Nat
      /\ DOMAIN R = 1..n /\ R[n] = s /\ \A i \in 1..Len(H) : R[i] = H[i]
  OBVIOUS
<1> HIDE DEF R
<1>2. \A i \in DOMAIN H : i \in DOMAIN R /\ i < n /\ R[i] = H[i] /\ i \in Int BY <1>1
<1>3. n \in DOMAIN R /\ \A i \in DOMAIN R : i \in DOMAIN H \/ i = n BY <1>1
<1> HIDE DEF n
<1>4. \A x \in Segment : Heard(R, x) <=> Heard(H, x) \/ x = s BY <1>1, <1>2, <1>3 DEF Heard
<1>5. \A x, y \in Segment : InTurn(H, x, y) => InTurn(R, x, y) BY <1>2 DEF InTurn
<1>6. \A x \in Segment : Heard(H, x) => InTurn(R, x, s) BY <1>1, <1>2, <1>3 DEF InTurn, Heard
<1> QED BY <1>4, <1>5, <1>6 DEF More, R

\* What was found in the segments is found in them and one more.
LEMMA MoreFound ==
  ASSUME NEW H, NEW s \in Segment, NEW R, More(H, s, R)
  PROVE  /\ \A d, cmds : Opened(H, d, cmds) => Opened(R, d, cmds)
         /\ \A d, o, a : Answered(H, d, o, a) => Answered(R, d, o, a)
         /\ \A d : PushHeard(H, d) => PushHeard(R, d)
         /\ \A m : OfSize(H, m) => OfSize(R, m)
         /\ \A m, n : Sizes(H, m, n) => Sizes(R, m, n)
         /\ \A d : Handed(H, d) => Handed(R, d)
<1>1. \A x \in Segment : Leads(H, x) => Leads(R, x) BY DEF Leads, More
<1>2. \A d : Handed(H, d) => Handed(R, d) BY <1>1 DEF Handed, More
<1>3. \A d, cmds : Opened(H, d, cmds) => Opened(R, d, cmds) BY DEF Opened, More
<1>4. \A d, o, a : Answered(H, d, o, a) => Answered(R, d, o, a) BY DEF Answered, More
<1>5. \A d : PushHeard(H, d) => PushHeard(R, d) BY DEF PushHeard, More
<1>6. \A m : OfSize(H, m) => OfSize(R, m) BY DEF OfSize, More
<1>7. \A m, n : Sizes(H, m, n) => Sizes(R, m, n) BY DEF Sizes, More
<1> QED BY <1>2, <1>3, <1>4, <1>5, <1>6, <1>7

\* A protocol once recognised keeps its ground.
LEMMA GroundKept ==
  ASSUME NEW H, NEW s \in Segment, NEW R, More(H, s, R), NEW T, NEW U,
         "HTTP" \in T => "HTTP" \in U, "RTSP" \in T => "RTSP" \in U,
         NEW p, Ground(H, T, p)
  PROVE  Ground(R, U, p)
<1>1. /\ \A d, cmds : Opened(H, d, cmds) => Opened(R, d, cmds)
      /\ \A d, o, a : Answered(H, d, o, a) => Answered(R, d, o, a)
      /\ \A d : PushHeard(H, d) => PushHeard(R, d)
      /\ \A m, n : Sizes(H, m, n) => Sizes(R, m, n)
      /\ \A d : Handed(H, d) => Handed(R, d)
  BY MoreFound
<1>2. \A x \in Segment : Heard(H, x) => Heard(R, x) BY DEF More
<1> QED BY <1>1, <1>2 DEF Ground

\* What answers an opening is its exchange.
LEMMA AnswerHeard ==
  ASSUME NEW H, NEW s \in Segment, NEW R, More(H, s, R)
  PROVE  /\ Heard(R, s)
         /\ \A d, o, a : Opened(H, d, o) /\ s.dir = Other(d) /\ s.cmd \in a => Answered(R, d, o, a)
         /\ \A m, n : OfSize(H, m) /\ s.psh /\ s.len = n => Sizes(R, m, n)
<1>1. Heard(R, s) /\ \A x \in Segment : Heard(H, x) => InTurn(R, x, s) BY DEF More
<1> QED BY <1>1 DEF Opened, Answered, OfSize, Sizes

\* What a packet may add, part by part.
Adds(f, s, again, g) ==
    /\ \A x \in g.type :
          \/ x \in f.type
          \/ x = "P2P" /\ s.p2p # NoP2p
          \/ x = "OBF" /\ s.psh /\ Answers(f.sizes, s.len)
          \/ x = "RTMP" /\ g.rtmpHand = Dirs
          \/ x = "MSE" /\ \A d \in Dirs : Len(f.msgs[d]) > 0 \/ (d = s.dir /\ s.psh)
          \/ x \in Protocols /\ Shown(f.state, s, x)
    /\ g.state \in {f.state, "IGNORE"} \/ Entered(f.state, s, g.state, g.type)
    /\ \A k \in g.sizes : Notes(f.sizes, s, k)
    /\ \A d \in Dirs : Len(g.msgs[d]) > 0 => Len(f.msgs[d]) > 0 \/ (d = s.dir /\ s.psh)
    /\ \A d \in Dirs : g.seq[d] = IF d = s.dir /\ ~again THEN s.off + s.len ELSE f.seq[d]
    /\ \A d \in g.rtmpHand : d \in f.rtmpHand \/ (d = s.dir /\ s.rtmp /\ g.seq[s.dir] = s.len)

\* A packet adds no more than that.
LEMMA PassesAdd ==
  ASSUME NEW f \in Conn, NEW s \in Segment, NEW again, NEW g \in Conn, Passes(f, s, again, g)
  PROVE  Adds(f, s, again, g)
<1> PICK b, c, l \in Conn : Arrived(f, s, again, b) /\ Peered(b, s, c) /\ Layer7(c, s, l) /\ Labelled(l, g)
  BY DEF Passes
<1>1. /\ c.state = f.state /\ c.sizes = f.sizes /\ c.rtmpHand = f.rtmpHand
      /\ c.msgs = b.msgs /\ c.seq = b.seq
      /\ \A x \in c.type : x \in f.type \/ (x = "P2P" /\ s.p2p # NoP2p)
  <2>1. /\ SameRest(f, b) /\ b.type = f.type
        /\ SameState(b, c) /\ SameSizes(b, c) /\ SameRtmp(b, c) /\ SameMsgs(b, c)
        /\ c.type \subseteq b.type \cup (IF s.p2p = NoP2p THEN {} ELSE {"P2P"})
    BY DEF Arrived, Peered
  <2>2. \A x \in c.type : x \in f.type \/ (x = "P2P" /\ s.p2p # NoP2p) BY <2>1
  <2> QED BY <2>1, <2>2 DEF SameRest, SameState, SameSizes, SameRtmp, SameMsgs
<1>2. /\ \A d \in Dirs : b.seq[d] = IF d = s.dir /\ ~again THEN s.off + s.len ELSE f.seq[d]
      /\ \A d \in Dirs : Len(b.msgs[d]) > 0 => Len(f.msgs[d]) > 0 \/ (d = s.dir /\ s.psh)
  BY DEF Arrived
<1>3. /\ g.state = l.state /\ g.sizes = l.sizes /\ g.rtmpHand = l.rtmpHand
      /\ g.msgs = l.msgs /\ g.seq = l.seq
      /\ g.type \subseteq l.type /\ l.type \ {"RTMP"} \subseteq g.type
  BY DEF Labelled, SameRest, SameState, SameSizes, SameRtmp, SameMsgs
<1> DEFINE New(x) ==
          \/ x \in c.type
          \/ x = "OBF" /\ s.psh /\ Answers(c.sizes, s.len)
          \/ x = "RTMP" /\ l.rtmpHand = Dirs
          \/ x = "MSE" /\ \A d \in Dirs : Len(c.msgs[d]) > 0
          \/ x \in Protocols /\ Shown(c.state, s, x)
<1>4. /\ \A x \in l.type : New(x)
      /\ l.state \in {c.state, "IGNORE"} \/ Entered(c.state, s, l.state, l.type)
      /\ \A k \in l.sizes : Notes(c.sizes, s, k)
      /\ l.msgs = c.msgs /\ l.seq = c.seq
      /\ \A d \in l.rtmpHand : d \in c.rtmpHand \/ (d = s.dir /\ s.rtmp /\ c.seq[s.dir] = s.len)
  <2>1. CASE c.state = "IGNORE" /\ SameRest(c, l) /\ SameMsgs(c, l) /\ l.type = c.type
    BY <2>1 DEF SameRest, SameState, SameSizes, SameRtmp, SameMsgs, Notes
  <2>2. CASE \E m \in Conn :
                /\ Guesses(c, s, m)
                /\ \/ l.state = m.state /\ SameOthers(m, l) /\ l.type = m.type
                   \/ Turns(m, s, l)
    <3> PICK m \in Conn : /\ Guesses(c, s, m)
                          /\ \/ l.state = m.state /\ SameOthers(m, l) /\ l.type = m.type
                             \/ Turns(m, s, l)
      BY <2>2
    <3>1. m.state = c.state /\ m.msgs = c.msgs /\ m.seq = c.seq BY DEF Guesses, SameState, SameMsgs
    <3>2. SameOthers(m, l) BY DEF Turns
    <3>3. l.sizes = m.sizes /\ l.rtmpHand = m.rtmpHand /\ l.msgs = m.msgs /\ l.seq = m.seq
      BY <3>2 DEF SameOthers, SameSizes, SameRtmp, SameMsgs
    <3>4. \A x \in m.type : New(x)
      <4>1. \A x \in m.type :
                \/ x \in c.type
                \/ x = "OBF" /\ s.psh /\ Answers(c.sizes, s.len)
                \/ x = "RTMP" /\ m.rtmpHand = Dirs
                \/ x = "MSE" /\ Spoken(c, 0)
        BY DEF Guesses
      <4> QED BY <3>3, <4>1 DEF Spoken
    <3>5. \A x \in l.type : x \in m.type \/ (x \in Protocols /\ Shown(m.state, s, x)) BY DEF Turns, TypeTurns
    <3>6. \A x \in l.type : New(x) BY <3>1, <3>4, <3>5
    <3>7. l.state \in {c.state, "IGNORE"} \/ Entered(c.state, s, l.state, l.type)
      BY <3>1 DEF Turns, StateTurns
    <3>8. /\ \A k \in m.sizes : Notes(c.sizes, s, k)
          /\ \A d \in m.rtmpHand : d \in c.rtmpHand \/ (d = s.dir /\ s.rtmp /\ c.seq[s.dir] = s.len)
      BY DEF Guesses, FirstOf
    <3> QED BY <3>1, <3>3, <3>6, <3>7, <3>8
  <2> QED BY <2>1, <2>2 DEF Layer7
<1>5. \A x \in g.type : New(x) BY <1>3, <1>4
<1>6. \A x \in g.type :
          \/ x \in f.type
          \/ x = "P2P" /\ s.p2p # NoP2p
          \/ x = "OBF" /\ s.psh /\ Answers(f.sizes, s.len)
          \/ x = "RTMP" /\ g.rtmpHand = Dirs
          \/ x = "MSE" /\ \A d \in Dirs : Len(f.msgs[d]) > 0 \/ (d = s.dir /\ s.psh)
          \/ x \in Protocols /\ Shown(f.state, s, x)
  BY <1>1, <1>2, <1>3, <1>5
<1>7. Entered(c.state, s, l.state, l.type) => Entered(f.state, s, g.state, g.type) BY <1>1, <1>3 DEF Entered
<1>8. g.state \in {f.state, "IGNORE"} \/ Entered(f.state, s, g.state, g.type) BY <1>1, <1>3, <1>4, <1>7
<1>9. /\ \A k \in g.sizes : Notes(f.sizes, s, k)
      /\ g.msgs = b.msgs /\ g.seq = b.seq
      /\ \A d \in g.rtmpHand : d \in f.rtmpHand \/ (d = s.dir /\ s.rtmp /\ g.seq[s.dir] = s.len)
  BY <1>1, <1>3, <1>4
<1>10. \A d \in Dirs : Len(g.msgs[d]) > 0 => Len(f.msgs[d]) > 0 \/ (d = s.dir /\ s.psh) BY <1>2, <1>9
<1>11. \A d \in Dirs : g.seq[d] = IF d = s.dir /\ ~again THEN s.off + s.len ELSE f.seq[d] BY <1>2, <1>9, Zenon
<1> QED BY <1>6, <1>8, <1>9, <1>10, <1>11 DEF Adds

\* The sizes, the messages, the ends of the streams and the handshakes.
LEMMA SizesGrounded ==
  ASSUME NEW f \in Conn, NEW s \in Segment, NEW again \in BOOLEAN, NEW g \in Conn,
         Adds(f, s, again, g), NEW H, NEW R, More(H, s, R), again => Heard(H, s), SizeGround(H, f)
  PROVE  SizeGround(R, g)
<1>1. /\ \A d : PushHeard(H, d) => PushHeard(R, d)
      /\ \A m : OfSize(H, m) => OfSize(R, m)
      /\ \A d : Handed(H, d) => Handed(R, d)
  BY MoreFound
<1>2. Heard(R, s) /\ \A x \in Segment : Heard(R, x) <=> Heard(H, x) \/ x = s BY DEF More
<1>3. s.dir \in Dirs /\ s.off \in Nat /\ s.len \in Nat BY DEF Segment
<1>4. ASSUME NEW k \in g.sizes
      PROVE  (k \in {11, 22, 6} /\ OfSize(R, k)) \/ (k = 1183 /\ OfSize(R, 11))
  <2>1. \/ k \in f.sizes
        \/ k \in {11, 22, 6} /\ s.psh /\ s.len = k
        \/ k = 1183 /\ 11 \in f.sizes
    BY <1>4 DEF Adds, Notes
  <2>2. k \in {11, 22, 6} /\ s.psh /\ s.len = k => OfSize(R, k) BY <1>2 DEF OfSize
  <2>3. 11 \in f.sizes => OfSize(R, 11) BY <1>1 DEF SizeGround
  <2>4. k \in f.sizes => (k \in {11, 22, 6} /\ OfSize(R, k)) \/ (k = 1183 /\ OfSize(R, 11))
    BY <1>1 DEF SizeGround
  <2> QED BY <2>1, <2>2, <2>3, <2>4
<1>5. ASSUME NEW d \in Dirs, Len(g.msgs[d]) > 0 PROVE PushHeard(R, d)
  <2>1. Len(f.msgs[d]) > 0 \/ (d = s.dir /\ s.psh) BY <1>5 DEF Adds
  <2>2. d = s.dir /\ s.psh => PushHeard(R, d) BY <1>2 DEF PushHeard
  <2>3. Len(f.msgs[d]) > 0 => PushHeard(R, d) BY <1>1 DEF SizeGround
  <2> QED BY <2>1, <2>2, <2>3
<1>6. ASSUME NEW x \in Segment, Heard(R, x)
      PROVE  \E t \in Segment : Heard(R, t) /\ t.dir = x.dir /\ g.seq[x.dir] = t.off + t.len
  <2>1. x.dir \in Dirs BY DEF Segment
  <2>2. CASE x.dir = s.dir /\ ~again
    <3>1. g.seq[x.dir] = s.off + s.len BY <2>1, <2>2 DEF Adds
    <3> QED BY <1>2, <2>2, <3>1
  <2>3. CASE ~(x.dir = s.dir /\ ~again)
    <3>1. g.seq[x.dir] = f.seq[x.dir] BY <2>1, <2>3 DEF Adds
    <3>2. Heard(H, x) BY <1>2, <1>6, <2>3
    <3>3. PICK t \in Segment : Heard(H, t) /\ t.dir = x.dir /\ f.seq[x.dir] = t.off + t.len
      BY <3>2 DEF SizeGround
    <3> QED BY <1>2, <3>1, <3>3
  <2> QED BY <2>2, <2>3
<1>7. s.rtmp /\ g.seq[s.dir] = s.len => Handed(R, s.dir)
  <2> SUFFICES ASSUME s.rtmp, g.seq[s.dir] = s.len PROVE Leads(R, s) BY <1>2 DEF Handed
  <2>1. CASE ~again
    <3>1. s.len = s.off + s.len BY <1>3, <2>1 DEF Adds
    <3> QED BY <1>3, <3>1 DEF Leads
  <2>2. CASE again
    <3>1. Heard(H, s) /\ InTurn(R, s, s) BY <2>2 DEF More
    <3>2. PICK t \in Segment : Heard(H, t) /\ t.dir = s.dir /\ f.seq[s.dir] = t.off + t.len
      BY <3>1 DEF SizeGround
    <3>3. g.seq[s.dir] = f.seq[s.dir] BY <1>3, <2>2 DEF Adds
    <3>4. t.off + t.len = s.len /\ Heard(R, t) BY <1>2, <3>2, <3>3
    <3>5. CASE t = s BY <1>3, <3>4, <3>5 DEF Leads
    <3>6. CASE t # s BY <3>1, <3>2, <3>4, <3>6 DEF Leads
    <3> QED BY <3>5, <3>6
  <2> QED BY <2>1, <2>2
<1>8. \A d \in g.rtmpHand : Handed(R, d) BY <1>1, <1>7 DEF Adds, SizeGround
<1> QED BY <1>4, <1>5, <1>6, <1>8 DEF SizeGround

\* What is recognised in a packet has its ground.
LEMMA NewGrounded ==
  ASSUME NEW H, NEW s \in Segment, NEW R, More(H, s, R), NEW T, NEW U, NEW t,
         StateGround(H, T, t), "HTTP" \in T => "HTTP" \in U, "RTSP" \in T => "RTSP" \in U,
         NEW p \in Protocols, Shown(t, s, p)
  PROVE  Ground(R, U, p)
<1>1. /\ Heard(R, s)
      /\ \A d, o, a : Opened(H, d, o) /\ s.dir = Other(d) /\ s.cmd \in a => Answered(R, d, o, a)
  BY AnswerHeard
<1>2. \A d, o, a : Answered(H, d, o, a) => Answered(R, d, o, a) BY MoreFound
<1>3. Other("c2s") = "s2c" /\ Other("s2c") = "c2s" BY DEF Other
<1>4. \A d, cmds : s.dir = d /\ s.cmd \in cmds => Opened(R, d, cmds) BY <1>1 DEF Opened
<1>5. CASE p \in {"HTTP", "ICY", "SMTP", "POP3", "SSL", "SSH"}
  BY <1>1, <1>3, <1>5 DEF Ground, Shown, StateGround
<1>6. CASE p = "IMAP" BY <1>1, <1>2, <1>3, <1>6 DEF Ground, Shown, StateGround
<1>7. CASE p = "RTSP" BY <1>1, <1>3, <1>7 DEF Ground, Shown, StateGround
<1>8. CASE p \in {"RTP", "MSN", "YMSG", "XMPP"} BY <1>1, <1>4, <1>8 DEF Ground, Shown, StateGround
<1> QED BY <1>5, <1>6, <1>7, <1>8 DEF Protocols

\* The state keeps its ground, or has that of its entry.
LEMMA StateGrounded ==
  ASSUME NEW H, NEW s \in Segment, NEW R, More(H, s, R), NEW T, NEW U, NEW t, NEW u,
         StateGround(H, T, t), "HTTP" \in T => "HTTP" \in U, "RTSP" \in T => "RTSP" \in U,
         u \in {t, "IGNORE"} \/ Entered(t, s, u, U)
  PROVE  StateGround(R, U, u)
<1>1. /\ Heard(R, s)
      /\ \A d, o, a : Opened(H, d, o) /\ s.dir = Other(d) /\ s.cmd \in a => Answered(R, d, o, a)
  BY AnswerHeard
<1>2. /\ \A d, o, a : Answered(H, d, o, a) => Answered(R, d, o, a)
      /\ \A d, cmds : Opened(H, d, cmds) => Opened(R, d, cmds)
  BY MoreFound
<1>3. Other("c2s") = "s2c" /\ Other("s2c") = "c2s" BY DEF Other
<1>4. \A d, cmds : s.dir = d /\ s.cmd \in cmds => Opened(R, d, cmds) BY <1>1 DEF Opened
<1>5. CASE u = t BY <1>2, <1>5 DEF StateGround
<1>6. CASE u = "IGNORE" BY <1>6 DEF StateGround
<1>7. CASE Entered(t, s, u, U) BY <1>1, <1>3, <1>4, <1>7 DEF StateGround, Entered
<1> QED BY <1>5, <1>6, <1>7

\* The types keep their ground, or have it from this packet.
LEMMA TypesGrounded ==
  ASSUME NEW f \in Conn, NEW s \in Segment, NEW again \in BOOLEAN, NEW g \in Conn,
         Adds(f, s, again, g), Rises(f.type, g.type), NEW H, NEW R, More(H, s, R),
         \A p \in f.type : p # "SKYPE" => Ground(H, f.type, p),
         StateGround(H, f.type, f.state), SizeGround(H, f), SizeGround(R, g)
  PROVE  \A p \in g.type : p # "SKYPE" => Ground(R, g.type, p)
<1>1. ("HTTP" \in f.type => "HTTP" \in g.type) /\ ("RTSP" \in f.type => "RTSP" \in g.type) BY DEF Rises, Weak
<1>2. /\ Heard(R, s)
      /\ \A m, n : OfSize(H, m) /\ s.psh /\ s.len = n => Sizes(R, m, n)
  BY AnswerHeard
<1>3. \A d : PushHeard(H, d) => PushHeard(R, d) BY MoreFound
<1> SUFFICES ASSUME NEW p \in g.type, p # "SKYPE" PROVE Ground(R, g.type, p) OBVIOUS
<1>4. CASE p \in f.type BY <1>1, <1>4, GroundKept
<1>5. CASE p = "P2P" /\ s.p2p # NoP2p BY <1>2, <1>5 DEF Ground
<1>6. CASE p = "OBF" /\ s.psh /\ Answers(f.sizes, s.len)
  <2>1. /\ 1183 \in f.sizes \/ 11 \in f.sizes => OfSize(H, 11)
        /\ 22 \in f.sizes => OfSize(H, 22)
        /\ 6 \in f.sizes => OfSize(H, 6)
    BY DEF SizeGround
  <2>2. Sizes(R, 11, 55) \/ Sizes(R, 22, 18) \/ Sizes(R, 6, 46) BY <1>2, <1>6, <2>1 DEF Answers
  <2> QED BY <1>6, <2>2 DEF Ground
<1>7. CASE p = "RTMP" /\ g.rtmpHand = Dirs BY <1>7 DEF Ground, SizeGround
<1>8. CASE p = "MSE" /\ \A d \in Dirs : Len(f.msgs[d]) > 0 \/ (d = s.dir /\ s.psh)
  <2>1. s.dir \in Dirs /\ s.psh => PushHeard(R, s.dir) BY <1>2 DEF PushHeard
  <2>2. \A d \in Dirs : PushHeard(R, d) BY <1>3, <1>8, <2>1 DEF SizeGround
  <2> QED BY <1>8, <2>2 DEF Ground
<1>9. CASE p \in Protocols /\ Shown(f.state, s, p) BY <1>1, <1>9, NewGrounded
<1> QED BY <1>4, <1>5, <1>6, <1>7, <1>8, <1>9 DEF Adds

\* The request.
LEMMA WebGrounded ==
  ASSUME NEW f \in Conn, NEW s \in Segment, NEW again, NEW g \in Conn, Passes(f, s, again, g),
         f.state \in Early => f.web = "GET" /\ f.own = Blank,
         NEW H, NEW R, More(H, s, R), WebGround(H, f)
  PROVE  WebGround(R, g)
<1>1. Heard(R, s) /\ \A x \in Segment : Heard(H, x) => Heard(R, x) BY DEF More
<1>2. \/ SameWeb(f, g)
      \/ g.web = "VIDEO_CONTENT" /\ f.web = "GET" /\ g.own = f.own
      \/ Asks(f, s, g)
  BY PassesWeb
<1>3. CASE SameWeb(f, g) BY <1>1, <1>3 DEF WebGround, SameWeb
<1>4. CASE g.web = "VIDEO_CONTENT" BY <1>4 DEF WebGround, YouTubeSite
<1>5. CASE Asks(f, s, g)
  <2>1. s.cmd \in WebRequests BY <1>5 DEF Asks
  <2>2. Class(s) # "YOUTUBE_VIDEO204"
    <3>1. s.url \in Paths BY DEF Segment
    <3> QED BY <2>1, <3>1, TcpClassAssumption DEF Class
  <2>3. Posted(f, s, g) => s.cmd = "POST" /\ g.own = Blank /\ f.web = "GET" BY DEF Posted, Early
  <2>4. CASE g.web = Class(s)
    <3>1. Class(s) \in {"YOUTUBE_204", "YOUTUBE_VIDEO"} =>
              g.own = Video(Blank, s.par) \/ (s.cmd = "POST" /\ g.own = Blank)
      BY <1>5, <2>3 DEF Asks, YouTubeVideo
    <3>2. Class(s) \in YouTubeSite =>
              g.own.id = Or(s.par.id, "--") \/ (s.cmd = "POST" /\ g.own = Blank)
      BY <1>5, <2>3 DEF Asks
    <3> QED BY <1>1, <2>1, <2>2, <2>4, <3>1, <3>2 DEF WebGround
  <2>5. CASE g.web = "YOUTUBE_VIDEO204" /\ f.web = "YOUTUBE_204" /\ Class(s) = "YOUTUBE_VIDEO"
    <3>1. g.own = Video(Blank, s.par) BY <1>5, <2>3, <2>5 DEF Asks, YouTubeVideo
    <3>2. PICK x \in Segment : Heard(H, x) /\ x.cmd \in WebRequests /\ Class(x) = "YOUTUBE_204"
      BY <2>5 DEF WebGround
    <3> QED BY <1>1, <2>1, <2>5, <3>1, <3>2 DEF WebGround, YouTubeSite
  <2> QED BY <1>5, <2>4, <2>5 DEF Asks
<1> QED BY <1>2, <1>3, <1>4, <1>5

\* A packet keeps all of it.
LEMMA PacketGrounded ==
  ASSUME NEW f \in Conn, NEW s \in Segment, NEW again \in BOOLEAN, NEW g \in Conn,
         Passes(f, s, again, g), f.state \in Early => f.web = "GET" /\ f.own = Blank,
         NEW H, NEW R, More(H, s, R), again => Heard(H, s), Grounded(H, f)
  PROVE  Grounded(R, g)
<1>1. Adds(f, s, again, g) /\ Rises(f.type, g.type) BY PassesAdd, PassesRise
<1>2. /\ \A p \in f.type : p # "SKYPE" => Ground(H, f.type, p)
      /\ StateGround(H, f.type, f.state) /\ SizeGround(H, f) /\ WebGround(H, f)
  BY DEF Grounded
<1>3. SizeGround(R, g) BY <1>1, <1>2, SizesGrounded
<1>4. \A p \in g.type : p # "SKYPE" => Ground(R, g.type, p) BY <1>1, <1>2, <1>3, TypesGrounded
<1>5. StateGround(R, g.type, g.state)
  <2>1. ("HTTP" \in f.type => "HTTP" \in g.type) /\ ("RTSP" \in f.type => "RTSP" \in g.type)
    BY <1>1 DEF Rises, Weak
  <2>2. g.state \in {f.state, "IGNORE"} \/ Entered(f.state, s, g.state, g.type) BY <1>1 DEF Adds
  <2> QED BY <1>2, <2>1, <2>2, StateGrounded
<1>6. WebGround(R, g) BY <1>2, WebGrounded
<1> QED BY <1>3, <1>4, <1>5, <1>6 DEF Grounded

\* Steps without a segment keep it too: they add no type but SKYPE.
LEMMA RestGrounded ==
  ASSUME NEW f, NEW g, NEW H, Grounded(H, f), Rises(f.type, g.type),
         g.type \subseteq f.type \cup {"SKYPE"}, g.state = f.state, SameWeb(f, g),
         SameSizes(f, g), SameRtmp(f, g), SameMsgs(f, g)
  PROVE  Grounded(H, g)
<1>1. ("HTTP" \in f.type => "HTTP" \in g.type) /\ ("RTSP" \in f.type => "RTSP" \in g.type) BY DEF Rises, Weak
<1>2. ASSUME NEW p \in g.type, p # "SKYPE" PROVE Ground(H, g.type, p)
  <2>1. Ground(H, f.type, p) BY <1>2 DEF Grounded
  <2> QED BY <1>1, <2>1 DEF Ground
<1>3. StateGround(H, g.type, g.state) BY <1>1 DEF Grounded, StateGround
<1>4. SizeGround(H, g) BY DEF Grounded, SizeGround, SameSizes, SameRtmp, SameMsgs
<1>5. WebGround(H, g) BY DEF Grounded, WebGround, SameWeb
<1> QED BY <1>2, <1>3, <1>4, <1>5 DEF Grounded

\* Nothing was heard and nothing is known.
LEMMA StartsGrounded ==
  ASSUME ClassInit
  PROVE  Grounded(sent, pair) /\ "SKYPE" \notin pair.type
<1>1. sent = <<>> /\ pair = NewPair(conf.before) BY DEF ClassInit
<1>2. /\ pair.state = "UNKNOWN" /\ pair.type = {} /\ pair.sizes = {} /\ pair.rtmpHand = {}
      /\ pair.msgs = [d \in Dirs |-> <<>>] /\ pair.web = "GET"
  BY <1>1 DEF NewPair
<1>3. \A x : ~Heard(sent, x) BY <1>1 DEF Heard
<1>4. \A d \in Dirs : ~(Len(pair.msgs[d]) > 0) BY <1>2
<1>5. StateGround(sent, pair.type, pair.state) BY <1>2 DEF StateGround
<1>6. SizeGround(sent, pair) BY <1>2, <1>3, <1>4 DEF SizeGround
<1>7. WebGround(sent, pair) BY <1>2 DEF WebGround, YouTubeSite
<1> QED BY <1>2, <1>5, <1>6, <1>7 DEF Grounded

\* Skype is only found at the end.
SkypeOK == "SKYPE" \in pair.type => ~open /\ conf.bayes
GroundInvariant == Grounded(sent, pair) /\ SkypeOK

\* Every step keeps the grounds.
LEMMA GroundKeeps ==
  ASSUME ClassInvariant, GroundInvariant, [ClassNext]_classVars, Types'
  PROVE  GroundInvariant'
<1>0. /\ Types /\ SessionOK /\ EarlyOK /\ pair \in Conn /\ pair' \in Conn /\ sent \in Seq(Segment)
      /\ Grounded(sent, pair) /\ SkypeOK
  BY DEF ClassInvariant, GroundInvariant, Types
<1>1. ASSUME NEW s \in Segment, PacketStep(s) PROVE GroundInvariant'
  <2> DEFINE again == s \in ToSet(sent)
             R == Append(sent, s)
  <2>1. /\ Passes(pair, s, again, pair') /\ again \in BOOLEAN /\ sent' = R
        /\ again => Heard(sent, s)
    BY <1>1 DEF PacketStep, Heard, ToSet
  <2>2. More(sent, s, R) BY <1>0, MoreHeard
  <2> HIDE DEF again, R
  <2>3. Grounded(R, pair') BY <1>0, <2>1, <2>2, PacketGrounded DEF EarlyOK
  <2>4. SkypeOK'
    <3>1. Adds(pair, s, again, pair') BY <1>0, <2>1, PassesAdd
    <3>2. "SKYPE" \in pair'.type => "SKYPE" \in pair.type BY <3>1 DEF Adds, Protocols
    <3> QED BY <1>0, <1>1, <3>2 DEF SkypeOK, PacketStep
  <2> QED BY <2>1, <2>3, <2>4 DEF GroundInvariant
<1>2. ASSUME OtherStep PROVE GroundInvariant'
  <2>1. Rises(pair.type, pair'.type) BY <1>2 DEF OtherStep, Rises
  <2>2. Grounded(sent, pair') BY <1>0, <1>2, <2>1, RestGrounded DEF OtherStep, SameRest, SameState
  <2> QED BY <1>0, <1>2, <2>2 DEF GroundInvariant, SkypeOK, OtherStep
<1>3. ASSUME NEW v, CloseStep(v) PROVE GroundInvariant'
  <2>1. /\ pair'.state = pair.state /\ SameWeb(pair, pair') /\ Rises(pair.type, pair'.type)
        /\ pair'.type \subseteq pair.type \cup (IF v = {} THEN {} ELSE {"SKYPE"})
        /\ SameSizes(pair, pair') /\ SameRtmp(pair, pair') /\ SameMsgs(pair, pair')
    BY <1>3 DEF CloseStep, Closed, SameOthers
  <2>2. Grounded(sent, pair') BY <1>0, <2>1, RestGrounded
  <2>3. SkypeOK' BY <1>0, <1>3, <2>1 DEF SkypeOK, CloseStep
  <2> QED BY <1>3, <2>2, <2>3 DEF GroundInvariant, CloseStep
<1> QED BY <1>0, <1>1, <1>2, <1>3, ClassSteps

\* The invariant gives what Evidence asks for, label by label.
LEMMA GroundsEvidence ==
  ASSUME sent \in Seq(Segment), GroundInvariant, NEW p \in pair.type, p \in ConTypes
  PROVE  EvidenceOf(p)
<1>1. p = "SKYPE" \/ Ground(sent, pair.type, p) BY DEF GroundInvariant, Grounded
<1>2. \A d, o, a : Answered(sent, d, o, a) => Exchange(d, o, a) BY DEF Answered, InTurn, Exchange, Said
<1>3. \A m, n : Sizes(sent, m, n) => SizesSeen(m, n) BY DEF Sizes, InTurn, SizesSeen
<1>4. \A x : Heard(sent, x) <=> \E i \in DOMAIN sent : sent[i] = x BY DEF Heard
<1>5. \A x \in Segment : Leads(sent, x) => TakenForFirst(x) BY DEF Leads, TakenForFirst, InTurn, Heard, ToSet
<1>6. CASE p \in {"HTTP", "ICY", "SMTP", "POP3", "IMAP", "SSL", "SSH"}
  BY <1>1, <1>2, <1>6 DEF Ground, EvidenceOf
<1>7. CASE p = "RTSP" BY <1>1, <1>2, <1>4, <1>7 DEF Ground, EvidenceOf, Once
<1>8. CASE p = "RTP" BY <1>1, <1>4, <1>8 DEF Ground, EvidenceOf, Opened, Once
<1>9. CASE p \in {"MSN"} BY <1>1, <1>4, <1>9 DEF Ground, EvidenceOf, Opened, Once
<1>10. CASE p = "YMSG" BY <1>1, <1>4, <1>10 DEF Ground, EvidenceOf, Once
<1>11. CASE p = "XMPP" BY <1>1, <1>4, <1>11 DEF Ground, EvidenceOf, Once
<1>12. CASE p = "P2P" BY <1>1, <1>4, <1>12 DEF Ground, EvidenceOf, Once
<1>13. CASE p = "OBF" BY <1>1, <1>3, <1>13 DEF Ground, EvidenceOf
<1>14. CASE p = "RTMP" BY <1>1, <1>4, <1>5, <1>14 DEF Ground, EvidenceOf, Handed, Once
<1>15. CASE p = "MSE" BY <1>1, <1>4, <1>15 DEF Ground, EvidenceOf, PushHeard, Once
<1>16. CASE p = "SKYPE" BY <1>16 DEF GroundInvariant, SkypeOK, EvidenceOf
<1> QED
  BY <1>6, <1>7, <1>8, <1>9, <1>10, <1>11, <1>12, <1>13, <1>14, <1>15, <1>16
     DEF ConTypes, Protocols, Weak

\* The variables of YouTube come from the requests of the connection.
LEMMA GroundsVideo ==
  ASSUME sent \in Seq(Segment), GroundInvariant
  PROVE  OwnVideo
<1>1. WebGround(sent, pair) BY DEF GroundInvariant, Grounded
<1>2. \A x : Heard(sent, x) => x \in ToSet(sent) BY DEF Heard, ToSet
<1> QED BY <1>1, <1>2 DEF WebGround, OwnVideo

\* They are there for every label of every connection.
LEMMA LabelsGrounded == ClassSpec => []GroundInvariant
<1>1. ClassInit => GroundInvariant BY StartsGrounded DEF GroundInvariant, SkypeOK
<1>2. ClassInvariant /\ ClassInvariant' /\ GroundInvariant /\ [ClassNext]_classVars => GroundInvariant'
  BY GroundKeeps DEF ClassInvariant
<1> QED BY <1>1, <1>2, ConnectionOK, PTL DEF ClassSpec

\* What a connection is taken for was opened by one side and answered by
\* the other, or seen in the sizes that stand for it.
THEOREM LabelsEvident ==
  ASSUME RulesMet
  PROVE  ClassSpec => []Evidence
<1>1. ClassInvariant /\ GroundInvariant => Evidence
  <2> SUFFICES ASSUME ClassInvariant, GroundInvariant PROVE Evidence OBVIOUS
  <2>1. sent \in Seq(Segment) /\ pair.type \subseteq ConTypes BY DEF ClassInvariant, Types, Conn
  <2>2. OwnVideo BY <2>1, GroundsVideo
  <2>3. \A p \in pair.type : EvidenceOf(p) BY <2>1, GroundsEvidence
  <2> QED BY <2>2, <2>3 DEF Evidence
<1> QED BY <1>1, LabelsGrounded, ConnectionOK, PTL

------------------------------
\* The bytes of a connection, by table, row and label, and where its hosts
\* are.  A set of numbers has a least.
LEMMA LeastOf ==
  ASSUME NEW X \in SUBSET Nat, X # {}
  PROVE  \E n \in X : \A m \in Nat : m < n => m \notin X
<1>0. IsWellFoundedOn(OpToRel(<, Nat), Nat) BY NatLessThanWellFounded
<1>1. PICK n \in X : \A m \in X : ~ (<<m, n>> \in OpToRel(<, Nat)) BY <1>0, WFMin
<1>2. \A m, k \in Nat : <<m, k>> \in OpToRel(<, Nat) <=> m < k BY DEF OpToRel
<1> QED BY <1>1, <1>2

------------------------------
\* Sums.  What is added first, and functions of the sets that add up f.
Pick(s) == CHOOSE x \in s : TRUE
Added(g, f, s) == IF s = {} THEN 0 ELSE f[Pick(s)] + g[s \ {Pick(s)}]
Sums(g, f, W) == \A s \in SUBSET W : g[s] = Added(g, f, s)
IsSum(g, f, W) == g = [s \in SUBSET W |-> Added(g, f, s)]
Adder(g, f, W) == g \in [SUBSET W -> Nat] /\ Sums(g, f, W)
Splits(g, f, W, a) == g[W] = f[a] + g[W \ {a}]
AllNat(f, W) == \A x \in W : f[x] \in Nat

\* A set that is not empty has a first element, and one less without it.
LEMMA Without ==
  ASSUME NEW s, IsFiniteSet(s), NEW x \in s
  PROVE  /\ IsFiniteSet(s \ {x}) /\ Cardinality(s) \in Nat \ {0}
         /\ Cardinality(s \ {x}) = Cardinality(s) - 1
<1>1. IsFiniteSet(s \ {x}) /\ Cardinality(s \ {x}) = Cardinality(s) - 1 BY FS_RemoveElement
<1>2. Cardinality(s) \in Nat /\ Cardinality(s \ {x}) \in Nat BY <1>1, FS_CardinalityType
<1> QED BY <1>1, <1>2

\* There are sums of every finite set.
LEMMA SumsExist ==
  ASSUME NEW W, IsFiniteSet(W), NEW f, AllNat(f, W)
  PROVE  \E g \in [SUBSET W -> Nat] : Sums(g, f, W)
<1> DEFINE Good(n) == \E g \in [SUBSET W -> Nat] :
                         \A s \in SUBSET W : Cardinality(s) <= n => g[s] = Added(g, f, s)
           X == {n \in Nat : ~Good(n)}
<1>0. \A s \in SUBSET W : IsFiniteSet(s) /\ Cardinality(s) \in Nat BY FS_Subset, FS_CardinalityType
<1>1. ASSUME NEW s \in SUBSET W, s # {} PROVE Pick(s) \in s /\ Pick(s) \in W BY <1>1 DEF Pick
<1>2. X = {}
  <2> SUFFICES ASSUME X # {} PROVE FALSE OBVIOUS
  <2>1. PICK n \in X : \A m \in Nat : m < n => m \notin X
    <3>1. X \in SUBSET Nat OBVIOUS
    <3> HIDE DEF X
    <3> QED BY <3>1, LeastOf
  <2>2. CASE n = 0
    <3> DEFINE g == [s \in SUBSET W |-> 0]
    <3>1. ASSUME NEW s \in SUBSET W, Cardinality(s) <= 0 PROVE g[s] = Added(g, f, s)
      <4>1. s = {} BY <1>0, <3>1, FS_EmptySet
      <4> QED BY <4>1 DEF Added
    <3>2. g \in [SUBSET W -> Nat] OBVIOUS
    <3> HIDE DEF g
    <3> QED BY <2>2, <3>1, <3>2
  <2>3. CASE n # 0
    <3>1. n - 1 \in Nat /\ Good(n - 1)
      <4>1. n - 1 \in Nat /\ n - 1 < n BY <2>3
      <4>2. n - 1 \notin X
        <5> HIDE DEF X
        <5> QED BY <2>1, <4>1
      <4> QED BY <4>1, <4>2
    <3> PICK g \in [SUBSET W -> Nat] : \A s \in SUBSET W : Cardinality(s) <= n - 1 => g[s] = Added(g, f, s)
      BY <3>1
    <3> DEFINE h == [s \in SUBSET W |-> Added(g, f, s)]
    <3>2. ASSUME NEW s \in SUBSET W PROVE Added(g, f, s) \in Nat
      <4>1. CASE s = {} BY <4>1 DEF Added
      <4>2. CASE s # {}
        <5>1. f[Pick(s)] \in Nat /\ g[s \ {Pick(s)}] \in Nat BY <1>1, <4>2 DEF AllNat
        <5> QED BY <4>2, <5>1 DEF Added
      <4> QED BY <4>1, <4>2
    <3>3. h \in [SUBSET W -> Nat] BY <3>2
    <3>4. ASSUME NEW s \in SUBSET W, Cardinality(s) <= n PROVE h[s] = Added(h, f, s)
      <4>1. h[s] = Added(g, f, s) OBVIOUS
      <4>2. CASE s = {} BY <4>1, <4>2 DEF Added
      <4>3. CASE s # {}
        <5> DEFINE r == s \ {Pick(s)}
        <5>1. r \in SUBSET W /\ Cardinality(r) <= n - 1
          <6>1. Pick(s) \in s BY <1>1, <4>3
          <6>2. Cardinality(r) = Cardinality(s) - 1 BY <1>0, <6>1, Without
          <6> QED BY <1>0, <3>4, <6>2
        <5>2. g[r] = h[r] BY <5>1
        <5> QED BY <4>1, <4>3, <5>2 DEF Added
      <4> QED BY <4>2, <4>3
    <3> HIDE DEF h
    <3>5. Good(n) BY <3>3, <3>4
    <3> QED BY <2>1, <3>5
  <2> QED BY <2>2, <2>3
<1>3. Cardinality(W) \in Nat BY <1>0
<1>4. PICK g \in [SUBSET W -> Nat] :
          \A s \in SUBSET W : Cardinality(s) <= Cardinality(W) => g[s] = Added(g, f, s)
  BY <1>2, <1>3
<1>5. \A s \in SUBSET W : Cardinality(s) <= Cardinality(W) BY FS_Subset
<1> QED BY <1>4, <1>5 DEF Sums

\* Sums of functions that agree are the same.
LEMMA SumsAgree ==
  ASSUME NEW W, NEW T, NEW g, NEW f, NEW h, NEW e, Sums(g, f, W), Sums(h, e, T),
         NEW A \in SUBSET (W \cap T), IsFiniteSet(A), \A x \in A : f[x] = e[x]
  PROVE  g[A] = h[A]
<1> DEFINE Bad(s, n) == Cardinality(s) = n /\ g[s] # h[s]
           X == {n \in Nat : \E s \in SUBSET A : Bad(s, n)}
<1>0. \A s \in SUBSET A : IsFiniteSet(s) /\ Cardinality(s) \in Nat BY FS_Subset, FS_CardinalityType
<1> SUFFICES ASSUME g[A] # h[A] PROVE FALSE OBVIOUS
<1>1. X # {} BY <1>0
<1>2. PICK n \in X : \A m \in Nat : m < n => m \notin X
  <2>1. X \in SUBSET Nat OBVIOUS
  <2> HIDE DEF X
  <2> QED BY <1>1, <2>1, LeastOf
<1>3. PICK s \in SUBSET A : Bad(s, n) OBVIOUS
<1>4. g[s] = Added(g, f, s) /\ h[s] = Added(h, e, s) BY DEF Sums
<1>5. s # {} BY <1>3, <1>4 DEF Added
<1> DEFINE r == s \ {Pick(s)}
<1>6. Pick(s) \in s /\ r \in SUBSET A BY <1>5 DEF Pick
<1>7. Cardinality(r) \in Nat /\ Cardinality(r) < n BY <1>0, <1>3, <1>6, Without
<1>8. g[r] = h[r]
  <2>1. Cardinality(r) \notin X
    <3> HIDE DEF X
    <3> QED BY <1>2, <1>7
  <2> QED BY <1>6, <1>7, <2>1
<1>9. f[Pick(s)] = e[Pick(s)] BY <1>6
<1> QED BY <1>3, <1>4, <1>5, <1>8, <1>9 DEF Added

\* Any element can be added first.
LEMMA SumsSplit ==
  ASSUME NEW W, IsFiniteSet(W), NEW f, AllNat(f, W), NEW g, Adder(g, f, W), NEW a \in W
  PROVE  Splits(g, f, W, a)
<1> USE DEF Adder, Splits
<1> DEFINE Bad(s, n) == Cardinality(s) = n /\ \E x \in s : g[s] # f[x] + g[s \ {x}]
           X == {n \in Nat : \E s \in SUBSET W : Bad(s, n)}
<1>0. \A s \in SUBSET W : IsFiniteSet(s) /\ Cardinality(s) \in Nat BY FS_Subset, FS_CardinalityType
<1> SUFFICES ASSUME g[W] # f[a] + g[W \ {a}] PROVE FALSE OBVIOUS
<1>1. X # {} BY <1>0
<1>2. PICK n \in X : \A m \in Nat : m < n => m \notin X
  <2>1. X \in SUBSET Nat OBVIOUS
  <2> HIDE DEF X
  <2> QED BY <1>1, <2>1, LeastOf
<1>3. PICK s \in SUBSET W : Bad(s, n) OBVIOUS
<1>4. PICK x \in s : g[s] # f[x] + g[s \ {x}] BY <1>3
<1> DEFINE c == Pick(s)
<1>5. c \in s /\ c \in W /\ x \in W BY <1>4 DEF Pick
<1>6. g[s] = f[c] + g[s \ {c}] BY <1>4 DEF Sums, Added
<1>7. c # x BY <1>4, <1>6
<1> HIDE DEF c
<1> DEFINE r == s \ {c}
           t == s \ {x}
<1>8. /\ r \in SUBSET W /\ Cardinality(r) \in Nat /\ Cardinality(r) < n /\ x \in r
      /\ t \in SUBSET W /\ Cardinality(t) \in Nat /\ Cardinality(t) < n /\ c \in t
  BY <1>0, <1>3, <1>5, <1>7, Without
<1>9. Cardinality(r) \notin X /\ Cardinality(t) \notin X
  <2> HIDE DEF X
  <2> QED BY <1>2, <1>8
<1>10. g[r] = f[x] + g[r \ {x}] /\ g[t] = f[c] + g[t \ {c}] BY <1>8, <1>9
<1>11. r \ {x} = t \ {c} OBVIOUS
<1>12. f[x] \in Nat /\ f[c] \in Nat /\ g[r \ {x}] \in Nat BY <1>5, <1>8 DEF AllNat
<1>13. g[s] = f[c] + g[r] /\ g[s] # f[x] + g[t] BY <1>4, <1>6
<1> HIDE DEF r, t
<1>14. g[t] = f[c] + g[r \ {x}] BY <1>10, <1>11
<1> QED BY <1>10, <1>12, <1>13, <1>14

\* What the sum of a finite set is.
LEMMA SumIs ==
  ASSUME NEW W, IsFiniteSet(W), NEW f, AllNat(f, W)
  PROVE  \E g \in [SUBSET W -> Nat] : Sums(g, f, W) /\ SumFunctionOnSet(f, W) = g[W]
<1>1. PICK g \in [SUBSET W -> Nat] : Sums(g, f, W) BY SumsExist
<1> DEFINE u == CHOOSE h : IsSum(h, f, W)
<1>2. SumFunctionOnSet(f, W) = u[W]
  BY DEF SumFunctionOnSet, FoldFunctionOnSet, MapThenFoldSet, IsSum, Added, Pick
<1>3. IsSum(g, f, W)
  <2> DEFINE e == [s \in SUBSET W |-> Added(g, f, s)]
  <2>1. g = [s \in SUBSET W |-> g[s]] OBVIOUS
  <2>2. \A s \in SUBSET W : g[s] = e[s] BY <1>1 DEF Sums
  <2>3. g = e BY <2>1, <2>2
  <2> QED BY <2>3 DEF IsSum
<1>4. IsSum(u, f, W) BY <1>3
<1> HIDE DEF u
<1>5. Sums(u, f, W) BY <1>4 DEF IsSum, Sums
<1>6. g[W] = u[W] BY <1>1, <1>5, SumsAgree
<1> QED BY <1>1, <1>2, <1>6

\* The sum of nothing.
LEMMA SumNone == ASSUME NEW f PROVE SumFunctionOnSet(f, {}) = 0
<1>1. IsFiniteSet({}) BY FS_EmptySet
<1>2. AllNat(f, {}) BY DEF AllNat
<1>3. PICK g \in [SUBSET {} -> Nat] : Sums(g, f, {}) /\ SumFunctionOnSet(f, {}) = g[{}]
  BY <1>1, <1>2, SumIs
<1> QED BY <1>3 DEF Sums, Added

\* Sums of functions that agree.
LEMMA SumSame ==
  ASSUME NEW W, IsFiniteSet(W), NEW f, NEW e, AllNat(f, W), \A x \in W : f[x] = e[x]
  PROVE  SumFunctionOnSet(f, W) \in Nat /\ SumFunctionOnSet(f, W) = SumFunctionOnSet(e, W)
<1>1. AllNat(e, W) BY DEF AllNat
<1>2. PICK g \in [SUBSET W -> Nat] : Sums(g, f, W) /\ SumFunctionOnSet(f, W) = g[W] BY SumIs
<1>3. PICK h \in [SUBSET W -> Nat] : Sums(h, e, W) /\ SumFunctionOnSet(e, W) = h[W] BY <1>1, SumIs
<1>4. W \in SUBSET (W \cap W) OBVIOUS
<1>5. g[W] = h[W] BY <1>2, <1>3, <1>4, SumsAgree
<1> QED BY <1>2, <1>3, <1>5

\* One element and the rest.
LEMMA SumMore ==
  ASSUME NEW W, IsFiniteSet(W), NEW f, AllNat(f, W), NEW a \in W
  PROVE  /\ SumFunctionOnSet(f, W \ {a}) \in Nat
         /\ SumFunctionOnSet(f, W) = f[a] + SumFunctionOnSet(f, W \ {a})
<1> DEFINE R == W \ {a}
<1>1. IsFiniteSet(R) /\ R \in SUBSET W /\ R \in SUBSET (W \cap R) BY FS_Subset
<1>2. AllNat(f, R) BY DEF AllNat
<1>3. PICK g \in [SUBSET W -> Nat] : Sums(g, f, W) /\ SumFunctionOnSet(f, W) = g[W] BY SumIs
<1> HIDE DEF R
<1>4. PICK h \in [SUBSET R -> Nat] : Sums(h, f, R) /\ SumFunctionOnSet(f, R) = h[R] BY <1>1, <1>2, SumIs
<1>5. g[W] = f[a] + g[W \ {a}]
  <2>1. Adder(g, f, W) BY <1>3 DEF Adder
  <2>2. Splits(g, f, W, a) BY <2>1, SumsSplit
  <2> QED BY <2>2 DEF Splits
<1>6. g[R] = h[R] BY <1>1, <1>3, <1>4, SumsAgree
<1>7. h[R] \in Nat BY <1>4
<1> QED BY <1>3, <1>4, <1>5, <1>6, <1>7 DEF R

------------------------------
\* Rates: finitely many of them, each a number of bytes.
RatesOK(r) == IsFiniteSet(DOMAIN r) /\ AllNat(r, DOMAIN r)
Under(r, t, row) == {k \in DOMAIN r : k[1] = t /\ k[2] = row}
TotalOf(r, t, row) == SumFunctionOnSet(r, Under(r, t, row))
Has(keys, t, row) == \E k \in keys : k[1] = t /\ k[2] = row
Single(keys, t, row) == \A k, l \in keys : k[1] = t /\ k[2] = row /\ l[1] = t /\ l[2] = row => k = l

Increased(r, keys, n, q) ==
    /\ RatesOK(q) /\ DOMAIN q = DOMAIN r \cup keys
    /\ \A k : Bytes(r, k) \in Nat
    /\ \A k : Bytes(q, k) = Bytes(r, k) + (IF k \in keys THEN n ELSE 0)

\* A total is a number.
LEMMA TotalType ==
  ASSUME NEW r, RatesOK(r), NEW t, NEW row
  PROVE  /\ IsFiniteSet(Under(r, t, row)) /\ AllNat(r, Under(r, t, row))
         /\ TotalOf(r, t, row) \in Nat
<1>1. IsFiniteSet(Under(r, t, row)) BY FS_Subset DEF RatesOK, Under
<1>2. AllNat(r, Under(r, t, row)) BY DEF RatesOK, Under, AllNat
<1>3. SumFunctionOnSet(r, Under(r, t, row)) \in Nat BY <1>1, <1>2, SumSame
<1> QED BY <1>1, <1>2, <1>3 DEF TotalOf

\* What is added goes to the keys.
LEMMA AddGoes ==
  ASSUME NEW r, RatesOK(r), NEW keys, IsFiniteSet(keys), NEW n \in Nat
  PROVE  Increased(r, keys, n, Add(r, keys, n))
<1> DEFINE q == Add(r, keys, n)
<1>1. \A k : Bytes(r, k) \in Nat BY DEF RatesOK, AllNat, Bytes
<1>2. DOMAIN q = DOMAIN r \cup keys BY DEF Add
<1>3. \A k \in DOMAIN q : q[k] = Bytes(r, k) + (IF k \in keys THEN n ELSE 0) BY DEF Add
<1> HIDE DEF q
<1>4. IsFiniteSet(DOMAIN q) BY <1>2, FS_Union DEF RatesOK
<1>5. \A k \in DOMAIN q : q[k] \in Nat BY <1>1, <1>3
<1>6. RatesOK(q) BY <1>4, <1>5 DEF RatesOK, AllNat
<1>7. ASSUME NEW k PROVE Bytes(q, k) = Bytes(r, k) + (IF k \in keys THEN n ELSE 0)
  <2>1. CASE k \in DOMAIN q BY <1>3, <2>1 DEF Bytes
  <2>2. CASE k \notin DOMAIN q BY <1>2, <2>2 DEF Bytes
  <2> QED BY <2>1, <2>2
<1>8. Increased(r, keys, n, q) BY <1>1, <1>2, <1>6, <1>7 DEF Increased
<1> QED BY <1>8 DEF q

\* A total with at most one of the keys.
LEMMA AddTotal ==
  ASSUME NEW r, RatesOK(r), NEW keys, IsFiniteSet(keys), NEW n \in Nat, NEW t, NEW row,
         Single(keys, t, row)
  PROVE  TotalOf(Add(r, keys, n), t, row) = TotalOf(r, t, row) + (IF Has(keys, t, row) THEN n ELSE 0)
<1> DEFINE q == Add(r, keys, n)
           W == Under(r, t, row)
           U == Under(q, t, row)
<1>1. /\ RatesOK(q) /\ DOMAIN q = DOMAIN r \cup keys
      /\ \A k : Bytes(r, k) \in Nat
      /\ \A k : Bytes(q, k) = Bytes(r, k) + (IF k \in keys THEN n ELSE 0)
  <2>1. Increased(r, keys, n, q) BY AddGoes
  <2> QED BY <2>1 DEF Increased
<1> HIDE DEF q
<1>2. /\ IsFiniteSet(W) /\ AllNat(r, W) /\ TotalOf(r, t, row) \in Nat
      /\ IsFiniteSet(U) /\ AllNat(q, U) /\ TotalOf(q, t, row) \in Nat
  BY <1>1, TotalType
<1>3. /\ TotalOf(r, t, row) = SumFunctionOnSet(r, W)
      /\ TotalOf(q, t, row) = SumFunctionOnSet(q, U)
  BY DEF TotalOf
<1>4. ASSUME NEW k \in DOMAIN r, k \notin keys PROVE r[k] = q[k]
  <2>1. Bytes(q, k) = q[k] /\ Bytes(r, k) = r[k] BY <1>1 DEF Bytes
  <2>2. Bytes(r, k) \in Nat /\ Bytes(q, k) = Bytes(r, k) + 0 BY <1>1, <1>4
  <2> QED BY <2>1, <2>2
<1>5. CASE ~Has(keys, t, row)
  <2>1. U = W BY <1>1, <1>5 DEF Under, Has
  <2>2. \A k \in W : r[k] = q[k] BY <1>4, <1>5 DEF Under, Has
  <2>3. SumFunctionOnSet(r, W) = SumFunctionOnSet(q, W) BY <1>2, <2>2, SumSame
  <2> HIDE DEF W, U
  <2>4. TotalOf(q, t, row) = TotalOf(r, t, row) BY <1>3, <2>1, <2>3
  <2> QED BY <1>2, <1>5, <2>4 DEF q
<1>6. CASE Has(keys, t, row)
  <2> PICK k \in keys : k[1] = t /\ k[2] = row BY <1>6 DEF Has
  <2>1. \A l \in keys : l[1] = t /\ l[2] = row => l = k BY DEF Single
  <2>2. k \in U BY <1>1 DEF Under
  <2>3. U \ {k} = W \ {k} BY <1>1, <2>1 DEF Under
  <2>4. q[k] = Bytes(r, k) + n /\ Bytes(r, k) \in Nat
    <3>1. Bytes(q, k) = q[k] BY <1>1 DEF Bytes
    <3> QED BY <1>1, <3>1
  <2>5. SumFunctionOnSet(q, U) = q[k] + SumFunctionOnSet(q, U \ {k}) BY <1>2, <2>2, SumMore
  <2> DEFINE R == W \ {k}
  <2>6. IsFiniteSet(R) /\ AllNat(r, R) BY <1>2, FS_Subset DEF AllNat
  <2>7. \A l \in R : r[l] = q[l] BY <1>4, <2>1 DEF Under
  <2>8. SumFunctionOnSet(r, R) \in Nat /\ SumFunctionOnSet(r, R) = SumFunctionOnSet(q, R)
    <3> HIDE DEF R
    <3> QED BY <2>6, <2>7, SumSame
  <2>9. SumFunctionOnSet(r, W) = Bytes(r, k) + SumFunctionOnSet(r, R)
    <3>1. CASE k \in DOMAIN r
      <4>1. k \in W /\ Bytes(r, k) = r[k] BY <3>1 DEF Under, Bytes
      <4> HIDE DEF W
      <4>2. SumFunctionOnSet(r, W) = r[k] + SumFunctionOnSet(r, W \ {k}) BY <1>2, <4>1, SumMore
      <4> QED BY <4>1, <4>2
    <3>2. CASE k \notin DOMAIN r
      <4>1. W = R /\ Bytes(r, k) = 0 BY <3>2 DEF Under, Bytes
      <4> HIDE DEF R, W
      <4> QED BY <2>8, <4>1
    <3> QED BY <3>1, <3>2
  <2> HIDE DEF W, U
  <2>10. SumFunctionOnSet(q, U) = q[k] + SumFunctionOnSet(r, R) BY <2>3, <2>5, <2>8
  <2> HIDE DEF R
  <2>11. SumFunctionOnSet(q, U) = SumFunctionOnSet(r, W) + n BY <2>4, <2>8, <2>9, <2>10
  <2> QED BY <1>3, <1>6, <2>11 DEF q
<1> QED BY <1>5, <1>6

------------------------------
\* The rows of a packet: none, all that stays inside, or all of a side and
\* its share.
RowsOK(rows) ==
    \/ rows = {} \/ rows = {<<"loc", "all">>}
    \/ \E side \in {"out", "in"}, c \in {"cloud", "rest"} : rows = {<<side, "all">>, <<side, c>>}

\* So are those of every place.
LEMMA RemoteRowsAre ==
  ASSUME NEW p, p.internal \subseteq Dirs, NEW d \in Dirs
  PROVE  RowsOK(RemoteRows(p, d))
<1>1. Side(p, d) \in {"out", "in", "loc", "ext"} BY DEF Side, Other, Dirs
<1> DEFINE side == Side(p, d)
           c == Remote(p, d) \in p.cloud
<1>2. RemoteRows(p, d) = Rows(side, c) BY DEF RemoteRows
<1> HIDE DEF side, c
<1>3. CASE side \in {"out", "in"}
  <2>1. Rows(side, c) = {<<side, "all">>, <<side, IF c THEN "cloud" ELSE "rest">>} BY <1>3 DEF Rows
  <2> QED BY <1>2, <1>3, <2>1 DEF RowsOK
<1>4. CASE side = "loc" BY <1>2, <1>4 DEF Rows, RowsOK
<1>5. CASE side = "ext" BY <1>2, <1>5 DEF Rows, RowsOK
<1> QED BY <1>1, <1>3, <1>4, <1>5 DEF side

\* Keys of one table and label.
KeysFor(t, rows, l) == {<<t, x, l>> : x \in rows}

\* Rows and the keys of a label are finite.
LEMMA RowsFinite ==
  ASSUME NEW rows, RowsOK(rows), NEW t, NEW l
  PROVE  /\ IsFiniteSet(KeysFor(t, rows, l)) /\ IsFiniteSet(KeysFor(t, Whole(rows), l))
<1>1. IsFiniteSet({}) /\ \A x, y : IsFiniteSet({x}) /\ IsFiniteSet({x, y})
  <2>1. ASSUME NEW x, NEW y PROVE IsFiniteSet({x, y})
    <3>1. IsFiniteSet({x} \cup {y}) BY FS_Singleton, FS_Union
    <3> QED BY <3>1
  <2> QED BY <2>1, FS_EmptySet, FS_Singleton
<1>2. ASSUME NEW x, NEW y
      PROVE  /\ KeysFor(t, {}, l) = {} /\ KeysFor(t, {x}, l) = {<<t, x, l>>}
             /\ KeysFor(t, {x, y}, l) = {<<t, x, l>>, <<t, y, l>>}
  BY DEF KeysFor
<1>3. \/ rows = {} /\ Whole(rows) = {}
      \/ rows = {<<"loc", "all">>} /\ Whole(rows) = rows
      \/ \E side \in {"out", "in"}, c \in {"cloud", "rest"} :
            rows = {<<side, "all">>, <<side, c>>} /\ Whole(rows) = {<<side, "all">>}
  BY DEF RowsOK, Whole
<1>4. ASSUME NEW x, NEW y
      PROVE  IsFiniteSet(KeysFor(t, {}, l)) /\ IsFiniteSet(KeysFor(t, {x}, l)) /\ IsFiniteSet(KeysFor(t, {x, y}, l))
  <2> DEFINE a == <<t, x, l>>
             b == <<t, y, l>>
  <2>1. KeysFor(t, {}, l) = {} /\ KeysFor(t, {x}, l) = {a} /\ KeysFor(t, {x, y}, l) = {a, b} BY <1>2
  <2> HIDE DEF a, b
  <2>2. IsFiniteSet({}) /\ IsFiniteSet({a}) /\ IsFiniteSet({a, b}) BY <1>1
  <2> QED BY <2>1, <2>2
<1>5. CASE rows = {} /\ Whole(rows) = {} BY <1>4, <1>5
<1>6. CASE rows = {<<"loc", "all">>} /\ Whole(rows) = rows BY <1>4, <1>6
<1>7. CASE \E side \in {"out", "in"}, c \in {"cloud", "rest"} :
              rows = {<<side, "all">>, <<side, c>>} /\ Whole(rows) = {<<side, "all">>}
  BY <1>4, <1>7
<1> QED BY <1>3, <1>5, <1>6, <1>7

\* The keys of a packet with the label l, of class x, category y and video
\* class z.
Keys(rows, l, http, x, y, video, z) ==
    {"L7"} \X rows \X {l}
    \cup (IF http THEN ({"HTTP"} \X rows \X {x}) \cup ({"WEB"} \X Whole(rows) \X {y}) ELSE {})
    \cup (IF video THEN {"VIDEO"} \X rows \X {z} ELSE {})
    \cup {"L4"} \X rows \X {"IP", "TCP"}

KeysKnown(K, rows, l, http) ==
    /\ IsFiniteSet(K)
    /\ \A row : /\ Single(K, "L7", row) /\ (Has(K, "L7", row) <=> row \in rows)
                /\ Single(K, "HTTP", row) /\ (Has(K, "HTTP", row) <=> http /\ row \in rows)
                /\ Single(K, "WEB", row) /\ (Has(K, "WEB", row) <=> http /\ row \in rows /\ row[2] = "all")
                /\ <<"L4", row, "TCP">> \in K <=> row \in rows
                /\ \A m : <<"L7", row, m>> \in K <=> row \in rows /\ m = l

\* What is in them, of the tables the totals are about.
LEMMA KeysAre ==
  ASSUME NEW rows, RowsOK(rows), NEW l, NEW http \in BOOLEAN, NEW x, NEW y, NEW video \in BOOLEAN, NEW z
  PROVE  KeysKnown(Keys(rows, l, http, x, y, video, z), rows, l, http)
<1> DEFINE K == Keys(rows, l, http, x, y, video, z)
<1>1. \A k : k \in K <=> \E row \in rows :
                \/ k = <<"L7", row, l>>
                \/ http /\ k = <<"HTTP", row, x>>
                \/ http /\ row[2] = "all" /\ k = <<"WEB", row, y>>
                \/ video /\ k = <<"VIDEO", row, z>>
                \/ k = <<"L4", row, "IP">> \/ k = <<"L4", row, "TCP">>
  BY DEF Keys, Whole
<1>2. IsFiniteSet(K)
  <2>1. /\ IsFiniteSet(KeysFor("L7", rows, l)) /\ IsFiniteSet(KeysFor("HTTP", rows, x))
        /\ IsFiniteSet(KeysFor("WEB", Whole(rows), y)) /\ IsFiniteSet(KeysFor("VIDEO", rows, z))
        /\ IsFiniteSet(KeysFor("L4", rows, "IP")) /\ IsFiniteSet(KeysFor("L4", rows, "TCP"))
    BY RowsFinite
  <2> DEFINE A == KeysFor("L7", rows, l) \cup KeysFor("HTTP", rows, x)
             B == KeysFor("WEB", Whole(rows), y) \cup KeysFor("VIDEO", rows, z)
             C == KeysFor("L4", rows, "IP") \cup KeysFor("L4", rows, "TCP")
             D == A \cup B
  <2>2. IsFiniteSet(A) /\ IsFiniteSet(B) /\ IsFiniteSet(C) BY <2>1, FS_Union
  <2>3. IsFiniteSet(D \cup C)
    <3>1. IsFiniteSet(D)
      <4> HIDE DEF A, B
      <4> QED BY <2>2, FS_Union
    <3> HIDE DEF D, C
    <3> QED BY <2>2, <3>1, FS_Union
  <2>4. K \subseteq D \cup C
    <3> SUFFICES ASSUME NEW k \in K PROVE k \in D \cup C OBVIOUS
    <3> HIDE DEF K
    <3> QED BY <1>1 DEF KeysFor, Whole
  <2> HIDE DEF K, D, C
  <2> QED BY <2>3, <2>4, FS_Subset
<1> HIDE DEF K
<1>3. ASSUME NEW row
      PROVE  /\ Single(K, "L7", row) /\ (Has(K, "L7", row) <=> row \in rows)
             /\ Single(K, "HTTP", row) /\ (Has(K, "HTTP", row) <=> http /\ row \in rows)
             /\ Single(K, "WEB", row) /\ (Has(K, "WEB", row) <=> http /\ row \in rows /\ row[2] = "all")
  <2>1. \A k \in K : /\ k[1] = "L7" => k = <<"L7", k[2], l>> /\ k[2] \in rows
                     /\ k[1] = "HTTP" => k = <<"HTTP", k[2], x>> /\ k[2] \in rows /\ http
                     /\ k[1] = "WEB" => k = <<"WEB", k[2], y>> /\ k[2] \in rows /\ k[2][2] = "all" /\ http
    BY <1>1
  <2>2. /\ row \in rows => <<"L7", row, l>> \in K
        /\ http /\ row \in rows => <<"HTTP", row, x>> \in K
        /\ http /\ row \in rows /\ row[2] = "all" => <<"WEB", row, y>> \in K
    BY <1>1
  <2>3. \A t, m : <<t, row, m>>[1] = t /\ <<t, row, m>>[2] = row OBVIOUS
  <2>4. Single(K, "L7", row) /\ Single(K, "HTTP", row) /\ Single(K, "WEB", row) BY <2>1 DEF Single
  <2>5. Has(K, "L7", row) <=> row \in rows BY <2>1, <2>2, <2>3 DEF Has
  <2>6. Has(K, "HTTP", row) <=> http /\ row \in rows BY <2>1, <2>2, <2>3 DEF Has
  <2>7. Has(K, "WEB", row) <=> http /\ row \in rows /\ row[2] = "all" BY <2>1, <2>2, <2>3 DEF Has
  <2> QED BY <2>4, <2>5, <2>6, <2>7
<1>4. ASSUME NEW row
      PROVE  /\ <<"L4", row, "TCP">> \in K <=> row \in rows
             /\ \A m : <<"L7", row, m>> \in K <=> row \in rows /\ m = l
  BY <1>1
<1>5. KeysKnown(K, rows, l, http) BY <1>2, <1>3, <1>4 DEF KeysKnown
<1> QED BY <1>5 DEF K

------------------------------
\* BytesCounted, of some rates.
Shared(r, t, side) == TotalOf(r, t, <<side, "cloud">>) + TotalOf(r, t, <<side, "rest">>)
Balance(r, side) ==
    LET all == <<side, "all">>
        skype == Bytes(r, <<"L7", all, "SKYPE">>)
    IN  /\ TotalOf(r, "L7", all) = Bytes(r, <<"L4", all, "TCP">>) + skype
        /\ side # "loc" => /\ Shared(r, "L7", side) + skype = TotalOf(r, "L7", all)
                           /\ Shared(r, "HTTP", side) = TotalOf(r, "HTTP", all)
        /\ TotalOf(r, "HTTP", all) = Bytes(r, <<"L7", all, "HTTP">>)
        /\ TotalOf(r, "WEB", all) = TotalOf(r, "HTTP", all)
Balanced(r) == RatesOK(r) /\ \A side \in {"out", "in", "loc"} : Balance(r, side)

\* With a packet, every label but Skype keeps the balance.
LEMMA PacketBalanced ==
  ASSUME NEW r, Balanced(r), NEW n \in Nat, NEW rows, RowsOK(rows), NEW l, l # "SKYPE",
         NEW x, NEW y, NEW video \in BOOLEAN, NEW z
  PROVE  Balanced(Add(r, Keys(rows, l, l = "HTTP", x, y, video, z), n))
<1> DEFINE K == Keys(rows, l, l = "HTTP", x, y, video, z)
           q == Add(r, K, n)
           N(b) == IF b THEN n ELSE 0
<1>1. /\ IsFiniteSet(K)
      /\ \A row : /\ Single(K, "L7", row) /\ (Has(K, "L7", row) <=> row \in rows)
                  /\ Single(K, "HTTP", row) /\ (Has(K, "HTTP", row) <=> l = "HTTP" /\ row \in rows)
                  /\ Single(K, "WEB", row)
                  /\ (Has(K, "WEB", row) <=> l = "HTTP" /\ row \in rows /\ row[2] = "all")
                  /\ <<"L4", row, "TCP">> \in K <=> row \in rows
                  /\ \A m : <<"L7", row, m>> \in K <=> row \in rows /\ m = l
  <2> DEFINE w == l = "HTTP"
  <2>1. w \in BOOLEAN OBVIOUS
  <2> HIDE DEF w
  <2>2. KeysKnown(Keys(rows, l, w, x, y, video, z), rows, l, w) BY <2>1, KeysAre
  <2> QED BY <2>2 DEF KeysKnown, w
<1> HIDE DEF K
<1>2. RatesOK(r) BY DEF Balanced
<1>3. Increased(r, K, n, q) BY <1>1, <1>2, AddGoes
<1>4. \A t, row : Single(K, t, row) => TotalOf(q, t, row) = TotalOf(r, t, row) + N(Has(K, t, row))
  BY <1>1, <1>2, AddTotal
<1> HIDE DEF q
<1>5. \A t, row : TotalOf(r, t, row) \in Nat BY <1>2, TotalType
<1>6. RatesOK(q) /\ \A k : Bytes(r, k) \in Nat /\ Bytes(q, k) = Bytes(r, k) + N(k \in K) BY <1>3 DEF Increased
<1>7. ASSUME NEW side \in {"out", "in", "loc"} PROVE Balance(q, side)
  <2> DEFINE all == <<side, "all">>
             a == all \in rows
             c == <<side, "cloud">> \in rows
             e == <<side, "rest">> \in rows
             w == l = "HTTP"
  <2>1. side # "loc" => (a <=> (c \/ e)) /\ ~(c /\ e) BY DEF RowsOK
  <2>2. /\ TotalOf(q, "L7", all) = TotalOf(r, "L7", all) + N(a)
        /\ TotalOf(q, "L7", <<side, "cloud">>) = TotalOf(r, "L7", <<side, "cloud">>) + N(c)
        /\ TotalOf(q, "L7", <<side, "rest">>) = TotalOf(r, "L7", <<side, "rest">>) + N(e)
        /\ TotalOf(q, "HTTP", all) = TotalOf(r, "HTTP", all) + N(w /\ a)
        /\ TotalOf(q, "HTTP", <<side, "cloud">>) = TotalOf(r, "HTTP", <<side, "cloud">>) + N(w /\ c)
        /\ TotalOf(q, "HTTP", <<side, "rest">>) = TotalOf(r, "HTTP", <<side, "rest">>) + N(w /\ e)
        /\ TotalOf(q, "WEB", all) = TotalOf(r, "WEB", all) + N(w /\ a)
    BY <1>1, <1>4
  <2>3. /\ Bytes(q, <<"L4", all, "TCP">>) = Bytes(r, <<"L4", all, "TCP">>) + N(a)
        /\ Bytes(q, <<"L7", all, "SKYPE">>) = Bytes(r, <<"L7", all, "SKYPE">>) + 0
        /\ Bytes(q, <<"L7", all, "HTTP">>) = Bytes(r, <<"L7", all, "HTTP">>) + N(w /\ a)
    BY <1>1, <1>6
  <2>4. Balance(r, side) BY DEF Balanced
  <2>5. /\ Bytes(r, <<"L4", all, "TCP">>) \in Nat /\ Bytes(r, <<"L7", all, "SKYPE">>) \in Nat
        /\ Bytes(r, <<"L7", all, "HTTP">>) \in Nat
    BY <1>6
  <2> HIDE DEF a, c, e, w
  <2> QED BY <1>5, <2>1, <2>2, <2>3, <2>4, <2>5 DEF Balance, Shared
<1>8. Balanced(q) BY <1>6, <1>7 DEF Balanced
<1> QED BY <1>8 DEF q, K

\* So does Skype, found at the end.
LEMMA SkypeBalanced ==
  ASSUME NEW r, Balanced(r), NEW n \in Nat, NEW rows, RowsOK(rows)
  PROVE  Balanced(Add(r, {"L7"} \X Whole(rows) \X {"SKYPE"}, n))
<1> DEFINE K == {"L7"} \X Whole(rows) \X {"SKYPE"}
           q == Add(r, K, n)
           N(b) == IF b THEN n ELSE 0
<1>0. \A k : k \in K <=> \E row \in rows : row[2] = "all" /\ k = <<"L7", row, "SKYPE">> BY DEF Whole
<1>1. /\ IsFiniteSet(K)
      /\ \A row : /\ Single(K, "L7", row) /\ (Has(K, "L7", row) <=> row \in rows /\ row[2] = "all")
                  /\ <<"L7", row, "SKYPE">> \in K <=> row \in rows /\ row[2] = "all"
      /\ \A t, row : t # "L7" => Single(K, t, row) /\ ~Has(K, t, row)
      /\ \A t, row, m : m # "SKYPE" => <<t, row, m>> \notin K
  <2>1. IsFiniteSet(KeysFor("L7", Whole(rows), "SKYPE")) BY RowsFinite
  <2>2. K = KeysFor("L7", Whole(rows), "SKYPE") BY DEF KeysFor
  <2> HIDE DEF K
  <2> QED BY <1>0, <2>1, <2>2 DEF Single, Has
<1> HIDE DEF K
<1>2. RatesOK(r) BY DEF Balanced
<1>3. Increased(r, K, n, q) BY <1>1, <1>2, AddGoes
<1>4. \A t, row : Single(K, t, row) => TotalOf(q, t, row) = TotalOf(r, t, row) + N(Has(K, t, row))
  BY <1>1, <1>2, AddTotal
<1> HIDE DEF q
<1>5. \A t, row : TotalOf(r, t, row) \in Nat BY <1>2, TotalType
<1>6. RatesOK(q) /\ \A k : Bytes(r, k) \in Nat /\ Bytes(q, k) = Bytes(r, k) + N(k \in K) BY <1>3 DEF Increased
<1>7. ASSUME NEW side \in {"out", "in", "loc"} PROVE Balance(q, side)
  <2> DEFINE all == <<side, "all">>
             a == all \in rows
  <2>1. /\ TotalOf(q, "L7", all) = TotalOf(r, "L7", all) + N(a)
        /\ \A x \in {"cloud", "rest"} : TotalOf(q, "L7", <<side, x>>) = TotalOf(r, "L7", <<side, x>>) + 0
        /\ \A t \in {"HTTP", "WEB"} : \A row : TotalOf(q, t, row) = TotalOf(r, t, row) + 0
    BY <1>1, <1>4
  <2>2. /\ Bytes(q, <<"L4", all, "TCP">>) = Bytes(r, <<"L4", all, "TCP">>) + 0
        /\ Bytes(q, <<"L7", all, "SKYPE">>) = Bytes(r, <<"L7", all, "SKYPE">>) + N(a)
        /\ Bytes(q, <<"L7", all, "HTTP">>) = Bytes(r, <<"L7", all, "HTTP">>) + 0
    BY <1>1, <1>6
  <2>3. Balance(r, side) BY DEF Balanced
  <2>4. /\ Bytes(r, <<"L4", all, "TCP">>) \in Nat /\ Bytes(r, <<"L7", all, "SKYPE">>) \in Nat
        /\ Bytes(r, <<"L7", all, "HTTP">>) \in Nat
    BY <1>6
  <2> HIDE DEF a
  <2> QED BY <1>5, <2>1, <2>2, <2>3, <2>4 DEF Balance, Shared
<1>8. Balanced(q) BY <1>6, <1>7 DEF Balanced
<1> QED BY <1>8 DEF q, K

------------------------------
\* Samples.  The measures of a connection that are counted, once by where
\* a direction goes and once by who sent it.
Measures == Lengths \cup Rtts \cup Anomalies
Values(C, m, rows) == {k[3] : k \in {s \in C : s[1] = m /\ s[2] \in rows}}
Twice(C) == \A m \in Measures : Values(C, m, {"out", "in", "loc"}) = Values(C, m, Dirs)
Both(p, C, m) ==
    /\ \A s \in C : s[1] = m => \/ \E d \in Dirs : s = <<m, Side(p, d), d>> \/ s = <<m, d, d>>
                                \/ s[2] \in {"cloud", "rest"}
    /\ (\A d \in Dirs : <<m, Side(p, d), d>> \in C /\ <<m, d, d>> \in C) \/ \A s \in C : s[1] = m => s[2] \in {"cloud", "rest"}

\* The samples of a connection are counted both ways.
LEMMA SamplesBoth ==
  ASSUME NEW p, NEW f, NEW m \in Measures
  PROVE  Both(p, ConnSamples(p, f), m)
<1> DEFINE C == ConnSamples(p, f)
<1>1. CASE Side(p, "c2s") = "ext" BY <1>1 DEF ConnSamples, Both
<1>2. CASE Side(p, "c2s") # "ext"
  <2> DEFINE T == TwoWays(p, Lengths \cup Anomalies)
             R == TwoWays(p, Rtts)
             Q == IF Side(p, "c2s") = "loc" THEN {} ELSE {<<"rtt_avg", CloudOr(p), d>> : d \in Dirs}
             O == {<<"interrupted", "all", 0>>} \cup (IF f.complete THEN Options(f) \cup Throughputs(p, f) ELSE {})
                  \cup (IF f.stream THEN StreamSamples(p) ELSE {})
  <2>1. C = O \cup IF f.complete THEN T \cup (IF f.rtt # Dirs THEN {} ELSE R \cup Q) ELSE {}
    BY <1>2 DEF ConnSamples, RttSamples
  <2>2. \A s \in O : s[1] \notin Measures
    BY DEF Options, Throughputs, StreamSamples, Measures, Lengths, Rtts, Anomalies
  <2>3. \A s \in Q : s[2] \in {"cloud", "rest"} /\ s[1] \in Rtts BY DEF CloudOr, Rtts
  <2>4. \A N : \A s : s \in TwoWays(p, N) <=>
                  \E k \in N, d \in Dirs : s = <<k, Side(p, d), d>> \/ s = <<k, d, d>>
    BY DEF TwoWays
  <2>5. /\ \A s \in T \cup R : s[1] = m => \E d \in Dirs : s = <<m, Side(p, d), d>> \/ s = <<m, d, d>>
        /\ m \in Lengths \cup Anomalies => /\ \A d \in Dirs : <<m, Side(p, d), d>> \in T /\ <<m, d, d>> \in T
                                           /\ \A s \in R : s[1] # m
        /\ m \in Rtts => /\ \A d \in Dirs : <<m, Side(p, d), d>> \in R /\ <<m, d, d>> \in R
                         /\ \A s \in T : s[1] # m
    BY <2>4 DEF Lengths, Rtts, Anomalies
  <2>6. (m \in Lengths \cup Anomalies \/ m \in Rtts) /\ (m \in Rtts => m \notin Lengths \cup Anomalies)
    BY DEF Measures, Lengths, Rtts, Anomalies
  <2> HIDE DEF C, O, T, R, Q
  <2>7. Both(p, C, m) BY <2>1, <2>2, <2>3, <2>5, <2>6 DEF Both
  <2> QED BY <2>7 DEF C
<1> QED BY <1>1, <1>2

\* With keys of other tables the values are the same both ways.
LEMMA SamplesTwice ==
  ASSUME NEW p, p.internal \subseteq Dirs, NEW f, NEW D, \A s \in D : s[1] \notin Measures
  PROVE  Twice(ConnSamples(p, f) \cup D)
<1> DEFINE C == ConnSamples(p, f)
           A == C \cup D
<1> SUFFICES ASSUME NEW m \in Measures
             PROVE  Values(A, m, {"out", "in", "loc"}) = Values(A, m, Dirs)
  BY DEF Twice
<1>1. Both(p, C, m) BY SamplesBoth
<1>2. C = {} \/ \A d \in Dirs : Side(p, d) \in {"out", "in", "loc"}
  BY DEF ConnSamples, Side, Other, Dirs
<1> HIDE DEF C
<1>3. \A s : s \in A /\ s[1] = m <=> s \in C /\ s[1] = m OBVIOUS
<1>4. \A rows : Values(A, m, rows) = Values(C, m, rows) BY <1>3 DEF Values
<1>5. ASSUME NEW v, NEW rows
      PROVE  v \in Values(C, m, rows) <=> \E s \in C : s[1] = m /\ s[2] \in rows /\ v = s[3]
  BY DEF Values
<1>6. ASSUME NEW s \in C, s[1] = m, s[2] \in {"out", "in", "loc"} \cup Dirs
      PROVE  s[3] \in Dirs /\ \A d \in Dirs : <<m, Side(p, d), d>> \in C /\ <<m, d, d>> \in C
  <2>1. s[2] \notin {"cloud", "rest"} BY <1>6 DEF Dirs
  <2>2. PICK d \in Dirs : s = <<m, Side(p, d), d>> \/ s = <<m, d, d>> BY <1>1, <1>6, <2>1 DEF Both
  <2>3. s[3] = d BY <2>2
  <2>4. \A e \in Dirs : <<m, Side(p, e), e>> \in C /\ <<m, e, e>> \in C BY <1>1, <1>6, <2>1 DEF Both
  <2> QED BY <2>3, <2>4
<1>7. ASSUME NEW d \in Dirs, <<m, Side(p, d), d>> \in C, <<m, d, d>> \in C
      PROVE  d \in Values(C, m, {"out", "in", "loc"}) /\ d \in Values(C, m, Dirs)
  <2>1. <<m, d, d>>[1] = m /\ <<m, d, d>>[2] = d /\ <<m, d, d>>[3] = d OBVIOUS
  <2>2. <<m, Side(p, d), d>>[1] = m /\ <<m, Side(p, d), d>>[2] = Side(p, d) /\ <<m, Side(p, d), d>>[3] = d OBVIOUS
  <2> QED BY <1>2, <1>5, <1>7, <2>1, <2>2
<1>8. ASSUME NEW v PROVE v \in Values(C, m, {"out", "in", "loc"}) <=> v \in Values(C, m, Dirs)
  <2> SUFFICES ASSUME NEW rows \in {{"out", "in", "loc"}, Dirs}, v \in Values(C, m, rows)
               PROVE  v \in Values(C, m, {"out", "in", "loc"}) /\ v \in Values(C, m, Dirs)
    OBVIOUS
  <2>1. PICK s \in C : s[1] = m /\ s[2] \in rows /\ v = s[3] BY <1>5
  <2>2. s[2] \in {"out", "in", "loc"} \cup Dirs BY <2>1
  <2> QED BY <1>6, <1>7, <2>1, <2>2
<1> QED BY <1>4, <1>8 DEF Values

------------------------------
\* Options.  Those given so far, one after the other.
Turn(g, args, i) == IF i = 0 THEN NoOptions ELSE ParseArgs(g[i - 1], args[i])
Runs(g, args, n) == g = [i \in 0..n |-> Turn(g, args, i)]

\* They are there for every command line.
LEMMA RunsExist ==
  ASSUME NEW args, NEW n \in Nat
  PROVE  \E g : Runs(g, args, n)
<1> DEFINE X == {k \in Nat : ~ \E g : Runs(g, args, k)}
<1> SUFFICES ASSUME X # {} PROVE FALSE OBVIOUS
<1>1. PICK k \in X : \A m \in Nat : m < k => m \notin X
  <2>1. X \in SUBSET Nat OBVIOUS
  <2> HIDE DEF X
  <2> QED BY <2>1, LeastOf
<1>2. k \in Nat /\ (k # 0 => \E g : Runs(g, args, k - 1)) BY <1>1
<1>3. PICK g : k # 0 => Runs(g, args, k - 1) BY <1>2
<1> DEFINE e == IF k = 0 THEN NoOptions ELSE ParseArgs(g[k - 1], args[k])
           h == [i \in 0..k |-> IF i < k THEN g[i] ELSE e]
           r == [i \in 0..k |-> Turn(h, args, i)]
<1>4. ASSUME NEW i \in 0..k PROVE h[i] = r[i]
  <2>1. CASE i = k BY <1>2, <2>1 DEF Turn
  <2>2. CASE i < k
    <3>1. i \in 0..(k - 1) /\ k # 0 BY <1>2, <2>2
    <3>2. g[i] = Turn(g, args, i) BY <1>3, <3>1 DEF Runs
    <3>3. h[i] = g[i] /\ (i # 0 => h[i - 1] = g[i - 1]) BY <1>2, <2>2
    <3> QED BY <3>2, <3>3 DEF Turn
  <2> QED BY <1>2, <2>1, <2>2
<1>5. h = r BY <1>4
<1>6. Runs(h, args, k)
  <2> HIDE DEF h
  <2> QED BY <1>5 DEF Runs
<1> QED BY <1>1, <1>6

\* The last use of an option, and none at all.
Latest(args, n, opt, j) == j \in 1..n /\ args[j].opt = opt /\ \A i \in 1..n : j < i => args[i].opt # opt
Never(args, n, opt) == \A i \in 1..n : args[i].opt # opt

\* What the options have set.
Nets(args) == {<<>>} \cup {Loaded(args[i].file) : i \in DOMAIN args}
MacsOf(x) == {x[i] : i \in 1..Len(x)}
Opts(args) ==
    [nets : Nets(args), macs : {{}} \cup {MacsOf(args[i].file) : i \in DOMAIN args}, clouds : Nets(args),
     wired : BOOLEAN, net_conf : BOOLEAN, eth_conf : BOOLEAN, warned : BOOLEAN, exit : BOOLEAN]
Warned(o) == o.eth_conf /\ o.net_conf => o.warned
OptionsAre(args, n, o) ==
    /\ o \in Opts(args)
    /\ ~o.exit =>
        /\ \A j : Latest(args, n, "N", j) => o.nets = Loaded(args[j].file) /\ ~Refused(args[j].file)
        /\ \A j : Latest(args, n, "C", j) => o.clouds = Loaded(args[j].file) /\ ~Refused(args[j].file)
        /\ \A j : Latest(args, n, "M", j) => o.macs = MacsOf(args[j].file)
        /\ Never(args, n, "N") => o.nets = <<>>
        /\ Never(args, n, "C") => o.clouds = <<>>
        /\ Never(args, n, "M") => o.macs = {}
        /\ o.net_conf <=> ~Never(args, n, "N")
        /\ o.eth_conf <=> ~Never(args, n, "M")
        /\ o.wired <=> ~Never(args, n, "2")
        /\ Warned(o)

\* What an option sets.
Took(o, a, p) ==
    /\ p.nets = (IF a.opt = "N" THEN Loaded(a.file) ELSE o.nets)
    /\ p.clouds = (IF a.opt = "C" THEN Loaded(a.file) ELSE o.clouds)
    /\ p.macs = (IF a.opt = "M" THEN MacsOf(a.file) ELSE o.macs)
    /\ a.opt \in {"N", "C"} => ~Refused(a.file)
    /\ p.net_conf <=> o.net_conf \/ a.opt = "N"
    /\ p.eth_conf <=> o.eth_conf \/ a.opt = "M"
    /\ p.wired <=> o.wired \/ a.opt = "2"
    /\ Warned(o) => Warned(p)
Goes(args, o, a, p) == p \in Opts(args) /\ (p.exit \/ Took(o, a, p))

\* It does, or the program ends.
LEMMA OptionGoes ==
  ASSUME NEW args, NEW i \in DOMAIN args, args[i] \in Option, NEW o \in Opts(args), ~o.exit
  PROVE  Goes(args, o, args[i], ParseArgs(o, args[i]))
<1> DEFINE a == args[i]
           p == ParseArgs(o, a)
           nets == Loaded(a.file)
           macs == MacsOf(a.file)
           M == {{}} \cup {MacsOf(args[k].file) : k \in DOMAIN args}
<1>1. a.opt \in {"N", "C", "M", "2"} BY DEF Option
<1>2. nets \in Nets(args) /\ macs \in M BY DEF Nets
<1>3. MacsOf(a.file) = {a.file[k] : k \in 1..Len(a.file)} BY DEF MacsOf
<1> HIDE DEF nets, macs, M
<1> DEFINE out == [o EXCEPT !.exit = TRUE]
<1>4. out \in Opts(args) /\ out.exit = TRUE BY DEF Opts
<1>5. CASE a.opt = "N"
  <2> DEFINE x == [o EXCEPT !.nets = nets, !.net_conf = TRUE]
             w == Warn(x)
  <2>1. p = IF Refused(a.file) THEN out ELSE w BY <1>5 DEF ParseArgs, nets
  <2>2. /\ w \in Opts(args) /\ w.nets = nets /\ w.net_conf = TRUE
        /\ w.clouds = o.clouds /\ w.macs = o.macs /\ w.eth_conf = o.eth_conf /\ w.wired = o.wired
        /\ w.eth_conf = TRUE => w.warned = TRUE
    BY <1>2 DEF Warn, Opts, M
  <2>3. Refused(a.file) \/ Took(o, a, w)
    <3> HIDE DEF w
    <3> QED BY <1>5, <2>2 DEF Took, Warned, nets
  <2> HIDE DEF w, out
  <2> QED BY <1>4, <2>1, <2>2, <2>3 DEF Goes
<1>6. CASE a.opt = "M"
  <2> DEFINE x == [o EXCEPT !.macs = macs, !.eth_conf = TRUE]
             w == Warn(x)
  <2>1. p = IF RefusedMacs(a.file) THEN out ELSE w BY <1>3, <1>6 DEF ParseArgs, macs
  <2>2. /\ w \in Opts(args) /\ w.macs = macs /\ w.eth_conf = TRUE
        /\ w.clouds = o.clouds /\ w.nets = o.nets /\ w.net_conf = o.net_conf /\ w.wired = o.wired
        /\ w.net_conf = TRUE => w.warned = TRUE
    BY <1>2 DEF Warn, Opts, M
  <2>3. Took(o, a, w)
    <3> HIDE DEF w
    <3> QED BY <1>6, <2>2 DEF Took, Warned, macs
  <2> HIDE DEF w, out
  <2> QED BY <1>4, <2>1, <2>2, <2>3 DEF Goes
<1>7. CASE a.opt = "C"
  <2> DEFINE w == [o EXCEPT !.clouds = nets]
  <2>1. p = IF Refused(a.file) THEN out ELSE w BY <1>7 DEF ParseArgs, nets
  <2>2. /\ w \in Opts(args) /\ w.clouds = nets /\ w.nets = o.nets /\ w.macs = o.macs
        /\ w.net_conf = o.net_conf /\ w.eth_conf = o.eth_conf /\ w.wired = o.wired /\ w.warned = o.warned
    BY <1>2 DEF Opts
  <2>3. Refused(a.file) \/ Took(o, a, w)
    <3> HIDE DEF w
    <3> QED BY <1>7, <2>2 DEF Took, Warned, nets
  <2> HIDE DEF w, out
  <2> QED BY <1>4, <2>1, <2>2, <2>3 DEF Goes
<1>8. CASE a.opt = "2"
  <2> DEFINE w == [o EXCEPT !.wired = TRUE]
  <2>1. p = w BY <1>8 DEF ParseArgs
  <2>2. /\ w \in Opts(args) /\ w.clouds = o.clouds /\ w.nets = o.nets /\ w.macs = o.macs
        /\ w.net_conf = o.net_conf /\ w.eth_conf = o.eth_conf /\ w.wired = TRUE /\ w.warned = o.warned
    BY DEF Opts
  <2> HIDE DEF w
  <2> QED BY <1>8, <2>1, <2>2 DEF Goes, Took, Warned
<1> QED BY <1>1, <1>5, <1>6, <1>7, <1>8 DEF Goes

\* One option more.
LEMMA LatestNext ==
  ASSUME NEW args, NEW n \in Nat \ {0}, NEW opt
  PROVE  /\ \A j : Latest(args, n, opt, j) <=>
               IF args[n].opt = opt THEN j = n ELSE Latest(args, n - 1, opt, j)
         /\ Never(args, n, opt) <=> args[n].opt # opt /\ Never(args, n - 1, opt)
<1>1. \A i : i \in 1..n <=> i \in 1..(n - 1) \/ i = n OBVIOUS
<1>2. \A i \in 1..n : ~(n < i) OBVIOUS
<1>3. \A j \in 1..(n - 1) : j < n OBVIOUS
<1>4. n \in 1..n OBVIOUS
<1>5. ASSUME NEW j PROVE Latest(args, n, opt, j) <=>
               IF args[n].opt = opt THEN j = n ELSE Latest(args, n - 1, opt, j)
  <2>1. CASE args[n].opt = opt BY <1>1, <1>2, <1>3, <1>4, <2>1 DEF Latest
  <2>2. CASE args[n].opt # opt BY <1>1, <1>3, <1>4, <2>2 DEF Latest
  <2> QED BY <2>1, <2>2
<1>6. Never(args, n, opt) <=> args[n].opt # opt /\ Never(args, n - 1, opt) BY <1>1, <1>4 DEF Never
<1> QED BY <1>5, <1>6

\* What is known goes on.
LEMMA KnownNext ==
  ASSUME NEW args \in Seq(Option), NEW n \in 1..Len(args), NEW o, OptionsAre(args, n - 1, o)
  PROVE  OptionsAre(args, n, ParseArgs(o, args[n]))
<1> DEFINE a == args[n]
           p == ParseArgs(o, a)
<1>1. a \in Option /\ n \in DOMAIN args /\ n \in Nat \ {0} BY LenProperties, ElementOfSeq
<1>2. o \in Opts(args) BY DEF OptionsAre
<1>3. CASE o.exit
  <2>1. p = o BY <1>3 DEF ParseArgs
  <2> QED BY <1>2, <1>3, <2>1 DEF OptionsAre
<1>4. CASE ~o.exit
  <2>1. Goes(args, o, a, p) BY <1>1, <1>2, <1>4, OptionGoes
  <2> HIDE DEF p
  <2>2. p \in Opts(args) BY <2>1 DEF Goes
  <2>3. CASE p.exit BY <2>2, <2>3 DEF OptionsAre, p
  <2>4. CASE ~p.exit
    <3>1. Took(o, a, p) BY <2>1, <2>4 DEF Goes
    <3>2. ASSUME NEW opt
          PROVE /\ \A j : Latest(args, n, opt, j) <=> IF a.opt = opt THEN j = n ELSE Latest(args, n - 1, opt, j)
                /\ Never(args, n, opt) <=> a.opt # opt /\ Never(args, n - 1, opt)
      BY <1>1, LatestNext
    <3> HIDE DEF a
    <3>3. \A j : Latest(args, n, "N", j) => p.nets = Loaded(args[j].file) /\ ~Refused(args[j].file)
      BY <1>4, <3>1, <3>2 DEF OptionsAre, Took, a
    <3>4. \A j : Latest(args, n, "C", j) => p.clouds = Loaded(args[j].file) /\ ~Refused(args[j].file)
      BY <1>4, <3>1, <3>2 DEF OptionsAre, Took, a
    <3>5. \A j : Latest(args, n, "M", j) => p.macs = MacsOf(args[j].file)
      BY <1>4, <3>1, <3>2 DEF OptionsAre, Took, a
    <3>6. /\ Never(args, n, "N") => p.nets = <<>>
          /\ Never(args, n, "C") => p.clouds = <<>>
          /\ Never(args, n, "M") => p.macs = {}
      BY <1>4, <3>1, <3>2 DEF OptionsAre, Took
    <3>7. /\ p.net_conf <=> ~Never(args, n, "N")
          /\ p.eth_conf <=> ~Never(args, n, "M")
          /\ p.wired <=> ~Never(args, n, "2")
          /\ Warned(p)
      BY <1>4, <3>1, <3>2 DEF OptionsAre, Took
    <3>8. OptionsAre(args, n, p) BY <2>2, <3>3, <3>4, <3>5, <3>6, <3>7 DEF OptionsAre
    <3> QED BY <3>8 DEF p, a
  <2> QED BY <2>3, <2>4
<1> QED BY <1>3, <1>4

\* It is known of the whole command line.
LEMMA KnownAll ==
  ASSUME NEW args \in Seq(Option), NEW g, Runs(g, args, Len(args))
  PROVE  OptionsAre(args, Len(args), g[Len(args)])
<1> DEFINE L == Len(args)
           X == {k \in 0..L : ~OptionsAre(args, k, g[k])}
<1>1. L \in Nat BY LenProperties
<1>2. \A i \in 0..L : g[i] = Turn(g, args, i) BY DEF Runs
<1> SUFFICES ASSUME X # {} PROVE FALSE BY <1>1
<1>3. PICK k \in X : \A m \in Nat : m < k => m \notin X
  <2>1. X \in SUBSET Nat BY <1>1
  <2> HIDE DEF X
  <2> QED BY <2>1, LeastOf
<1>4. k \in 0..L /\ ~OptionsAre(args, k, g[k]) BY <1>3
<1>5. CASE k = 0
  <2>1. g[0] = NoOptions BY <1>2, <1>4, <1>5 DEF Turn
  <2>2. NoOptions \in Opts(args) BY DEF NoOptions, Opts, Nets
  <2>3. \A opt : Never(args, 0, opt) /\ \A j : ~Latest(args, 0, opt, j) BY DEF Never, Latest
  <2>4. /\ NoOptions.nets = <<>> /\ NoOptions.clouds = <<>> /\ NoOptions.macs = {}
        /\ NoOptions.net_conf = FALSE /\ NoOptions.eth_conf = FALSE /\ NoOptions.wired = FALSE
    BY DEF NoOptions
  <2> QED BY <1>4, <1>5, <2>1, <2>2, <2>3, <2>4 DEF OptionsAre, Warned
<1>6. CASE k # 0
  <2>1. k - 1 \in Nat /\ k - 1 < k /\ k - 1 \in 0..L /\ k \in 1..L BY <1>1, <1>4, <1>6
  <2>2. OptionsAre(args, k - 1, g[k - 1]) BY <1>3, <2>1
  <2>3. g[k] = ParseArgs(g[k - 1], args[k]) BY <1>2, <1>4, <1>6 DEF Turn
  <2> QED BY <1>4, <2>1, <2>2, <2>3, KnownNext
<1> QED BY <1>5, <1>6

\* What CheckArguments makes of it: everyone is internal without -N and -M.
Everyone == <<[mask |-> {}, net |-> {}]>>
Finished(o) == IF o.net_conf \/ o.eth_conf THEN o ELSE [o EXCEPT !.nets = Everyone]

\* That is what is configured.
LEMMA ConfiguredIs ==
  ASSUME NEW args \in Seq(Option)
  PROVE  \E o : OptionsAre(args, Len(args), o) /\ Configured(args) = Finished(o)
<1> DEFINE L == Len(args)
           u == CHOOSE g : Runs(g, args, L)
<1>1. L \in Nat BY LenProperties
<1>2. Configured(args) = Finished(u[L]) BY DEF Configured, Finished, Everyone, Runs, Turn
<1>3. Runs(u, args, L) BY <1>1, RunsExist
<1> HIDE DEF u
<1>4. OptionsAre(args, L, u[L]) BY <1>3, KnownAll
<1> QED BY <1>2, <1>4

\* The file of the last use, or none.
LEMMA LastFileIs ==
  ASSUME NEW args \in Seq(Option), NEW opt
  PROVE  /\ Uses(args, opt) = {} <=> Never(args, Len(args), opt)
         /\ Uses(args, opt) = {} => LastFile(args, opt) = <<>>
         /\ Uses(args, opt) # {} => \E j \in 1..Len(args) : Latest(args, Len(args), opt, j) /\ LastFile(args, opt) = args[j].file
<1> DEFINE L == Len(args)
           U == Uses(args, opt)
           j == CHOOSE i \in U : \A k \in U : k <= i
<1>1. L \in Nat /\ DOMAIN args = 1..L BY LenProperties
<1>2. U = {i \in 1..L : args[i].opt = opt} BY <1>1 DEF Uses
<1>3. U = {} <=> Never(args, L, opt) BY <1>2 DEF Never
<1>4. U = {} => LastFile(args, opt) = <<>> BY DEF LastFile
<1>5. ASSUME U # {} PROVE j \in 1..L /\ Latest(args, L, opt, j) /\ LastFile(args, opt) = args[j].file
  <2>1. LastFile(args, opt) = args[j].file BY <1>5 DEF LastFile
  <2>2. U \in SUBSET (1..L) BY <1>2
  <2> HIDE DEF U
  <2>3. j \in U /\ \A k \in U : k <= j BY <1>1, <1>5, <2>2, Greatest
  <2> HIDE DEF j
  <2>4. \A i \in 1..L : j < i => i \notin U BY <2>2, <2>3
  <2> QED BY <1>2, <2>1, <2>3, <2>4 DEF Latest
<1> QED BY <1>3, <1>4, <1>5

\* An address is in a network that was read when it begins like it.
LEMMA MemberListed ==
  ASSUME NEW lines \in Seq(Line), ~Refused(lines), NEW addr \in SUBSET AddressBits
  PROVE  Member(addr, Loaded(lines)) <=> Listed(addr, lines)
<1>1. Len(lines) \in Nat BY LenProperties
<1>2. ASSUME NEW i \in 1..Len(lines)
      PROVE  addr \cap Loaded(lines)[i].mask = Loaded(lines)[i].net <=> BeginsLike(addr, lines[i])
  <2> DEFINE line == lines[i]
             mask == MaskOf(line)
  <2>1. line \in Line BY ElementOfSeq
  <2>2. Loaded(lines)[i].mask = mask /\ Loaded(lines)[i].net = line.addr \cap mask BY DEF Loaded, Network
  <2>3. \A b \in AddressBits : b \in mask <=>
          (IF line.short THEN line.addr # {} /\ b >= Width - line.n ELSE b \in line.mask)
    BY DEF MaskOf
  <2>4. mask \subseteq AddressBits BY <2>1 DEF MaskOf, Line
  <2>5. BeginsLike(addr, line) <=> \A b \in AddressBits : b \in mask => (b \in addr <=> b \in line.addr)
    BY <2>3 DEF BeginsLike
  <2> HIDE DEF mask, line
  <2>6. addr \cap mask = line.addr \cap mask <=> \A b \in AddressBits : b \in mask => (b \in addr <=> b \in line.addr)
    BY <2>4
  <2> QED BY <2>2, <2>5, <2>6 DEF line
<1>3. Len(Loaded(lines)) = Len(lines) BY <1>1 DEF Loaded
<1> QED BY <1>2, <1>3 DEF Member, Listed

\* The hosts are where the options ask for them.
LEMMA Placed ==
  ASSUME NEW args \in Seq(Option), NEW f \in Frames, ~Configured(args).exit
  PROVE  LET place == PlaceOf(Configured(args), f)
         IN  PlacedAsAsked(args, f, place) /\ place.internal \subseteq Dirs
<1> DEFINE L == Len(args)
           c == Configured(args)
           given(opt) == Uses(args, opt) # {}
           last(opt) == LastFile(args, opt)
           cloud == {d \in Dirs : Member(f.ip[d], c.clouds)}
<1>1. PICK o : OptionsAre(args, L, o) /\ c = Finished(o) BY ConfiguredIs
<1>2. \A d \in Dirs : f.ip[d] \in SUBSET AddressBits BY DEF Frames
<1>3. \A d : ~Member(f.ip[d], <<>>) BY DEF Member
<1>4. \A d : Member(f.ip[d], Everyone) BY DEF Member, Everyone
<1>5. o \in Opts(args) BY <1>1 DEF OptionsAre
<1> HIDE DEF c
<1>6. /\ c.macs = o.macs /\ c.clouds = o.clouds /\ c.wired = o.wired /\ c.warned = o.warned /\ c.exit = o.exit
      /\ c.nets = IF o.net_conf \/ o.eth_conf THEN o.nets ELSE Everyone
  BY <1>1, <1>5 DEF Finished, Opts
<1>7. /\ \A j : Latest(args, L, "N", j) => o.nets = Loaded(args[j].file) /\ ~Refused(args[j].file)
      /\ \A j : Latest(args, L, "C", j) => o.clouds = Loaded(args[j].file) /\ ~Refused(args[j].file)
      /\ \A j : Latest(args, L, "M", j) => o.macs = MacsOf(args[j].file)
      /\ ~given("N") => o.nets = <<>>
      /\ ~given("C") => o.clouds = <<>>
      /\ ~given("M") => o.macs = {}
      /\ o.net_conf <=> given("N")
      /\ o.eth_conf <=> given("M")
      /\ o.wired <=> given("2")
      /\ Warned(o)
  <2>1. ~o.exit BY <1>6 DEF c
  <2>2. \A opt : Uses(args, opt) = {} <=> Never(args, L, opt) BY LastFileIs
  <2> QED BY <1>1, <2>1, <2>2 DEF OptionsAre
<1>8. ASSUME NEW opt \in {"N", "C"}, given(opt)
      PROVE  \E x : /\ opt = "N" => o.nets = x
                    /\ opt = "C" => o.clouds = x
                    /\ \A d \in Dirs : Member(f.ip[d], x) <=> Listed(f.ip[d], last(opt))
  <2>1. PICK j \in 1..L : Latest(args, L, opt, j) /\ last(opt) = args[j].file BY <1>8, LastFileIs
  <2>2. args[j] \in Option /\ args[j].opt = opt BY <2>1, ElementOfSeq DEF Latest
  <2>3. args[j].file \in Seq(Line) BY <2>2 DEF Option
  <2>4. ~Refused(args[j].file) BY <1>7, <2>1
  <2>5. \A d \in Dirs : Member(f.ip[d], Loaded(args[j].file)) <=> Listed(f.ip[d], args[j].file)
    BY <1>2, <2>3, <2>4, MemberListed
  <2> QED BY <1>7, <2>1, <2>5
<1>9. cloud = {d \in Dirs : given("C") /\ Listed(f.ip[d], last("C"))} BY <1>3, <1>6, <1>7, <1>8
<1>10. ASSUME last("M") = <<>> PROVE c.macs = {}
  <2>1. CASE ~given("M") BY <1>6, <1>7, <2>1
  <2>2. CASE given("M")
    <3>1. PICK j \in 1..L : Latest(args, L, "M", j) /\ last("M") = args[j].file BY <2>2, LastFileIs
    <3>2. MacsOf(<<>>) = {} BY DEF MacsOf
    <3> QED BY <1>6, <1>7, <1>10, <3>1, <3>2
  <2> QED BY <2>1, <2>2
<1>11. ASSUME f.direction = 0, last("M") = <<>>, ~given("2")
       PROVE  Inside(c, f) = {d \in Dirs : IF given("N") THEN Listed(f.ip[d], last("N")) ELSE ~given("M")}
  <2>1. Inside(c, f) = {d \in Dirs : Member(f.ip[d], c.nets)} BY <1>6, <1>7, <1>10, <1>11 DEF Inside
  <2>2. CASE given("N") BY <1>6, <1>7, <1>8, <2>1, <2>2
  <2>3. CASE ~given("N") BY <1>3, <1>4, <1>6, <1>7, <2>1, <2>3
  <2> QED BY <2>2, <2>3
<1>12. ASSUME given("N"), last("M") # <<>> PROVE c.warned
  <2>1. given("M") BY <1>12, LastFileIs
  <2> QED BY <1>6, <1>7, <1>12, <2>1 DEF Warned
<1>13. Inside(c, f) \subseteq Dirs
  <2>1. f.direction \in 0..4 BY DEF Frames
  <2> QED BY <2>1 DEF Inside, MacsInside, Directed, Dirs
<1> QED BY <1>9, <1>11, <1>12, <1>13 DEF PlacedAsAsked, PlaceOf, Place, c

------------------------------
\* The bytes of a connection: no family of peer to peer protocols has the
\* name of another label, and the rates balance.
Called(code) == Family(code) \notin {"HTTP", "SKYPE"}
FlowInvariant ==
    /\ Fits(pair.state, pair.type) /\ Called(pair.p2p) /\ Len(sent) <= MaxPackets
    /\ Balanced(rates) /\ TwiceMeasured

\* The hosts of every connection are placed as asked.
LEMMA ConfPlaced ==
  ASSUME NEW c \in Confs
  PROVE  /\ c.place.internal \subseteq Dirs /\ PlacedAsAsked(c.args, c.frame, c.place)
         /\ \A s \in c.segments : Called(s.p2p)
<1>1. /\ c.args \in Seq(Option) /\ c.frame \in Frames
      /\ ~Configured(c.args).exit /\ c.place = PlaceOf(Configured(c.args), c.frame)
      /\ \A s \in c.segments : s.p2p[1] \notin {"HTTP", "SKYPE"}
  BY PlacesAssumption
<1>2. LET place == PlaceOf(Configured(c.args), c.frame)
      IN  PlacedAsAsked(c.args, c.frame, place) /\ place.internal \subseteq Dirs
  BY <1>1, Placed
<1> QED BY <1>1, <1>2 DEF Called, Family

\* The keys of a packet, under its label.
LEMMA RateKeysAre ==
  ASSUME NEW f, NEW d, Label(f) # "SKYPE", LabelName(f) = "HTTP" <=> Label(f) = "HTTP"
  PROVE  LET l == LabelName(f)
         IN  RateKeys(f, d) \cup HeaderKeys(conf.place, d, "TCP")
               = Keys(RemoteRows(conf.place, d), l, l = "HTTP", YtMap(f.web),
                      MapHttpToWeb(f.web, IsVideo(f)), IsVideo(f), VideoClass(f))
BY DEF RateKeys, HeaderKeys, Keys

\* What a label may be called.
LEMMA Names ==
  ASSUME NEW f \in Conn, "SKYPE" \notin f.type, Called(f.p2p)
  PROVE  LabelName(f) # "SKYPE" /\ Label(f) # "SKYPE" /\ (LabelName(f) = "HTTP" <=> Label(f) = "HTTP")
<1>1. Labels(f) \subseteq ConTypes /\ Labels(f) \subseteq f.type BY DEF Labels, Conn
<1>2. Label(f) # "SKYPE" BY <1>1, LabelIs
<1> QED BY <1>2 DEF LabelName, Called

\* The bytes of a packet keep the balance.
LEMMA PacketRates ==
  ASSUME ClassInvariant, FlowInvariant, Packet, pair' \in Conn, "SKYPE" \notin pair'.type, Called(pair'.p2p)
  PROVE  Balanced(rates')
<1> PICK s \in conf.segments :
        rates' = Add(rates, RateKeys(pair', s.dir) \cup HeaderKeys(conf.place, s.dir, "TCP"), s.len)
  BY DEF Packet
<1>1. conf \in Confs /\ conf.segments \subseteq Segment BY TcpClassAssumption DEF ClassInvariant, Types
<1>2. s.len \in Nat /\ s.dir \in Dirs BY <1>1 DEF Segment
<1> DEFINE rows == RemoteRows(conf.place, s.dir)
           l == LabelName(pair')
           x == YtMap(pair'.web)
           y == MapHttpToWeb(pair'.web, IsVideo(pair'))
           video == IsVideo(pair')
           z == VideoClass(pair')
<1>3. RowsOK(rows) BY <1>1, <1>2, ConfPlaced, RemoteRowsAre
<1>4. l # "SKYPE" /\ Label(pair') # "SKYPE" /\ (l = "HTTP" <=> Label(pair') = "HTTP") BY Names
<1>5. rates' = Add(rates, Keys(rows, l, l = "HTTP", x, y, video, z), s.len) BY <1>4, RateKeysAre
<1>6. video \in BOOLEAN BY DEF IsVideo
<1>7. Balanced(rates) BY DEF FlowInvariant
<1> DEFINE n == s.len
<1>8. n \in Nat /\ l # "SKYPE" /\ rates' = Add(rates, Keys(rows, l, l = "HTTP", x, y, video, z), n)
  BY <1>2, <1>4, <1>5
<1> HIDE DEF rows, l, x, y, video, z, n
<1>9. Balanced(Add(rates, Keys(rows, l, l = "HTTP", x, y, video, z), n))
  BY <1>3, <1>6, <1>7, <1>8, PacketBalanced
<1> QED BY <1>8, <1>9

\* So do those of Skype.
LEMMA SkypeRated ==
  ASSUME Types, NEW r, Balanced(r), NEW d \in Dirs
  PROVE  Balanced(SkypeRates(r, d))
<1> DEFINE f == [i \in DOMAIN sent |-> IF sent[i].dir = d THEN sent[i].len ELSE 0]
           I == DOMAIN sent
<1>1. I = 1..Len(sent) /\ Len(sent) \in Nat /\ sent \in Seq(Segment) BY LenProperties DEF Types
<1>2. IsFiniteSet(I) BY <1>1, FS_Interval
<1>3. AllNat(f, I)
  <2>1. \A s \in Segment : s.len \in Nat BY DEF Segment
  <2>2. ASSUME NEW i \in 1..Len(sent) PROVE sent[i] \in Segment BY <1>1, ElementOfSeq
  <2>3. \A i \in DOMAIN sent : sent[i].len \in Nat BY <1>1, <2>1, <2>2
  <2> QED BY <2>3 DEF AllNat
<1>4. DataBytes(d) = SumFunctionOnSet(f, I) BY DEF DataBytes, SumFunction
<1> HIDE DEF f, I
<1>5. DataBytes(d) \in Nat BY <1>2, <1>3, <1>4, SumSame
<1>6. RowsOK(RemoteRows(conf.place, d)) BY ConfPlaced, RemoteRowsAre DEF Types
<1> QED BY <1>5, <1>6, SkypeBalanced DEF SkypeRates

\* The close keeps the balance, and measures twice.
LEMMA CloseCounts ==
  ASSUME ClassInvariant, FlowInvariant, NEW e, NEW v, Close(e, v)
  PROVE  Balanced(rates') /\ TwiceMeasured'
<1>1. Types /\ Balanced(rates) BY DEF ClassInvariant, FlowInvariant
<1>2. Balanced(rates')
  <2> DEFINE first == IF "c2s" \in v THEN SkypeRates(rates, "c2s") ELSE rates
  <2>1. rates' = IF e.complete THEN SkypeAdded(v) ELSE rates BY DEF Close
  <2>2. SkypeAdded(v) = IF "s2c" \in v THEN SkypeRates(first, "s2c") ELSE first BY DEF SkypeAdded
  <2>3. Balanced(first) BY <1>1, SkypeRated DEF Dirs
  <2> HIDE DEF first
  <2>4. Balanced(SkypeRates(first, "s2c")) BY <1>1, <2>3, SkypeRated DEF Dirs
  <2> QED BY <1>1, <2>1, <2>2, <2>3, <2>4
<1>3. TwiceMeasured'
  <2> DEFINE f == [e EXCEPT !.stream = pair'.type \cap {"RTP", "ICY"} # {}]
             D == IF e.complete THEN CountKeys(pair') ELSE {}
  <2>1. counted' = ConnSamples(conf.place, f) \cup D BY DEF Close
  <2>2. \A s \in D : s[1] \notin Measures BY DEF CountKeys, Measures, Lengths, Rtts, Anomalies
  <2>3. conf.place.internal \subseteq Dirs BY <1>1, ConfPlaced DEF Types
  <2> HIDE DEF f, D
  <2>4. Twice(counted') BY <2>1, <2>2, <2>3, SamplesTwice
  <2> QED BY <2>4 DEF TwiceMeasured, Twice, Values, Measures
<1> QED BY <1>2, <1>3

\* A new connection.
LEMMA FlowStarts ==
  ASSUME ClassInit
  PROVE  FlowInvariant
<1>1. /\ pair = NewPair(conf.before) /\ sent = <<>> /\ rates = <<>> /\ counted = {}
  BY DEF ClassInit
<1>2. pair.state = "UNKNOWN" /\ pair.type = {} /\ pair.p2p = NoP2p BY <1>1 DEF NewPair
<1>3. Fits("UNKNOWN", {}) BY DEF Fits, Begins, MsnChats, ChatStates, MsnWaits
<1>4. Called(NoP2p) BY DEF Called, Family, NoP2p
<1>5. DOMAIN rates = {} BY <1>1
<1>6. RatesOK(rates) BY <1>5, FS_EmptySet DEF RatesOK, AllNat
<1>7. \A t, row : TotalOf(rates, t, row) = 0
  <2>1. \A t, row : Under(rates, t, row) = {} BY <1>5 DEF Under
  <2> QED BY <2>1, SumNone DEF TotalOf
<1>8. \A k : Bytes(rates, k) = 0 BY <1>5 DEF Bytes
<1>9. Balanced(rates) BY <1>6, <1>7, <1>8 DEF Balanced, Balance, Shared
<1>10. Len(sent) <= MaxPackets BY <1>1, TcpClassAssumption
<1> QED BY <1>1, <1>2, <1>3, <1>4, <1>9, <1>10 DEF FlowInvariant, TwiceMeasured

\* Every step keeps it.
LEMMA FlowKeeps ==
  ASSUME ClassInvariant, GroundInvariant', FlowInvariant, [ClassNext]_classVars
  PROVE  FlowInvariant'
<1>1. /\ Types /\ SessionOK /\ pair \in Conn /\ conf \in Confs /\ sent \in Seq(Segment)
      /\ Fits(pair.state, pair.type) /\ Called(pair.p2p) /\ Len(sent) <= MaxPackets
  BY DEF ClassInvariant, Types, FlowInvariant
<1>2. ASSUME NEW s \in Segment, PacketStep(s) PROVE FlowInvariant'
  <2> DEFINE again == s \in ToSet(sent)
  <2>1. Passes(pair, s, again, pair') /\ pair' \in Conn /\ Packet BY <1>2 DEF PacketStep
  <2> HIDE DEF again
  <2>2. FitTurns(pair, pair') /\ pair'.p2p \in {pair.p2p, s.p2p} BY <1>1, <2>1, PassesRise
  <2>3. Called(pair'.p2p) BY <1>1, <1>2, <2>2, ConfPlaced DEF PacketStep
  <2>4. "SKYPE" \notin pair'.type BY <1>2 DEF GroundInvariant, SkypeOK, PacketStep
  <2>5. Balanced(rates') BY <2>1, <2>3, <2>4, PacketRates
  <2>6. Len(sent') <= MaxPackets
    <3>1. Len(sent) < MaxPackets /\ sent' = Append(sent, s) BY <1>2, <2>1 DEF Packet, PacketStep
    <3>2. Len(sent') = Len(sent) + 1 /\ Len(sent) \in Nat BY <1>1, <3>1, AppendProperties, LenProperties
    <3> QED BY <3>1, <3>2, TcpClassAssumption
  <2>7. TwiceMeasured' BY <2>1 DEF Packet, FlowInvariant, TwiceMeasured
  <2> QED BY <1>1, <2>2, <2>3, <2>5, <2>6, <2>7 DEF FlowInvariant, FitTurns
<1>3. ASSUME OtherStep PROVE FlowInvariant'
  <2>1. pair'.state = pair.state /\ pair'.type = pair.type /\ pair'.p2p = pair.p2p /\ sent' = sent
    BY <1>3 DEF OtherStep, SameRest, SameState, SamePeer
  <2> QED BY <1>1, <1>3, <2>1 DEF FlowInvariant, TwiceMeasured, OtherStep
<1>4. ASSUME NEW v, CloseStep(v) PROVE FlowInvariant'
  <2>1. FitTurns(pair, pair') /\ pair'.state = pair.state /\ pair'.p2p = pair.p2p /\ sent' = sent
    BY <1>4 DEF CloseStep, Closed, SameOthers, SamePeer
  <2> PICK e : Close(e, v) BY <1>4 DEF CloseStep
  <2> QED BY <1>1, <2>1, CloseCounts DEF FlowInvariant, FitTurns
<1> QED BY <1>1, <1>2, <1>3, <1>4, ClassSteps

\* The types that Sound asks for.
LEMMA FlowTypes ==
  ASSUME ClassInvariant, FlowInvariant
  PROVE  ClassTypeOK
<1>1. pair \in Conn /\ open \in BOOLEAN BY DEF ClassInvariant, Types
<1>2. Len(sent) <= MaxPackets BY DEF FlowInvariant
<1>3. pair.web \in WebClasses
  <2>1. pair.web \in ClassesGiven BY <1>1 DEF Conn
  <2>2. {"GET", "POST", "YOUTUBE_VIDEO204", "VIDEO_CONTENT"} \subseteq WebClasses BY DEF WebClasses
  <2>3. \A cmd \in WebRequests, path \in Paths : ClassOf[cmd][path] \in WebClasses BY TcpClassAssumption
  <2> QED BY <2>1, <2>2, <2>3 DEF ClassesGiven
<1>4. pair.chat \in Chat BY <1>1 DEF Conn
<1> QED BY <1>1, <1>2, <1>3, <1>4 DEF ClassTypeOK, Conn, Chat

\* What fits is one protocol, or one that runs inside another.
LEMMA OneProtocol ==
  ASSUME NEW t, NEW T, Fits(t, T)
  PROVE  LET protos == T \cap Protocols
         IN  Cardinality(protos) <= 1 \/ protos \in Within
<1> DEFINE protos == T \cap Protocols
<1>1. protos = {} \/ (\E p \in Protocols : protos = {p}) \/ protos \in Within BY DEF Fits
<1>2. Cardinality({}) = 0 BY FS_EmptySet
<1>3. \A p : Cardinality({p}) = 1 BY FS_Singleton
<1>4. protos = {} => Cardinality(protos) <= 1 BY <1>2
<1>5. (\E p \in Protocols : protos = {p}) => Cardinality(protos) <= 1 BY <1>3
<1> HIDE DEF protos
<1>6. Cardinality(protos) <= 1 \/ protos \in Within BY <1>1, <1>4, <1>5
<1> QED BY <1>6 DEF protos

\* A connection has one protocol, its bytes are counted once, and its
\* hosts are where the options say.
THEOREM FlowsSound == ClassSpec => []FlowSound
<1>1. ClassInit => FlowInvariant BY FlowStarts
<1>2. ClassInvariant /\ GroundInvariant' /\ FlowInvariant /\ [ClassNext]_classVars => FlowInvariant'
  BY FlowKeeps
<1>3. ClassInvariant /\ FlowInvariant => FlowSound
  <2> SUFFICES ASSUME ClassInvariant, FlowInvariant PROVE FlowSound OBVIOUS
  <2>1. ClassTypeOK BY FlowTypes
  <2>2. BytesCounted
    <3>1. \A t, row : Total(t, row) = TotalOf(rates, t, row) BY DEF Total, TotalOf, Under
    <3>2. \A side \in {"out", "in", "loc"} : Balance(rates, side) BY DEF FlowInvariant, Balanced
    <3> QED BY <3>1, <3>2 DEF BytesCounted, Balance, Shared
  <2>3. TwiceMeasured /\ Fits(pair.state, pair.type) BY DEF FlowInvariant
  <2>4. "MSE" \in pair.type => pair.type \subseteq Weak \cup {"RTMP"} BY <2>3 DEF Fits
  <2>5. LET protos == pair.type \cap Protocols
        IN  Cardinality(protos) <= 1 \/ protos \in Within
    BY <2>3, OneProtocol
  <2>6. Sound BY <2>1, <2>2, <2>3, <2>4, <2>5 DEF Sound, Within
  <2>7. PlacedAsAsked(conf.args, conf.frame, conf.place) BY ConfPlaced DEF ClassInvariant, Types
  <2> QED BY <2>6, <2>7 DEF FlowSound
<1> QED BY <1>1, <1>2, <1>3, ConnectionOK, LabelsGrounded, PTL DEF ClassSpec
==============================
