--------------------------- MODULE SeqSpaceProofs ---------------------------
(***************************************************************************)
(* Proofs about SeqSpace for quadrants of any size and any number of       *)
(* packets: the types, the links between the quadrants and the order of    *)
(* the segments in each (Structure); that no byte is forgotten, because    *)
(* each is recorded or still to come to; and, of packets that share no     *)
(* single byte with a neighbour, that retransmissions are counted right    *)
(* and round trip times taken from bytes sent once.                        *)
(***************************************************************************)
EXTENDS SeqSpace, FiniteSetTheorems, SequenceTheorems, TLAPS

------------------------------
\* What the list operations of SequencesExt do, element by element.

\* Cons shifts the others by one.
LEMMA Pushing ==
  ASSUME NEW E, NEW s \in Seq(E), NEW e \in E
  PROVE  /\ Cons(e, s) \in Seq(E)
         /\ Len(Cons(e, s)) = Len(s) + 1
         /\ Cons(e, s)[1] = e
         /\ \A k \in 2 .. Len(s) + 1 : Cons(e, s)[k] = s[k - 1]
<1>1. <<e>> \in Seq(E) /\ Len(<<e>>) = 1 /\ <<e>>[1] = e /\ Len(s) \in Nat OBVIOUS
<1> QED BY <1>1 DEF Cons

\* Tail shifts the others back by one.
LEMMA Dropping ==
  ASSUME NEW E, NEW s \in Seq(E), Len(s) >= 1
  PROVE  /\ Tail(s) \in Seq(E)
         /\ Len(Tail(s)) = Len(s) - 1
         /\ \A k \in 1 .. Len(s) - 1 : Tail(s)[k] = s[k + 1]
OBVIOUS

\* Two parts put together are s without its place i.
LEMMA Glued ==
  ASSUME NEW s, NEW l, NEW r, NEW c, NEW n \in Nat, NEW i \in 1 .. n,
         \A k \in 1 .. i - 1 : l[k] = s[k], \A k \in 1 .. n - i : r[k] = s[k + i],
         \A k \in 1 .. n - 1 : c[k] = IF k <= i - 1 THEN l[k] ELSE r[k - (i - 1)]
  PROVE  \A k \in 1 .. n - 1 : c[k] = IF k < i THEN s[k] ELSE s[k + 1]
<1> TAKE k \in 1 .. n - 1
<1>1. CASE k < i BY <1>1
<1>2. CASE k >= i
  <2>1. k - (i - 1) \in 1 .. n - i /\ (k - (i - 1)) + i = k + 1 BY <1>2
  <2>2. c[k] = r[k - (i - 1)] BY <1>2
  <2> QED BY <1>2, <2>1, <2>2
<1> QED BY <1>1, <1>2

\* RemoveAt closes the gap, and keeps the order of the others.
LEMMA Removal ==
  ASSUME NEW E, NEW s \in Seq(E), NEW i \in DOMAIN s
  PROVE  /\ RemoveAt(s, i) \in Seq(E)
         /\ Len(RemoveAt(s, i)) = Len(s) - 1
         /\ \A k \in 1 .. Len(s) - 1 :
              RemoveAt(s, i)[k] = IF k < i THEN s[k] ELSE s[k + 1]
<1> i \in 1 .. Len(s) /\ Len(s) \in Nat OBVIOUS
<1> DEFINE l == SubSeq(s, 1, i - 1)  r == SubSeq(s, i + 1, Len(s))
<1>1. l \in Seq(E) /\ Len(l) = i - 1 /\ \A k \in 1 .. i - 1 : l[k] = s[k] OBVIOUS
<1>2. r \in Seq(E) /\ Len(r) = Len(s) - i /\ \A k \in 1 .. Len(s) - i : r[k] = s[k + i] OBVIOUS
<1>3. RemoveAt(s, i) = l \o r BY DEF RemoveAt
<1> HIDE DEF l, r
<1>4. /\ l \o r \in Seq(E) /\ Len(l \o r) = Len(l) + Len(r)
      /\ \A k \in 1 .. Len(l) + Len(r) :
           (l \o r)[k] = IF k <= Len(l) THEN l[k] ELSE r[k - Len(l)]
  BY <1>1, <1>2, ConcatProperties
<1>5. Len(l \o r) = Len(s) - 1 BY <1>1, <1>2, <1>4
<1>6. Len(l) = i - 1 /\ Len(l) + Len(r) = Len(s) - 1 BY <1>1, <1>2
<1>7. \A k \in 1 .. Len(s) - 1 : (l \o r)[k] = IF k <= i - 1 THEN l[k] ELSE r[k - (i - 1)] BY <1>4, <1>6
<1>8. \A k \in 1 .. Len(s) - 1 : (l \o r)[k] = IF k < i THEN s[k] ELSE s[k + 1] BY <1>1, <1>2, <1>7, Glued
<1> QED BY <1>3, <1>4, <1>5, <1>8

\* t is s with e at place i, the others moved back from there.
Inserted(s, i, e, t) ==
  /\ Len(t) = Len(s) + 1
  /\ \A k \in 1 .. Len(s) + 1 : t[k] = IF k < i THEN s[k] ELSE IF k = i THEN e ELSE s[k - 1]

\* InsertAt makes room, and keeps the order of the others.
LEMMA Insertion ==
  ASSUME NEW E, NEW s \in Seq(E), NEW i \in 1 .. Len(s), NEW e \in E
  PROVE  /\ InsertAt(s, i, e) \in Seq(E)
         /\ Inserted(s, i, e, InsertAt(s, i, e))
<1> i \in 1 .. Len(s) /\ Len(s) \in Nat OBVIOUS
<1> DEFINE l == SubSeq(s, 1, i - 1)  r == SubSeq(s, i, Len(s))
<1>1. l \in Seq(E) /\ Len(l) = i - 1 OBVIOUS
<1>2. \A k \in 1 .. i - 1 : l[k] = s[k] OBVIOUS
<1>3. r \in Seq(E) /\ Len(r) = Len(s) - i + 1 OBVIOUS
<1>4. \A k \in i .. Len(s) : r[k - i + 1] = s[k] OBVIOUS
<1>5. InsertAt(s, i, e) = (l \o <<e>>) \o r BY DEF InsertAt
<1> HIDE DEF l, r
<1>6. l \o <<e>> \in Seq(E) /\ Len(l \o <<e>>) = i BY <1>1
<1>7. (l \o <<e>>)[i] = e BY <1>1
<1>8. \A k \in 1 .. i - 1 : (l \o <<e>>)[k] = s[k] BY <1>1, <1>2
<1> DEFINE u == l \o <<e>>
<1> HIDE DEF u
<1>9. u \in Seq(E) /\ Len(u) = i /\ u[i] = e /\ \A k \in 1 .. i - 1 : u[k] = s[k]
  BY <1>6, <1>7, <1>8, Zenon DEF u
<1>10. u \o r \in Seq(E) /\ Len(u \o r) = Len(s) + 1 BY <1>3, <1>9
<1>11. ASSUME NEW k \in 1 .. Len(s) + 1
       PROVE  (u \o r)[k] = IF k < i THEN s[k] ELSE IF k = i THEN e ELSE s[k - 1]
  <2>1. CASE k <= i BY <1>3, <1>9, <2>1
  <2>2. CASE k > i
    <3>1. (u \o r)[k] = r[k - i] BY <1>3, <1>9, <2>2
    <3>2. k - 1 \in i .. Len(s) /\ (k - 1) - i + 1 = k - i BY <2>2
    <3> QED BY <1>4, <2>2, <3>1, <3>2
  <2>3. k <= i \/ k > i OBVIOUS
  <2> QED BY <2>1, <2>2, <2>3, Zenon
<1> QED BY <1>5, <1>10, <1>11 DEF u, Inserted

------------------------------

\* The only packets that cross the end of a quadrant cross the end of the
\* first one, where LAST_SEQ is right.
CutRight ==
  \A d \in Data : QuadOf(d[1]) = QuadOf((d[1] + d[2] - 1) % SeqLimit) \/ QuadOf(d[1]) = 0

\* The inductive invariant.  Each quadrant has a list of segments between
\* first and last byte, in order, none sent in the future, and its links;
Placed(q, first, last) == first <= last /\ QuadOf(first) = q /\ QuadOf(last) = q

Sorted(q, segs) ==
  /\ \A i \in DOMAIN segs : Placed(q, segs[i].first, segs[i].last)
  /\ \A i, j \in DOMAIN segs : i < j => segs[i].last <= segs[j].first

Past(segs, t) == \A i \in DOMAIN segs : segs[i].time <= t

GoodList(q, segs) == segs \in Seq(Segment) /\ Sorted(q, segs) /\ Past(segs, now)

LinksIn(pq, q) ==
  /\ pq[q].next \in {NoLink, After(q)} /\ pq[q].prev \in {NoLink, Before(q)}
  /\ pq[q].next # NoLink => pq[After(q)] # NoQuad /\ pq[After(q)].prev = q
  /\ pq[q].prev # NoLink => pq[Before(q)] # NoQuad /\ pq[Before(q)].next = q

GoodQuads(pq) ==
  /\ pq \in [Quads -> Quadrant \cup {NoQuad}]
  /\ \A q \in Quads : pq[q] # NoQuad => GoodList(q, pq[q].segs) /\ LinksIn(pq, q)

\* the piece lies in one quadrant, and after all the segments the walk has
\* passed; within a segment, it starts where the segment does or later;
Adding == pc \in {"walk", "within"}
Passed(segs, at, first) == \A i \in DOMAIN segs : i < at => segs[i].last < first
PieceAt(segs, p) ==
  /\ Placed(p.quad, p.first, p.last)
  /\ p.at <= Len(segs) + 1
  /\ Passed(segs, p.at, p.first)
WithinAt(segs, p) == p.at <= Len(segs) /\ p.first = segs[p.at].first /\ p.first <= segs[p.at].last

PieceSound ==
  /\ Adding => Exists(piece.quad) /\ PieceAt(Segs, piece)
  /\ pc = "within" => WithinAt(Segs, piece)

\* the part left for the second quadrant fits there; what is collapsed
\* exists.
RestSound ==
  Adding /\ rest # NoRest =>
    /\ Exists(rest.quad) /\ rest.quad # piece.quad
    /\ rest.first = FirstSeq(rest.quad) /\ rest.len \in 1 .. QuadSize

TodoSound ==
  pc = "collapse" => todo # <<>> /\ \A i \in DOMAIN todo : Exists(todo[i])

Inv ==
  /\ TypeOK /\ GoodQuads(pquad)
  /\ PieceSound /\ RestSound /\ TodoSound

------------------------------
\* Arithmetic of the quadrants.
LEMMA QuadFour ==
  /\ Quads = {0, 1, 2, 3}
  /\ \A q \in Quads : After(q) \in Quads /\ Before(q) \in Quads /\ Opposite(q) \in Quads
  /\ After(0) = 1 /\ After(1) = 2 /\ After(2) = 3 /\ After(3) = 0
  /\ Before(0) = 3 /\ Before(1) = 0 /\ Before(2) = 1 /\ Before(3) = 2
  /\ Opposite(0) = 2 /\ Opposite(1) = 3 /\ Opposite(2) = 0 /\ Opposite(3) = 1
BY DEF Quads, After, Before, Opposite

LEMMA QuadRange ==
  ASSUME NEW s \in Nat, NEW q \in Nat
  PROVE  QuadOf(s) = q <=> FirstSeq(q) <= s /\ s < FirstSeq(q) + QuadSize
BY SeqSpaceAssumption, SMTT(30) DEF QuadOf, FirstSeq

LEMMA QuadBetween ==
  ASSUME NEW q \in Quads, NEW r \in Nat, NEW s \in Nat, NEW t \in Nat,
         r <= s, s <= t, QuadOf(r) = q, QuadOf(t) = q
  PROVE  QuadOf(s) = q
BY SeqSpaceAssumption, SMTT(30) DEF QuadOf, Quads

LEMMA QuadOfSeq ==
  ASSUME NEW s \in SeqNums
  PROVE  QuadOf(s) \in Quads
<1>1. s \in Nat /\ s < 4 * QuadSize /\ QuadSize \in Nat /\ QuadSize > 1
  BY SeqSpaceAssumption DEF SeqNums, SeqLimit
<1>2. 0 <= s \div QuadSize /\ s \div QuadSize < 4 /\ s \div QuadSize \in Int BY <1>1, SMTT(30)
<1> QED BY <1>2 DEF QuadOf, Quads

\* A packet that stays in a quadrant does not wrap around.
LEMMA OneQuadrant ==
  ASSUME NEW s \in SeqNums, NEW len \in 1 .. QuadSize,
         QuadOf(s) = QuadOf((s + len - 1) % SeqLimit)
  PROVE  Placed(QuadOf(s), s, (s + len - 1) % SeqLimit) /\ (s + len - 1) % SeqLimit \in SeqNums
<1> DEFINE q == QuadOf(s)  t == (s + len - 1) % SeqLimit
<1>1. q \in Quads BY QuadOfSeq
<1>2. s \in Nat /\ s < 4 * QuadSize /\ QuadSize \in Nat /\ QuadSize > 1 /\ len \in Nat
      /\ 1 <= len /\ len <= QuadSize
  BY SeqSpaceAssumption DEF SeqNums, SeqLimit
<1>3. t \in SeqNums /\ t \in Nat BY <1>2, SMTT(30) DEF SeqNums, SeqLimit
<1>4. t = s + len - 1 \/ t = s + len - 1 - 4 * QuadSize BY <1>2, SMTT(30) DEF SeqLimit
<1>5. /\ FirstSeq(q) <= s /\ s < FirstSeq(q) + QuadSize
      /\ FirstSeq(q) <= t /\ t < FirstSeq(q) + QuadSize
  BY <1>1, <1>2, <1>3, QuadRange DEF Quads
<1> HIDE DEF t
<1>6. s <= t BY <1>1, <1>2, <1>3, <1>4, <1>5, QuadFour DEF FirstSeq
<1> QED BY <1>3, <1>6 DEF Placed, t

\* One that crosses the end of the first one is cut at its last byte.
LEMMA FirstCut ==
  ASSUME NEW s \in SeqNums, NEW len \in 1 .. QuadSize, QuadOf(s) = 0,
         QuadOf((s + len - 1) % SeqLimit) # 0
  PROVE  /\ QuadOf((s + len - 1) % SeqLimit) = 1
         /\ LastSeq(0) - s + 1 \in 1 .. QuadSize
         /\ len - (LastSeq(0) - s + 1) \in 1 .. QuadSize
<1> DEFINE t == (s + len - 1) % SeqLimit
<1>1. s \in Nat /\ s < 4 * QuadSize /\ QuadSize \in Nat /\ QuadSize > 1 /\ len \in Nat
      /\ 1 <= len /\ len <= QuadSize
  BY SeqSpaceAssumption DEF SeqNums, SeqLimit
<1>2. 0 <= s /\ s < QuadSize BY <1>1, QuadRange DEF FirstSeq
<1>3. t = s + len - 1 /\ t \in Nat BY <1>1, <1>2, SMTT(30) DEF SeqLimit
<1> HIDE DEF t
<1>4. ~ (t < QuadSize) BY <1>1, <1>3, QuadRange DEF FirstSeq, t
<1>5. QuadOf(t) = 1 BY <1>1, <1>2, <1>3, <1>4, QuadRange DEF FirstSeq
<1> QED BY <1>1, <1>2, <1>3, <1>4, <1>5 DEF LastSeq, t

------------------------------
\* Lists of segments.
LEMMA SegmentFields ==
  ASSUME NEW s \in Segment
  PROVE  /\ s.first \in SeqNums /\ s.last \in SeqNums
         /\ s.first \in Nat /\ s.last \in Nat /\ s.time \in Nat /\ s.acked \in Nat
         /\ s.retrans \in 0 .. RetransMod - 1
BY SeqSpaceAssumption DEF Segment, SeqNums, SeqLimit

\* A segment put in before segment i.
LEMMA InsertGood ==
  ASSUME now \in Nat, NEW q \in Quads, NEW s, GoodList(q, s), NEW i \in 1 .. Len(s),
         NEW e \in Segment, e.time <= now, Placed(q, e.first, e.last),
         Passed(s, i, e.first), e.last <= s[i].first
  PROVE  /\ GoodList(q, InsertAt(s, i, e))
         /\ Len(InsertAt(s, i, e)) = Len(s) + 1
         /\ InsertAt(s, i, e)[i] = e /\ InsertAt(s, i, e)[i + 1] = s[i]
         /\ \A k \in 1 .. i - 1 : InsertAt(s, i, e)[k] = s[k]
<1> DEFINE t == InsertAt(s, i, e)
<1>1. s \in Seq(Segment) /\ Len(s) \in Nat /\ DOMAIN s = 1 .. Len(s) BY DEF GoodList
<1>2. /\ t \in Seq(Segment)
      /\ Len(t) = Len(s) + 1
      /\ \A k \in 1 .. Len(s) + 1 : t[k] = IF k < i THEN s[k] ELSE IF k = i THEN e ELSE s[k - 1]
  <2>1. t \in Seq(Segment) /\ Inserted(s, i, e, t) BY <1>1, Insertion
  <2> QED BY <2>1 DEF Inserted
<1> HIDE DEF t
<1>3. DOMAIN t = 1 .. Len(s) + 1 BY <1>1, <1>2
<1>4. ASSUME NEW k \in 1 .. Len(s)
      PROVE  Placed(q, s[k].first, s[k].last) /\ s[k].time <= now
             /\ s[k].first \in Nat /\ s[k].last \in Nat /\ s[k].first <= s[k].last
  <2>1. s[k] \in Segment BY <1>1
  <2> QED BY <1>1, <2>1, SegmentFields DEF GoodList, Sorted, Past, Placed
<1>5. ASSUME NEW k \in DOMAIN t
      PROVE  Placed(q, t[k].first, t[k].last) /\ t[k].time <= now
  <2>1. CASE k < i BY <1>1, <1>2, <1>3, <1>4, <2>1
  <2>2. CASE k = i BY <1>1, <1>2, <1>3, <2>2
  <2>3. CASE k > i
    <3>1. t[k] = s[k - 1] /\ k - 1 \in 1 .. Len(s) BY <1>1, <1>2, <1>3, <2>3
    <3> QED BY <1>4, <3>1
  <2> QED BY <1>3, <2>1, <2>2, <2>3
<1>6. \A j, k \in 1 .. Len(s) : j < k => s[j].last <= s[k].first BY <1>1 DEF GoodList, Sorted
<1>7. \A j \in 1 .. Len(s) : j < i => s[j].last < e.first BY <1>1 DEF Passed
<1>8. e.first \in Nat /\ e.last \in Nat /\ e.first <= e.last BY SegmentFields DEF Placed
<1>9. \A k \in 1 .. Len(s) : i <= k => e.last <= s[k].first
  <2>1. ASSUME NEW k \in 1 .. Len(s), i < k
        PROVE  e.last <= s[k].first
    <3>1. s[i].last <= s[k].first BY <1>6, <2>1
    <3> QED BY <1>4, <1>8, <3>1
  <2> QED BY <1>1, <2>1
<1>10. ASSUME NEW j \in DOMAIN t, NEW k \in DOMAIN t, j < k
       PROVE  t[j].last <= t[k].first
  <2>1. CASE k < i BY <1>1, <1>2, <1>3, <1>6, <1>10, <2>1
  <2>2. CASE k = i BY <1>1, <1>2, <1>3, <1>4, <1>7, <1>8, <1>10, <2>2
  <2>3. CASE k > i /\ j < i BY <1>1, <1>2, <1>3, <1>6, <1>10, <2>3
  <2>4. CASE k > i /\ j = i
    <3>1. t[j] = e /\ t[k] = s[k - 1] /\ k - 1 \in 1 .. Len(s) /\ i <= k - 1 BY <1>1, <1>2, <1>3, <1>10, <2>4
    <3> QED BY <1>9, <3>1
  <2>5. CASE k > i /\ j > i
    <3>1. /\ j - 1 \in 1 .. Len(s) /\ k - 1 \in 1 .. Len(s) /\ j - 1 < k - 1
          /\ t[j] = s[j - 1] /\ t[k] = s[k - 1]
      BY <1>1, <1>2, <1>3, <1>10, <2>5
    <3> QED BY <1>6, <3>1
  <2> QED BY <1>1, <1>3, <2>1, <2>2, <2>3, <2>4, <2>5
<1>11. GoodList(q, t) BY <1>2, <1>5, <1>10 DEF GoodList, Sorted, Past
<1> QED BY <1>1, <1>2, <1>11 DEF t

\* A segment put at the end.
LEMMA AppendGood ==
  ASSUME now \in Nat, NEW q \in Quads, NEW s, GoodList(q, s), NEW e \in Segment, e.time <= now,
         Placed(q, e.first, e.last), Passed(s, Len(s) + 1, e.first)
  PROVE  GoodList(q, Append(s, e))
<1> DEFINE t == Append(s, e)
<1>1. s \in Seq(Segment) /\ Len(s) \in Nat /\ DOMAIN s = 1 .. Len(s) BY DEF GoodList
<1>2. /\ t \in Seq(Segment) /\ DOMAIN t = 1 .. Len(s) + 1
      /\ \A k \in 1 .. Len(s) : t[k] = s[k]
      /\ t[Len(s) + 1] = e
  BY <1>1
<1> HIDE DEF t
<1>3. ASSUME NEW k \in 1 .. Len(s)
      PROVE  /\ Placed(q, s[k].first, s[k].last) /\ s[k].time <= now
             /\ s[k].last \in Nat /\ e.first \in Nat /\ s[k].last < e.first
  BY <1>1, SegmentFields DEF GoodList, Sorted, Past, Passed
<1>4. \A k \in DOMAIN t : Placed(q, t[k].first, t[k].last) /\ t[k].time <= now BY <1>1, <1>2, <1>3
<1>5. \A j, k \in 1 .. Len(s) : j < k => s[j].last <= s[k].first BY <1>1 DEF GoodList, Sorted
<1>6. ASSUME NEW j \in DOMAIN t, NEW k \in DOMAIN t, j < k
      PROVE  t[j].last <= t[k].first
  BY <1>1, <1>2, <1>3, <1>5, <1>6
<1> QED BY <1>2, <1>4, <1>6 DEF GoodList, Sorted, Past, t

\* The first segment dropped, the second one stretched over it.
LEMMA CappedAt ==
  ASSUME NEW s \in Seq(Segment), Len(s) > MaxSegPerQuad
  PROVE  LET e == [s[2] EXCEPT !.first = s[1].first]
         IN  /\ Len(s) >= 2 /\ Len(s) \in Nat
             /\ e \in Segment /\ e.first = s[1].first /\ e.last = s[2].last
             /\ e.time = s[2].time /\ e.retrans = s[2].retrans /\ e.acked = s[2].acked
             /\ Capped(s) \in Seq(Segment) /\ DOMAIN Capped(s) = 1 .. Len(s) - 1
             /\ Capped(s)[1] = e
             /\ \A k \in 2 .. Len(s) - 1 : Capped(s)[k] = s[k + 1]
<1>1. Len(s) \in Nat /\ DOMAIN s = 1 .. Len(s) OBVIOUS
<1>2. Len(s) >= 2 BY <1>1, SeqSpaceAssumption
<1> DEFINE e == [s[2] EXCEPT !.first = s[1].first]
           r == Tail(Tail(s))
           t == Cons(e, r)
           u == Tail(s)
<1>3. s[1] \in Segment /\ s[2] \in Segment BY <1>1, <1>2
<1>4. /\ e \in Segment /\ e.first = s[1].first /\ e.last = s[2].last
      /\ e.time = s[2].time /\ e.retrans = s[2].retrans /\ e.acked = s[2].acked
  BY <1>3 DEF Segment
<1>5. u \in Seq(Segment) /\ Len(u) = Len(s) - 1 /\ \A k \in 1 .. Len(s) - 1 : u[k] = s[k + 1]
  BY <1>1, <1>2, Dropping
<1>6. r = Tail(u) /\ Capped(s) = t BY DEF Capped
<1> HIDE DEF e, r, u
<1>7. Len(u) >= 1 /\ Len(u) \in Nat BY <1>1, <1>2, <1>5
<1>8. r \in Seq(Segment) /\ Len(r) = Len(u) - 1 /\ \A k \in 1 .. Len(u) - 1 : r[k] = u[k + 1]
  BY <1>5, <1>6, <1>7, Dropping
<1>9. Len(r) = Len(s) - 2 /\ \A k \in 1 .. Len(s) - 2 : r[k] = s[k + 2] BY <1>1, <1>2, <1>5, <1>8
<1>10. t \in Seq(Segment) /\ Len(t) = Len(r) + 1 /\ t[1] = e
       /\ \A k \in 2 .. Len(r) + 1 : t[k] = r[k - 1]
  BY <1>4, <1>8, Pushing
<1> HIDE DEF t
<1>11. DOMAIN t = 1 .. Len(s) - 1 /\ \A k \in 2 .. Len(s) - 1 : t[k] = s[k + 1] BY <1>1, <1>2, <1>9, <1>10
<1> QED BY <1>1, <1>2, <1>4, <1>6, <1>10, <1>11 DEF e

LEMMA CappedGood ==
  ASSUME now \in Nat, NEW q \in Quads, NEW s, GoodList(q, s)
  PROVE  GoodList(q, Capped(s))
<1>1. s \in Seq(Segment) /\ Len(s) \in Nat /\ DOMAIN s = 1 .. Len(s) BY DEF GoodList
<1> SUFFICES ASSUME Len(s) > MaxSegPerQuad
             PROVE  GoodList(q, Capped(s))
  BY DEF Capped
<1> DEFINE e == [s[2] EXCEPT !.first = s[1].first]
           t == Capped(s)
<1>2. Len(s) >= 2 BY <1>1, SeqSpaceAssumption
<1>3. /\ e \in Segment /\ e.first = s[1].first /\ e.last = s[2].last /\ e.time = s[2].time
      /\ t \in Seq(Segment) /\ DOMAIN t = 1 .. Len(s) - 1
      /\ t[1] = e
      /\ \A k \in 2 .. Len(s) - 1 : t[k] = s[k + 1]
  BY <1>1, CappedAt
<1> HIDE DEF t, e
<1>4. ASSUME NEW k \in 1 .. Len(s)
       PROVE  /\ Placed(q, s[k].first, s[k].last) /\ s[k].time <= now
              /\ s[k].last \in Nat /\ s[k].first \in Nat
  <2>1. s[k] \in Segment BY <1>1
  <2> QED BY <1>1, <2>1, SegmentFields DEF GoodList, Sorted, Past
<1>5. \A j, k \in 1 .. Len(s) : j < k => s[j].last <= s[k].first BY <1>1 DEF GoodList, Sorted
<1>6. Placed(q, e.first, e.last)
  <2>1. Placed(q, s[1].first, s[1].last) /\ Placed(q, s[2].first, s[2].last)
        /\ s[1].last <= s[2].first
    BY <1>1, <1>2, <1>4, <1>5
  <2>2. s[1].first \in Nat /\ s[1].last \in Nat /\ s[2].first \in Nat /\ s[2].last \in Nat BY <1>1, <1>2, <1>4
  <2> QED BY <1>3, <2>1, <2>2 DEF Placed
<1>7. ASSUME NEW k \in DOMAIN t
       PROVE  Placed(q, t[k].first, t[k].last) /\ t[k].time <= now
  <2>1. CASE k = 1 BY <1>1, <1>2, <1>3, <1>4, <1>6, <2>1
  <2>2. CASE k \in 2 .. Len(s) - 1 BY <1>1, <1>3, <1>4, <2>2
  <2> QED BY <1>1, <1>3, <2>1, <2>2
<1>8. ASSUME NEW j \in DOMAIN t, NEW k \in DOMAIN t, j < k
       PROVE  t[j].last <= t[k].first
  <2>1. k \in 2 .. Len(s) - 1 /\ t[k] = s[k + 1] /\ k + 1 \in 1 .. Len(s) BY <1>1, <1>3, <1>8
  <2>2. CASE j = 1
    <3>1. t[j].last = s[2].last BY <1>3, <2>2
    <3>2. 2 \in 1 .. Len(s) /\ 2 < k + 1 BY <1>1, <1>2, <2>1
    <3>3. s[2].last <= s[k + 1].first BY <1>5, <2>1, <3>2
    <3> QED BY <2>1, <3>1, <3>3
  <2>3. CASE j # 1
    <3>1. t[j] = s[j + 1] /\ j + 1 \in 1 .. Len(s) /\ j + 1 < k + 1 BY <1>1, <1>3, <1>8, <2>1, <2>3
    <3> QED BY <1>5, <2>1, <3>1
  <2> QED BY <2>2, <2>3
<1> QED BY <1>3, <1>7, <1>8 DEF GoodList, Sorted, Past, t

\* Segments changed in place.
LEMMA SameGood ==
  ASSUME now \in Nat, NEW q \in Quads, NEW s, GoodList(q, s), NEW t \in Seq(Segment),
         DOMAIN t = DOMAIN s,
         \A k \in DOMAIN s : t[k].first = s[k].first /\ t[k].last = s[k].last /\ t[k].time <= now
  PROVE  GoodList(q, t)
BY DEF GoodList, Sorted, Past

\* Segment i joined with the next.
LEMMA MergedAt ==
  ASSUME NEW s \in Seq(Segment), NEW i \in 1 .. Len(s) - 1
  PROVE  LET e == Merged(s[i], s[i + 1])
             t == RemoveAt(ReplaceAt(s, i, e), i + 1)
         IN  /\ e \in Segment /\ e.first = s[i].first /\ e.last = s[i + 1].last
             /\ (e.time = s[i].time \/ e.time = s[i + 1].time)
             /\ e.acked = s[i + 1].acked /\ e.retrans = s[i].retrans
             /\ t \in Seq(Segment) /\ DOMAIN t = 1 .. Len(s) - 1
             /\ \A k \in 1 .. Len(s) - 1 :
                  t[k] = IF k < i THEN s[k] ELSE IF k = i THEN e ELSE s[k + 1]
<1>1. Len(s) \in Nat /\ DOMAIN s = 1 .. Len(s) OBVIOUS
<1> DEFINE e == Merged(s[i], s[i + 1])
           r == ReplaceAt(s, i, e)
           t == RemoveAt(r, i + 1)
<1>2. s[i] \in Segment /\ s[i + 1] \in Segment BY <1>1
<1>3. e \in Segment /\ e.first = s[i].first /\ e.last = s[i + 1].last
      /\ (e.time = s[i].time \/ e.time = s[i + 1].time)
      /\ e.acked = s[i + 1].acked /\ e.retrans = s[i].retrans
  BY <1>2 DEF Merged, Segment
<1> HIDE DEF e
<1>4. r \in Seq(Segment) /\ Len(r) = Len(s)
      /\ \A k \in 1 .. Len(s) : r[k] = IF k = i THEN e ELSE s[k]
  BY <1>1, <1>3 DEF ReplaceAt
<1> HIDE DEF r
<1>5. /\ t \in Seq(Segment)
      /\ Len(t) = Len(s) - 1
      /\ \A k \in 1 .. Len(s) - 1 : t[k] = IF k < i + 1 THEN r[k] ELSE r[k + 1]
  <2>1. r \in Seq(Segment) /\ i + 1 \in DOMAIN r /\ Len(r) = Len(s) BY <1>1, <1>4
  <2> HIDE DEF t
  <2>2. /\ RemoveAt(r, i + 1) \in Seq(Segment)
        /\ Len(RemoveAt(r, i + 1)) = Len(r) - 1
        /\ \A k \in 1 .. Len(r) - 1 :
             RemoveAt(r, i + 1)[k] = IF k < i + 1 THEN r[k] ELSE r[k + 1]
    BY <2>1, Removal
  <2> QED BY <2>1, <2>2, Zenon DEF t
<1> HIDE DEF t
<1>6. DOMAIN t = 1 .. Len(s) - 1
      /\ \A k \in 1 .. Len(s) - 1 : t[k] = IF k < i THEN s[k] ELSE IF k = i THEN e ELSE s[k + 1]
  <2>1. DOMAIN t = 1 .. Len(s) - 1 BY <1>1, <1>5
  <2>2. ASSUME NEW k \in 1 .. Len(s) - 1
        PROVE  t[k] = IF k < i THEN s[k] ELSE IF k = i THEN e ELSE s[k + 1]
    <3>1. t[k] = IF k < i + 1 THEN r[k] ELSE r[k + 1] BY <1>5
    <3>2. /\ k \in 1 .. Len(s) /\ k + 1 \in 1 .. Len(s)
          /\ (k < i + 1 <=> k < i \/ k = i) /\ (~ k < i + 1 => k + 1 # i)
      BY <1>1
    <3>3. /\ r[k] = IF k = i THEN e ELSE s[k]
          /\ r[k + 1] = IF k + 1 = i THEN e ELSE s[k + 1]
      BY <1>4, <3>2
    <3>4. k < i => k # i BY <1>1
    <3> QED BY <3>1, <3>2, <3>3, <3>4
  <2> QED BY <2>1, <2>2
<1> QED BY <1>3, <1>5, <1>6 DEF t, r, e

LEMMA MergedGood ==
  ASSUME now \in Nat, NEW q \in Quads, NEW s, GoodList(q, s), NEW i \in 1 .. Len(s) - 1
  PROVE  GoodList(q, RemoveAt(ReplaceAt(s, i, Merged(s[i], s[i + 1])), i + 1))
<1>1. s \in Seq(Segment) /\ Len(s) \in Nat /\ DOMAIN s = 1 .. Len(s) BY DEF GoodList
<1> DEFINE e == Merged(s[i], s[i + 1])
           t == RemoveAt(ReplaceAt(s, i, e), i + 1)
<1>2. /\ e \in Segment /\ e.first = s[i].first /\ e.last = s[i + 1].last
      /\ (e.time = s[i].time \/ e.time = s[i + 1].time)
  BY <1>1, MergedAt
<1>3. /\ t \in Seq(Segment) /\ DOMAIN t = 1 .. Len(s) - 1
      /\ \A k \in 1 .. Len(s) - 1 : t[k] = IF k < i THEN s[k] ELSE IF k = i THEN e ELSE s[k + 1]
  BY <1>1, MergedAt
<1> HIDE DEF t, e
<1>4. ASSUME NEW k \in 1 .. Len(s)
      PROVE  /\ Placed(q, s[k].first, s[k].last) /\ s[k].time <= now
             /\ s[k].last \in Nat /\ s[k].first \in Nat /\ s[k].first <= s[k].last
  <2>1. s[k] \in Segment BY <1>1
  <2> QED BY <1>1, <2>1, SegmentFields DEF GoodList, Sorted, Past, Placed
<1>5. \A j, k \in 1 .. Len(s) : j < k => s[j].last <= s[k].first BY <1>1 DEF GoodList, Sorted
<1>6. Placed(q, e.first, e.last) /\ e.time <= now
  <2>1. Placed(q, s[i].first, s[i].last) /\ Placed(q, s[i + 1].first, s[i + 1].last)
        /\ s[i].last <= s[i + 1].first /\ s[i].time <= now /\ s[i + 1].time <= now
    BY <1>1, <1>4, <1>5
  <2>2. s[i].first \in Nat /\ s[i].last \in Nat /\ s[i + 1].first \in Nat /\ s[i + 1].last \in Nat
    BY <1>1, <1>4
  <2> QED BY <1>2, <2>1, <2>2 DEF Placed
<1>7. ASSUME NEW k \in DOMAIN t
      PROVE  Placed(q, t[k].first, t[k].last) /\ t[k].time <= now
  <2>1. CASE k < i
    <3>1. k \in 1 .. Len(s) /\ t[k] = s[k] BY <1>1, <1>3, <1>7, <2>1
    <3> QED BY <1>4, <3>1
  <2>2. CASE k = i BY <1>3, <1>6, <1>7, <2>2
  <2>3. CASE k > i
    <3>1. k + 1 \in 1 .. Len(s) /\ t[k] = s[k + 1] BY <1>1, <1>3, <1>7, <2>3
    <3> QED BY <1>4, <3>1
  <2> QED BY <1>3, <1>7, <2>1, <2>2, <2>3
<1>8. ASSUME NEW j \in DOMAIN t, NEW k \in DOMAIN t, j < k
      PROVE  t[j].last <= t[k].first
  <2>1. CASE k < i BY <1>1, <1>3, <1>5, <1>8, <2>1
  <2>2. CASE k = i BY <1>1, <1>2, <1>3, <1>5, <1>8, <2>2
  <2>3. CASE k > i
    <3>1. t[k] = s[k + 1] /\ k + 1 \in 1 .. Len(s) BY <1>1, <1>3, <2>3
    <3>2. CASE j < i
      <4>1. t[j] = s[j] /\ j \in 1 .. Len(s) /\ j < k + 1 BY <1>1, <1>3, <1>8, <3>2
      <4> QED BY <1>5, <3>1, <4>1
    <3>3. CASE j = i
      <4>1. t[j].last = s[i + 1].last /\ i + 1 \in 1 .. Len(s) /\ i + 1 < k + 1
        BY <1>1, <1>2, <1>3, <2>3, <3>3
      <4> QED BY <1>5, <3>1, <4>1
    <3>4. CASE j > i
      <4>1. t[j] = s[j + 1] /\ j + 1 \in 1 .. Len(s) /\ j + 1 < k + 1 BY <1>1, <1>3, <1>8, <3>4
      <4> QED BY <1>5, <3>1, <4>1
    <3> QED BY <1>3, <3>2, <3>3, <3>4
  <2> QED BY <1>3, <2>1, <2>2, <2>3
<1> QED BY <1>3, <1>7, <1>8 DEF GoodList, Sorted, Past, t, e

------------------------------
\* A new list s in one quadrant.
Relisted(pq, q, s, u) ==
  /\ u[q].segs = s /\ u[q] # NoQuad
  /\ \A k \in Quads : k # q => u[k] = pq[k]
  /\ \A k \in Quads : pq[k] # NoQuad <=> u[k] # NoQuad

LEMMA NewList ==
  ASSUME NEW pq, GoodQuads(pq), NEW q \in Quads, pq[q] # NoQuad, NEW s, GoodList(q, s),
         NEW u, u = [pq EXCEPT ![q].segs = s]
  PROVE  GoodQuads(u) /\ Relisted(pq, q, s, u)
<1>1. pq \in [Quads -> Quadrant \cup {NoQuad}] /\ pq[q] \in Quadrant /\ s \in Seq(Segment)
  BY DEF GoodQuads, GoodList
<1> DEFINE x == [pq[q] EXCEPT !.segs = s]
<1>2. x \in Quadrant /\ x.segs = s /\ x.prev = pq[q].prev /\ x.next = pq[q].next BY <1>1 DEF Quadrant
<1>3. u = [pq EXCEPT ![q] = x] BY <1>1
<1> HIDE DEF x
<1>4. u \in [Quads -> Quadrant \cup {NoQuad}] /\ u[q] = x /\ \A k \in Quads : k # q => u[k] = pq[k]
  BY <1>1, <1>2, <1>3
<1>5. x # NoQuad BY <1>2, NoQuadAssumption
<1>6. \A k \in Quads : /\ pq[k] # NoQuad <=> u[k] # NoQuad
                       /\ pq[k] # NoQuad => u[k].prev = pq[k].prev /\ u[k].next = pq[k].next
  BY <1>2, <1>4, <1>5
<1>7. ASSUME NEW k \in Quads, u[k] # NoQuad
      PROVE  GoodList(k, u[k].segs) /\ LinksIn(u, k)
  <2>1. GoodList(k, pq[k].segs) /\ LinksIn(pq, k) /\ pq[k] # NoQuad BY <1>6, <1>7 DEF GoodQuads
  <2>2. GoodList(k, u[k].segs) BY <1>2, <1>4, <2>1
  <2>3. After(k) \in Quads /\ Before(k) \in Quads BY QuadFour
  <2>4. LinksIn(u, k) BY <1>6, <2>1, <2>3 DEF LinksIn
  <2> QED BY <2>2, <2>4
<1> QED BY <1>2, <1>4, <1>5, <1>6, <1>7 DEF GoodQuads, Relisted

\* What whichquad leaves behind.
LEMMA Around ==
  ASSUME GoodQuads(pquad), NEW q \in Quads, NEW u, u = WhichQuad(q)
  PROVE  /\ GoodQuads(u)
         /\ u[q] # NoQuad /\ u[After(q)] # NoQuad /\ u[Before(q)] # NoQuad
         /\ u[q].next = After(q) /\ u[q].prev = Before(q)
<1>1. pquad \in [Quads -> Quadrant \cup {NoQuad}] BY DEF GoodQuads
<1>2. /\ After(q) \in Quads /\ Before(q) \in Quads /\ After(q) # q /\ Before(q) # q
      /\ After(q) # Before(q) /\ After(Before(q)) = q /\ Before(After(q)) = q
      /\ NoLink \notin Quads
  BY QuadFour DEF NoLink
<1>3. CASE Settled(q)
  <2>1. u = pquad /\ pquad[q] # NoQuad /\ LinksIn(pquad, q)
        /\ pquad[q].prev # NoLink /\ pquad[q].next # NoLink
    BY <1>3 DEF WhichQuad, Settled, Exists, GoodQuads
  <2> QED BY <2>1 DEF LinksIn
<1>4. CASE ~Settled(q)
  <2> DEFINE x == [Made(q) EXCEPT !.prev = Before(q), !.next = After(q)]
             y == [Made(After(q)) EXCEPT !.prev = q, !.next = NoLink]
             z == [Made(Before(q)) EXCEPT !.prev = NoLink, !.next = q]
  <2>1. ASSUME NEW k \in Quads
        PROVE  Made(k) \in Quadrant /\ GoodList(k, Made(k).segs)
    <3>1. CASE Exists(k) BY <1>1, <3>1 DEF Made, Exists, GoodQuads
    <3>2. CASE ~Exists(k)
      <4>1. NewQuad \in Quadrant /\ NewQuad.segs = <<>> BY DEF NewQuad, Quadrant
      <4>2. GoodList(k, <<>>) BY DEF GoodList, Sorted, Past
      <4> QED BY <3>2, <4>1, <4>2 DEF Made
    <3> QED BY <3>1, <3>2
  <2>2. /\ x \in Quadrant /\ x.prev = Before(q) /\ x.next = After(q) /\ x.segs = Made(q).segs
        /\ y \in Quadrant /\ y.prev = q /\ y.next = NoLink /\ y.segs = Made(After(q)).segs
        /\ z \in Quadrant /\ z.prev = NoLink /\ z.next = q /\ z.segs = Made(Before(q)).segs
    <3>1. Made(q) \in Quadrant /\ Made(After(q)) \in Quadrant /\ Made(Before(q)) \in Quadrant BY <1>2, <2>1
    <3> QED BY <1>2, <3>1 DEF Quadrant
  <2>3. u = [k \in Quads |->
               CASE k = q -> [Made(k) EXCEPT !.prev = Before(q), !.next = After(q)]
                 [] k = After(q) -> [Made(k) EXCEPT !.prev = q, !.next = NoLink]
                 [] k = Before(q) -> [Made(k) EXCEPT !.prev = NoLink, !.next = q]
                 [] OTHER -> NoQuad]
    BY <1>4 DEF WhichQuad
  <2>4. /\ u[q] = x /\ u[After(q)] = y /\ u[Before(q)] = z
        /\ u \in [Quads -> Quadrant \cup {NoQuad}]
        /\ \A k \in Quads : k # q /\ k # After(q) /\ k # Before(q) => u[k] = NoQuad
    <3>1. u[q] = x BY <1>2, <2>3
    <3>2. u[After(q)] = y BY <1>2, <2>3
    <3>3. u[Before(q)] = z BY <1>2, <2>3
    <3>4. \A k \in Quads : k # q /\ k # After(q) /\ k # Before(q) => u[k] = NoQuad BY <2>3
    <3> HIDE DEF x, y, z
    <3>5. \A k \in Quads : u[k] \in Quadrant \cup {NoQuad} BY <2>2, <3>1, <3>2, <3>3, <3>4
    <3>6. u = [k \in Quads |-> u[k]] BY <2>3
    <3> QED BY <3>1, <3>2, <3>3, <3>4, <3>5, <3>6
  <2> HIDE DEF x, y, z
  <2>5. x # NoQuad /\ y # NoQuad /\ z # NoQuad BY <2>2, NoQuadAssumption
  <2>6. GoodList(q, x.segs) /\ GoodList(After(q), y.segs) /\ GoodList(Before(q), z.segs) BY <1>2, <2>1, <2>2
  <2>7. LinksIn(u, q) /\ LinksIn(u, After(q)) /\ LinksIn(u, Before(q)) BY <1>2, <2>2, <2>4, <2>5 DEF LinksIn
  <2>8. GoodQuads(u) BY <2>4, <2>6, <2>7 DEF GoodQuads
  <2> QED BY <2>2, <2>4, <2>5, <2>8
<1> QED BY <1>3, <1>4

------------------------------
\* The walk.
Pieces == [quad : Quads, first : 0 .. SeqLimit, last : SeqNums,
           at : Nat \ {0}, split : BOOLEAN]
Rests == [quad : Quads, first : SeqNums, len : Int] \cup {NoRest}

LEMMA PieceFields ==
  ASSUME NEW p \in Pieces
  PROVE  /\ p.quad \in Quads /\ p.first \in Nat /\ p.last \in Nat /\ p.last \in SeqNums
         /\ p.at \in Nat /\ p.at >= 1
BY SeqSpaceAssumption DEF Pieces, SeqNums, SeqLimit

\* A piece that begins later, further down the list.
Moved(p, c, a, r) == r.quad = p.quad /\ r.first = c /\ r.last = p.last /\ r.at = a

LEMMA PieceMoved ==
  ASSUME NEW p \in Pieces, NEW c \in 0 .. SeqLimit, NEW a \in Nat \ {0},
         NEW b \in BOOLEAN, NEW r, r = [p EXCEPT !.first = c, !.at = a, !.split = b]
  PROVE  r \in Pieces /\ Moved(p, c, a, r)
<1> DEFINE x == [p EXCEPT !.first = c]
<1>1. x \in Pieces /\ x.quad = p.quad /\ x.first = c /\ x.last = p.last BY DEF Pieces
<1> DEFINE y == [x EXCEPT !.at = a]
<1>2. r = [y EXCEPT !.split = b] BY DEF Pieces
<1> HIDE DEF x
<1>3. y \in Pieces /\ y.quad = x.quad /\ y.first = x.first /\ y.last = x.last /\ y.at = a BY <1>1 DEF Pieces
<1> HIDE DEF y
<1> QED BY <1>1, <1>2, <1>3 DEF Pieces, Moved

\* The walk over a list begins soundly.
LEMMA PieceFresh ==
  ASSUME NEW q \in Quads, NEW s, GoodList(q, s), NEW f \in SeqNums, NEW len \in Int,
         (f + len - 1) % SeqLimit \in SeqNums, Placed(q, f, (f + len - 1) % SeqLimit)
  PROVE  /\ Piece(s, q, f, len) \in Pieces
         /\ Piece(s, q, f, len).quad = q
         /\ PieceAt(s, Piece(s, q, f, len))
<1> DEFINE l == (f + len - 1) % SeqLimit
           b == s # <<>> /\ f > Last(s).last
           a == IF b THEN Len(s) + 1 ELSE 1
           p == [quad |-> q, first |-> f, last |-> l, at |-> a, split |-> FALSE]
<1>1. Piece(s, q, f, len) = p BY DEF Piece
<1>2. s \in Seq(Segment) /\ Len(s) \in Nat /\ DOMAIN s = 1 .. Len(s) BY DEF GoodList
<1>3. a \in Nat \ {0} /\ a <= Len(s) + 1 BY <1>2
<1>4. f \in 0 .. SeqLimit /\ f \in Nat BY SeqSpaceAssumption DEF SeqNums, SeqLimit
<1>5. Passed(s, a, f)
  <2>1. CASE b
    <3>1. Last(s) = s[Len(s)] /\ Len(s) >= 1 BY <1>2, <2>1 DEF Last
    <3>2. ASSUME NEW i \in DOMAIN s
          PROVE  s[i].last <= s[Len(s)].last /\ s[i].last \in Nat /\ s[Len(s)].last \in Nat
      <4>1. s[i] \in Segment /\ s[Len(s)] \in Segment BY <1>2, <3>1
      <4>2. s[i].last \in Nat /\ s[Len(s)].last \in Nat /\ s[Len(s)].first \in Nat BY <4>1, SegmentFields
      <4>3. CASE i = Len(s) BY <4>2, <4>3
      <4>4. CASE i < Len(s)
        <5>1. s[i].last <= s[Len(s)].first /\ s[Len(s)].first <= s[Len(s)].last
          BY <1>2, <3>1, <4>4 DEF GoodList, Sorted, Placed
        <5> QED BY <4>2, <5>1
      <4> QED BY <1>2, <4>2, <4>3, <4>4
    <3> QED BY <1>4, <2>1, <3>1, <3>2 DEF Passed
  <2>2. CASE ~b BY <1>2, <2>2 DEF Passed
  <2> QED BY <2>1, <2>2
<1> HIDE DEF l, a
<1>6. p \in Pieces BY <1>3, <1>4 DEF Pieces, l
<1> QED BY <1>1, <1>3, <1>5, <1>6 DEF PieceAt, l

\* What is left for the second quadrant fits there.
LEMMA RestPlaced ==
  ASSUME NEW q \in Quads, NEW len \in 1 .. QuadSize
  PROVE  /\ FirstSeq(q) \in SeqNums /\ (FirstSeq(q) + len - 1) % SeqLimit \in SeqNums
         /\ Placed(q, FirstSeq(q), (FirstSeq(q) + len - 1) % SeqLimit)
<1>1. QuadSize \in Nat /\ QuadSize > 1 /\ len \in Nat /\ 1 <= len /\ len <= QuadSize BY SeqSpaceAssumption
<1>2. FirstSeq(q) \in Nat /\ FirstSeq(q) + QuadSize <= 4 * QuadSize BY <1>1, QuadFour DEF FirstSeq
<1>3. (FirstSeq(q) + len - 1) % SeqLimit = FirstSeq(q) + len - 1 BY <1>1, <1>2, SMTT(30) DEF SeqLimit
<1>4. QuadOf(FirstSeq(q)) = q BY <1>1, <1>2, QuadRange DEF Quads
<1>5. QuadOf(FirstSeq(q) + len - 1) = q
  <2>1. FirstSeq(q) + len - 1 \in Nat BY <1>1, <1>2
  <2> QED BY <1>1, <1>2, <2>1, QuadRange DEF Quads
<1> QED BY <1>1, <1>2, <1>3, <1>4, <1>5 DEF Placed, SeqNums, SeqLimit

\* addseg returns after it changed at most the list of its quadrant.
LEMMA ReturnSound ==
  ASSUME TypeOK, GoodQuads(pquad), RestSound, Adding,
         GoodQuads(pquad'), \A k \in Quads : k # piece.quad => pquad'[k] = pquad[k],
         Return
  PROVE  /\ pc' \in {"idle", "walk"} /\ piece' \in Pieces /\ rest' \in Rests
         /\ PieceSound' /\ RestSound'
<1>1. CASE rest = NoRest
  <2>1. pc' = "idle" /\ piece' = piece /\ rest' = rest BY <1>1 DEF Return
  <2>2. ~Adding' /\ pc' # "within" BY <2>1 DEF Adding
  <2> QED BY <2>1, <2>2 DEF TypeOK, Pieces, Rests, PieceSound, RestSound
<1>2. CASE rest # NoRest
  <2> DEFINE q == rest.quad
  <2>1. /\ pc' = "walk" /\ rest' = NoRest
        /\ piece' = Piece(pquad[q].segs, q, rest.first, rest.len)
    BY <1>2 DEF Return
  <2>2. q \in Quads /\ pquad[q] # NoQuad /\ q # piece.quad
        /\ rest.first = FirstSeq(q) /\ rest.len \in 1 .. QuadSize
    BY <1>2 DEF TypeOK, RestSound, Exists
  <2>3. GoodList(q, pquad[q].segs) /\ pquad'[q] = pquad[q] BY <2>2 DEF GoodQuads
  <2>4. /\ FirstSeq(q) \in SeqNums /\ (FirstSeq(q) + rest.len - 1) % SeqLimit \in SeqNums
        /\ Placed(q, FirstSeq(q), (FirstSeq(q) + rest.len - 1) % SeqLimit)
    BY <2>2, RestPlaced
  <2>5. rest.len \in Int BY <2>2, SeqSpaceAssumption
  <2>6. piece' \in Pieces /\ piece'.quad = q /\ PieceAt(pquad[q].segs, piece')
    BY <2>1, <2>2, <2>3, <2>4, <2>5, PieceFresh
  <2>7. Exists(piece.quad)' /\ PieceAt(Segs, piece)' BY <2>2, <2>3, <2>6 DEF Exists, Segs, PieceAt
  <2>8. PieceSound' BY <2>1, <2>7 DEF PieceSound
  <2>9. RestSound' BY <2>1 DEF RestSound
  <2> QED BY <2>1, <2>6, <2>8, <2>9 DEF Rests
<1> QED BY <1>1, <1>2

\* What the steps of the walk have in common.
LEMMA WalkStep ==
  ASSUME Inv, OthersKept, rexlen' \in Int, order' \in BOOLEAN, GoodQuads(pquad'),
         pc' \in {"idle", "walk", "within"}, piece' \in Pieces, rest' \in Rests,
         PieceSound', RestSound'
  PROVE  Inv'
<1>1. now' = now BY DEF OthersKept
<1>2. GoodQuads(pquad)' BY <1>1 DEF GoodQuads, GoodList, Past, Sorted, LinksIn
<1>3. UNCHANGED <<todo, sample, now, packets, tx, sent, dup, late>> BY DEF OthersKept, history
<1>4. pquad' \in [Quads -> Quadrant \cup {NoQuad}] BY DEF GoodQuads
<1>5. TypeOK' BY <1>3, <1>4 DEF Inv, TypeOK, Pieces, Rests
<1>6. TodoSound' BY DEF TodoSound
<1> QED BY <1>2, <1>5, <1>6 DEF Inv

\* The list being walked.
LEMMA Walked ==
  ASSUME Inv, Adding
  PROVE  /\ piece \in Pieces /\ pquad[piece.quad] # NoQuad /\ now \in Nat
         /\ GoodList(piece.quad, Segs) /\ Len(Segs) \in Nat /\ DOMAIN Segs = 1 .. Len(Segs)
         /\ PieceAt(Segs, piece)
         /\ Segs \in Seq(Segment)
<1>1. piece \in Pieces /\ now \in Nat BY SeqSpaceAssumption DEF Inv, TypeOK, Pieces
<1>2. piece.quad \in Quads /\ pquad[piece.quad] # NoQuad /\ PieceAt(Segs, piece)
  BY <1>1, PieceFields DEF Inv, PieceSound, Exists
<1>3. GoodList(piece.quad, Segs) BY <1>2 DEF Inv, GoodQuads, Segs
<1> QED BY <1>1, <1>2, <1>3 DEF GoodList

\* A new list for the quadrant of the piece.
LEMMA SetWalked ==
  ASSUME Inv, Adding, NEW s, GoodList(piece.quad, s), SetSegs(piece.quad, s)
  PROVE  /\ GoodQuads(pquad')
         /\ pquad'[piece.quad].segs = s /\ pquad'[piece.quad] # NoQuad
         /\ \A k \in Quads : k # piece.quad => pquad'[k] = pquad[k]
         /\ \A k \in Quads : pquad[k] # NoQuad => pquad'[k] # NoQuad
<1>1. piece.quad \in Quads /\ pquad[piece.quad] # NoQuad BY Walked, PieceFields
<1>2. pquad' = [pquad EXCEPT ![piece.quad].segs = s] BY DEF SetSegs
<1>3. GoodQuads(pquad) BY DEF Inv
<1>4. GoodQuads(pquad') /\ Relisted(pquad, piece.quad, s, pquad') BY <1>1, <1>2, <1>3, NewList
<1> QED BY <1>4 DEF Relisted

\* A step that changes the list of the piece and returns.
LEMMA SetAndReturn ==
  ASSUME Inv, Adding, NEW s, GoodList(piece.quad, s), SetSegs(piece.quad, s), Return,
         OthersKept, rexlen' \in Int, order' \in BOOLEAN
  PROVE  Inv'
<1>1. /\ GoodQuads(pquad')
      /\ \A k \in Quads : k # piece.quad => pquad'[k] = pquad[k]
  BY SetWalked
<1>2. /\ pc' \in {"idle", "walk"} /\ piece' \in Pieces /\ rest' \in Rests
      /\ PieceSound' /\ RestSound'
  BY <1>1, ReturnSound DEF Inv
<1> QED BY <1>1, <1>2, WalkStep

\* A step that goes on with the walk of a list s of the same quadrant.
LEMMA SetAndGoOn ==
  ASSUME Inv, Adding, GoodQuads(pquad'), piece'.quad = piece.quad,
         pquad'[piece.quad] # NoQuad,
         \A k \in Quads : pquad[k] # NoQuad => pquad'[k] # NoQuad,
         pc' \in {"walk", "within"}, piece' \in Pieces,
         PieceAt(pquad'[piece.quad].segs, piece'),
         pc' = "within" => WithinAt(pquad'[piece.quad].segs, piece'),
         rest' = rest, OthersKept, rexlen' \in Int, order' \in BOOLEAN
  PROVE  Inv'
<1>1. PieceSound'
  <2>1. Segs' = pquad'[piece.quad].segs BY DEF Segs
  <2>2. Exists(piece.quad)' /\ PieceAt(Segs, piece)' BY <2>1 DEF Exists, PieceAt
  <2>3. (pc = "within" => WithinAt(Segs, piece))' BY <2>1 DEF WithinAt
  <2> QED BY <2>2, <2>3 DEF PieceSound
<1>2. rest' \in Rests BY DEF Inv, TypeOK, Rests
<1>3. RestSound'
  <2>1. CASE rest = NoRest BY <2>1 DEF RestSound
  <2>2. CASE rest # NoRest
    <3>1. /\ pquad[rest.quad] # NoQuad /\ rest.quad # piece.quad /\ rest.quad \in Quads
          /\ rest.first = FirstSeq(rest.quad) /\ rest.len \in 1 .. QuadSize
      BY <2>2 DEF Inv, TypeOK, RestSound, Exists
    <3> QED BY <3>1 DEF RestSound, Exists
  <2> QED BY <2>1, <2>2
<1> QED BY <1>1, <1>2, <1>3, WalkStep

LEMMA NewSegType ==
  ASSUME now \in Nat, NEW f \in SeqNums, NEW l \in SeqNums
  PROVE  /\ NewSeg(f, l) \in Segment
         /\ NewSeg(f, l).first = f /\ NewSeg(f, l).last = l /\ NewSeg(f, l).time <= now
BY SeqSpaceAssumption DEF NewSeg, Segment

LEMMA WalkOnStep == Inv /\ WalkOn => Inv'
<1> SUFFICES ASSUME Inv, WalkOn
             PROVE  Inv'
  OBVIOUS
<1>1. /\ pc = "walk" /\ piece.at <= Len(Segs) /\ piece.first > Cur.last
      /\ piece' = [piece EXCEPT !.at = @ + 1]
      /\ UNCHANGED <<pquad, pc, rest, rexlen, order>> /\ OthersKept
  BY DEF WalkOn, Walking
<1>2. Adding BY <1>1 DEF Adding
<1>3. piece \in Pieces /\ PieceAt(Segs, piece) /\ Len(Segs) \in Nat
      /\ DOMAIN Segs = 1 .. Len(Segs) /\ pquad[piece.quad] # NoQuad
  BY <1>2, Walked
<1>4. /\ piece' \in Pieces /\ piece'.quad = piece.quad /\ piece'.first = piece.first
      /\ piece'.last = piece.last /\ piece'.at = piece.at + 1
  BY <1>1, <1>3 DEF Pieces
<1>5. PieceAt(Segs, piece')
  <2>1. piece.at \in Nat /\ piece.first \in Nat BY <1>3, PieceFields
  <2>2. Passed(Segs, piece.at + 1, piece.first) BY <1>1, <1>3, <2>1 DEF PieceAt, Passed, Cur
  <2> QED BY <1>1, <1>3, <1>4, <2>1, <2>2 DEF PieceAt
<1>6. GoodQuads(pquad') /\ rexlen' \in Int /\ order' \in BOOLEAN BY <1>1 DEF Inv, TypeOK
<1> QED BY <1>1, <1>2, <1>3, <1>4, <1>5, <1>6, SetAndGoOn DEF Segs

\* The segment the walk is at, when the piece starts before it.
LEMMA BeforeCur ==
  ASSUME Inv, StartsBefore
  PROVE  /\ Adding /\ piece.at \in 1 .. Len(Segs) /\ Cur \in Segment
         /\ piece.first < Cur.first /\ Placed(piece.quad, Cur.first, Cur.last)
         /\ piece.first \in SeqNums
         /\ Passed(Segs, piece.at, piece.first)
<1>1. Adding /\ piece.at <= Len(Segs) /\ piece.first < Cur.first BY DEF StartsBefore, Walking, Adding
<1>2. /\ piece \in Pieces /\ GoodList(piece.quad, Segs) /\ Len(Segs) \in Nat
      /\ DOMAIN Segs = 1 .. Len(Segs) /\ PieceAt(Segs, piece) /\ Segs \in Seq(Segment)
  BY <1>1, Walked
<1>3. piece.at \in 1 .. Len(Segs) /\ piece.first \in Nat BY <1>1, <1>2, PieceFields
<1>4. Cur \in Segment /\ Placed(piece.quad, Cur.first, Cur.last) BY <1>2, <1>3 DEF Cur, GoodList, Sorted
<1>5. piece.first \in SeqNums
  <2>1. Cur.first \in SeqNums BY <1>4, SegmentFields
  <2> QED BY <1>1, <1>3, <2>1, SeqSpaceAssumption DEF SeqNums, SeqLimit
<1> QED BY <1>1, <1>2, <1>3, <1>4, <1>5 DEF PieceAt

LEMMA InsertBeforeStep == Inv /\ InsertBefore => Inv'
<1> SUFFICES ASSUME Inv, InsertBefore
             PROVE  Inv'
  OBVIOUS
<1> DEFINE e == NewSeg(piece.first, piece.last)
           s == InsertAt(Segs, piece.at, e)
<1>1. /\ StartsBefore /\ piece.last <= Cur.first /\ SetSegs(piece.quad, s) /\ Return
      /\ rexlen' = rexlen /\ OthersKept /\ order' = (order \/ piece.last < Cur.last)
  BY DEF InsertBefore
<1>2. /\ Adding /\ piece.at \in 1 .. Len(Segs) /\ piece.first \in SeqNums
      /\ Passed(Segs, piece.at, piece.first)
  BY <1>1, BeforeCur
<1>3. /\ piece \in Pieces /\ GoodList(piece.quad, Segs) /\ PieceAt(Segs, piece) /\ now \in Nat
      /\ piece.quad \in Quads /\ piece.last \in SeqNums
  BY <1>2, Walked, PieceFields
<1>4. /\ e \in Segment /\ e.first = piece.first /\ e.last = piece.last /\ e.time <= now
  BY <1>2, <1>3, NewSegType
<1>5. Placed(piece.quad, e.first, e.last) /\ Passed(Segs, piece.at, e.first)
      /\ e.last <= Segs[piece.at].first
  BY <1>1, <1>2, <1>3, <1>4 DEF PieceAt, Cur
<1> HIDE DEF e
<1>6. GoodList(piece.quad, s) BY <1>2, <1>3, <1>4, <1>5, InsertGood
<1>7. rexlen' \in Int /\ order' \in BOOLEAN BY <1>1 DEF Inv, TypeOK
<1> HIDE DEF s
<1> QED BY <1>1, <1>2, <1>6, <1>7, SetAndReturn

LEMMA SplitBeforeStep == Inv /\ SplitBefore => Inv'
<1> SUFFICES ASSUME Inv, SplitBefore
             PROVE  Inv'
  OBVIOUS
<1> DEFINE q == piece.quad
           e == NewSeg(piece.first, Cur.first - 1)
           s == InsertAt(Segs, piece.at, e)
<1>1. /\ StartsBefore /\ piece.last > Cur.first /\ SetSegs(q, s) /\ pc' = "within"
      /\ piece' = [piece EXCEPT !.first = Cur.first, !.at = @ + 1]
      /\ UNCHANGED <<rest, rexlen>> /\ OthersKept /\ order' = (order \/ piece.last < Cur.last)
  BY DEF SplitBefore
<1>2. /\ Adding /\ piece.at \in 1 .. Len(Segs) /\ Cur \in Segment
      /\ piece.first < Cur.first /\ Placed(q, Cur.first, Cur.last)
      /\ piece.first \in SeqNums
      /\ Passed(Segs, piece.at, piece.first)
  BY <1>1, BeforeCur
<1>3. /\ piece \in Pieces /\ GoodList(q, Segs) /\ PieceAt(Segs, piece) /\ now \in Nat
      /\ q \in Quads /\ piece.last \in SeqNums /\ Len(Segs) \in Nat
      /\ DOMAIN Segs = 1 .. Len(Segs) /\ Segs \in Seq(Segment)
      /\ piece.at \in Nat /\ piece.at >= 1 /\ piece.last \in Nat /\ piece.first \in Nat
  BY <1>2, Walked, PieceFields
<1>4. Cur.first \in SeqNums /\ Cur.first \in Nat /\ Cur.last \in Nat BY <1>2, SegmentFields
<1>5. Cur.first - 1 \in SeqNums /\ Cur.first - 1 \in Nat
  BY <1>2, <1>3, <1>4, SeqSpaceAssumption DEF SeqNums, SeqLimit
<1>6. e \in Segment /\ e.first = piece.first /\ e.last = Cur.first - 1 /\ e.time <= now
  BY <1>2, <1>3, <1>5, NewSegType
<1>7. Placed(q, e.first, e.last)
  <2>1. QuadOf(piece.first) = q /\ QuadOf(Cur.first) = q BY <1>2, <1>3 DEF PieceAt, Placed
  <2>2. piece.first <= Cur.first - 1 /\ Cur.first - 1 <= Cur.first BY <1>2, <1>3, <1>4
  <2>3. QuadOf(Cur.first - 1) = q BY <1>3, <1>4, <1>5, <2>1, <2>2, QuadBetween
  <2> QED BY <1>6, <2>1, <2>2, <2>3 DEF Placed
<1>8. e.last <= Segs[piece.at].first BY <1>4, <1>6 DEF Cur
<1> HIDE DEF e
<1>9. /\ GoodList(q, s)
      /\ Len(s) = Len(Segs) + 1
      /\ s[piece.at] = e /\ s[piece.at + 1] = Segs[piece.at]
      /\ \A k \in 1 .. piece.at - 1 : s[k] = Segs[k]
  BY <1>2, <1>3, <1>6, <1>7, <1>8, InsertGood
<1> HIDE DEF s
<1>10. /\ piece' \in Pieces /\ piece'.quad = q /\ piece'.first = Cur.first
       /\ piece'.last = piece.last /\ piece'.at = piece.at + 1
  <2> DEFINE c == Cur.first
  <2>1. c \in 0 .. SeqLimit BY <1>4, SeqSpaceAssumption DEF SeqNums, SeqLimit
  <2>2. piece' = [piece EXCEPT !.first = c, !.at = piece.at + 1] BY <1>1, <1>3 DEF Pieces
  <2> HIDE DEF c
  <2>3. piece.at + 1 \in Nat \ {0} BY <1>3
  <2>4. piece.split \in BOOLEAN
        /\ [piece EXCEPT !.first = c, !.at = piece.at + 1] =
           [piece EXCEPT !.first = c, !.at = piece.at + 1, !.split = piece.split]
    BY <1>3 DEF Pieces
  <2>5. piece' \in Pieces /\ Moved(piece, c, piece.at + 1, piece') BY <1>3, <2>1, <2>2, <2>3, <2>4, PieceMoved
  <2> QED BY <2>5 DEF c, Moved
<1>11. PieceAt(s, piece') /\ WithinAt(s, piece')
  <2>1. Passed(s, piece.at + 1, Cur.first)
    <3>1. ASSUME NEW i \in DOMAIN s, i < piece.at + 1
          PROVE  s[i].last < Cur.first
      <4>1. s \in Seq(Segment) BY <1>9 DEF GoodList
      <4>2. i \in Nat /\ i >= 1 BY <4>1
      <4>3. CASE i = piece.at BY <1>4, <1>6, <1>9, <4>3
      <4>4. CASE i < piece.at
        <5>1. s[i] = Segs[i] /\ i \in 1 .. Len(Segs) /\ Segs[i] \in Segment BY <1>2, <1>3, <1>9, <4>2, <4>4
        <5>2. Segs[i].last < piece.first /\ Segs[i].last \in Nat
          BY <1>2, <1>3, <4>4, <5>1, SegmentFields DEF Passed
        <5> QED BY <1>2, <1>3, <1>4, <5>1, <5>2
      <4> QED BY <1>3, <3>1, <4>2, <4>3, <4>4
    <3> QED BY <3>1 DEF Passed
  <2>2. Placed(q, Cur.first, piece.last) BY <1>1, <1>2, <1>3, <1>4 DEF PieceAt, Placed
  <2>3. piece.at + 1 <= Len(s) /\ s[piece.at + 1] = Cur BY <1>2, <1>3, <1>9 DEF Cur
  <2>4. Cur.first <= Cur.last BY <1>2 DEF Placed
  <2> QED BY <1>3, <1>9, <1>10, <2>1, <2>2, <2>3, <2>4 DEF PieceAt, WithinAt
<1>12. /\ GoodQuads(pquad')
       /\ pquad'[q].segs = s /\ pquad'[q] # NoQuad
       /\ \A k \in Quads : pquad[k] # NoQuad => pquad'[k] # NoQuad
  BY <1>1, <1>2, <1>9, SetWalked
<1>13. rexlen' \in Int /\ order' \in BOOLEAN BY <1>1 DEF Inv, TypeOK
<1> QED BY <1>1, <1>2, <1>10, <1>11, <1>12, <1>13, SetAndGoOn

LEMMA WalkWithinStep == Inv /\ WalkWithin => Inv'
<1> SUFFICES ASSUME Inv, WalkWithin
             PROVE  Inv'
  OBVIOUS
<1> DEFINE q == piece.quad
           e == Resent(Cur)
           s == ReplaceAt(Segs, piece.at, e)
           c == Cur.last + 1
<1>1. /\ pc = "within" \/ StartsWithin
      /\ SetSegs(q, s) /\ UNCHANGED order /\ OthersKept
      /\ \/ /\ piece.last <= Cur.last
            /\ rexlen' = rexlen + piece.last - piece.first + 1 /\ Return
         \/ /\ ~(piece.last <= Cur.last)
            /\ rexlen' = rexlen + Cur.last - piece.first + 1
            /\ piece' = [piece EXCEPT !.first = Cur.last + 1, !.at = @ + 1, !.split = TRUE]
            /\ pc' = "walk" /\ rest' = rest
  BY DEF WalkWithin
<1>2. /\ Adding /\ piece.at <= Len(Segs) /\ Cur.first <= piece.first /\ piece.first <= Cur.last
  <2>1. CASE StartsWithin
    <3>1. piece.first <= Cur.last /\ piece.first >= Cur.first /\ Walking BY <2>1 DEF StartsWithin
    <3>2. Adding /\ piece.at <= Len(Segs) BY <3>1 DEF Walking, Adding
    <3>3. piece.first \in Nat /\ Cur.first \in Nat
      <4>1. piece \in Pieces /\ Segs \in Seq(Segment) /\ Len(Segs) \in Nat BY <3>2, Walked
      <4>2. piece.at \in 1 .. Len(Segs) /\ piece.first \in Nat BY <3>2, <4>1, PieceFields
      <4>3. Cur \in Segment BY <4>1, <4>2 DEF Cur
      <4> QED BY <4>2, <4>3, SegmentFields
    <3> QED BY <3>1, <3>2, <3>3
  <2>2. CASE pc = "within"
    <3>1. Adding /\ WithinAt(Segs, piece) BY <2>2 DEF Adding, Inv, PieceSound
    <3>2. piece \in Pieces /\ Segs \in Seq(Segment) /\ Len(Segs) \in Nat BY <3>1, Walked
    <3>3. piece.first \in Nat BY <3>2, PieceFields
    <3> QED BY <3>1, <3>3 DEF WithinAt, Cur
  <2> QED BY <1>1, <2>1, <2>2
<1>3. /\ piece \in Pieces /\ GoodList(q, Segs) /\ PieceAt(Segs, piece) /\ now \in Nat
      /\ q \in Quads /\ piece.last \in SeqNums /\ Len(Segs) \in Nat
      /\ DOMAIN Segs = 1 .. Len(Segs) /\ Segs \in Seq(Segment)
      /\ piece.at \in Nat /\ piece.at >= 1 /\ piece.last \in Nat /\ piece.first \in Nat
  BY <1>2, Walked, PieceFields
<1>4. piece.at \in 1 .. Len(Segs) /\ Cur \in Segment BY <1>2, <1>3 DEF Cur
<1>5. Cur.first \in Nat /\ Cur.last \in Nat /\ Cur.last \in SeqNums /\ Placed(q, Cur.first, Cur.last)
  BY <1>3, <1>4, SegmentFields DEF GoodList, Sorted, Cur
<1>6. e \in Segment /\ e.first = Cur.first /\ e.last = Cur.last /\ e.time <= now
  <2>1. (Cur.retrans + 1) % RetransMod \in 0 .. RetransMod - 1 BY <1>4, SegmentFields, SeqSpaceAssumption
  <2>2. Cur.time \in Nat /\ Cur.time <= now BY <1>3, <1>4, SegmentFields DEF Cur, GoodList, Past
  <2> DEFINE n == (Cur.retrans + 1) % RetransMod
             m == IF piece.split THEN Cur.time ELSE now
             x == [Cur EXCEPT !.retrans = n]
  <2>3. e = [x EXCEPT !.time = m] BY <1>4 DEF Resent, Segment
  <2>4. m \in Nat /\ m <= now BY <1>3, <2>2
  <2> HIDE DEF n, m
  <2>5. x \in Segment /\ x.first = Cur.first /\ x.last = Cur.last BY <1>4, <2>1 DEF Segment, n
  <2> HIDE DEF x
  <2> QED BY <2>3, <2>4, <2>5 DEF Segment
<1> HIDE DEF e
<1>7. s \in Seq(Segment) /\ DOMAIN s = DOMAIN Segs /\ Len(s) = Len(Segs)
      /\ \A k \in DOMAIN Segs : s[k] = IF k = piece.at THEN e ELSE Segs[k]
  BY <1>3, <1>4, <1>6 DEF ReplaceAt
<1> HIDE DEF s
<1>8. \A k \in DOMAIN Segs : s[k].first = Segs[k].first /\ s[k].last = Segs[k].last
                             /\ s[k].time <= now
  BY <1>3, <1>6, <1>7 DEF Cur, GoodList, Past
<1>9. GoodList(q, s) BY <1>3, <1>7, <1>8, SameGood
<1>10. rexlen' \in Int /\ order' \in BOOLEAN
  <2>1. rexlen \in Int /\ order \in BOOLEAN BY DEF Inv, TypeOK
  <2> QED BY <1>1, <1>3, <1>5, <2>1
<1>11. CASE piece.last <= Cur.last BY <1>1, <1>2, <1>9, <1>10, <1>11, SetAndReturn
<1>12. CASE ~(piece.last <= Cur.last)
  <2>1. /\ pc' = "walk" /\ rest' = rest
        /\ piece' = [piece EXCEPT !.first = Cur.last + 1, !.at = @ + 1, !.split = TRUE]
    BY <1>1, <1>12
  <2>2. c \in 0 .. SeqLimit /\ c \in Nat /\ c <= piece.last
    BY <1>3, <1>5, <1>12, SeqSpaceAssumption DEF SeqNums, SeqLimit
  <2>3. piece' = [piece EXCEPT !.first = c, !.at = piece.at + 1, !.split = TRUE] BY <1>3, <2>1 DEF Pieces
  <2>4. Placed(q, c, piece.last)
    <3>1. QuadOf(Cur.last) = q /\ QuadOf(piece.last) = q /\ Cur.last <= c BY <1>3, <1>5 DEF PieceAt, Placed
    <3>2. QuadOf(c) = q BY <1>3, <1>5, <2>2, <3>1, QuadBetween
    <3> QED BY <2>2, <3>1, <3>2 DEF Placed
  <2>5. Passed(s, piece.at + 1, c)
    <3>1. ASSUME NEW i \in DOMAIN s, i < piece.at + 1
          PROVE  s[i].last < c
      <4>1. i \in 1 .. Len(Segs) /\ s[i].last = Segs[i].last /\ Segs[i] \in Segment BY <1>3, <1>7, <1>8
      <4>2. Segs[i].last \in Nat BY <4>1, SegmentFields
      <4>3. CASE i = piece.at BY <1>5, <4>1, <4>3 DEF Cur
      <4>4. CASE i < piece.at
        <5>1. Segs[i].last < piece.first BY <1>3, <4>1, <4>4 DEF PieceAt, Passed
        <5> QED BY <1>2, <1>3, <1>5, <4>1, <4>2, <5>1
      <4> QED BY <1>3, <3>1, <4>1, <4>3, <4>4
    <3> QED BY <3>1 DEF Passed
  <2> HIDE DEF c
  <2>6. piece.at + 1 \in Nat \ {0} /\ TRUE \in BOOLEAN BY <1>3
  <2>7. piece' \in Pieces /\ Moved(piece, c, piece.at + 1, piece') BY <1>3, <2>2, <2>3, <2>6, PieceMoved
  <2>8. PieceAt(s, piece') /\ piece'.quad = q BY <1>3, <1>4, <1>7, <2>4, <2>5, <2>7 DEF PieceAt, Moved
  <2>9. /\ GoodQuads(pquad')
        /\ pquad'[q].segs = s /\ pquad'[q] # NoQuad
        /\ \A k \in Quads : pquad[k] # NoQuad => pquad'[k] # NoQuad
    BY <1>1, <1>2, <1>9, SetWalked
  <2> QED BY <1>1, <1>2, <1>10, <2>1, <2>7, <2>8, <2>9, SetAndGoOn
<1> QED BY <1>11, <1>12

LEMMA TackOnStep == Inv /\ TackOn => Inv'
<1> SUFFICES ASSUME Inv, TackOn
             PROVE  Inv'
  OBVIOUS
<1> DEFINE q == piece.quad
           e == NewSeg(piece.first, piece.last)
           r == Append(Segs, e)
           s == Capped(r)
<1>1. /\ pc = "walk" /\ piece.at > Len(Segs) /\ SetSegs(q, s) /\ Return
      /\ UNCHANGED <<rexlen, order>> /\ OthersKept
  BY DEF TackOn
<1>2. Adding BY <1>1 DEF Adding
<1>3. /\ piece \in Pieces /\ GoodList(q, Segs) /\ PieceAt(Segs, piece) /\ now \in Nat
      /\ q \in Quads /\ piece.last \in SeqNums /\ Len(Segs) \in Nat
      /\ piece.at \in Nat /\ piece.last \in Nat /\ piece.first \in Nat
  BY <1>2, Walked, PieceFields
<1>4. Placed(q, piece.first, piece.last) /\ Passed(Segs, Len(Segs) + 1, piece.first)
  <2>1. piece.at = Len(Segs) + 1 BY <1>1, <1>3 DEF PieceAt
  <2> QED BY <1>3, <2>1 DEF PieceAt
<1>5. piece.first \in SeqNums BY <1>3, <1>4, SeqSpaceAssumption DEF Placed, SeqNums, SeqLimit
<1>6. e \in Segment /\ e.first = piece.first /\ e.last = piece.last /\ e.time <= now BY <1>3, <1>5, NewSegType
<1> HIDE DEF e
<1>7. GoodList(q, r) BY <1>3, <1>4, <1>6, AppendGood
<1> HIDE DEF r
<1>8. GoodList(q, s) BY <1>3, <1>7, CappedGood
<1> HIDE DEF s
<1>9. rexlen' \in Int /\ order' \in BOOLEAN BY <1>1 DEF Inv, TypeOK
<1> QED BY <1>1, <1>2, <1>8, <1>9, SetAndReturn

------------------------------
\* Collapsing, and the clock.
LEMMA CollapseStep == Inv /\ Collapse => Inv'
<1> SUFFICES ASSUME Inv, Collapse
             PROVE  Inv'
  OBVIOUS
<1> DEFINE q == todo[1]
           s == RemoveAt(ReplaceAt(Target, piece.at, Merged(Here, Following)), piece.at + 1)
<1>1. /\ pc = "collapse" /\ piece.at < Len(Target) /\ SetSegs(q, s)
      /\ UNCHANGED <<pc, piece, todo>> /\ KeptByCollapse
  BY DEF Collapse, Collapsing
<1>2. /\ q \in Quads /\ pquad[q] # NoQuad /\ now \in Nat /\ piece.at \in Nat \ {0}
      /\ todo # <<>> /\ \A i \in DOMAIN todo : todo[i] \in Quads /\ pquad[todo[i]] # NoQuad
  BY <1>1, SeqSpaceAssumption DEF Inv, TypeOK, TodoSound, Exists
<1>3. GoodList(q, Target) /\ Len(Target) \in Nat BY <1>2 DEF Inv, GoodQuads, GoodList, Target
<1>4. GoodList(q, s)
  <2>1. piece.at \in 1 .. Len(Target) - 1 BY <1>1, <1>2, <1>3
  <2> QED BY <1>2, <1>3, <2>1, MergedGood DEF Here, Following
<1> HIDE DEF s
<1>5. pquad' = [pquad EXCEPT ![q].segs = s] /\ GoodQuads(pquad) BY <1>1 DEF SetSegs, Inv
<1>6. GoodQuads(pquad') /\ Relisted(pquad, q, s, pquad') BY <1>2, <1>4, <1>5, NewList
<1>7. UNCHANGED <<pc, piece, rest, todo, rexlen, order, sample, now, packets, tx, sent, dup,
                  late>>
  BY <1>1 DEF KeptByCollapse, history
<1>8. GoodQuads(pquad)' BY <1>6, <1>7 DEF GoodQuads, GoodList, Past, Sorted, LinksIn
<1>9. pquad' \in [Quads -> Quadrant \cup {NoQuad}] BY <1>6 DEF GoodQuads
<1>10. TypeOK' BY <1>7, <1>9 DEF Inv, TypeOK
<1>11. TodoSound' BY <1>2, <1>6, <1>7 DEF TodoSound, Relisted, Exists
<1>12. ~Adding' /\ pc' # "within" BY <1>1, <1>7 DEF Adding
<1> QED BY <1>8, <1>10, <1>11, <1>12 DEF Inv, PieceSound, RestSound

LEMMA CollapseOnStep == Inv /\ CollapseOn => Inv'
<1> SUFFICES ASSUME Inv, CollapseOn
             PROVE  Inv'
  OBVIOUS
<1>1. /\ pc = "collapse" /\ piece' = [piece EXCEPT !.at = @ + 1]
      /\ UNCHANGED <<pquad, pc, todo, rest, rexlen, order, sample, now, packets, tx, sent, dup,
                     late>>
  BY DEF CollapseOn, Collapsing, KeptByCollapse, history
<1>2. piece \in Pieces /\ piece' \in Pieces
  <2>1. piece \in Pieces BY DEF Inv, TypeOK, Pieces
  <2> QED BY <1>1, <2>1 DEF Pieces
<1>3. TypeOK' BY <1>1, <1>2 DEF Inv, TypeOK, Pieces
<1>4. GoodQuads(pquad)' /\ TodoSound'
  BY <1>1 DEF Inv, GoodQuads, GoodList, Past, Sorted, LinksIn, TodoSound, Exists
<1>5. ~Adding' /\ pc' # "within" BY <1>1 DEF Adding
<1> QED BY <1>3, <1>4, <1>5 DEF Inv, PieceSound, RestSound

LEMMA CollapseDoneStep == Inv /\ CollapseDone => Inv'
<1> SUFFICES ASSUME Inv, CollapseDone
             PROVE  Inv'
  OBVIOUS
<1>1. /\ pc = "collapse" /\ piece' = [piece EXCEPT !.at = 1] /\ todo' = Tail(todo)
      /\ pc' = (IF todo' = <<>> THEN "idle" ELSE "collapse")
      /\ UNCHANGED <<pquad, rest, rexlen, order, sample, now, packets, tx, sent, dup,
                     late>>
  BY DEF CollapseDone, KeptByCollapse, history
<1>2. piece \in Pieces /\ piece' \in Pieces
  <2>1. piece \in Pieces BY DEF Inv, TypeOK, Pieces
  <2> QED BY <1>1, <2>1 DEF Pieces
<1>3. todo \in Seq(Quads) /\ Len(todo) >= 1 /\ \A i \in DOMAIN todo : pquad[todo[i]] # NoQuad
  BY <1>1 DEF Inv, TypeOK, TodoSound, Exists
<1>4. /\ todo' \in Seq(Quads) /\ Len(todo') = Len(todo) - 1
      /\ \A k \in 1 .. Len(todo) - 1 : todo'[k] = todo[k + 1]
  BY <1>1, <1>3, Dropping
<1>5. \A i \in DOMAIN todo' : pquad[todo'[i]] # NoQuad
  <2>1. ASSUME NEW i \in DOMAIN todo'
        PROVE  pquad[todo'[i]] # NoQuad
    <3>1. i \in 1 .. Len(todo) - 1 /\ i + 1 \in DOMAIN todo BY <1>3, <1>4
    <3> QED BY <1>3, <1>4, <3>1
  <2> QED BY <2>1
<1>6. pc' \in {"idle", "collapse"} /\ (pc' = "collapse" => todo' # <<>>) BY <1>1
<1>7. TypeOK' BY <1>1, <1>2, <1>4, <1>6 DEF Inv, TypeOK, Pieces
<1>8. GoodQuads(pquad)' BY <1>1 DEF Inv, GoodQuads, GoodList, Past, Sorted, LinksIn
<1>9. TodoSound' BY <1>1, <1>5, <1>6 DEF TodoSound, Exists
<1>10. ~Adding' /\ pc' # "within" BY <1>6 DEF Adding
<1> QED BY <1>7, <1>8, <1>9, <1>10 DEF Inv, PieceSound, RestSound

LEMMA TickStep == Inv /\ Tick => Inv'
<1> SUFFICES ASSUME Inv, Tick
             PROVE  Inv'
  OBVIOUS
<1>1. /\ pc = "idle" /\ now < MaxTime /\ now' = now + 1 /\ sample' = NoSample
      /\ UNCHANGED <<pquad, pc, piece, rest, todo, rexlen, order, packets, tx, sent, dup,
                     late>>
  BY DEF Tick, work, history
<1>2. now \in Nat /\ now' \in 0 .. MaxTime BY <1>1, SeqSpaceAssumption DEF Inv, TypeOK
<1>3. sample' \in [ack : SeqNums, rtt : Nat,
                   type : {"none", "NORMAL", "AMBIG", "CUMUL", "TRIPLE", "NOSAMP"}]
  BY <1>1, SeqSpaceAssumption DEF NoSample, SeqNums, SeqLimit
<1>4. TypeOK' BY <1>1, <1>2, <1>3 DEF Inv, TypeOK
<1>5. ASSUME NEW q \in Quads, pquad[q] # NoQuad
      PROVE  Past(pquad[q].segs, now')
  <2>1. GoodList(q, pquad[q].segs) BY <1>5 DEF Inv, GoodQuads
  <2>2. \A i \in DOMAIN pquad[q].segs : pquad[q].segs[i].time \in Nat /\ pquad[q].segs[i].time <= now
    BY <2>1, SegmentFields DEF GoodList, Past
  <2> QED BY <1>1, <1>2, <2>2 DEF Past
<1>6. GoodQuads(pquad)' BY <1>1, <1>5 DEF Inv, GoodQuads, GoodList, Sorted, LinksIn
<1>7. ~Adding' /\ pc' # "within" /\ pc' # "collapse" BY <1>1 DEF Adding
<1> QED BY <1>4, <1>6, <1>7 DEF Inv, PieceSound, RestSound, TodoSound

------------------------------
\* The packets.
LEMMA SeqNumsFinite ==
  ASSUME NEW X, X \subseteq SeqNums
  PROVE  Cardinality(X) \in Nat
<1>1. 0 \in Int /\ SeqLimit - 1 \in Int BY SeqSpaceAssumption DEF SeqLimit
<1>2. IsFiniteSet(SeqNums) BY <1>1, FS_Interval DEF SeqNums
<1> QED BY <1>2, FS_Subset, FS_CardinalityType

LEMMA KeptType ==
  ASSUME TypeOK, NEW q \in Quads
  PROVE  Kept(q) \in [SeqNums -> Nat]
BY DEF Kept, TypeOK

LEMMA RecvDataStep ==
  ASSUME CutRight, Inv, NEW seq, NEW len, <<seq, len>> \in Data, RecvData(seq, len)
  PROVE  Inv'
<1> DEFINE q == QuadOf(seq)
           last == (seq + len - 1) % SeqLimit
           two == QuadOf(seq) # QuadOf(last)
           len1 == IF two THEN LastSeq(q) - seq + 1 ELSE len
           bytes == {(seq + k) % SeqLimit : k \in 0 .. len - 1}
           known == {s \in Recorded : QuadOf(s) # Opposite(q) \/ Settled(q)}
           more == [quad |-> pquad'[q].next, first |-> FirstSeq(QuadOf(last)),
                    len |-> len - len1]
<1>1. seq \in SeqNums /\ len \in 1 .. QuadSize /\ len \in Nat /\ seq \in Nat
  BY SeqSpaceAssumption DEF SeqNums, SeqLimit
<1>2. q \in Quads BY <1>1, QuadOfSeq
<1>3. /\ pc = "idle" /\ packets < MaxPackets /\ packets' = packets + 1
      /\ pquad' = WhichQuad(q) /\ pc' = "walk"
      /\ piece' = Piece(pquad'[q].segs, q, seq, len1)
      /\ rest' = (IF two THEN more ELSE NoRest)
      /\ rexlen' = 0 /\ order' = FALSE /\ sample' = NoSample
      /\ tx' = [s \in SeqNums |-> IF s \in bytes THEN Kept(q)[s] + 1 ELSE Kept(q)[s]]
      /\ sent' = [s \in SeqNums |-> IF s \in bytes THEN now ELSE sent[s]]
      /\ dup' = Cardinality(bytes \cap known)
      /\ UNCHANGED <<todo, now>>
  BY DEF RecvData
<1>4. late' \in BOOLEAN
  <2>1. late' = (\E s \in known : (QuadOf(s) = q /\ s >= seq) \/ (two /\ QuadOf(s) = QuadOf(last)))
    BY DEF RecvData
  <2> QED BY <2>1
<1>5. /\ GoodQuads(pquad')
      /\ pquad'[q] # NoQuad /\ pquad'[After(q)] # NoQuad /\ pquad'[q].next = After(q)
  BY <1>2, <1>3, Around DEF Inv
<1>6. GoodQuads(pquad)' BY <1>3, <1>5 DEF GoodQuads, GoodList, Past, Sorted, LinksIn
<1>7. two => q = 0
  <2>1. <<seq, len>>[1] = seq /\ <<seq, len>>[2] = len OBVIOUS
  <2> QED BY <2>1 DEF CutRight
<1>8. /\ len1 \in Int /\ (seq + len1 - 1) % SeqLimit \in SeqNums
      /\ Placed(q, seq, (seq + len1 - 1) % SeqLimit)
      /\ two => QuadOf(last) = 1 /\ len - len1 \in 1 .. QuadSize
  <2>1. CASE ~two
    <3>1. len1 = len BY <2>1
    <3>2. Placed(QuadOf(seq), seq, (seq + len - 1) % SeqLimit)
          /\ (seq + len - 1) % SeqLimit \in SeqNums
      BY <1>1, <2>1, OneQuadrant
    <3> QED BY <1>1, <2>1, <3>1, <3>2
  <2>2. CASE two
    <3>1. q = 0 /\ len1 = LastSeq(0) - seq + 1 BY <1>7, <2>2
    <3>2. /\ QuadOf(last) = 1 /\ LastSeq(0) - seq + 1 \in 1 .. QuadSize
          /\ len - (LastSeq(0) - seq + 1) \in 1 .. QuadSize
      BY <1>1, <2>2, <3>1, FirstCut
    <3>3. QuadSize \in Nat /\ QuadSize > 1 /\ seq < QuadSize
      BY <1>1, <3>1, SeqSpaceAssumption, QuadRange DEF FirstSeq
    <3>4. seq + len1 - 1 = QuadSize - 1 BY <1>1, <3>1, <3>3 DEF LastSeq
    <3>5. (seq + len1 - 1) % SeqLimit = QuadSize - 1 BY <3>3, <3>4, SMTT(30) DEF SeqLimit
    <3>6. QuadOf(QuadSize - 1) = 0 /\ QuadSize - 1 \in SeqNums
      BY <3>3, QuadRange DEF FirstSeq, SeqNums, SeqLimit
    <3>7. len1 \in Int /\ len - len1 \in 1 .. QuadSize BY <1>1, <3>1, <3>2, <3>3
    <3> QED BY <1>1, <3>1, <3>2, <3>3, <3>5, <3>6, <3>7 DEF Placed
  <2> QED BY <2>1, <2>2
<1>9. /\ piece' \in Pieces /\ piece'.quad = q /\ PieceAt(pquad'[q].segs, piece')
  <2>1. GoodList(q, pquad'[q].segs) BY <1>2, <1>5 DEF GoodQuads
  <2> HIDE DEF q, len1
  <2> QED BY <1>1, <1>2, <1>3, <1>8, <2>1, PieceFresh
<1>10. PieceSound' BY <1>3, <1>5, <1>9 DEF PieceSound, Exists, Segs, PieceAt
<1>11. rest' \in Rests /\ RestSound'
  <2>1. CASE ~two BY <1>3, <2>1 DEF Rests, RestSound
  <2>2. CASE two
    <3>1. q = 0 /\ QuadOf(last) = 1 /\ len - len1 \in 1 .. QuadSize BY <1>7, <1>8, <2>2
    <3>2. rest' = more /\ more.quad = 1 /\ more.first = FirstSeq(1) /\ more.len = len - len1
          /\ pquad'[1] # NoQuad
      BY <1>3, <1>5, <2>2, <3>1, QuadFour
    <3>3. more = [quad |-> 1, first |-> FirstSeq(1), len |-> len - len1] BY <1>5, <3>1, QuadFour
    <3> HIDE DEF more
    <3>4. FirstSeq(1) \in SeqNums /\ 1 \in Quads BY <3>1, RestPlaced, QuadFour
    <3>5. len - len1 \in Int BY <3>1, SeqSpaceAssumption
    <3> HIDE DEF len1
    <3>6. rest' \in Rests BY <3>2, <3>3, <3>4, <3>5 DEF Rests
    <3>7. RestSound' BY <1>9, <3>1, <3>2 DEF RestSound, Exists
    <3> QED BY <3>6, <3>7
  <2> QED BY <2>1, <2>2
<1>12. dup' \in Nat
  <2>1. bytes \subseteq SeqNums
    <3>1. ASSUME NEW k \in 0 .. len - 1
          PROVE  (seq + k) % SeqLimit \in SeqNums
      <4>1. seq + k \in Nat /\ SeqLimit \in Nat /\ SeqLimit > 0 BY <1>1, SeqSpaceAssumption DEF SeqLimit
      <4> QED BY <4>1 DEF SeqNums
    <3> QED BY <3>1
  <2> HIDE DEF bytes, known
  <2>2. bytes \cap known \subseteq SeqNums /\ {s \in bytes : Kept(q)[s] > 0} \subseteq SeqNums BY <2>1
  <2> HIDE DEF q
  <2> QED BY <1>3, <2>2, SeqNumsFinite
<1>13. tx' \in [SeqNums -> Nat] /\ sent' \in [SeqNums -> Nat]
  <2>1. Kept(q) \in [SeqNums -> Nat] BY <1>2, KeptType DEF Inv
  <2>2. now \in Nat /\ sent \in [SeqNums -> Nat] BY SeqSpaceAssumption DEF Inv, TypeOK
  <2> HIDE DEF bytes, q
  <2> QED BY <1>3, <2>1, <2>2
<1>14. sample' \in [ack : SeqNums, rtt : Nat,
                    type : {"none", "NORMAL", "AMBIG", "CUMUL", "TRIPLE", "NOSAMP"}]
  BY <1>3, SeqSpaceAssumption DEF NoSample, SeqNums, SeqLimit
<1>15. packets' \in 0 .. MaxPackets
  <2>1. packets \in 0 .. MaxPackets /\ MaxPackets \in Nat BY SeqSpaceAssumption DEF Inv, TypeOK
  <2>2. packets < MaxPackets /\ packets' = packets + 1 BY <1>3
  <2> QED BY <2>1, <2>2
<1>16. pquad' \in [Quads -> Quadrant \cup {NoQuad}] BY <1>5 DEF GoodQuads
<1>17. pc' = "walk" /\ rexlen' = 0 /\ order' = FALSE /\ UNCHANGED <<todo, now>> BY <1>3
<1> HIDE DEF q, last, two, len1, bytes, known, more
<1>18. /\ piece' \in [quad : Quads, first : 0 .. SeqLimit, last : SeqNums,
                       at : Nat \ {0}, split : BOOLEAN]
       /\ rest' \in [quad : Quads, first : SeqNums, len : Int] \cup {NoRest}
  BY <1>9, <1>11 DEF Pieces, Rests
<1>19. todo' \in Seq(Quads) /\ now' \in 0 .. MaxTime BY <1>17 DEF Inv, TypeOK
<1>20. order' \in BOOLEAN BY <1>17, Zenon
<1>21. pc' \in {"idle", "walk", "within", "collapse"} /\ rexlen' \in Int BY <1>17
<1>22. TypeOK' BY <1>4, <1>12, <1>13, <1>14, <1>15, <1>16, <1>18, <1>19, <1>20, <1>21, Zenon DEF TypeOK
<1>23. TodoSound' BY <1>17 DEF TodoSound
<1> QED BY <1>6, <1>10, <1>11, <1>22, <1>23 DEF Inv

LEMMA RecvAckStep ==
  ASSUME Inv, NEW ack \in Acks, NEW nodata \in BOOLEAN, RecvAck(ack, nodata)
  PROVE  Inv'
<1> DEFINE q == QuadOf(ack)
           quads == WhichQuad(q)
           p == quads[q].prev
           prevSegs == quads[p].segs
           segs == quads[q].segs
           telling == {i \in Covers(segs, ack) : Returned(prevSegs, segs, i, ack, nodata) # "none"}
           newPrev == Unacked(prevSegs) # {}
           newHere == Covers(segs, ack) \cap Unacked(segs) # {}
           relisted == [quads EXCEPT ![p].segs = AckAll(@)]
<1>1. ack \in SeqNums /\ now \in Nat /\ now \in 0 .. MaxTime
  BY SeqSpaceAssumption DEF SeqNums, SeqLimit, Inv, TypeOK
<1>2. q \in Quads BY <1>1, QuadOfSeq
<1>3. /\ pc = "idle" /\ packets < MaxPackets /\ packets' = packets + 1
      /\ pquad' = [quads EXCEPT ![p].segs = AckAll(@), ![q].segs = AckCovered(@, ack)]
      /\ todo' = (IF newPrev THEN <<p>> ELSE <<>>) \o (IF newHere THEN <<q>> ELSE <<>>)
      /\ pc' = (IF newPrev \/ newHere THEN "collapse" ELSE "idle")
      /\ piece' = [piece EXCEPT !.at = 1]
      /\ tx' = Kept(q)
      /\ rexlen' = 0 /\ order' = FALSE /\ dup' = 0 /\ late' = FALSE
      /\ UNCHANGED <<rest, now, sent>>
  BY DEF RecvAck
<1>0. \/ telling = {} /\ sample' = NoSample
      \/ \E i \in telling :
           LET type == Returned(prevSegs, segs, i, ack, nodata)
           IN  /\ \A j \in telling : j <= i
               /\ sample' = [ack |-> ack, type |-> type,
                             rtt |-> IF type = "NORMAL" THEN now - segs[i].time ELSE 0]
  BY DEF RecvAck
<1>4. /\ GoodQuads(quads) /\ quads[q] # NoQuad /\ p = Before(q) /\ quads[p] # NoQuad
      /\ p \in Quads /\ p # q
  BY <1>2, Around, QuadFour DEF Inv
<1>5. GoodList(q, segs) /\ GoodList(p, prevSegs) BY <1>2, <1>4 DEF GoodQuads
<1> HIDE DEF q, quads, p
<1>6. GoodList(p, AckAll(prevSegs))
  <2>1. ASSUME NEW k \in DOMAIN prevSegs
        PROVE  /\ AckAll(prevSegs)[k] \in Segment
               /\ AckAll(prevSegs)[k].first = prevSegs[k].first
               /\ AckAll(prevSegs)[k].last = prevSegs[k].last
               /\ AckAll(prevSegs)[k].time <= now
    <3>1. prevSegs[k] \in Segment /\ prevSegs[k].time <= now BY <1>5 DEF GoodList, Past
    <3> HIDE DEF prevSegs
    <3>2. AckAll(prevSegs)[k] = (IF prevSegs[k].acked = 0 THEN [prevSegs[k] EXCEPT !.acked = 1]
                                 ELSE prevSegs[k])
      BY DEF AckAll
    <3> QED BY <3>1, <3>2 DEF Segment
  <2>2. DOMAIN AckAll(prevSegs) = DOMAIN prevSegs /\ AckAll(prevSegs) \in Seq(Segment)
    <3>1. prevSegs \in Seq(Segment) BY <1>5 DEF GoodList
    <3>2. AckAll(prevSegs) = [k \in DOMAIN prevSegs |-> AckAll(prevSegs)[k]] BY DEF AckAll
    <3> HIDE DEF prevSegs
    <3> QED BY <2>1, <3>1, <3>2
  <2> HIDE DEF prevSegs
  <2> QED BY <1>1, <1>4, <1>5, <2>1, <2>2, SameGood
<1>7. GoodList(q, AckCovered(segs, ack))
  <2>1. ASSUME NEW k \in DOMAIN segs
        PROVE  /\ AckCovered(segs, ack)[k] \in Segment
               /\ AckCovered(segs, ack)[k].first = segs[k].first
               /\ AckCovered(segs, ack)[k].last = segs[k].last
               /\ AckCovered(segs, ack)[k].time <= now
    <3>1. segs[k] \in Segment /\ segs[k].time <= now BY <1>5 DEF GoodList, Past
    <3> HIDE DEF segs
    <3>2. AckCovered(segs, ack)[k] = (IF k \in Covers(segs, ack)
                                      THEN [segs[k] EXCEPT !.acked = segs[k].acked + 1]
                                      ELSE segs[k])
      BY DEF AckCovered
    <3> QED BY <3>1, <3>2 DEF Segment
  <2>2. DOMAIN AckCovered(segs, ack) = DOMAIN segs /\ AckCovered(segs, ack) \in Seq(Segment)
    <3>1. segs \in Seq(Segment) BY <1>5 DEF GoodList
    <3>2. AckCovered(segs, ack) = [k \in DOMAIN segs |-> AckCovered(segs, ack)[k]] BY DEF AckCovered
    <3> HIDE DEF segs
    <3> QED BY <2>1, <3>1, <3>2
  <2> HIDE DEF segs
  <2> QED BY <1>1, <1>2, <1>5, <2>1, <2>2, SameGood
<1>8. /\ GoodQuads(relisted) /\ relisted[q] = quads[q]
      /\ \A k \in Quads : quads[k] # NoQuad <=> relisted[k] # NoQuad
  BY <1>2, <1>4, <1>6, NewList DEF Relisted
<1>9. GoodQuads(pquad') /\ pquad'[p] # NoQuad /\ pquad'[q] # NoQuad
  <2>1. pquad' = [relisted EXCEPT ![q].segs = AckCovered(segs, ack)] BY <1>3, <1>4, <1>8
  <2>2. GoodQuads(relisted) /\ relisted[q] # NoQuad /\ relisted[p] # NoQuad BY <1>2, <1>4, <1>8
  <2> HIDE DEF relisted, segs
  <2> DEFINE t == AckCovered(segs, ack)
  <2>3. GoodList(q, t) BY <1>7
  <2> HIDE DEF t
  <2>4. GoodQuads(pquad') /\ Relisted(relisted, q, t, pquad') BY <1>2, <2>1, <2>2, <2>3, NewList DEF t
  <2> QED BY <1>2, <1>4, <2>2, <2>4 DEF Relisted
<1>10. GoodQuads(pquad)'
  <2>1. now' = now BY <1>3
  <2> QED BY <1>9, <2>1 DEF GoodQuads, GoodList, Past, Sorted, LinksIn
<1>11. ASSUME NEW i \in telling
       PROVE  /\ Returned(prevSegs, segs, i, ack, nodata)
                   \in {"none", "NORMAL", "AMBIG", "CUMUL", "TRIPLE", "NOSAMP"}
              /\ now - segs[i].time \in Nat
  <2>1. i \in DOMAIN segs BY DEF Covers
  <2>2. segs[i].time \in Nat /\ segs[i].time <= now BY <1>5, <2>1, SegmentFields DEF GoodList, Past
  <2> QED BY <1>1, <2>2 DEF Returned, RttAckin
<1>12. sample' \in [ack : SeqNums, rtt : Nat,
                    type : {"none", "NORMAL", "AMBIG", "CUMUL", "TRIPLE", "NOSAMP"}]
  <2>1. NoSample \in [ack : SeqNums, rtt : Nat,
                      type : {"none", "NORMAL", "AMBIG", "CUMUL", "TRIPLE", "NOSAMP"}]
    BY SeqSpaceAssumption DEF NoSample, SeqNums, SeqLimit
  <2>2. \/ sample' = NoSample
        \/ \E i \in telling :
             sample' = [ack |-> ack, type |-> Returned(prevSegs, segs, i, ack, nodata),
                        rtt |-> IF Returned(prevSegs, segs, i, ack, nodata) = "NORMAL"
                                THEN now - segs[i].time ELSE 0]
    BY <1>0
  <2> HIDE DEF telling, segs, prevSegs
  <2>3. ASSUME NEW i \in telling,
               sample' = [ack |-> ack, type |-> Returned(prevSegs, segs, i, ack, nodata),
                          rtt |-> IF Returned(prevSegs, segs, i, ack, nodata) = "NORMAL"
                                  THEN now - segs[i].time ELSE 0]
        PROVE  sample' \in [ack : SeqNums, rtt : Nat,
                            type : {"none", "NORMAL", "AMBIG", "CUMUL", "TRIPLE", "NOSAMP"}]
    <3> DEFINE d == IF Returned(prevSegs, segs, i, ack, nodata) = "NORMAL"
                    THEN now - segs[i].time ELSE 0
    <3>1. d \in Nat BY <1>11
    <3> HIDE DEF d
    <3> QED BY <1>1, <1>11, <2>3, <3>1 DEF d
  <2> QED BY <2>1, <2>2, <2>3
<1>13. /\ todo' \in Seq(Quads) /\ \A i \in DOMAIN todo' : todo'[i] \in {p, q}
       /\ pc' = "collapse" => todo' # <<>>
       /\ pc' \in {"idle", "collapse"}
  <2> HIDE DEF newPrev, newHere
  <2> QED BY <1>2, <1>3, <1>4
<1>14. TodoSound' /\ PieceSound' /\ RestSound'
  BY <1>9, <1>13 DEF TodoSound, PieceSound, RestSound, Adding, Exists
<1>15. piece' \in [quad : Quads, first : 0 .. SeqLimit, last : SeqNums,
                   at : Nat \ {0}, split : BOOLEAN]
  <2>1. piece \in Pieces /\ piece' = [piece EXCEPT !.at = 1] BY <1>3 DEF Inv, TypeOK, Pieces
  <2>2. piece' \in Pieces BY <2>1 DEF Pieces
  <2> QED BY <2>2 DEF Pieces
<1>16. tx' \in [SeqNums -> Nat] /\ packets' \in 0 .. MaxPackets
  <2>1. tx' = Kept(q) /\ packets' = packets + 1 /\ packets < MaxPackets BY <1>3
  <2> QED BY <1>2, <2>1, KeptType, SeqSpaceAssumption DEF Inv, TypeOK
<1>17. /\ rest' \in [quad : Quads, first : SeqNums, len : Int] \cup {NoRest}
       /\ now' \in 0 .. MaxTime /\ sent' \in [SeqNums -> Nat]
       /\ rexlen' \in Int /\ dup' \in Nat
  BY <1>3 DEF Inv, TypeOK
<1>18. order' \in BOOLEAN /\ late' \in BOOLEAN BY <1>3, Zenon
<1>19. pc' \in {"idle", "walk", "within", "collapse"} BY <1>13
<1>20. pquad' \in [Quads -> Quadrant \cup {NoQuad}] BY <1>9 DEF GoodQuads
<1>21. TypeOK' BY <1>12, <1>13, <1>15, <1>16, <1>17, <1>18, <1>19, <1>20, Zenon DEF TypeOK
<1> QED BY <1>10, <1>14, <1>21 DEF Inv

LEMMA InitInv == Init => Inv
<1> SUFFICES ASSUME Init
             PROVE  Inv
  OBVIOUS
<1>1. 0 \in SeqNums /\ 0 \in 0 .. SeqLimit /\ 0 \in 0 .. MaxTime /\ 0 \in 0 .. MaxPackets
      /\ 0 \in Quads
  BY SeqSpaceAssumption DEF SeqNums, SeqLimit, Quads
<1>2. pquad \in [Quads -> Quadrant \cup {NoQuad}] /\ \A q \in Quads : pquad[q] = NoQuad BY DEF Init
<1>3. piece \in [quad : Quads, first : 0 .. SeqLimit, last : SeqNums,
                 at : Nat \ {0}, split : BOOLEAN]
  BY <1>1 DEF Init
<1>4. rest \in [quad : Quads, first : SeqNums, len : Int] \cup {NoRest} /\ todo \in Seq(Quads) BY DEF Init
<1>5. sample \in [ack : SeqNums, rtt : Nat,
                  type : {"none", "NORMAL", "AMBIG", "CUMUL", "TRIPLE", "NOSAMP"}]
  BY <1>1 DEF Init, NoSample
<1>6. tx \in [SeqNums -> Nat] /\ sent \in [SeqNums -> Nat] BY DEF Init
<1>7. pc = "idle" /\ now \in 0 .. MaxTime /\ packets \in 0 .. MaxPackets
      /\ rexlen \in Int /\ dup \in Nat
  BY <1>1 DEF Init
<1>8. order \in BOOLEAN /\ late \in BOOLEAN BY Zenon DEF Init
<1>9. TypeOK
  <2>1. pc \in {"idle", "walk", "within", "collapse"} BY <1>7
  <2> QED BY <1>2, <1>3, <1>4, <1>5, <1>6, <1>7, <1>8, <2>1, Zenon DEF TypeOK
<1>10. GoodQuads(pquad) BY <1>2 DEF GoodQuads
<1> QED BY <1>7, <1>9, <1>10 DEF Inv, PieceSound, RestSound, TodoSound, Adding

LEMMA StutterStep == Inv /\ UNCHANGED vars => Inv'
<1> SUFFICES ASSUME Inv, UNCHANGED vars
             PROVE  Inv'
  OBVIOUS
<1>1. UNCHANGED <<pquad, pc, piece, rest, todo, rexlen, order, sample, now, packets,
                  tx, sent, dup, late>>
  BY DEF vars, work, results, history
<1>2. TypeOK' BY <1>1 DEF Inv, TypeOK
<1>3. GoodQuads(pquad)' BY <1>1 DEF Inv, GoodQuads, GoodList, Past, Sorted, LinksIn
<1>4. PieceSound' /\ RestSound' /\ TodoSound'
  BY <1>1 DEF Inv, PieceSound, RestSound, TodoSound, Adding, Exists, PieceAt, WithinAt,
              Passed, Segs
<1> QED BY <1>2, <1>3, <1>4 DEF Inv

------------------------------
LEMMA Invariant == ASSUME CutRight PROVE Spec => []Inv
<1>1. Inv /\ [Next]_vars => Inv'
  <2> SUFFICES ASSUME Inv, [Next]_vars
               PROVE  Inv'
    OBVIOUS
  <2>1. ASSUME NEW d \in Data, RecvData(d[1], d[2])
        PROVE  Inv'
    <3>1. d = <<d[1], d[2]>> BY SeqSpaceAssumption
    <3> QED BY <2>1, <3>1, CutRight, RecvDataStep
  <2>2. ASSUME NEW ack \in Acks, NEW nodata \in BOOLEAN, RecvAck(ack, nodata)
        PROVE  Inv'
    BY <2>2, RecvAckStep
  <2>3. CASE WalkOn BY <2>3, WalkOnStep
  <2>4. CASE InsertBefore BY <2>4, InsertBeforeStep
  <2>5. CASE SplitBefore BY <2>5, SplitBeforeStep
  <2>6. CASE WalkWithin BY <2>6, WalkWithinStep
  <2>7. CASE TackOn BY <2>7, TackOnStep
  <2>8. CASE Collapse BY <2>8, CollapseStep
  <2>9. CASE CollapseOn BY <2>9, CollapseOnStep
  <2>10. CASE CollapseDone BY <2>10, CollapseDoneStep
  <2>11. CASE Tick BY <2>11, TickStep
  <2>12. CASE UNCHANGED vars BY <2>12, StutterStep
  <2> QED BY <2>1, <2>2, <2>3, <2>4, <2>5, <2>6, <2>7, <2>8, <2>9, <2>10, <2>11, <2>12 DEF Next
<1> QED BY <1>1, InitInv, PTL DEF Spec

\* Every variable of rexmit.c's quadrants keeps its range, and a round
\* trip time is never negative (rexmit.c:559, the clock of the packets
\* going forward).
THEOREM TypeCorrect == ASSUME CutRight PROVE Spec => []TypeOK
<1>1. Inv => TypeOK BY DEF Inv
<1> QED BY <1>1, Invariant, PTL

\* whichquad (rexmit.c:390-446) leaves no pointer to a quadrant it frees,
\* and each link has its way back.
THEOREM Linked == ASSUME CutRight PROVE Spec => []LinksSound
<1>1. Inv => LinksSound BY DEF Inv, GoodQuads, LinksIn, LinksSound, Exists
<1> QED BY <1>1, Invariant, PTL

\* The segments of a quadrant stay in sequence order, and in the quadrant,
\* whatever addseg inserts, splits or drops and collapse_quad joins.
THEOREM Ordered == ASSUME CutRight PROVE Spec => []SegmentsOrdered
<1>1. Inv => SegmentsOrdered BY DEF Inv, GoodQuads, GoodList, Sorted, Placed, SegmentsOrdered, Exists
<1> QED BY <1>1, Invariant, PTL

\* The quadrants as a whole, for every size and any traffic whose packets
\* cross only the end of the first one (rexmit.c:126-134, tstat.h:328).
THEOREM StructureKept == ASSUME CutRight PROVE Spec => []Structure
<1>1. TypeOK /\ SegmentsOrdered /\ LinksSound => Structure BY DEF Structure
<1>2. Spec => []TypeOK /\ []SegmentsOrdered /\ []LinksSound BY CutRight, TypeCorrect, Ordered, Linked
<1> QED BY <1>1, <1>2, PTL

------------------------------
\* The bytes of the lists.
Holds(segs, s) == \E i \in DOMAIN segs : segs[i].first <= s /\ s <= segs[i].last
RecordedIn(pq) == UNION {BytesOf(pq[q].segs) : q \in {k \in Quads : pq[k] # NoQuad}}

LEMMA HeldInQuad ==
  ASSUME NEW q \in Quads, NEW segs, GoodList(q, segs), NEW s \in Int, Holds(segs, s)
  PROVE  s \in SeqNums /\ QuadOf(s) = q
<1>1. PICK i \in DOMAIN segs : segs[i].first <= s /\ s <= segs[i].last BY DEF Holds
<1>2. segs[i] \in Segment /\ Placed(q, segs[i].first, segs[i].last) BY DEF GoodList, Sorted
<1>3. segs[i].first \in Nat /\ segs[i].last \in Nat /\ segs[i].last \in SeqNums BY <1>2, SegmentFields
<1>4. s \in Nat /\ s \in SeqNums BY <1>1, <1>3, SeqSpaceAssumption DEF SeqNums, SeqLimit
<1> QED BY <1>1, <1>2, <1>3, <1>4, QuadBetween DEF Placed

\* A byte is recorded in the list of its quadrant, or nowhere.
LEMMA RecordedAt ==
  ASSUME NEW pq, GoodQuads(pq), NEW s
  PROVE  s \in RecordedIn(pq) <=>
           s \in SeqNums /\ pq[QuadOf(s)] # NoQuad /\ Holds(pq[QuadOf(s)].segs, s)
<1>1. s \in RecordedIn(pq) <=>
        \E q \in Quads : pq[q] # NoQuad /\ \E i \in DOMAIN pq[q].segs :
                           s \in pq[q].segs[i].first .. pq[q].segs[i].last
  BY DEF RecordedIn, BytesOf
<1>2. ASSUME NEW q \in Quads, pq[q] # NoQuad
      PROVE  /\ GoodList(q, pq[q].segs)
             /\ \A i \in DOMAIN pq[q].segs :
                  pq[q].segs[i].first \in Nat /\ pq[q].segs[i].last \in Nat
  <2>1. GoodList(q, pq[q].segs) BY <1>2 DEF GoodQuads
  <2>2. \A i \in DOMAIN pq[q].segs : pq[q].segs[i] \in Segment BY <2>1 DEF GoodList
  <2> QED BY <2>1, <2>2, SegmentFields
<1>3. ASSUME s \in RecordedIn(pq)
      PROVE  s \in SeqNums /\ pq[QuadOf(s)] # NoQuad /\ Holds(pq[QuadOf(s)].segs, s)
  <2>1. PICK q \in Quads : pq[q] # NoQuad /\ \E i \in DOMAIN pq[q].segs :
                             s \in pq[q].segs[i].first .. pq[q].segs[i].last
    BY <1>1, <1>3
  <2>2. s \in Int /\ Holds(pq[q].segs, s) BY <1>2, <2>1 DEF Holds
  <2> QED BY <1>2, <2>1, <2>2, HeldInQuad
<1>4. ASSUME s \in SeqNums, pq[QuadOf(s)] # NoQuad, Holds(pq[QuadOf(s)].segs, s)
      PROVE  s \in RecordedIn(pq)
  <2>1. QuadOf(s) \in Quads /\ s \in Int BY <1>4, QuadOfSeq, SeqSpaceAssumption DEF SeqNums, SeqLimit
  <2> DEFINE q == QuadOf(s)
  <2>2. PICK i \in DOMAIN pq[q].segs : pq[q].segs[i].first <= s /\ s <= pq[q].segs[i].last BY <1>4 DEF Holds
  <2>3. pq[q].segs[i].first \in Nat /\ pq[q].segs[i].last \in Nat BY <1>2, <1>4, <2>1
  <2>4. s \in pq[q].segs[i].first .. pq[q].segs[i].last BY <2>1, <2>2, <2>3
  <2> HIDE DEF q
  <2>5. q \in Quads /\ pq[q] # NoQuad BY <1>4, <2>1 DEF q
  <2> QED BY <1>1, <2>4, <2>5
<1> QED BY <1>3, <1>4

LEMMA RecordedHere == Recorded = RecordedIn(pquad)
BY DEF Recorded, RecordedIn, Exists

\* What the list operations do to the bytes.
LEMMA InsertHolds ==
  ASSUME NEW s \in Seq(Segment), NEW i \in 1 .. Len(s), NEW e \in Segment, NEW x
  PROVE  Holds(InsertAt(s, i, e), x) <=> Holds(s, x) \/ (e.first <= x /\ x <= e.last)
<1> DEFINE t == InsertAt(s, i, e)
<1>1. t \in Seq(Segment) /\ Inserted(s, i, e, t) /\ Len(s) \in Nat BY Insertion
<1> HIDE DEF t
<1>2. DOMAIN t = 1 .. Len(s) + 1 /\ DOMAIN s = 1 .. Len(s) /\ t[i] = e BY <1>1 DEF Inserted
<1>3. ASSUME NEW k \in DOMAIN t
      PROVE  t[k] = e \/ \E j \in DOMAIN s : t[k] = s[j]
  <2>1. t[k] = IF k < i THEN s[k] ELSE IF k = i THEN e ELSE s[k - 1] BY <1>1, <1>2 DEF Inserted
  <2>2. k < i => k \in DOMAIN s BY <1>1, <1>2
  <2>3. k > i => k - 1 \in DOMAIN s BY <1>1, <1>2
  <2>4. k < i \/ k = i \/ (k > i /\ ~(k < i) /\ k # i) BY <1>1, <1>2
  <2> QED BY <2>1, <2>2, <2>3, <2>4
<1>4. ASSUME NEW j \in DOMAIN s
      PROVE  \E k \in DOMAIN t : t[k] = s[j]
  <2>1. CASE j < i BY <1>1, <1>2, <2>1 DEF Inserted
  <2>2. CASE j >= i
    <3>1. j + 1 \in DOMAIN t /\ ~ (j + 1 < i) /\ j + 1 # i /\ (j + 1) - 1 = j BY <1>1, <1>2, <2>2
    <3>2. t[j + 1] = s[j] BY <1>1, <1>2, <3>1 DEF Inserted
    <3> QED BY <3>1, <3>2
  <2> QED BY <1>2, <2>1, <2>2
<1>5. i \in DOMAIN t BY <1>1, <1>2
<1>6. Holds(t, x) => Holds(s, x) \/ (e.first <= x /\ x <= e.last) BY <1>3 DEF Holds
<1>7. Holds(s, x) => Holds(t, x) BY <1>4 DEF Holds
<1>8. e.first <= x /\ x <= e.last => Holds(t, x) BY <1>2, <1>5 DEF Holds
<1> QED BY <1>6, <1>7, <1>8 DEF t

LEMMA AppendHolds ==
  ASSUME NEW s \in Seq(Segment), NEW e \in Segment, NEW x
  PROVE  Holds(Append(s, e), x) <=> Holds(s, x) \/ (e.first <= x /\ x <= e.last)
<1> DEFINE t == Append(s, e)
<1>1. /\ DOMAIN t = 1 .. Len(s) + 1 /\ DOMAIN s = 1 .. Len(s) /\ Len(s) \in Nat
      /\ t[Len(s) + 1] = e /\ \A k \in 1 .. Len(s) : t[k] = s[k]
  OBVIOUS
<1> HIDE DEF t
<1>2. DOMAIN t = DOMAIN s \cup {Len(s) + 1} BY <1>1
<1> QED BY <1>1, <1>2 DEF Holds, t

LEMMA CappedHolds ==
  ASSUME NEW q \in Quads, NEW s, GoodList(q, s), NEW x \in Int, Holds(s, x)
  PROVE  Holds(Capped(s), x)
<1>1. s \in Seq(Segment) /\ Len(s) \in Nat /\ DOMAIN s = 1 .. Len(s) BY DEF GoodList
<1> SUFFICES ASSUME Len(s) > MaxSegPerQuad
             PROVE  Holds(Capped(s), x)
  BY DEF Capped
<1> DEFINE e == [s[2] EXCEPT !.first = s[1].first]
           t == Capped(s)
<1>2. /\ Len(s) >= 2 /\ e.first = s[1].first /\ e.last = s[2].last
      /\ DOMAIN t = 1 .. Len(s) - 1 /\ t[1] = e
  BY <1>1, CappedAt
<1>3. \A k \in 2 .. Len(s) - 1 : t[k] = s[k + 1] BY <1>1, CappedAt
<1> HIDE DEF t, e
<1>4. PICK i \in DOMAIN s : s[i].first <= x /\ x <= s[i].last BY DEF Holds
<1>5. /\ s[1] \in Segment /\ s[2] \in Segment /\ s[1].first <= s[1].last
      /\ s[1].last <= s[2].first /\ s[2].first <= s[2].last
  BY <1>1, <1>2 DEF GoodList, Sorted, Placed
<1>6. s[1].first \in Nat /\ s[1].last \in Nat /\ s[2].first \in Nat /\ s[2].last \in Nat
  BY <1>5, SegmentFields
<1>7. CASE i \in {1, 2}
  <2>1. e.first <= x /\ x <= e.last BY <1>2, <1>4, <1>5, <1>6, <1>7
  <2>2. 1 \in DOMAIN t BY <1>1, <1>2
  <2> QED BY <1>2, <2>1, <2>2 DEF Holds, t
<1>8. CASE i > 2
  <2>1. i - 1 \in DOMAIN t /\ i - 1 \in 2 .. Len(s) - 1 /\ (i - 1) + 1 = i BY <1>1, <1>2, <1>8
  <2>2. t[i - 1] = s[i] BY <1>3, <2>1
  <2> QED BY <1>4, <2>1, <2>2 DEF Holds, t
<1> QED BY <1>1, <1>7, <1>8

LEMMA SameHolds ==
  ASSUME NEW s, NEW t, DOMAIN t = DOMAIN s,
         \A k \in DOMAIN s : t[k].first = s[k].first /\ t[k].last = s[k].last, NEW x
  PROVE  Holds(t, x) <=> Holds(s, x)
BY DEF Holds

LEMMA MergedHolds ==
  ASSUME NEW q \in Quads, NEW s, GoodList(q, s), NEW i \in 1 .. Len(s) - 1,
         NEW x \in Int, Holds(s, x)
  PROVE  Holds(RemoveAt(ReplaceAt(s, i, Merged(s[i], s[i + 1])), i + 1), x)
<1>1. s \in Seq(Segment) /\ Len(s) \in Nat /\ DOMAIN s = 1 .. Len(s) BY DEF GoodList
<1> DEFINE e == Merged(s[i], s[i + 1])
           t == RemoveAt(ReplaceAt(s, i, e), i + 1)
<1>2. e.first = s[i].first /\ e.last = s[i + 1].last BY <1>1, MergedAt
<1>3. /\ DOMAIN t = 1 .. Len(s) - 1
      /\ \A k \in 1 .. Len(s) - 1 : t[k] = IF k < i THEN s[k] ELSE IF k = i THEN e ELSE s[k + 1]
  BY <1>1, MergedAt
<1> HIDE DEF t, e
<1>4. PICK j \in DOMAIN s : s[j].first <= x /\ x <= s[j].last BY DEF Holds
<1>5. /\ s[i] \in Segment /\ s[i + 1] \in Segment /\ s[i].first <= s[i].last
      /\ s[i].last <= s[i + 1].first /\ s[i + 1].first <= s[i + 1].last
  BY <1>1 DEF GoodList, Sorted, Placed
<1>6. s[i].first \in Nat /\ s[i].last \in Nat /\ s[i + 1].first \in Nat /\ s[i + 1].last \in Nat
  BY <1>5, SegmentFields
<1>7. CASE j = i \/ j = i + 1
  <2>1. e.first <= x /\ x <= e.last BY <1>2, <1>4, <1>5, <1>6, <1>7
  <2>2. i \in DOMAIN t /\ t[i] = e BY <1>1, <1>3
  <2> QED BY <2>1, <2>2 DEF Holds, t, e
<1>8. CASE j < i
  <2>1. j \in DOMAIN t /\ t[j] = s[j] BY <1>1, <1>3, <1>8
  <2> QED BY <1>4, <2>1 DEF Holds, t, e
<1>9. CASE j > i + 1
  <2>1. j - 1 \in DOMAIN t /\ ~ (j - 1 < i) /\ j - 1 # i /\ (j - 1) + 1 = j BY <1>1, <1>3, <1>9
  <2>2. t[j - 1] = s[j] BY <1>3, <2>1
  <2> QED BY <1>4, <2>1, <2>2 DEF Holds, t, e
<1> QED BY <1>1, <1>7, <1>8, <1>9

------------------------------
\* The bytes of the packet that addseg has still to come to, and what a
\* step of addseg does to them and to the recorded ones: the bytes G are
\* dealt with, and recorded; nothing that is still to come is recorded by
\* the way.
InPiece == {s \in SeqNums : Adding /\ piece.first <= s /\ s <= piece.last}
InRest == {s \in SeqNums : Adding /\ rest # NoRest
                           /\ rest.first <= s /\ s <= rest.first + rest.len - 1}
Pending == InPiece \cup InRest

Effect(G) ==
  /\ G \subseteq Pending /\ Pending' = Pending \ G
  /\ Recorded \cup G \subseteq Recorded'
  /\ \A s \in Pending' : s \in Recorded' => s \in Recorded

LEMMA PieceInQuad ==
  ASSUME Inv, Adding, NEW s \in InPiece
  PROVE  s \in Nat /\ QuadOf(s) = piece.quad /\ piece.quad \in Quads
         /\ piece.first <= s /\ s <= piece.last
<1>1. piece \in Pieces /\ PieceAt(Segs, piece) BY Walked
<1>2. piece.quad \in Quads /\ piece.first \in Nat /\ piece.last \in Nat BY <1>1, PieceFields
<1>3. s \in Nat /\ piece.first <= s /\ s <= piece.last BY SeqSpaceAssumption DEF InPiece, SeqNums, SeqLimit
<1> QED BY <1>1, <1>2, <1>3, QuadBetween DEF PieceAt, Placed

LEMMA RestInQuad ==
  ASSUME Inv, Adding, NEW s \in InRest
  PROVE  s \in Nat /\ QuadOf(s) = rest.quad /\ rest.quad \in Quads /\ rest.quad # piece.quad
<1>1. /\ rest # NoRest /\ rest.quad # piece.quad /\ rest.first = FirstSeq(rest.quad)
      /\ rest.len \in 1 .. QuadSize /\ rest.quad \in Quads
  BY DEF InRest, Inv, RestSound, TypeOK
<1>2. s \in Nat /\ FirstSeq(rest.quad) <= s /\ s <= FirstSeq(rest.quad) + rest.len - 1
  BY <1>1, SeqSpaceAssumption DEF InRest, SeqNums, SeqLimit
<1>3. rest.quad \in Nat /\ FirstSeq(rest.quad) \in Nat /\ rest.len \in Nat
      /\ rest.len <= QuadSize /\ QuadSize \in Nat
  BY <1>1, SeqSpaceAssumption, QuadFour DEF FirstSeq
<1>4. s < FirstSeq(rest.quad) + QuadSize BY <1>2, <1>3
<1> QED BY <1>1, <1>2, <1>3, <1>4, QuadRange

\* The piece is done with: the rest of the packet is still to come.
LEMMA ReturnPiece ==
  ASSUME Inv, Adding, Return
  PROVE  /\ rest = NoRest => ~Adding'
         /\ rest # NoRest => /\ Adding' /\ rest' = NoRest /\ rest.quad \in Quads
                             /\ rest.first \in Nat /\ rest.len \in Nat
                             /\ piece'.quad = rest.quad /\ piece'.first = rest.first
                             /\ piece'.last = rest.first + rest.len - 1
                             /\ piece'.at \in Nat
<1>1. CASE rest = NoRest BY <1>1 DEF Return, Adding
<1>2. CASE rest # NoRest
  <2>1. /\ rest.quad \in Quads /\ rest.first = FirstSeq(rest.quad) /\ rest.len \in 1 .. QuadSize
    BY <1>2 DEF Inv, RestSound, TypeOK
  <2>2. /\ pc' = "walk" /\ rest' = NoRest /\ piece'.first = rest.first /\ piece'.quad = rest.quad
        /\ piece'.last = (rest.first + rest.len - 1) % SeqLimit
    BY <1>2 DEF Return, Piece
  <2>3. piece'.last = rest.first + rest.len - 1 /\ rest.first \in Nat /\ rest.len \in Nat
    <3>1. QuadSize \in Nat /\ QuadSize > 1 /\ rest.len \in Nat /\ 1 <= rest.len
          /\ rest.len <= QuadSize
      BY <2>1, SeqSpaceAssumption
    <3>2. FirstSeq(rest.quad) \in Nat /\ FirstSeq(rest.quad) + QuadSize <= 4 * QuadSize
      BY <2>1, <3>1, QuadFour DEF FirstSeq
    <3>3. (FirstSeq(rest.quad) + rest.len - 1) % SeqLimit = FirstSeq(rest.quad) + rest.len - 1
      BY <3>1, <3>2, SMTT(30) DEF SeqLimit
    <3> QED BY <2>1, <2>2, <3>1, <3>2, <3>3
  <2>4. piece'.at \in Nat
    <3>1. piece' = Piece(pquad[rest.quad].segs, rest.quad, rest.first, rest.len)
          /\ pquad[rest.quad].segs \in Seq(Segment)
      BY <1>2, <2>1 DEF Return, Inv, RestSound, Exists, GoodQuads, GoodList
    <3> QED BY <3>1 DEF Piece
  <2> QED BY <1>2, <2>1, <2>2, <2>3, <2>4 DEF Adding
<1> QED BY <1>1, <1>2

LEMMA ReturnPending ==
  ASSUME Inv, Adding, Return
  PROVE  Pending' = Pending \ InPiece /\ Pending' = InRest
<1>1. Pending \ InPiece = InRest
  <2>1. \A s \in InRest : s \notin InPiece BY PieceInQuad, RestInQuad
  <2> QED BY <2>1 DEF Pending
<1>2. CASE rest = NoRest
  <2>1. ~Adding' /\ InRest = {} BY <1>2, ReturnPiece DEF InRest
  <2>2. InPiece' = {} /\ InRest' = {} BY <2>1 DEF InPiece, InRest
  <2> QED BY <1>1, <2>1, <2>2 DEF Pending
<1>3. CASE rest # NoRest
  <2>1. /\ Adding' /\ rest' = NoRest /\ piece'.first = rest.first
        /\ piece'.last = rest.first + rest.len - 1
    BY <1>3, ReturnPiece
  <2>2. InRest' = {} /\ InPiece' = InRest BY <1>3, <2>1 DEF InPiece, InRest
  <2> QED BY <1>1, <2>2 DEF Pending
<1> QED BY <1>2, <1>3

\* A new list for the quadrant of the piece changes the bytes of this
\* quadrant only.
LEMMA SetRecorded ==
  ASSUME Inv, Adding, NEW s, GoodList(piece.quad, s), SetSegs(piece.quad, s), NEW x \in SeqNums
  PROVE  /\ QuadOf(x) = piece.quad => (x \in Recorded' <=> Holds(s, x))
         /\ QuadOf(x) = piece.quad => (x \in Recorded <=> Holds(Segs, x))
         /\ QuadOf(x) # piece.quad => (x \in Recorded' <=> x \in Recorded)
<1>1. /\ GoodQuads(pquad')
      /\ pquad'[piece.quad].segs = s /\ pquad'[piece.quad] # NoQuad
      /\ \A k \in Quads : k # piece.quad => pquad'[k] = pquad[k]
  BY SetWalked
<1>2. GoodQuads(pquad) /\ pquad[piece.quad] # NoQuad /\ QuadOf(x) \in Quads BY Walked, QuadOfSeq DEF Inv
<1>3. Recorded = RecordedIn(pquad) /\ Recorded' = RecordedIn(pquad')
  BY RecordedHere DEF Recorded, RecordedIn, Exists
<1>4. x \in Recorded' <=> pquad'[QuadOf(x)] # NoQuad /\ Holds(pquad'[QuadOf(x)].segs, x)
  BY <1>1, <1>3, RecordedAt
<1>5. x \in Recorded <=> pquad[QuadOf(x)] # NoQuad /\ Holds(pquad[QuadOf(x)].segs, x)
  BY <1>2, <1>3, RecordedAt
<1> QED BY <1>1, <1>2, <1>4, <1>5 DEF Segs

\* If the new list holds what the old one did and the bytes G of the
\* piece, and nothing of the piece that is still to come besides.
LEMMA SetEffect ==
  ASSUME Inv, Adding, NEW s, GoodList(piece.quad, s), SetSegs(piece.quad, s),
         NEW G, G \subseteq InPiece, Pending' = Pending \ G,
         \A x \in SeqNums : Holds(Segs, x) \/ x \in G => Holds(s, x),
         \A x \in InPiece \ G : Holds(s, x) => Holds(Segs, x)
  PROVE  Effect(G)
<1>1. \A x \in SeqNums :
        /\ QuadOf(x) = piece.quad => (x \in Recorded' <=> Holds(s, x))
        /\ QuadOf(x) = piece.quad => (x \in Recorded <=> Holds(Segs, x))
        /\ QuadOf(x) # piece.quad => (x \in Recorded' <=> x \in Recorded)
  BY SetRecorded
<1>2. Recorded \subseteq SeqNums /\ G \subseteq SeqNums /\ Pending \subseteq SeqNums
  BY RecordedHere, RecordedAt DEF Inv, InPiece, InRest, Pending
<1>3. \A x \in G : QuadOf(x) = piece.quad BY PieceInQuad
<1>4. Recorded \cup G \subseteq Recorded' BY <1>1, <1>2, <1>3
<1>5. ASSUME NEW x \in Pending', x \in Recorded'
      PROVE  x \in Recorded
  <2>1. x \in SeqNums /\ (x \in InPiece \ G \/ x \in InRest) BY <1>2 DEF Pending
  <2>2. CASE x \in InPiece \ G BY <1>1, <1>5, <2>1, <2>2, PieceInQuad
  <2>3. CASE x \in InRest BY <1>1, <1>5, <2>1, <2>3, RestInQuad
  <2> QED BY <2>1, <2>2, <2>3
<1> QED BY <1>4, <1>5 DEF Effect, Pending

\* The list that a step leaves in a quadrant.
LEMMA NewListGood ==
  ASSUME Inv, Inv', now' = now, NEW q \in Quads, pquad[q] # NoQuad,
         NEW s \in Seq(Segment), SetSegs(q, s)
  PROVE  GoodList(q, s)
<1>1. pquad \in [Quads -> Quadrant \cup {NoQuad}] /\ pquad[q] \in Quadrant BY DEF Inv, GoodQuads
<1> DEFINE x == [pquad[q] EXCEPT !.segs = s]
<1>2. pquad' = [pquad EXCEPT ![q] = x] /\ x.segs = s /\ x \in Quadrant BY <1>1 DEF SetSegs, Quadrant
<1> HIDE DEF x
<1>3. pquad'[q] = x /\ x # NoQuad BY <1>1, <1>2, NoQuadAssumption
<1> QED BY <1>2, <1>3 DEF Inv, GoodQuads, GoodList, Sorted, Past

LEMMA WalkOnEffect ==
  ASSUME Inv, WalkOn
  PROVE  Effect({}) /\ Recorded' = Recorded
<1>1. /\ pc = "walk" /\ piece' = [piece EXCEPT !.at = @ + 1]
      /\ UNCHANGED <<pquad, pc, rest>>
  BY DEF WalkOn, Walking
<1>2. Adding /\ Adding' BY <1>1 DEF Adding
<1>3. piece \in Pieces BY <1>2, Walked
<1>4. piece'.first = piece.first /\ piece'.last = piece.last BY <1>1, <1>3 DEF Pieces
<1>5. Pending' = Pending BY <1>1, <1>2, <1>4 DEF Pending, InPiece, InRest
<1>6. Recorded' = Recorded BY <1>1 DEF Recorded, Exists
<1> QED BY <1>5, <1>6 DEF Effect

\* The segment put before the one the walk is at.
LEMMA InsertBeforeList ==
  ASSUME Inv, InsertBefore
  PROVE  /\ Adding /\ Return /\ OthersKept /\ rexlen' = rexlen
         /\ order' = (order \/ piece.last < Cur.last)
         /\ piece.at \in 1 .. Len(Segs) /\ Segs \in Seq(Segment) /\ GoodList(piece.quad, Segs)
         /\ piece.first < Cur.first /\ piece.last <= Cur.first /\ Cur.first <= Cur.last
         /\ piece.first <= piece.last
         /\ Passed(Segs, piece.at, piece.first)
         /\ NewSeg(piece.first, piece.last) \in Segment
         /\ SetSegs(piece.quad, InsertAt(Segs, piece.at, NewSeg(piece.first, piece.last)))
         /\ GoodList(piece.quad, InsertAt(Segs, piece.at, NewSeg(piece.first, piece.last)))
<1> DEFINE e == NewSeg(piece.first, piece.last)
           s == InsertAt(Segs, piece.at, e)
<1>1. /\ StartsBefore /\ piece.last <= Cur.first /\ SetSegs(piece.quad, s) /\ Return
      /\ rexlen' = rexlen /\ OthersKept /\ order' = (order \/ piece.last < Cur.last)
  BY DEF InsertBefore
<1>2. /\ Adding /\ piece.at \in 1 .. Len(Segs) /\ piece.first \in SeqNums
      /\ Passed(Segs, piece.at, piece.first) /\ piece.first < Cur.first
      /\ Cur.first <= Cur.last
  BY <1>1, BeforeCur DEF Placed
<1>3. /\ piece \in Pieces /\ GoodList(piece.quad, Segs) /\ PieceAt(Segs, piece) /\ now \in Nat
      /\ piece.quad \in Quads /\ piece.last \in SeqNums /\ Segs \in Seq(Segment)
      /\ pquad[piece.quad] # NoQuad
  BY <1>2, Walked, PieceFields
<1>4. e \in Segment BY <1>2, <1>3, NewSegType
<1> HIDE DEF e
<1>5. s \in Seq(Segment) BY <1>2, <1>3, <1>4, Insertion
<1>6. Inv' /\ now' = now BY <1>1, InsertBeforeStep DEF OthersKept
<1> HIDE DEF s
<1>7. GoodList(piece.quad, s) BY <1>1, <1>3, <1>5, <1>6, NewListGood
<1>8. piece.first <= piece.last BY <1>3 DEF PieceAt, Placed
<1> QED BY <1>1, <1>2, <1>3, <1>4, <1>7, <1>8 DEF s, e

LEMMA InsertBeforeEffect ==
  ASSUME Inv, InsertBefore
  PROVE  Effect(InPiece)
<1> DEFINE e == NewSeg(piece.first, piece.last)
           s == InsertAt(Segs, piece.at, e)
<1>1. /\ Adding /\ Return /\ piece.at \in 1 .. Len(Segs) /\ Segs \in Seq(Segment)
      /\ e \in Segment /\ SetSegs(piece.quad, s) /\ GoodList(piece.quad, s)
  BY InsertBeforeList
<1>2. e.first = piece.first /\ e.last = piece.last BY DEF NewSeg
<1> HIDE DEF e
<1>3. \A x : Holds(s, x) <=> Holds(Segs, x) \/ (e.first <= x /\ x <= e.last) BY <1>1, InsertHolds
<1> HIDE DEF s
<1>4. \A x \in SeqNums : Holds(Segs, x) \/ x \in InPiece => Holds(s, x) BY <1>2, <1>3 DEF InPiece
<1>5. Pending' = Pending \ InPiece BY <1>1, ReturnPending
<1> QED BY <1>1, <1>4, <1>5, SetEffect

\* The part of the piece before the segment it overlaps.
LEMMA SplitBeforeList ==
  ASSUME Inv, SplitBefore
  PROVE  /\ Adding /\ Adding' /\ OthersKept /\ rexlen' = rexlen /\ rest' = rest
         /\ piece.at \in 1 .. Len(Segs) /\ Segs \in Seq(Segment) /\ GoodList(piece.quad, Segs)
         /\ piece.first < Cur.first /\ piece.last > Cur.first /\ Cur.first \in SeqNums
         /\ Cur.first <= Cur.last /\ piece.first \in SeqNums /\ piece.last \in Nat
         /\ piece.quad \in Quads /\ QuadOf(Cur.first) = piece.quad
         /\ Passed(Segs, piece.at, piece.first)
         /\ piece'.quad = piece.quad /\ piece'.first = Cur.first /\ piece'.last = piece.last
         /\ piece'.at = piece.at + 1
         /\ NewSeg(piece.first, Cur.first - 1) \in Segment
         /\ SetSegs(piece.quad, InsertAt(Segs, piece.at, NewSeg(piece.first, Cur.first - 1)))
         /\ GoodList(piece.quad, InsertAt(Segs, piece.at, NewSeg(piece.first, Cur.first - 1)))
<1> DEFINE e == NewSeg(piece.first, Cur.first - 1)
           s == InsertAt(Segs, piece.at, e)
<1>1. /\ StartsBefore /\ piece.last > Cur.first /\ SetSegs(piece.quad, s) /\ pc' = "within"
      /\ piece' = [piece EXCEPT !.first = Cur.first, !.at = @ + 1]
      /\ UNCHANGED <<rest, rexlen>> /\ OthersKept
  BY DEF SplitBefore
<1>2. /\ Adding /\ piece.at \in 1 .. Len(Segs) /\ piece.first \in SeqNums
      /\ Passed(Segs, piece.at, piece.first) /\ piece.first < Cur.first /\ Cur \in Segment
      /\ Cur.first <= Cur.last /\ QuadOf(Cur.first) = piece.quad
  BY <1>1, BeforeCur DEF Placed
<1>3. /\ piece \in Pieces /\ GoodList(piece.quad, Segs) /\ now \in Nat
      /\ piece.quad \in Quads /\ piece.last \in Nat /\ Segs \in Seq(Segment)
      /\ pquad[piece.quad] # NoQuad
  BY <1>2, Walked, PieceFields
<1>4. Cur.first \in SeqNums /\ Cur.first \in Nat /\ piece.first \in Nat
  BY <1>2, <1>3, SegmentFields, PieceFields
<1>5. Cur.first - 1 \in SeqNums BY <1>2, <1>4, SeqSpaceAssumption DEF SeqNums, SeqLimit
<1>6. e \in Segment BY <1>2, <1>3, <1>5, NewSegType
<1> HIDE DEF e
<1>7. s \in Seq(Segment) BY <1>2, <1>3, <1>6, Insertion
<1>8. Inv' /\ now' = now BY <1>1, SplitBeforeStep DEF OthersKept
<1> HIDE DEF s
<1>9. GoodList(piece.quad, s) BY <1>1, <1>3, <1>7, <1>8, NewListGood
<1>10. /\ piece'.quad = piece.quad /\ piece'.first = Cur.first /\ piece'.last = piece.last
       /\ piece'.at = piece.at + 1
  BY <1>1, <1>3 DEF Pieces
<1>11. Adding' BY <1>1 DEF Adding
<1> QED BY <1>1, <1>2, <1>3, <1>4, <1>6, <1>9, <1>10, <1>11 DEF s, e

LEMMA SplitBeforeEffect ==
  ASSUME Inv, SplitBefore
  PROVE  Effect({x \in InPiece : x < Cur.first})
<1> DEFINE e == NewSeg(piece.first, Cur.first - 1)
           s == InsertAt(Segs, piece.at, e)
           G == {x \in InPiece : x < Cur.first}
<1>1. /\ Adding /\ Adding' /\ piece.at \in 1 .. Len(Segs) /\ Segs \in Seq(Segment)
      /\ rest' = rest /\ piece.first < Cur.first
      /\ piece'.quad = piece.quad /\ piece'.first = Cur.first /\ piece'.last = piece.last
      /\ Cur.first \in SeqNums /\ piece.first \in SeqNums /\ piece.last > Cur.first
      /\ piece.last \in Nat
  BY SplitBeforeList
<1>2. e \in Segment /\ SetSegs(piece.quad, s) /\ GoodList(piece.quad, s) BY SplitBeforeList
<1>3. e.first = piece.first /\ e.last = Cur.first - 1 BY DEF NewSeg
<1> HIDE DEF e
<1>4. \A x : Holds(s, x) <=> Holds(Segs, x) \/ (e.first <= x /\ x <= e.last) BY <1>1, <1>2, InsertHolds
<1> HIDE DEF s
<1>5. \A x \in SeqNums : x \in Nat BY SeqSpaceAssumption DEF SeqNums, SeqLimit
<1> DEFINE c == Cur.first
<1>6. c \in Nat /\ piece.first \in Nat /\ c \in SeqNums /\ piece.first < c /\ piece.last > c
      /\ piece'.first = c /\ e.last = c - 1
  BY <1>1, <1>3, <1>5
<1> HIDE DEF c
<1>7. G = {x \in InPiece : x < c} BY DEF c
<1> HIDE DEF G
<1>8. \A x \in InPiece : x \in Nat /\ piece.first <= x /\ x <= piece.last BY <1>5 DEF InPiece
<1>9. \A x \in SeqNums : Holds(Segs, x) \/ x \in G => Holds(s, x) BY <1>3, <1>4, <1>6, <1>7, <1>8
<1>10. \A x \in InPiece \ G : Holds(s, x) => Holds(Segs, x) BY <1>3, <1>4, <1>6, <1>7, <1>8
<1>11. Pending' = Pending \ G
  <2>1. InRest' = InRest BY <1>1 DEF InRest
  <2>2. InPiece' = InPiece \ G BY <1>1, <1>5, <1>6, <1>7 DEF InPiece
  <2>3. \A x \in InRest : x \notin InPiece BY <1>1, PieceInQuad, RestInQuad
  <2> QED BY <1>7, <2>1, <2>2, <2>3 DEF Pending
<1>12. G \subseteq InPiece BY <1>7
<1>13. Effect(G) BY <1>1, <1>2, <1>9, <1>10, <1>11, <1>12, SetEffect
<1> QED BY <1>13 DEF G

\* The segment that holds the beginning of the piece.
LEMMA WalkWithinList ==
  ASSUME Inv, WalkWithin
  PROVE  /\ Adding /\ OthersKept /\ UNCHANGED order
         /\ piece.at \in 1 .. Len(Segs) /\ Segs \in Seq(Segment) /\ GoodList(piece.quad, Segs)
         /\ Cur \in Segment /\ Resent(Cur) \in Segment
         /\ Cur.first <= piece.first /\ piece.first <= Cur.last /\ piece.first <= piece.last
         /\ piece.first \in Nat /\ piece.last \in Nat /\ Cur.last \in Nat
         /\ piece.last \in SeqNums /\ Cur.last \in SeqNums
         /\ PieceAt(Segs, piece)
         /\ SetSegs(piece.quad, ReplaceAt(Segs, piece.at, Resent(Cur)))
         /\ GoodList(piece.quad, ReplaceAt(Segs, piece.at, Resent(Cur)))
         /\ \/ /\ piece.last <= Cur.last
               /\ rexlen' = rexlen + piece.last - piece.first + 1 /\ Return
            \/ /\ piece.last > Cur.last
               /\ rexlen' = rexlen + Cur.last - piece.first + 1
               /\ Adding' /\ piece'.quad = piece.quad /\ piece'.first = Cur.last + 1
               /\ piece'.last = piece.last /\ piece'.at = piece.at + 1 /\ rest' = rest
<1> DEFINE e == Resent(Cur)
           s == ReplaceAt(Segs, piece.at, e)
<1>1. /\ pc = "within" \/ StartsWithin
      /\ SetSegs(piece.quad, s) /\ UNCHANGED order /\ OthersKept
      /\ \/ /\ piece.last <= Cur.last
            /\ rexlen' = rexlen + piece.last - piece.first + 1 /\ Return
         \/ /\ ~(piece.last <= Cur.last)
            /\ rexlen' = rexlen + Cur.last - piece.first + 1
            /\ piece' = [piece EXCEPT !.first = Cur.last + 1, !.at = @ + 1, !.split = TRUE]
            /\ pc' = "walk" /\ rest' = rest
  BY DEF WalkWithin
<1>2. Adding /\ piece.at <= Len(Segs) BY <1>1 DEF StartsWithin, Walking, Adding, Inv, PieceSound, WithinAt
<1>3. /\ piece \in Pieces /\ GoodList(piece.quad, Segs) /\ PieceAt(Segs, piece) /\ now \in Nat
      /\ piece.quad \in Quads /\ piece.last \in SeqNums /\ Len(Segs) \in Nat
      /\ Segs \in Seq(Segment) /\ pquad[piece.quad] # NoQuad
      /\ piece.at \in Nat /\ piece.at >= 1 /\ piece.last \in Nat /\ piece.first \in Nat
  BY <1>2, Walked, PieceFields
<1>4. piece.at \in 1 .. Len(Segs) /\ Cur \in Segment BY <1>2, <1>3 DEF Cur
<1>5. Cur.first \in Nat /\ Cur.last \in Nat /\ Cur.last \in SeqNums /\ Cur.time \in Nat
      /\ Cur.retrans \in 0 .. RetransMod - 1
  BY <1>4, SegmentFields
<1>6. Cur.first <= piece.first /\ piece.first <= Cur.last
  <2>1. CASE StartsWithin BY <1>3, <1>5, <2>1 DEF StartsWithin
  <2>2. CASE pc = "within"
    <3>1. WithinAt(Segs, piece) BY <2>2 DEF Inv, PieceSound
    <3> QED BY <1>3, <3>1 DEF WithinAt, Cur
  <2> QED BY <1>1, <2>1, <2>2
<1>7. e \in Segment
  <2>1. (Cur.retrans + 1) % RetransMod \in 0 .. RetransMod - 1 BY <1>5, SeqSpaceAssumption
  <2> DEFINE n == (Cur.retrans + 1) % RetransMod
             m == IF piece.split THEN Cur.time ELSE now
             x == [Cur EXCEPT !.retrans = n]
  <2>2. e = [x EXCEPT !.time = m] BY <1>4 DEF Resent, Segment
  <2>3. m \in Nat BY <1>3, <1>5
  <2> HIDE DEF n, m
  <2>4. x \in Segment BY <1>4, <2>1 DEF Segment, n
  <2> HIDE DEF x
  <2> QED BY <2>2, <2>3, <2>4 DEF Segment
<1> HIDE DEF e
<1>8. s \in Seq(Segment) BY <1>3, <1>4, <1>7 DEF ReplaceAt
<1>9. Inv' /\ now' = now BY <1>1, WalkWithinStep DEF OthersKept
<1> HIDE DEF s
<1>10. GoodList(piece.quad, s) BY <1>1, <1>3, <1>8, <1>9, NewListGood
<1>11. piece.first <= piece.last BY <1>3 DEF PieceAt, Placed
<1>12. \/ /\ piece.last <= Cur.last
          /\ rexlen' = rexlen + piece.last - piece.first + 1 /\ Return
       \/ /\ piece.last > Cur.last
          /\ rexlen' = rexlen + Cur.last - piece.first + 1
          /\ Adding' /\ piece'.quad = piece.quad /\ piece'.first = Cur.last + 1
          /\ piece'.last = piece.last /\ piece'.at = piece.at + 1 /\ rest' = rest
  <2>1. CASE piece.last <= Cur.last BY <1>1, <2>1
  <2>2. CASE ~(piece.last <= Cur.last)
    <3>1. /\ piece' = [piece EXCEPT !.first = Cur.last + 1, !.at = @ + 1, !.split = TRUE]
          /\ pc' = "walk" /\ rest' = rest /\ rexlen' = rexlen + Cur.last - piece.first + 1
      BY <1>1, <2>2
    <3>2. /\ piece'.quad = piece.quad /\ piece'.first = Cur.last + 1
          /\ piece'.last = piece.last /\ piece'.at = piece.at + 1
      BY <1>3, <3>1 DEF Pieces
    <3>3. Adding' /\ piece.last > Cur.last BY <1>3, <1>5, <2>2, <3>1 DEF Adding
    <3> QED BY <3>1, <3>2, <3>3
  <2> QED BY <2>1, <2>2
<1> QED BY <1>1, <1>2, <1>3, <1>4, <1>5, <1>6, <1>7, <1>10, <1>11, <1>12 DEF s, e

LEMMA ResentSame ==
  ASSUME NEW g \in Segment
  PROVE  /\ Resent(g).first = g.first /\ Resent(g).last = g.last
         /\ Resent(g).acked = g.acked /\ Resent(g).retrans = (g.retrans + 1) % RetransMod
BY DEF Resent, Segment

LEMMA ReplacedAt ==
  ASSUME NEW s \in Seq(Segment), NEW i \in 1 .. Len(s), NEW e \in Segment
  PROVE  /\ DOMAIN ReplaceAt(s, i, e) = DOMAIN s
         /\ \A k \in DOMAIN s : ReplaceAt(s, i, e)[k] = IF k = i THEN e ELSE s[k]
BY DEF ReplaceAt

LEMMA WalkWithinEffect ==
  ASSUME Inv, WalkWithin
  PROVE  LET G == {x \in InPiece : x <= Cur.last}
         IN  Effect(G) /\ G \subseteq Recorded
<1> DEFINE e == Resent(Cur)
           s == ReplaceAt(Segs, piece.at, e)
           G == {x \in InPiece : x <= Cur.last}
<1>1. /\ Adding /\ piece.at \in 1 .. Len(Segs) /\ Segs \in Seq(Segment)
      /\ GoodList(piece.quad, Segs)
      /\ Cur \in Segment /\ e \in Segment /\ SetSegs(piece.quad, s) /\ GoodList(piece.quad, s)
  BY WalkWithinList
<1>2. /\ Cur.first <= piece.first /\ piece.first <= Cur.last /\ piece.first <= piece.last
      /\ piece.first \in Nat /\ piece.last \in Nat /\ Cur.last \in Nat /\ Cur.first \in Nat
  BY <1>1, WalkWithinList, SegmentFields
<1>3. \A x \in SeqNums : Holds(s, x) <=> Holds(Segs, x)
  <2>1. e.first = Cur.first /\ e.last = Cur.last BY <1>1, ResentSame
  <2> HIDE DEF e
  <2>2. DOMAIN s = DOMAIN Segs /\ \A k \in DOMAIN Segs : s[k] = IF k = piece.at THEN e ELSE Segs[k]
    BY <1>1, ReplacedAt
  <2> HIDE DEF s
  <2>3. \A k \in DOMAIN Segs : s[k].first = Segs[k].first /\ s[k].last = Segs[k].last BY <2>1, <2>2 DEF Cur
  <2> QED BY <2>2, <2>3, SameHolds
<1> HIDE DEF s, e
<1>4. \A x \in G : x \in SeqNums /\ x \in Nat /\ Cur.first <= x /\ x <= Cur.last
  BY <1>1, <1>2, PieceInQuad DEF InPiece
<1>5. \A x \in G : Holds(Segs, x)
  <2>1. piece.at \in DOMAIN Segs BY <1>1
  <2> HIDE DEF G
  <2> QED BY <1>4, <2>1 DEF Holds, Cur
<1>6. Pending' = Pending \ G
  <2>1. CASE piece.last <= Cur.last
    <3>1. Return /\ G = InPiece
      <4>1. \A x \in InPiece : x <= piece.last /\ x \in Nat BY <1>1, PieceInQuad
      <4>2. \A x \in InPiece : x <= Cur.last BY <1>2, <2>1, <4>1
      <4>3. Return BY <1>2, <2>1, WalkWithinList
      <4> QED BY <4>2, <4>3
    <3> QED BY <1>1, <3>1, ReturnPending
  <2>2. CASE piece.last > Cur.last
    <3>1. /\ Adding' /\ piece'.first = Cur.last + 1 /\ piece'.last = piece.last /\ rest' = rest
      BY <1>2, <2>2, WalkWithinList
    <3>2. InRest' = InRest BY <1>1, <3>1 DEF InRest
    <3>3. \A x \in SeqNums : x \in Nat BY SeqSpaceAssumption DEF SeqNums, SeqLimit
    <3> DEFINE c == Cur.last
    <3>4. c \in Nat /\ piece'.first = c + 1 /\ G = {x \in InPiece : x <= c} /\ piece.first <= c BY <1>2, <3>1
    <3> HIDE DEF c, G
    <3>5. InPiece' = InPiece \ G BY <1>1, <1>2, <3>1, <3>3, <3>4 DEF InPiece
    <3>6. \A x \in InRest : x \notin InPiece BY <1>1, PieceInQuad, RestInQuad
    <3> QED BY <3>2, <3>4, <3>5, <3>6 DEF Pending
  <2> QED BY <1>2, <2>1, <2>2
<1>7. G \subseteq InPiece OBVIOUS
<1>8. \A x \in SeqNums : x \in G => Holds(Segs, x) BY <1>5
<1>9. G \subseteq Recorded
  <2>1. \A x \in SeqNums : QuadOf(x) = piece.quad => (x \in Recorded <=> Holds(Segs, x)) BY <1>1, SetRecorded
  <2>2. \A x \in G : x \in SeqNums /\ QuadOf(x) = piece.quad BY <1>1, <1>4, PieceInQuad
  <2> QED BY <1>5, <2>1, <2>2
<1> HIDE DEF G
<1>10. /\ \A x \in SeqNums : Holds(Segs, x) \/ x \in G => Holds(s, x)
       /\ \A x \in InPiece \ G : Holds(s, x) => Holds(Segs, x)
  BY <1>3, <1>8 DEF InPiece
<1>11. Effect(G) BY <1>1, <1>6, <1>7, <1>10, SetEffect
<1> QED BY <1>9, <1>11 DEF G

\* The piece at the end of the list.
LEMMA TackOnList ==
  ASSUME Inv, TackOn
  PROVE  /\ Adding /\ Return /\ OthersKept /\ UNCHANGED <<rexlen, order>>
         /\ Segs \in Seq(Segment) /\ GoodList(piece.quad, Segs) /\ piece.quad \in Quads
         /\ Passed(Segs, Len(Segs) + 1, piece.first) /\ piece.at = Len(Segs) + 1
         /\ piece.first \in SeqNums /\ piece.last \in SeqNums /\ piece.first <= piece.last
         /\ NewSeg(piece.first, piece.last) \in Segment
         /\ GoodList(piece.quad, Append(Segs, NewSeg(piece.first, piece.last)))
         /\ SetSegs(piece.quad, Capped(Append(Segs, NewSeg(piece.first, piece.last))))
         /\ GoodList(piece.quad, Capped(Append(Segs, NewSeg(piece.first, piece.last))))
<1> DEFINE q == piece.quad
           e == NewSeg(piece.first, piece.last)
           r == Append(Segs, e)
           s == Capped(r)
<1>1. /\ pc = "walk" /\ piece.at > Len(Segs) /\ SetSegs(q, s) /\ Return
      /\ UNCHANGED <<rexlen, order>> /\ OthersKept
  BY DEF TackOn
<1>2. Adding BY <1>1 DEF Adding
<1>3. /\ piece \in Pieces /\ GoodList(q, Segs) /\ PieceAt(Segs, piece) /\ now \in Nat
      /\ q \in Quads /\ piece.last \in SeqNums /\ Len(Segs) \in Nat /\ Segs \in Seq(Segment)
      /\ piece.at \in Nat /\ piece.last \in Nat /\ piece.first \in Nat
  BY <1>2, Walked, PieceFields
<1>4. Placed(q, piece.first, piece.last) /\ Passed(Segs, Len(Segs) + 1, piece.first)
      /\ piece.at = Len(Segs) + 1
  <2>1. piece.at = Len(Segs) + 1 BY <1>1, <1>3 DEF PieceAt
  <2> QED BY <1>3, <2>1 DEF PieceAt
<1>5. piece.first \in SeqNums BY <1>3, <1>4, SeqSpaceAssumption DEF Placed, SeqNums, SeqLimit
<1>6. e \in Segment /\ e.first = piece.first /\ e.last = piece.last /\ e.time <= now BY <1>3, <1>5, NewSegType
<1> HIDE DEF e
<1>7. GoodList(q, r) BY <1>3, <1>4, <1>6, AppendGood
<1> HIDE DEF r
<1>8. GoodList(q, s) BY <1>3, <1>7, CappedGood
<1> HIDE DEF s
<1>9. piece.first <= piece.last BY <1>4 DEF Placed
<1> QED BY <1>1, <1>2, <1>3, <1>4, <1>5, <1>6, <1>7, <1>8, <1>9 DEF s, r, e

LEMMA TackOnEffect ==
  ASSUME Inv, TackOn
  PROVE  Effect(InPiece)
<1> DEFINE e == NewSeg(piece.first, piece.last)
           r == Append(Segs, e)
           s == Capped(r)
<1>1. /\ Adding /\ Return /\ piece.quad \in Quads /\ Segs \in Seq(Segment)
      /\ e \in Segment /\ GoodList(piece.quad, r)
      /\ SetSegs(piece.quad, s) /\ GoodList(piece.quad, s)
  BY TackOnList
<1>2. e.first = piece.first /\ e.last = piece.last BY DEF NewSeg
<1> HIDE DEF e
<1>3. \A x : Holds(r, x) <=> Holds(Segs, x) \/ (e.first <= x /\ x <= e.last) BY <1>1, AppendHolds
<1> HIDE DEF r
<1>4. \A x \in Int : Holds(r, x) => Holds(s, x) BY <1>1, CappedHolds
<1> HIDE DEF s
<1>5. \A x \in SeqNums : x \in Int BY SeqSpaceAssumption DEF SeqNums, SeqLimit
<1>6. \A x \in SeqNums : Holds(Segs, x) \/ x \in InPiece => Holds(s, x) BY <1>2, <1>3, <1>4, <1>5 DEF InPiece
<1>7. Pending' = Pending \ InPiece BY <1>1, ReturnPending
<1> QED BY <1>1, <1>6, <1>7, SetEffect

------------------------------
\* A packet begins: its bytes, and what is recorded when whichquad is done.
Bytes(seq, len) == {(seq + k) % SeqLimit : k \in 0 .. len - 1}
Stays(q, k) == Settled(q) \/ k # Opposite(q)

LEMMA AroundSegs ==
  ASSUME GoodQuads(pquad), NEW q \in Quads, NEW u, u = WhichQuad(q), NEW k \in Quads
  PROVE  /\ Stays(q, k) /\ pquad[k] # NoQuad => u[k] # NoQuad /\ u[k].segs = pquad[k].segs
         /\ ~Stays(q, k) => u[k] = NoQuad
         /\ pquad[k] = NoQuad /\ u[k] # NoQuad => u[k].segs = <<>>
<1>1. CASE Settled(q) BY <1>1 DEF WhichQuad, Stays
<1>2. CASE ~Settled(q)
  <2>1. u = [j \in Quads |->
               CASE j = q -> [Made(j) EXCEPT !.prev = Before(q), !.next = After(q)]
                 [] j = After(q) -> [Made(j) EXCEPT !.prev = q, !.next = NoLink]
                 [] j = Before(q) -> [Made(j) EXCEPT !.prev = NoLink, !.next = q]
                 [] OTHER -> NoQuad]
    BY <1>2 DEF WhichQuad
  <2>2. Made(k) \in Quadrant /\ (pquad[k] # NoQuad => Made(k) = pquad[k])
        /\ (pquad[k] = NoQuad => Made(k).segs = <<>>)
    BY DEF GoodQuads, Made, Exists, NewQuad, Quadrant
  <2>3. /\ After(q) \in Quads /\ Before(q) \in Quads /\ After(q) # q /\ Before(q) # q
        /\ After(q) # Before(q) /\ Opposite(q) \notin {q, After(q), Before(q)}
        /\ k \in {q, After(q), Before(q), Opposite(q)}
    BY QuadFour
  <2> DEFINE m == Made(k)
  <2>4. CASE k = q
    <3>1. u[k] = [m EXCEPT !.prev = Before(q), !.next = After(q)] BY <2>1, <2>3, <2>4
    <3> HIDE DEF m
    <3>2. u[k] \in Quadrant /\ u[k].segs = m.segs BY <2>2, <2>3, <3>1 DEF Quadrant, m
    <3> QED BY <2>2, <2>3, <2>4, <3>2, NoQuadAssumption DEF m, Stays
  <2>5. CASE k = After(q)
    <3>1. u[k] = [m EXCEPT !.prev = q, !.next = NoLink] BY <2>1, <2>3, <2>5
    <3> HIDE DEF m
    <3>2. u[k] \in Quadrant /\ u[k].segs = m.segs BY <2>2, <2>3, <3>1 DEF Quadrant, m
    <3> QED BY <2>2, <2>3, <2>5, <3>2, NoQuadAssumption DEF m, Stays
  <2>6. CASE k = Before(q)
    <3>1. u[k] = [m EXCEPT !.prev = NoLink, !.next = q] BY <2>1, <2>3, <2>6
    <3> HIDE DEF m
    <3>2. u[k] \in Quadrant /\ u[k].segs = m.segs BY <2>2, <2>3, <3>1 DEF Quadrant, m
    <3> QED BY <2>2, <2>3, <2>6, <3>2, NoQuadAssumption DEF m, Stays
  <2>7. CASE k = Opposite(q)
    <3>1. u[k] = NoQuad BY <2>1, <2>3, <2>7
    <3> QED BY <1>2, <2>7, <3>1 DEF Stays
  <2> QED BY <2>3, <2>4, <2>5, <2>6, <2>7
<1> QED BY <1>1, <1>2

LEMMA AroundRecorded ==
  ASSUME GoodQuads(pquad), NEW q \in Quads, NEW s
  PROVE  s \in RecordedIn(WhichQuad(q)) <=> s \in Recorded /\ Stays(q, QuadOf(s))
<1> DEFINE u == WhichQuad(q)
<1>1. GoodQuads(u) BY Around
<1>2. s \in Recorded <=> s \in SeqNums /\ pquad[QuadOf(s)] # NoQuad /\ Holds(pquad[QuadOf(s)].segs, s)
  BY RecordedHere, RecordedAt
<1>3. s \in RecordedIn(u) <=> s \in SeqNums /\ u[QuadOf(s)] # NoQuad /\ Holds(u[QuadOf(s)].segs, s)
  BY <1>1, RecordedAt
<1>4. CASE s \notin SeqNums BY <1>2, <1>3, <1>4
<1>5. CASE s \in SeqNums
  <2> DEFINE k == QuadOf(s)
  <2>1. k \in Quads BY <1>5, QuadOfSeq
  <2> HIDE DEF k
  <2>2. /\ Stays(q, k) /\ pquad[k] # NoQuad => u[k] # NoQuad /\ u[k].segs = pquad[k].segs
        /\ ~Stays(q, k) => u[k] = NoQuad
        /\ pquad[k] = NoQuad /\ u[k] # NoQuad => u[k].segs = <<>>
    BY <2>1, AroundSegs
  <2>3. ~Holds(<<>>, s) BY DEF Holds
  <2> HIDE DEF u
  <2>4. /\ s \in Recorded <=> pquad[k] # NoQuad /\ Holds(pquad[k].segs, s)
        /\ s \in RecordedIn(u) <=> u[k] # NoQuad /\ Holds(u[k].segs, s)
    BY <1>2, <1>3, <1>5 DEF k
  <2>5. s \in RecordedIn(u) <=> s \in Recorded /\ Stays(q, k) BY <2>2, <2>3, <2>4
  <2> QED BY <2>5 DEF u, k
<1> QED BY <1>4, <1>5

\* A packet takes the sequence numbers from its first to its last byte.
LEMMA BytesSpan ==
  ASSUME CutRight, NEW seq, NEW len, <<seq, len>> \in Data
  PROVE  /\ seq \in SeqNums /\ seq \in Nat /\ len \in 1 .. QuadSize
         /\ seq + len - 1 \in SeqNums
         /\ (seq + len - 1) % SeqLimit = seq + len - 1
         /\ QuadOf(seq) # QuadOf(seq + len - 1) =>
              QuadOf(seq) = 0 /\ QuadOf(seq + len - 1) = 1 /\ seq < QuadSize
              /\ seq + len - 1 >= QuadSize
         /\ Bytes(seq, len) = {s \in SeqNums : seq <= s /\ s <= seq + len - 1}
<1>1. seq \in SeqNums /\ len \in 1 .. QuadSize /\ len \in Nat /\ seq \in Nat
      /\ 1 <= len /\ len <= QuadSize /\ seq < 4 * QuadSize /\ QuadSize \in Nat /\ QuadSize > 1
  BY SeqSpaceAssumption DEF SeqNums, SeqLimit
<1> DEFINE t == (seq + len - 1) % SeqLimit
<1>2. seq + len - 1 < 4 * QuadSize /\
      (QuadOf(seq) # QuadOf(t) =>
         QuadOf(seq) = 0 /\ QuadOf(t) = 1 /\ seq < QuadSize /\ seq + len - 1 >= QuadSize)
  <2>1. CASE QuadOf(seq) = QuadOf(t)
    <3>1. seq <= t BY <1>1, <2>1, OneQuadrant DEF Placed
    <3>2. seq + len - 1 >= 4 * QuadSize => t < seq BY <1>1, SMTT(30) DEF SeqLimit
    <3>3. t \in Int BY <1>1 DEF SeqLimit
    <3> QED BY <1>1, <2>1, <3>1, <3>2, <3>3
  <2>2. CASE QuadOf(seq) # QuadOf(t)
    <3>1. QuadOf(seq) = 0
      <4>1. <<seq, len>>[1] = seq /\ <<seq, len>>[2] = len OBVIOUS
      <4> QED BY <2>2, <4>1 DEF CutRight
    <3>2. QuadOf(t) = 1 BY <1>1, <2>2, <3>1, FirstCut
    <3>3. seq < QuadSize BY <1>1, <3>1, QuadRange DEF FirstSeq
    <3>4. seq + len - 1 < 4 * QuadSize BY <1>1, <3>3
    <3>5. t = seq + len - 1 BY <1>1, <3>4, SMTT(30) DEF SeqLimit
    <3>6. seq + len - 1 >= QuadSize
      <4>1. t \in Nat BY <1>1, <3>5
      <4>2. ~ (t < QuadSize) BY <1>1, <3>2, <4>1, QuadRange DEF FirstSeq
      <4> QED BY <1>1, <3>5, <4>2
    <3> QED BY <3>1, <3>2, <3>3, <3>4, <3>6
  <2> QED BY <2>1, <2>2
<1>3. t = seq + len - 1 /\ t \in SeqNums BY <1>1, <1>2, SMTT(30) DEF SeqNums, SeqLimit
<1>4. \A k \in 0 .. len - 1 : (seq + k) % SeqLimit = seq + k /\ seq + k \in SeqNums
  <2>1. ASSUME NEW k \in 0 .. len - 1
        PROVE  (seq + k) % SeqLimit = seq + k /\ seq + k \in SeqNums
    <3>1. seq + k \in Nat /\ seq + k < 4 * QuadSize BY <1>1, <1>2
    <3> QED BY <1>1, <3>1 DEF SeqNums, SeqLimit
  <2> QED BY <2>1
<1>5. Bytes(seq, len) = {s \in SeqNums : seq <= s /\ s <= seq + len - 1}
  <2>1. ASSUME NEW s \in Bytes(seq, len)
        PROVE  s \in SeqNums /\ seq <= s /\ s <= seq + len - 1
    <3>1. PICK k \in 0 .. len - 1 : s = (seq + k) % SeqLimit BY DEF Bytes
    <3> QED BY <1>1, <1>4, <3>1
  <2>2. ASSUME NEW s \in SeqNums, seq <= s, s <= seq + len - 1
        PROVE  s \in Bytes(seq, len)
    <3>1. s - seq \in 0 .. len - 1 /\ seq + (s - seq) = s
      BY <1>1, <2>2, SeqSpaceAssumption DEF SeqNums, SeqLimit
    <3>2. s = (seq + (s - seq)) % SeqLimit BY <1>4, <3>1
    <3> QED BY <3>1, <3>2 DEF Bytes
  <2> QED BY <2>1, <2>2
<1> HIDE DEF t
<1>6. (seq + len - 1) % SeqLimit = seq + len - 1 BY <1>3 DEF t
<1> QED BY <1>1, <1>2, <1>3, <1>5, <1>6 DEF t

\* The start of addseg, on a whole packet or on its first part.
LEMMA RecvDataPiece ==
  ASSUME CutRight, Inv, NEW seq, NEW len, <<seq, len>> \in Data, RecvData(seq, len)
  PROVE  LET q == QuadOf(seq)
             two == QuadOf(seq) # QuadOf(seq + len - 1)
         IN  /\ Adding' /\ q \in Quads
             /\ piece'.quad = q /\ piece'.first = seq
             /\ piece'.last = IF two THEN QuadSize - 1 ELSE seq + len - 1
             /\ two => /\ rest' # NoRest /\ rest'.quad = QuadOf(seq + len - 1)
                       /\ rest'.first = QuadSize /\ rest'.len = seq + len - QuadSize
             /\ ~two => rest' = NoRest
<1> DEFINE q == QuadOf(seq)
           last == (seq + len - 1) % SeqLimit
           two == QuadOf(seq) # QuadOf(last)
           len1 == IF two THEN LastSeq(q) - seq + 1 ELSE len
           more == [quad |-> pquad'[q].next, first |-> FirstSeq(QuadOf(last)),
                    len |-> len - len1]
<1>1. /\ seq \in SeqNums /\ seq \in Nat /\ len \in 1 .. QuadSize /\ len \in Nat
      /\ seq + len - 1 \in SeqNums /\ seq + len - 1 \in Nat
      /\ last = seq + len - 1 /\ QuadSize \in Nat /\ QuadSize > 1
  BY BytesSpan, SeqSpaceAssumption DEF SeqNums, SeqLimit
<1>2. two => q = 0 /\ QuadOf(last) = 1 BY <1>1, BytesSpan
<1>3. /\ pquad' = WhichQuad(q) /\ pc' = "walk"
      /\ piece' = Piece(pquad'[q].segs, q, seq, len1)
      /\ rest' = (IF two THEN more ELSE NoRest)
  BY DEF RecvData
<1>4. q \in Quads /\ Adding' BY <1>1, <1>3, QuadOfSeq DEF Adding
<1>5. pquad'[q].next = After(q) BY <1>3, <1>4, Around DEF Inv
<1> HIDE DEF q, last
<1>6. piece'.quad = q /\ piece'.first = seq /\ piece'.last = (seq + len1 - 1) % SeqLimit BY <1>3 DEF Piece
<1>7. CASE ~two
  <2>1. len1 = len /\ rest' = NoRest BY <1>3, <1>7
  <2>2. piece'.last = last BY <1>6, <2>1 DEF last
  <2>3. QuadOf(seq) = QuadOf(seq + len - 1) BY <1>1, <1>7
  <2> QED BY <1>1, <1>4, <1>6, <2>1, <2>2, <2>3 DEF q
<1>8. CASE two
  <2>1. q = 0 /\ QuadOf(last) = 1 /\ len1 = QuadSize - seq BY <1>1, <1>2, <1>8 DEF LastSeq
  <2>2. (seq + len1 - 1) % SeqLimit = QuadSize - 1
    <3>1. seq + len1 - 1 = QuadSize - 1 /\ QuadSize - 1 \in Nat /\ QuadSize - 1 < 4 * QuadSize BY <1>1, <2>1
    <3> QED BY <1>1, <3>1, SMTT(30) DEF SeqLimit
  <2>3. /\ rest'.quad = 1 /\ rest'.first = QuadSize /\ rest'.len = seq + len - QuadSize
        /\ rest' # NoRest
    <3>1. rest' = more BY <1>3, <1>8
    <3>2. /\ more.quad = After(0) /\ more.first = QuadSize * 1 /\ more.len = len - (QuadSize - seq)
          /\ more # NoRest
      BY <1>5, <2>1 DEF FirstSeq, NoRest
    <3> HIDE DEF more
    <3> QED BY <1>1, <3>1, <3>2, QuadFour
  <2> QED BY <1>1, <1>4, <1>6, <1>8, <2>1, <2>2, <2>3 DEF q
<1> QED BY <1>7, <1>8

LEMMA RecvDataEffect ==
  ASSUME CutRight, Inv, NEW seq, NEW len, <<seq, len>> \in Data, RecvData(seq, len)
  PROVE  /\ ~Adding /\ Pending = {} /\ Pending' = Bytes(seq, len)
         /\ \A s : s \in Recorded' <=> s \in Recorded /\ Stays(QuadOf(seq), QuadOf(s))
<1> DEFINE q == QuadOf(seq)
           two == QuadOf(seq) # QuadOf(seq + len - 1)
<1>1. /\ Adding' /\ q \in Quads
      /\ piece'.first = seq
      /\ piece'.last = IF two THEN QuadSize - 1 ELSE seq + len - 1
      /\ two => rest' # NoRest /\ rest'.first = QuadSize /\ rest'.len = seq + len - QuadSize
      /\ ~two => rest' = NoRest
  BY RecvDataPiece
<1>2. /\ seq \in Nat /\ len \in Nat /\ QuadSize \in Nat
      /\ two => seq < QuadSize /\ seq + len - 1 >= QuadSize
      /\ Bytes(seq, len) = {s \in SeqNums : seq <= s /\ s <= seq + len - 1}
  BY BytesSpan, SeqSpaceAssumption
<1>3. pc = "idle" /\ pquad' = WhichQuad(q) BY DEF RecvData
<1>4. ~Adding /\ Pending = {} BY <1>3 DEF Adding, Pending, InPiece, InRest
<1>5. \A s \in SeqNums : s \in Nat BY SeqSpaceAssumption DEF SeqNums, SeqLimit
<1>6. Pending' = Bytes(seq, len)
  <2>1. CASE ~two
    <3>1. InRest' = {} /\ InPiece' = {s \in SeqNums : seq <= s /\ s <= seq + len - 1}
      BY <1>1, <2>1 DEF InRest, InPiece
    <3> QED BY <1>2, <3>1 DEF Pending
  <2>2. CASE two
    <3>1. /\ InPiece' = {s \in SeqNums : seq <= s /\ s <= QuadSize - 1}
          /\ InRest' = {s \in SeqNums : QuadSize <= s
                                        /\ s <= QuadSize + (seq + len - QuadSize) - 1}
      BY <1>1, <2>2 DEF InRest, InPiece
    <3> HIDE DEF two
    <3>2. \A s \in SeqNums : seq <= s /\ s <= seq + len - 1 <=>
            (seq <= s /\ s <= QuadSize - 1) \/
            (QuadSize <= s /\ s <= QuadSize + (seq + len - QuadSize) - 1)
      BY <1>2, <1>5, <2>2
    <3> QED BY <1>2, <3>1, <3>2 DEF Pending
  <2> QED BY <2>1, <2>2
<1>7. ASSUME NEW s
      PROVE  s \in Recorded' <=> s \in Recorded /\ Stays(q, QuadOf(s))
  <2>1. Recorded' = RecordedIn(WhichQuad(q)) BY <1>3 DEF Recorded, RecordedIn, Exists
  <2> QED BY <1>1, <2>1, AroundRecorded DEF Inv
<1> QED BY <1>4, <1>6, <1>7

\* An ACK leaves the bytes as whichquad does.
LEMMA RecvAckSegs ==
  ASSUME Inv, NEW ack \in Acks, NEW nodata \in BOOLEAN, RecvAck(ack, nodata), NEW k \in Quads
  PROVE  LET u == WhichQuad(QuadOf(ack))
         IN  /\ pquad'[k] # NoQuad <=> u[k] # NoQuad
             /\ u[k] # NoQuad =>
                  /\ DOMAIN pquad'[k].segs = DOMAIN u[k].segs
                  /\ \A i \in DOMAIN u[k].segs :
                       LET a == pquad'[k].segs[i]
                           b == u[k].segs[i]
                       IN  /\ a.first = b.first /\ a.last = b.last /\ a.retrans = b.retrans
                           /\ a.time = b.time /\ (a.acked = 0 => b.acked = 0)
<1> DEFINE q == QuadOf(ack)
           u == WhichQuad(q)
           p == u[q].prev
           prevSegs == u[p].segs
           segs == u[q].segs
<1>1. ack \in SeqNums BY SeqSpaceAssumption DEF SeqNums, SeqLimit
<1>2. q \in Quads BY <1>1, QuadOfSeq
<1>3. pquad' = [u EXCEPT ![p].segs = AckAll(@), ![q].segs = AckCovered(@, ack)] BY DEF RecvAck
<1>4. /\ GoodQuads(u) /\ u[q] # NoQuad /\ p = Before(q) /\ u[p] # NoQuad
      /\ p \in Quads /\ p # q
  BY <1>2, Around, QuadFour DEF Inv
<1>5. GoodList(q, segs) /\ GoodList(p, prevSegs) /\ u \in [Quads -> Quadrant \cup {NoQuad}]
  BY <1>2, <1>4 DEF GoodQuads
<1> HIDE DEF q, u, p
<1> DEFINE x == [u[p] EXCEPT !.segs = AckAll(prevSegs)]
           y == [u[q] EXCEPT !.segs = AckCovered(segs, ack)]
<1>6. pquad' = [[u EXCEPT ![p] = x] EXCEPT ![q] = y] BY <1>2, <1>3, <1>4, <1>5
<1>7. x.segs = AckAll(prevSegs) /\ y.segs = AckCovered(segs, ack) BY <1>2, <1>4, <1>5 DEF Quadrant
<1> HIDE DEF x, y
<1>8. pquad'[p] = x /\ pquad'[q] = y /\ \A j \in Quads : j # p /\ j # q => pquad'[j] = u[j]
  BY <1>2, <1>4, <1>5, <1>6
<1>9. x # NoQuad /\ y # NoQuad
  <2>1. AckAll(prevSegs) \in Seq(Segment) /\ AckCovered(segs, ack) \in Seq(Segment)
    <3>1. prevSegs \in Seq(Segment) /\ segs \in Seq(Segment) BY <1>5 DEF GoodList
    <3> DEFINE a == AckAll(prevSegs)  b == AckCovered(segs, ack)
    <3> HIDE DEF prevSegs, segs
    <3>2. a \in [1 .. Len(prevSegs) -> Segment]
      <4>1. \A i \in 1 .. Len(prevSegs) : prevSegs[i] \in Segment BY <3>1
      <4>2. \A i \in 1 .. Len(prevSegs) : [prevSegs[i] EXCEPT !.acked = 1] \in Segment BY <4>1 DEF Segment
      <4> QED BY <3>1, <4>1, <4>2 DEF AckAll
    <3>3. b \in [1 .. Len(segs) -> Segment]
      <4>1. \A i \in 1 .. Len(segs) : segs[i] \in Segment BY <3>1
      <4>2. \A i \in 1 .. Len(segs) : [segs[i] EXCEPT !.acked = segs[i].acked + 1] \in Segment
        BY <4>1 DEF Segment
      <4> QED BY <3>1, <4>1, <4>2 DEF AckCovered
    <3>4. Len(prevSegs) \in Nat /\ Len(segs) \in Nat BY <3>1
    <3> HIDE DEF a, b
    <3>5. a \in Seq(Segment) /\ b \in Seq(Segment) BY <3>2, <3>3, <3>4
    <3> QED BY <3>5 DEF a, b
  <2>2. x \in Quadrant /\ y \in Quadrant
    <3>1. u[p] \in Quadrant /\ u[q] \in Quadrant BY <1>2, <1>4, <1>5
    <3> QED BY <2>1, <3>1 DEF x, y, Quadrant
  <2> QED BY <2>2, NoQuadAssumption
<1>10. CASE k # p /\ k # q BY <1>8, <1>10 DEF u, q
<1>11. CASE k = p
  <2>1. \A i \in DOMAIN prevSegs : prevSegs[i] \in Segment BY <1>5 DEF GoodList
  <2> HIDE DEF prevSegs
  <2>2. /\ DOMAIN AckAll(prevSegs) = DOMAIN prevSegs
        /\ \A i \in DOMAIN prevSegs :
             AckAll(prevSegs)[i] = IF prevSegs[i].acked = 0 THEN [prevSegs[i] EXCEPT !.acked = 1]
                                   ELSE prevSegs[i]
    BY DEF AckAll
  <2>3. \A i \in DOMAIN prevSegs :
          LET a == AckAll(prevSegs)[i]
              b == prevSegs[i]
          IN  /\ a.first = b.first /\ a.last = b.last /\ a.retrans = b.retrans
              /\ a.time = b.time /\ (a.acked = 0 => b.acked = 0)
    BY <2>1, <2>2 DEF Segment
  <2> QED BY <1>4, <1>7, <1>8, <1>9, <1>11, <2>2, <2>3 DEF u, q, prevSegs
<1>12. CASE k = q
  <2>1. \A i \in DOMAIN segs : segs[i] \in Segment BY <1>5 DEF GoodList
  <2> HIDE DEF segs
  <2>2. /\ DOMAIN AckCovered(segs, ack) = DOMAIN segs
        /\ \A i \in DOMAIN segs :
             AckCovered(segs, ack)[i] = IF i \in Covers(segs, ack)
                                        THEN [segs[i] EXCEPT !.acked = segs[i].acked + 1]
                                        ELSE segs[i]
    BY DEF AckCovered
  <2>3. \A i \in DOMAIN segs :
          LET a == AckCovered(segs, ack)[i]
              b == segs[i]
          IN  /\ a.first = b.first /\ a.last = b.last /\ a.retrans = b.retrans
              /\ a.time = b.time /\ (a.acked = 0 => b.acked = 0)
    BY <2>1, <2>2 DEF Segment
  <2> QED BY <1>4, <1>7, <1>8, <1>9, <1>12, <2>2, <2>3 DEF u, q, segs
<1> QED BY <1>10, <1>11, <1>12

LEMMA GoodQuadsNext ==
  ASSUME Inv', now' = now
  PROVE  GoodQuads(pquad')
BY DEF Inv, GoodQuads, GoodList, Past, Sorted, LinksIn

LEMMA RecvAckRecorded ==
  ASSUME Inv, NEW ack \in Acks, NEW nodata \in BOOLEAN, RecvAck(ack, nodata)
  PROVE  /\ ~Adding /\ ~Adding' /\ Pending = {} /\ Pending' = {} /\ QuadOf(ack) \in Quads
         /\ \A s : s \in Recorded' <=> s \in Recorded /\ Stays(QuadOf(ack), QuadOf(s))
<1> DEFINE q == QuadOf(ack)
           u == WhichQuad(q)
<1>1. q \in Quads BY QuadOfSeq, SeqSpaceAssumption DEF SeqNums, SeqLimit
<1>2. GoodQuads(u) BY <1>1, Around DEF Inv
<1>3. GoodQuads(pquad')
  <2>1. now' = now /\ Inv' BY RecvAckStep DEF RecvAck
  <2> QED BY <2>1, GoodQuadsNext
<1>4. pc = "idle" /\ (pc' = "collapse" \/ pc' = "idle") BY DEF RecvAck
<1>5. ~Adding /\ ~Adding' /\ Pending = {} /\ Pending' = {} BY <1>4 DEF Adding, Pending, InPiece, InRest
<1>6. ASSUME NEW s
      PROVE  s \in Recorded' <=> s \in RecordedIn(u)
  <2>1. Recorded' = RecordedIn(pquad') BY DEF Recorded, RecordedIn, Exists
  <2>2. s \in Recorded' <=>
          s \in SeqNums /\ pquad'[QuadOf(s)] # NoQuad /\ Holds(pquad'[QuadOf(s)].segs, s)
    BY <1>3, <2>1, RecordedAt
  <2>3. s \in RecordedIn(u) <=>
          s \in SeqNums /\ u[QuadOf(s)] # NoQuad /\ Holds(u[QuadOf(s)].segs, s)
    BY <1>2, RecordedAt
  <2>4. CASE s \notin SeqNums BY <2>2, <2>3, <2>4
  <2>5. CASE s \in SeqNums
    <3> DEFINE k == QuadOf(s)
    <3>1. k \in Quads BY <2>5, QuadOfSeq
    <3> HIDE DEF k
    <3>2. /\ pquad'[k] # NoQuad <=> u[k] # NoQuad
          /\ u[k] # NoQuad =>
               /\ DOMAIN pquad'[k].segs = DOMAIN u[k].segs
               /\ \A i \in DOMAIN u[k].segs : /\ pquad'[k].segs[i].first = u[k].segs[i].first
                                              /\ pquad'[k].segs[i].last = u[k].segs[i].last
      BY <3>1, RecvAckSegs
    <3>3. u[k] # NoQuad => (Holds(pquad'[k].segs, s) <=> Holds(u[k].segs, s)) BY <3>2, SameHolds
    <3> QED BY <2>2, <2>3, <2>5, <3>2, <3>3 DEF k
  <2> QED BY <2>4, <2>5
<1>7. \A s : s \in Recorded' <=> s \in Recorded /\ Stays(q, QuadOf(s)) BY <1>1, <1>6, AroundRecorded DEF Inv
<1> QED BY <1>1, <1>5, <1>7

\* Two segments joined.
LEMMA CollapseList ==
  ASSUME Inv, Collapse
  PROVE  LET s == RemoveAt(ReplaceAt(Target, piece.at, Merged(Here, Following)), piece.at + 1)
         IN  /\ ~Adding /\ ~Adding' /\ todo[1] \in Quads /\ pquad[todo[1]] # NoQuad
             /\ Here.acked > 0 /\ Following.acked > 0
             /\ GoodList(todo[1], Target) /\ piece.at \in 1 .. Len(Target) - 1
             /\ GoodList(todo[1], s) /\ GoodQuads(pquad') /\ Relisted(pquad, todo[1], s, pquad')
             /\ KeptByCollapse
<1> DEFINE q == todo[1]
           s == RemoveAt(ReplaceAt(Target, piece.at, Merged(Here, Following)), piece.at + 1)
<1>1. /\ pc = "collapse" /\ piece.at < Len(Target) /\ SetSegs(q, s)
      /\ pc' = pc /\ KeptByCollapse /\ Here.acked > 0 /\ Following.acked > 0
  BY DEF Collapse, Collapsing, Fits
<1>2. /\ q \in Quads /\ pquad[q] # NoQuad /\ now \in Nat /\ piece.at \in Nat \ {0}
  BY <1>1, SeqSpaceAssumption DEF Inv, TypeOK, TodoSound, Exists
<1>3. GoodList(q, Target) /\ Len(Target) \in Nat BY <1>2 DEF Inv, GoodQuads, GoodList, Target
<1>4. piece.at \in 1 .. Len(Target) - 1 BY <1>1, <1>2, <1>3
<1>5. GoodList(q, s) BY <1>2, <1>3, <1>4, MergedGood DEF Here, Following
<1> HIDE DEF s
<1>6. pquad' = [pquad EXCEPT ![q].segs = s] /\ GoodQuads(pquad) BY <1>1 DEF SetSegs, Inv
<1>7. GoodQuads(pquad') /\ Relisted(pquad, q, s, pquad') BY <1>2, <1>5, <1>6, NewList
<1>8. ~Adding /\ ~Adding' BY <1>1 DEF Adding
<1> QED BY <1>1, <1>2, <1>3, <1>4, <1>5, <1>7, <1>8 DEF s

LEMMA CollapseRecorded ==
  ASSUME Inv, Collapse, NEW x \in Recorded
  PROVE  x \in Recorded'
<1> DEFINE q == todo[1]
           s == RemoveAt(ReplaceAt(Target, piece.at, Merged(Here, Following)), piece.at + 1)
<1>1. /\ q \in Quads /\ pquad[q] # NoQuad /\ GoodList(q, Target)
      /\ piece.at \in 1 .. Len(Target) - 1
      /\ GoodQuads(pquad') /\ Relisted(pquad, q, s, pquad')
  BY CollapseList
<1>2. GoodQuads(pquad) /\ Recorded = RecordedIn(pquad) /\ Recorded' = RecordedIn(pquad')
  BY RecordedHere DEF Inv, Recorded, RecordedIn, Exists
<1>3. x \in SeqNums /\ pquad[QuadOf(x)] # NoQuad /\ Holds(pquad[QuadOf(x)].segs, x) BY <1>2, RecordedAt
<1>4. QuadOf(x) \in Quads /\ x \in Int BY <1>3, QuadOfSeq, SeqSpaceAssumption DEF SeqNums, SeqLimit
<1>5. Holds(Target, x) => Holds(s, x) BY <1>1, <1>4, MergedHolds DEF Here, Following
<1> HIDE DEF s
<1>6. Holds(pquad'[QuadOf(x)].segs, x) /\ pquad'[QuadOf(x)] # NoQuad
  BY <1>1, <1>3, <1>4, <1>5 DEF Relisted, Target
<1> QED BY <1>1, <1>2, <1>3, <1>6, RecordedAt

\* The steps that are neither the begin of a packet nor one of addseg.
Quiet == Collapse \/ CollapseOn \/ CollapseDone \/ Tick \/ UNCHANGED vars
Walks == WalkOn \/ InsertBefore \/ SplitBefore \/ WalkWithin \/ TackOn

LEMMA WalksEffect ==
  ASSUME Inv, Walks
  PROVE  Adding /\ UNCHANGED <<sample, now, packets, tx, sent, dup, late>>
         /\ \E G \in SUBSET Pending : Effect(G)
<1>1. CASE WalkOn
  <2>1. Adding /\ OthersKept BY <1>1 DEF WalkOn, Walking, Adding
  <2>2. Effect({}) BY <1>1, WalkOnEffect
  <2> QED BY <2>1, <2>2 DEF OthersKept, history
<1>2. CASE InsertBefore
  <2>1. Adding /\ OthersKept BY <1>2, InsertBeforeList
  <2> QED BY <1>2, <2>1, InsertBeforeEffect DEF OthersKept, history, Pending
<1>3. CASE SplitBefore
  <2>1. Adding /\ OthersKept BY <1>3, SplitBeforeList
  <2>2. Effect({x \in InPiece : x < Cur.first}) BY <1>3, SplitBeforeEffect
  <2> QED BY <2>1, <2>2 DEF OthersKept, history, Pending
<1>4. CASE WalkWithin
  <2>1. Adding /\ OthersKept BY <1>4, WalkWithinList
  <2>2. Effect({x \in InPiece : x <= Cur.last}) BY <1>4, WalkWithinEffect
  <2> QED BY <2>1, <2>2 DEF OthersKept, history, Pending
<1>5. CASE TackOn
  <2>1. Adding /\ OthersKept BY <1>5, TackOnList
  <2> QED BY <1>5, <2>1, TackOnEffect DEF OthersKept, history, Pending
<1> QED BY <1>1, <1>2, <1>3, <1>4, <1>5 DEF Walks

LEMMA QuietEffect ==
  ASSUME Inv, Quiet
  PROVE  /\ Recorded \subseteq Recorded' /\ Pending' = Pending
         /\ UNCHANGED <<packets, tx, sent, dup, late, rexlen, order>>
         /\ (~Collapse => UNCHANGED pquad)
         /\ (~Adding /\ ~Adding') \/ UNCHANGED vars
<1>1. CASE Collapse
  <2>1. ~Adding /\ ~Adding' /\ KeptByCollapse BY <1>1, CollapseList
  <2>2. Pending = {} /\ Pending' = {} BY <2>1 DEF Pending, InPiece, InRest
  <2>3. Recorded \subseteq Recorded' BY <1>1, CollapseRecorded
  <2> QED BY <1>1, <2>1, <2>2, <2>3 DEF KeptByCollapse, history
<1>2. CASE CollapseOn \/ CollapseDone
  <2>1. /\ pc = "collapse" /\ (pc' = "collapse" \/ pc' = "idle") /\ KeptByCollapse
        /\ UNCHANGED pquad
    BY <1>2 DEF CollapseOn, CollapseDone, Collapsing
  <2>2. /\ ~Adding /\ ~Adding' /\ Pending = {} /\ Pending' = {} /\ Recorded' = Recorded
    BY <2>1 DEF Pending, InPiece, InRest, Adding, Recorded, Exists
  <2> QED BY <2>1, <2>2 DEF KeptByCollapse, history
<1>3. CASE Tick
  <2>1. /\ pc = "idle" /\ pc' = pc
        /\ UNCHANGED <<pquad, packets, tx, sent, dup, late, rexlen, order>>
    BY <1>3 DEF Tick, work, history
  <2>2. /\ ~Adding /\ ~Adding' /\ Pending = {} /\ Pending' = {} /\ Recorded' = Recorded
    BY <2>1 DEF Pending, InPiece, InRest, Adding, Recorded, Exists
  <2> QED BY <2>1, <2>2
<1>4. CASE UNCHANGED vars
  <2>1. UNCHANGED <<pquad, pc, piece, rest, todo, rexlen, order, sample, now, packets,
                    tx, sent, dup, late>>
    BY <1>4 DEF vars, work, results, history
  <2>2. Pending' = Pending /\ Recorded' = Recorded
    BY <2>1 DEF Pending, InPiece, InRest, Adding, Recorded, Exists
  <2> QED BY <1>4, <2>1, <2>2
<1> QED BY <1>1, <1>2, <1>3, <1>4 DEF Quiet

LEMMA Steps ==
  ASSUME [Next]_vars
  PROVE  \/ \E seq, len : <<seq, len>> \in Data /\ RecvData(seq, len)
         \/ \E ack \in Acks, nodata \in BOOLEAN : RecvAck(ack, nodata)
         \/ Walks
         \/ Quiet
<1>1. ASSUME NEW d \in Data, RecvData(d[1], d[2])
      PROVE  \E seq, len : <<seq, len>> \in Data /\ RecvData(seq, len)
  <2>1. d = <<d[1], d[2]>> BY SeqSpaceAssumption
  <2> QED BY <1>1, <2>1
<1> QED BY <1>1 DEF Next, Walks, Quiet

------------------------------
\* Every byte that was sent is recorded, or still to come.
Remembered == \A s \in SeqNums : tx[s] > 0 => s \in Recorded \cup Pending

LEMMA RememberedStep ==
  ASSUME CutRight, Inv, Remembered, [Next]_vars
  PROVE  Remembered'
<1>1. ASSUME NEW seq, NEW len, <<seq, len>> \in Data, RecvData(seq, len)
      PROVE  Remembered'
  <2> DEFINE q == QuadOf(seq)
  <2>1. /\ Pending = {} /\ Pending' = Bytes(seq, len)
        /\ \A s : s \in Recorded' <=> s \in Recorded /\ Stays(q, QuadOf(s))
    BY <1>1, RecvDataEffect
  <2>2. \A s \in SeqNums : tx'[s] > 0 => s \in Bytes(seq, len) \/ (Stays(q, QuadOf(s)) /\ tx[s] > 0)
    <3>1. tx' = [s \in SeqNums |-> IF s \in Bytes(seq, len) THEN Kept(q)[s] + 1 ELSE Kept(q)[s]]
      BY <1>1 DEF RecvData, Bytes
    <3>2. \A s \in SeqNums : Kept(q)[s] = IF Stays(q, QuadOf(s)) THEN tx[s] ELSE 0 BY DEF Kept, Stays
    <3> HIDE DEF q
    <3> QED BY <3>1, <3>2
  <2> HIDE DEF q
  <2> QED BY <2>1, <2>2 DEF Remembered
<1>2. ASSUME NEW ack \in Acks, NEW nodata \in BOOLEAN, RecvAck(ack, nodata)
      PROVE  Remembered'
  <2> DEFINE q == QuadOf(ack)
  <2>1. /\ Pending = {} /\ \A s : s \in Recorded' <=> s \in Recorded /\ Stays(q, QuadOf(s))
    BY <1>2, RecvAckRecorded
  <2>2. \A s \in SeqNums : tx'[s] > 0 => Stays(q, QuadOf(s)) /\ tx[s] > 0
    <3>1. tx' = Kept(q) BY <1>2 DEF RecvAck
    <3>2. \A s \in SeqNums : Kept(q)[s] = IF Stays(q, QuadOf(s)) THEN tx[s] ELSE 0 BY DEF Kept, Stays
    <3> HIDE DEF q
    <3> QED BY <3>1, <3>2
  <2> HIDE DEF q
  <2> QED BY <2>1, <2>2 DEF Remembered
<1>3. CASE Walks
  <2>1. tx' = tx /\ \E G \in SUBSET Pending : Effect(G) BY <1>3, WalksEffect
  <2> QED BY <2>1 DEF Remembered, Effect
<1>4. CASE Quiet BY <1>4, QuietEffect DEF Remembered
<1> QED BY <1>1, <1>2, <1>3, <1>4, Steps

\* No byte is lost by the splitting, joining and dropping of segments
\* (rexmit.c:212-390), as long as its quadrant is kept.
THEOREM NothingLost == ASSUME CutRight PROVE Spec => []NothingForgotten
<1>1. Init => Remembered BY DEF Init, Remembered
<1>2. Inv /\ Remembered /\ [Next]_vars => Remembered' BY CutRight, RememberedStep
<1>3. Remembered => NothingForgotten BY DEF Remembered, NothingForgotten, Pending, InPiece, InRest, Adding
<1>4. Spec => []Inv BY CutRight, Invariant
<1> QED BY <1>1, <1>2, <1>3, <1>4, PTL DEF Spec

------------------------------
\* Where packets, and with them segments, begin and end.  addseg takes two
\* segments that have one byte in common for disjoint ones (its test is
\* <=, rexmit.c:250), so the counts are right only if no packet, and no
\* part of one, ends with the byte with which another one begins.
Edges == {d[1] : d \in Data} \cup {d[1] + d[2] : d \in Data} \cup {QuadSize}
NoByteShared ==
  /\ QuadSize - 1 \notin Edges
  /\ \A d \in Data : d[2] > 1 => d[1] + d[2] - 1 \notin Edges

Edged(segs) ==
  /\ \A i \in DOMAIN segs : segs[i].first \in Edges /\ segs[i].last + 1 \in Edges
  /\ \A i, j \in DOMAIN segs : i < j => segs[i].last < segs[j].first

LEMMA InsertEdged ==
  ASSUME NEW s \in Seq(Segment), Edged(s), NEW i \in 1 .. Len(s),
         \A k \in DOMAIN s : s[k].first <= s[k].last,
         NEW e \in Segment, e.first \in Edges, e.last + 1 \in Edges,
         Passed(s, i, e.first), e.last < s[i].first
  PROVE  Edged(InsertAt(s, i, e))
<1> DEFINE t == InsertAt(s, i, e)
<1>1. t \in Seq(Segment) /\ Inserted(s, i, e, t) /\ Len(s) \in Nat /\ DOMAIN s = 1 .. Len(s) BY Insertion
<1> HIDE DEF t
<1>2. /\ DOMAIN t = 1 .. Len(s) + 1
      /\ \A k \in 1 .. Len(s) + 1 : t[k] = IF k < i THEN s[k] ELSE IF k = i THEN e ELSE s[k - 1]
  BY <1>1 DEF Inserted
<1>3. ASSUME NEW k \in 1 .. Len(s)
      PROVE  /\ s[k].first \in Nat /\ s[k].last \in Nat /\ s[k].first <= s[k].last
             /\ s[k].first \in Edges /\ s[k].last + 1 \in Edges
  BY <1>1, SegmentFields DEF Edged
<1>4. \A j, k \in 1 .. Len(s) : j < k => s[j].last < s[k].first BY <1>1 DEF Edged
<1>5. \A j \in 1 .. Len(s) : j < i => s[j].last < e.first BY <1>1 DEF Passed
<1>6. e.first \in Nat /\ e.last \in Nat BY SegmentFields
<1>7. ASSUME NEW k \in 1 .. Len(s), i <= k
      PROVE  e.last < s[k].first
  <2>1. CASE k = i BY <2>1
  <2>2. CASE i < k
    <3>1. s[i].last < s[k].first /\ s[i].first <= s[i].last BY <1>3, <1>4, <1>7, <2>2
    <3> QED BY <1>3, <1>6, <3>1
  <2> QED BY <1>1, <1>7, <2>1, <2>2
<1>8. ASSUME NEW k \in DOMAIN t
      PROVE  t[k].first \in Edges /\ t[k].last + 1 \in Edges
  <2>1. CASE k < i BY <1>1, <1>2, <1>3, <2>1
  <2>2. CASE k = i BY <1>1, <1>2, <2>2
  <2>3. CASE k > i
    <3>1. t[k] = s[k - 1] /\ k - 1 \in 1 .. Len(s) BY <1>1, <1>2, <2>3
    <3> QED BY <1>3, <3>1
  <2> QED BY <1>1, <1>2, <2>1, <2>2, <2>3
<1>9. ASSUME NEW j \in DOMAIN t, NEW k \in DOMAIN t, j < k
      PROVE  t[j].last < t[k].first
  <2>1. CASE k < i BY <1>1, <1>2, <1>4, <1>9, <2>1
  <2>2. CASE k = i BY <1>1, <1>2, <1>5, <1>9, <2>2
  <2>3. CASE k > i
    <3>1. t[k] = s[k - 1] /\ k - 1 \in 1 .. Len(s) /\ i <= k - 1 BY <1>1, <1>2, <2>3
    <3>2. CASE j < i
      <4>1. t[j] = s[j] /\ j \in 1 .. Len(s) /\ j < k - 1 BY <1>1, <1>2, <1>9, <2>3, <3>2
      <4> QED BY <1>4, <3>1, <4>1
    <3>3. CASE j = i
      <4>1. t[j] = e BY <1>1, <1>2, <3>3
      <4> QED BY <1>7, <3>1, <4>1
    <3>4. CASE j > i
      <4>1. t[j] = s[j - 1] /\ j - 1 \in 1 .. Len(s) /\ j - 1 < k - 1 BY <1>1, <1>2, <1>9, <3>4
      <4> QED BY <1>4, <3>1, <4>1
    <3> QED BY <1>1, <1>2, <3>2, <3>3, <3>4
  <2> QED BY <1>1, <1>2, <2>1, <2>2, <2>3
<1> QED BY <1>8, <1>9 DEF Edged, t

LEMMA AppendEdged ==
  ASSUME NEW s \in Seq(Segment), Edged(s), NEW e \in Segment,
         e.first \in Edges, e.last + 1 \in Edges, Passed(s, Len(s) + 1, e.first)
  PROVE  Edged(Append(s, e))
<1> DEFINE t == Append(s, e)
<1>1. /\ t \in Seq(Segment) /\ DOMAIN t = 1 .. Len(s) + 1 /\ Len(s) \in Nat
      /\ DOMAIN s = 1 .. Len(s)
      /\ \A k \in 1 .. Len(s) : t[k] = s[k]
      /\ t[Len(s) + 1] = e
  OBVIOUS
<1> HIDE DEF t
<1>2. ASSUME NEW k \in 1 .. Len(s)
      PROVE  s[k].first \in Edges /\ s[k].last + 1 \in Edges /\ s[k].last < e.first
  BY <1>1 DEF Edged, Passed
<1>3. \A k \in DOMAIN t : t[k].first \in Edges /\ t[k].last + 1 \in Edges BY <1>1, <1>2
<1>4. \A j, k \in 1 .. Len(s) : j < k => s[j].last < s[k].first BY <1>1 DEF Edged
<1>5. ASSUME NEW j \in DOMAIN t, NEW k \in DOMAIN t, j < k
      PROVE  t[j].last < t[k].first
  BY <1>1, <1>2, <1>4, <1>5
<1> QED BY <1>3, <1>5 DEF Edged, t

LEMMA CappedEdged ==
  ASSUME NEW s \in Seq(Segment), Edged(s)
  PROVE  Edged(Capped(s))
<1> SUFFICES ASSUME Len(s) > MaxSegPerQuad
             PROVE  Edged(Capped(s))
  BY DEF Capped
<1> DEFINE e == [s[2] EXCEPT !.first = s[1].first]
           t == Capped(s)
<1>1. /\ Len(s) >= 2 /\ Len(s) \in Nat /\ e.first = s[1].first /\ e.last = s[2].last
      /\ DOMAIN t = 1 .. Len(s) - 1 /\ t[1] = e
      /\ \A k \in 2 .. Len(s) - 1 : t[k] = s[k + 1]
  BY CappedAt
<1> HIDE DEF t, e
<1>2. \A k \in 1 .. Len(s) : s[k].first \in Edges /\ s[k].last + 1 \in Edges BY <1>1 DEF Edged
<1>3. \A j, k \in 1 .. Len(s) : j < k => s[j].last < s[k].first BY <1>1 DEF Edged
<1>4. 1 \in 1 .. Len(s) /\ 2 \in 1 .. Len(s) BY <1>1
<1>5. ASSUME NEW k \in DOMAIN t
      PROVE  t[k].first \in Edges /\ t[k].last + 1 \in Edges
  <2>1. CASE k = 1 BY <1>1, <1>2, <1>4, <2>1
  <2>2. CASE k # 1
    <3>1. t[k] = s[k + 1] /\ k + 1 \in 1 .. Len(s) BY <1>1, <2>2
    <3> QED BY <1>2, <3>1
  <2> QED BY <2>1, <2>2
<1>6. ASSUME NEW j \in DOMAIN t, NEW k \in DOMAIN t, j < k
      PROVE  t[j].last < t[k].first
  <2>1. t[k] = s[k + 1] /\ k + 1 \in 1 .. Len(s) /\ 2 < k + 1 BY <1>1, <1>6
  <2>2. CASE j = 1 BY <1>1, <1>3, <1>4, <2>1, <2>2
  <2>3. CASE j # 1
    <3>1. t[j] = s[j + 1] /\ j + 1 \in 1 .. Len(s) /\ j + 1 < k + 1 BY <1>1, <1>6, <2>3
    <3> QED BY <1>3, <2>1, <3>1
  <2> QED BY <2>2, <2>3
<1> QED BY <1>5, <1>6 DEF Edged, t

LEMMA SameEdged ==
  ASSUME NEW s, NEW t, Edged(s), DOMAIN t = DOMAIN s,
         \A k \in DOMAIN s : t[k].first = s[k].first /\ t[k].last = s[k].last
  PROVE  Edged(t)
BY DEF Edged

LEMMA MergedEdged ==
  ASSUME NEW s \in Seq(Segment), Edged(s), NEW i \in 1 .. Len(s) - 1
  PROVE  Edged(RemoveAt(ReplaceAt(s, i, Merged(s[i], s[i + 1])), i + 1))
<1> DEFINE e == Merged(s[i], s[i + 1])
           t == RemoveAt(ReplaceAt(s, i, e), i + 1)
<1>1. Len(s) \in Nat /\ DOMAIN s = 1 .. Len(s) /\ i \in 1 .. Len(s) /\ i + 1 \in 1 .. Len(s) OBVIOUS
<1>2. e.first = s[i].first /\ e.last = s[i + 1].last BY MergedAt
<1>3. /\ DOMAIN t = 1 .. Len(s) - 1
      /\ \A k \in 1 .. Len(s) - 1 : t[k] = IF k < i THEN s[k] ELSE IF k = i THEN e ELSE s[k + 1]
  BY MergedAt
<1> HIDE DEF t, e
<1>4. \A k \in 1 .. Len(s) : s[k].first \in Edges /\ s[k].last + 1 \in Edges BY <1>1 DEF Edged
<1>5. \A j, k \in 1 .. Len(s) : j < k => s[j].last < s[k].first BY <1>1 DEF Edged
<1>6. ASSUME NEW k \in DOMAIN t
      PROVE  \E a, b \in 1 .. Len(s) :
               /\ t[k].first = s[a].first /\ t[k].last = s[b].last
               /\ (k < i => a = k /\ b = k)
               /\ (k = i => a = k /\ b = k + 1)
               /\ (k > i => a = k + 1 /\ b = k + 1)
  <2>1. k \in 1 .. Len(s) /\ k + 1 \in 1 .. Len(s) BY <1>1, <1>3
  <2>2. CASE k < i
    <3>1. t[k] = s[k] /\ ~ (k = i) /\ ~ (k > i) BY <1>1, <1>3, <2>2
    <3> QED BY <2>1, <2>2, <3>1
  <2>3. CASE k = i
    <3>1. t[k] = e /\ ~ (k < i) /\ ~ (k > i) BY <1>1, <1>3, <2>3
    <3> QED BY <1>2, <2>1, <2>3, <3>1
  <2>4. CASE k > i
    <3>1. t[k] = s[k + 1] /\ ~ (k = i) /\ ~ (k < i) BY <1>1, <1>3, <2>4
    <3> QED BY <2>1, <2>4, <3>1
  <2>5. k < i \/ k = i \/ k > i BY <1>1, <1>3
  <2> QED BY <2>2, <2>3, <2>4, <2>5
<1>7. \A k \in DOMAIN t : t[k].first \in Edges /\ t[k].last + 1 \in Edges BY <1>4, <1>6
<1>8. ASSUME NEW j \in DOMAIN t, NEW k \in DOMAIN t, j < k
      PROVE  t[j].last < t[k].first
  <2>1. PICK b \in 1 .. Len(s) : t[j].last = s[b].last /\ (j < i => b = j) /\ (j >= i => b = j + 1)
    BY <1>1, <1>3, <1>6
  <2>2. PICK a \in 1 .. Len(s) : t[k].first = s[a].first /\ (k <= i => a = k) /\ (k > i => a = k + 1)
    BY <1>1, <1>3, <1>6
  <2>3. b < a BY <1>1, <1>3, <1>8, <2>1, <2>2
  <2> QED BY <1>5, <2>1, <2>2, <2>3
<1> QED BY <1>7, <1>8 DEF Edged, t, e

\* The lists, the piece and the rest of the packet begin and end at edges.
Ends(first, last) ==
  first \in Edges /\ last + 1 \in Edges /\ (first = last \/ last \notin Edges)

EdgesKept ==
  /\ \A q \in Quads : Exists(q) => Edged(pquad[q].segs)
  /\ Adding => Ends(piece.first, piece.last)
  /\ Adding /\ rest # NoRest => Ends(rest.first, rest.first + rest.len - 1)

LEMMA NewListEdged ==
  ASSUME Inv, EdgesKept, NEW q \in Quads, pquad[q] # NoQuad, NEW s, GoodList(q, s),
         SetSegs(q, s), Edged(s)
  PROVE  \A k \in Quads : pquad'[k] # NoQuad => Edged(pquad'[k].segs)
<1>1. Relisted(pquad, q, s, pquad') BY NewList DEF SetSegs, Inv
<1> QED BY <1>1 DEF Relisted, EdgesKept, Exists

LEMMA ReturnEdged ==
  ASSUME Inv, EdgesKept, Adding, Return
  PROVE  /\ Adding' => Ends(piece'.first, piece'.last)
         /\ ~(Adding' /\ rest' # NoRest)
BY ReturnPiece DEF EdgesKept

\* So "we don't overlap" is right after all.
LEMMA BeforeStrict ==
  ASSUME Inv, EdgesKept, InsertBefore
  PROVE  piece.last < Cur.first
<1>1. /\ Adding /\ piece.at \in 1 .. Len(Segs) /\ Segs \in Seq(Segment) /\ piece \in Pieces
      /\ piece.first < Cur.first /\ piece.last <= Cur.first /\ piece.first <= piece.last
  BY InsertBeforeList, Walked
<1>2. piece.quad \in Quads /\ pquad[piece.quad] # NoQuad BY <1>1 DEF Inv, TypeOK, PieceSound, Exists
<1>3. Cur \in Segment /\ Cur.first \in Edges /\ Ends(piece.first, piece.last)
  BY <1>1, <1>2 DEF EdgesKept, Exists, Edged, Cur, Segs
<1>4. Cur.first \in Nat /\ piece.first \in Nat /\ piece.last \in Nat BY <1>1, <1>3, SegmentFields, PieceFields
<1>5. piece.last # Cur.first BY <1>1, <1>3, <1>4 DEF Ends
<1> QED BY <1>1, <1>4, <1>5

LEMMA WalksEdges ==
  ASSUME Inv, EdgesKept, Walks
  PROVE  EdgesKept'
<1>0. Adding /\ piece.quad \in Quads /\ pquad[piece.quad] # NoQuad /\ Edged(Segs)
      /\ Ends(piece.first, piece.last)
  <2>1. Adding /\ piece.quad \in Quads BY WalksEffect DEF Inv, TypeOK
  <2> QED BY <2>1 DEF Inv, PieceSound, Exists, EdgesKept, Segs
<1>1. CASE WalkOn
  <2>1. /\ UNCHANGED <<pquad, pc, rest>> /\ piece' = [piece EXCEPT !.at = @ + 1] BY <1>1 DEF WalkOn
  <2>2. piece'.first = piece.first /\ piece'.last = piece.last BY <2>1, Walked, <1>0 DEF Pieces
  <2> QED BY <2>1, <2>2 DEF EdgesKept, Exists, Adding
<1>2. CASE InsertBefore
  <2> DEFINE e == NewSeg(piece.first, piece.last)
             s == InsertAt(Segs, piece.at, e)
  <2>1. /\ Return /\ piece.at \in 1 .. Len(Segs) /\ Segs \in Seq(Segment)
        /\ GoodList(piece.quad, Segs)
        /\ piece.first < Cur.first /\ piece.last <= Cur.first
        /\ piece.first <= piece.last /\ Passed(Segs, piece.at, piece.first)
        /\ e \in Segment /\ SetSegs(piece.quad, s) /\ GoodList(piece.quad, s)
    BY <1>2, InsertBeforeList
  <2>2. e.first = piece.first /\ e.last = piece.last BY DEF NewSeg
  <2> HIDE DEF e
  <2>3. Cur \in Segment /\ Cur.first \in Edges BY <1>0, <2>1 DEF Edged, Cur
  <2>4. e.last < Cur.first BY <1>2, <2>2, BeforeStrict
  <2>5. \A k \in DOMAIN Segs : Segs[k].first <= Segs[k].last BY <2>1 DEF GoodList, Sorted, Placed
  <2>6. /\ e.first \in Edges /\ e.last + 1 \in Edges /\ Passed(Segs, piece.at, e.first)
        /\ e.last < Segs[piece.at].first
    BY <1>0, <2>1, <2>2, <2>4 DEF Ends, Cur
  <2>7. Edged(s) BY <1>0, <2>1, <2>5, <2>6, InsertEdged
  <2> HIDE DEF s
  <2>8. \A k \in Quads : pquad'[k] # NoQuad => Edged(pquad'[k].segs) BY <1>0, <2>1, <2>7, NewListEdged
  <2> QED BY <1>0, <2>1, <2>8, ReturnEdged DEF EdgesKept, Exists
<1>3. CASE SplitBefore
  <2> DEFINE e == NewSeg(piece.first, Cur.first - 1)
             s == InsertAt(Segs, piece.at, e)
             c == Cur.first
  <2>1. /\ rest' = rest /\ piece.at \in 1 .. Len(Segs) /\ Segs \in Seq(Segment)
        /\ GoodList(piece.quad, Segs)
        /\ piece.first < c /\ piece.last > c
        /\ c \in SeqNums /\ piece.first \in SeqNums /\ piece.last \in Nat
        /\ Passed(Segs, piece.at, piece.first)
        /\ piece'.first = c /\ piece'.last = piece.last
        /\ e \in Segment /\ SetSegs(piece.quad, s) /\ GoodList(piece.quad, s)
    BY <1>3, SplitBeforeList
  <2>2. e.first = piece.first /\ e.last = c - 1 /\ c \in Nat /\ piece.first \in Nat
    BY <2>1, SeqSpaceAssumption DEF NewSeg, SeqNums, SeqLimit
  <2>3. c \in Edges /\ c = Segs[piece.at].first BY <1>0, <2>1 DEF Edged, Cur
  <2> HIDE DEF e, c
  <2>4. piece.first # piece.last /\ c # piece.last /\ piece.last \notin Edges BY <1>0, <2>1, <2>2 DEF Ends
  <2>5. \A k \in DOMAIN Segs : Segs[k].first <= Segs[k].last BY <2>1 DEF GoodList, Sorted, Placed
  <2>6. /\ e.first \in Edges /\ e.last + 1 \in Edges /\ Passed(Segs, piece.at, e.first)
        /\ e.last < Segs[piece.at].first
    <3>1. e.last + 1 = c /\ e.last < c BY <2>2
    <3> QED BY <1>0, <2>1, <2>2, <2>3, <3>1 DEF Ends
  <2>7. Edged(s) BY <1>0, <2>1, <2>5, <2>6, InsertEdged
  <2> HIDE DEF s
  <2>8. \A k \in Quads : pquad'[k] # NoQuad => Edged(pquad'[k].segs) BY <1>0, <2>1, <2>7, NewListEdged
  <2>9. Ends(piece'.first, piece'.last) BY <1>0, <2>1, <2>3, <2>4 DEF Ends
  <2> QED BY <1>0, <2>1, <2>8, <2>9 DEF EdgesKept, Exists
<1>4. CASE WalkWithin
  <2> DEFINE e == Resent(Cur)
             s == ReplaceAt(Segs, piece.at, e)
  <2>1. /\ piece.at \in 1 .. Len(Segs) /\ Segs \in Seq(Segment)
        /\ Cur \in Segment /\ e \in Segment
        /\ piece.first <= Cur.last /\ piece.first \in Nat /\ piece.last \in Nat /\ Cur.last \in Nat
        /\ SetSegs(piece.quad, s) /\ GoodList(piece.quad, s)
        /\ \/ Return
           \/ /\ piece.last > Cur.last /\ piece'.first = Cur.last + 1
              /\ piece'.last = piece.last /\ rest' = rest
    BY <1>4, WalkWithinList
  <2>2. e.first = Cur.first /\ e.last = Cur.last BY <2>1, ResentSame
  <2> HIDE DEF e
  <2>3. DOMAIN s = DOMAIN Segs /\ \A k \in DOMAIN Segs : s[k] = IF k = piece.at THEN e ELSE Segs[k]
    BY <2>1, ReplacedAt
  <2> HIDE DEF s
  <2>4. \A k \in DOMAIN Segs : s[k].first = Segs[k].first /\ s[k].last = Segs[k].last BY <2>2, <2>3 DEF Cur
  <2>5. Edged(s) BY <1>0, <2>3, <2>4, SameEdged
  <2>6. \A k \in Quads : pquad'[k] # NoQuad => Edged(pquad'[k].segs) BY <1>0, <2>1, <2>5, NewListEdged
  <2>7. CASE Return BY <1>0, <2>6, <2>7, ReturnEdged DEF EdgesKept, Exists
  <2>8. CASE piece.last > Cur.last /\ piece'.first = Cur.last + 1
             /\ piece'.last = piece.last /\ rest' = rest
    <3>1. Cur.last + 1 \in Edges BY <1>0, <2>1 DEF Edged, Cur
    <3>2. piece.first # piece.last /\ piece.last \notin Edges
      <4>1. piece.first # piece.last BY <2>1, <2>8
      <4> QED BY <1>0, <4>1 DEF Ends
    <3>3. Ends(piece'.first, piece'.last) BY <1>0, <2>8, <3>1, <3>2 DEF Ends
    <3> QED BY <1>0, <2>6, <2>8, <3>3 DEF EdgesKept, Exists
  <2> QED BY <2>1, <2>7, <2>8
<1>5. CASE TackOn
  <2> DEFINE e == NewSeg(piece.first, piece.last)
             r == Append(Segs, e)
             s == Capped(r)
  <2>1. /\ Return /\ Segs \in Seq(Segment) /\ e \in Segment
        /\ Passed(Segs, Len(Segs) + 1, piece.first)
        /\ SetSegs(piece.quad, s) /\ GoodList(piece.quad, r) /\ GoodList(piece.quad, s)
    BY <1>5, TackOnList
  <2>2. e.first = piece.first /\ e.last = piece.last BY DEF NewSeg
  <2> HIDE DEF e
  <2>3. Edged(r)
    <3>1. e.first \in Edges /\ e.last + 1 \in Edges /\ Passed(Segs, Len(Segs) + 1, e.first)
      BY <1>0, <2>1, <2>2 DEF Ends
    <3> QED BY <1>0, <2>1, <3>1, AppendEdged
  <2> HIDE DEF r
  <2>4. Edged(s) BY <2>1, <2>3, CappedEdged DEF GoodList
  <2> HIDE DEF s
  <2>5. \A k \in Quads : pquad'[k] # NoQuad => Edged(pquad'[k].segs) BY <1>0, <2>1, <2>4, NewListEdged
  <2> QED BY <1>0, <2>1, <2>5, ReturnEdged DEF EdgesKept, Exists
<1> QED BY <1>1, <1>2, <1>3, <1>4, <1>5 DEF Walks

LEMMA AroundEdged ==
  ASSUME Inv, EdgesKept, NEW q \in Quads, NEW u, u = WhichQuad(q)
  PROVE  \A k \in Quads : u[k] # NoQuad => Edged(u[k].segs)
<1>1. Edged(<<>>) BY DEF Edged
<1>2. ASSUME NEW k \in Quads, u[k] # NoQuad
      PROVE  Edged(u[k].segs)
  <2>1. /\ Stays(q, k) /\ pquad[k] # NoQuad => u[k].segs = pquad[k].segs
        /\ ~Stays(q, k) => u[k] = NoQuad
        /\ pquad[k] = NoQuad => u[k].segs = <<>>
    BY <1>2, AroundSegs DEF Inv
  <2> QED BY <1>1, <1>2, <2>1 DEF EdgesKept, Exists
<1> QED BY <1>2

LEMMA EdgesStep ==
  ASSUME CutRight, NoByteShared, Inv, EdgesKept, [Next]_vars
  PROVE  EdgesKept'
<1>1. ASSUME NEW seq, NEW len, <<seq, len>> \in Data, RecvData(seq, len)
      PROVE  EdgesKept'
  <2> DEFINE two == QuadOf(seq) # QuadOf(seq + len - 1)
  <2>1. /\ QuadOf(seq) \in Quads /\ piece'.first = seq
        /\ piece'.last = IF two THEN QuadSize - 1 ELSE seq + len - 1
        /\ two => rest'.first = QuadSize /\ rest'.len = seq + len - QuadSize
        /\ ~two => rest' = NoRest
    BY <1>1, RecvDataPiece
  <2>2. /\ seq \in Nat /\ len \in Nat /\ len >= 1 /\ QuadSize \in Nat
        /\ two => seq < QuadSize /\ seq + len - 1 >= QuadSize
    BY <1>1, BytesSpan, SeqSpaceAssumption
  <2> HIDE DEF two
  <2>3. \A k \in Quads : pquad'[k] # NoQuad => Edged(pquad'[k].segs)
    <3>1. pquad' = WhichQuad(QuadOf(seq)) BY <1>1 DEF RecvData
    <3> QED BY <2>1, <3>1, AroundEdged
  <2>4. /\ seq \in Edges /\ seq + len \in Edges /\ QuadSize \in Edges /\ QuadSize - 1 \notin Edges
        /\ len > 1 => seq + len - 1 \notin Edges
    <3>1. \A a, b : <<a, b>>[1] = a /\ <<a, b>>[2] = b OBVIOUS
    <3> QED BY <1>1, <3>1 DEF Edges, NoByteShared
  <2>5. (seq + len - 1) + 1 = seq + len /\ (QuadSize - 1) + 1 = QuadSize
        /\ (len = 1 => seq = seq + len - 1)
    BY <2>2
  <2>6. CASE two
    <3>1. len > 1 /\ QuadSize + (seq + len - QuadSize) - 1 = seq + len - 1 BY <2>2, <2>6
    <3>2. Ends(piece'.first, piece'.last) BY <2>1, <2>4, <2>5, <2>6 DEF Ends
    <3>3. Ends(rest'.first, rest'.first + rest'.len - 1)
      <4>1. Ends(QuadSize, seq + len - 1) BY <2>4, <2>5, <3>1 DEF Ends
      <4> QED BY <2>1, <2>6, <3>1, <4>1
    <3> QED BY <2>3, <3>2, <3>3 DEF EdgesKept, Exists
  <2>7. CASE ~two
    <3>1. len = 1 \/ len > 1 BY <2>2
    <3>2. Ends(piece'.first, piece'.last) BY <2>1, <2>4, <2>5, <2>7, <3>1 DEF Ends
    <3> QED BY <2>1, <2>3, <2>7, <3>2 DEF EdgesKept, Exists
  <2> QED BY <2>6, <2>7
<1>2. ASSUME NEW ack \in Acks, NEW nodata \in BOOLEAN, RecvAck(ack, nodata)
      PROVE  EdgesKept'
  <2> DEFINE u == WhichQuad(QuadOf(ack))
  <2>1. ~Adding' /\ QuadOf(ack) \in Quads BY <1>2, RecvAckRecorded
  <2>2. \A k \in Quads : u[k] # NoQuad => Edged(u[k].segs) BY <2>1, AroundEdged
  <2>3. ASSUME NEW k \in Quads, pquad'[k] # NoQuad
        PROVE  Edged(pquad'[k].segs)
    <3>1. /\ u[k] # NoQuad /\ DOMAIN pquad'[k].segs = DOMAIN u[k].segs
          /\ \A i \in DOMAIN u[k].segs : /\ pquad'[k].segs[i].first = u[k].segs[i].first
                                         /\ pquad'[k].segs[i].last = u[k].segs[i].last
      BY <1>2, <2>3, RecvAckSegs
    <3> HIDE DEF u
    <3>2. Edged(u[k].segs) BY <2>2, <3>1
    <3> QED BY <3>1, <3>2, SameEdged
  <2> QED BY <2>1, <2>3 DEF EdgesKept, Exists
<1>3. CASE Walks BY <1>3, WalksEdges
<1>4. CASE Quiet
  <2>1. CASE Collapse
    <3> DEFINE q == todo[1]
               s == RemoveAt(ReplaceAt(Target, piece.at, Merged(Here, Following)), piece.at + 1)
    <3>1. /\ ~Adding' /\ q \in Quads /\ pquad[q] # NoQuad /\ GoodList(q, Target)
          /\ piece.at \in 1 .. Len(Target) - 1 /\ Relisted(pquad, q, s, pquad')
      BY <2>1, CollapseList
    <3>2. Edged(Target) /\ Target \in Seq(Segment) BY <3>1 DEF EdgesKept, Exists, Target, GoodList
    <3>3. Edged(s) BY <3>1, <3>2, MergedEdged DEF Here, Following
    <3> HIDE DEF s
    <3> QED BY <3>1, <3>3 DEF EdgesKept, Exists, Relisted
  <2>2. CASE ~Collapse
    <3>1. UNCHANGED pquad /\ ((~Adding /\ ~Adding') \/ UNCHANGED vars) BY <1>4, <2>2, QuietEffect
    <3>2. CASE ~Adding' BY <3>1, <3>2 DEF EdgesKept, Exists
    <3>3. CASE UNCHANGED vars
      <4>1. UNCHANGED <<pquad, pc, piece, rest>> BY <3>3 DEF vars, work
      <4> QED BY <4>1 DEF EdgesKept, Exists, Adding
    <3> QED BY <3>1, <3>2, <3>3
  <2> QED BY <2>1, <2>2
<1> QED BY <1>1, <1>2, <1>3, <1>4, Steps

------------------------------
\* The bytes of the packet that are recorded already are counted, or still
\* to come.
Counted == rexlen + Cardinality(Pending \cap Recorded) = dup /\ rexlen >= 0

\* Up to b, no segment that the walk has not passed holds a byte.
LEMMA NotRecorded ==
  ASSUME Inv, Adding, NEW b \in Nat,
         \A i \in DOMAIN Segs : i >= piece.at => b < Segs[i].first,
         NEW x \in InPiece, x <= b
  PROVE  x \notin Recorded
<1>1. /\ x \in Nat /\ QuadOf(x) = piece.quad /\ piece.first <= x BY PieceInQuad
<1>2. /\ PieceAt(Segs, piece) /\ Segs \in Seq(Segment) /\ piece \in Pieces
      /\ DOMAIN Segs = 1 .. Len(Segs) /\ Len(Segs) \in Nat
  BY Walked
<1>3. piece.first \in Nat /\ piece.at \in Nat BY <1>2, PieceFields
<1>4. ASSUME NEW i \in DOMAIN Segs
      PROVE  ~(Segs[i].first <= x /\ x <= Segs[i].last)
  <2>1. Segs[i].first \in Nat /\ Segs[i].last \in Nat /\ i \in Nat BY <1>2, SegmentFields
  <2>2. CASE i < piece.at
    <3>1. Segs[i].last < piece.first BY <1>2, <2>2 DEF PieceAt, Passed
    <3> QED BY <1>1, <1>3, <2>1, <3>1
  <2>3. CASE i >= piece.at BY <1>1, <2>1, <2>3
  <2> QED BY <1>3, <2>1, <2>2, <2>3
<1>5. ~Holds(Segs, x) BY <1>4 DEF Holds
<1> QED BY <1>1, <1>5, RecordedHere, RecordedAt DEF Inv, Segs

\* The segments from the one the walk is at begin no earlier than it.
LEMMA BeyondCur ==
  ASSUME Inv, Adding, piece.at \in 1 .. Len(Segs), NEW i \in DOMAIN Segs, i >= piece.at
  PROVE  Cur.first <= Segs[i].first
<1>1. /\ GoodList(piece.quad, Segs) /\ Segs \in Seq(Segment) /\ DOMAIN Segs = 1 .. Len(Segs)
      /\ Len(Segs) \in Nat
  BY Walked
<1>2. Cur \in Segment /\ Segs[i] \in Segment /\ Cur.first <= Cur.last
  BY <1>1 DEF Cur, GoodList, Sorted, Placed
<1>3. Cur.first \in Nat /\ Cur.last \in Nat /\ Segs[i].first \in Nat BY <1>2, SegmentFields
<1>4. CASE i = piece.at BY <1>3, <1>4 DEF Cur
<1>5. CASE i > piece.at
  <2>1. Cur.last <= Segs[i].first BY <1>1, <1>5 DEF GoodList, Sorted, Cur
  <2> QED BY <1>2, <1>3, <2>1
<1> QED BY <1>1, <1>4, <1>5

\* What the steps that record bytes without counting them record is new.
LEMMA InsertBeforeNew ==
  ASSUME Inv, EdgesKept, InsertBefore
  PROVE  InPiece \cap Recorded = {}
<1>1. /\ Adding /\ piece.at \in 1 .. Len(Segs) /\ Segs \in Seq(Segment) /\ piece \in Pieces
      /\ piece.last < Cur.first
  BY InsertBeforeList, BeforeStrict, Walked
<1>2. Cur.first \in Nat /\ piece.last \in Nat BY <1>1, SegmentFields, PieceFields DEF Cur
<1>3. ASSUME NEW i \in DOMAIN Segs, i >= piece.at
      PROVE  piece.last < Segs[i].first
  <2>1. Cur.first <= Segs[i].first /\ Segs[i].first \in Nat BY <1>1, <1>3, BeyondCur, SegmentFields
  <2> QED BY <1>1, <1>2, <2>1
<1>4. \A x \in InPiece : x <= piece.last BY <1>1, PieceInQuad
<1> QED BY <1>1, <1>2, <1>3, <1>4, NotRecorded

LEMMA SplitBeforeNew ==
  ASSUME Inv, SplitBefore
  PROVE  {x \in InPiece : x < Cur.first} \cap Recorded = {}
<1>1. /\ Adding /\ piece.at \in 1 .. Len(Segs) /\ Segs \in Seq(Segment) /\ piece \in Pieces
      /\ piece.first < Cur.first
  BY SplitBeforeList, Walked
<1>2. Cur.first \in Nat /\ piece.first \in Nat BY <1>1, SegmentFields, PieceFields DEF Cur
<1>3. Cur.first - 1 \in Nat BY <1>1, <1>2
<1>4. ASSUME NEW i \in DOMAIN Segs, i >= piece.at
      PROVE  Cur.first - 1 < Segs[i].first
  <2>1. Cur.first <= Segs[i].first /\ Segs[i].first \in Nat BY <1>1, <1>4, BeyondCur, SegmentFields
  <2> QED BY <1>2, <2>1
<1>5. \A x \in InPiece : x < Cur.first => x <= Cur.first - 1 BY <1>1, <1>2, PieceInQuad
<1> QED BY <1>1, <1>3, <1>4, <1>5, NotRecorded

LEMMA TackOnNew ==
  ASSUME Inv, TackOn
  PROVE  InPiece \cap Recorded = {}
<1>1. /\ Adding /\ piece.at = Len(Segs) + 1 /\ Segs \in Seq(Segment) /\ piece \in Pieces
      /\ piece.last \in Nat
  BY TackOnList, Walked, PieceFields
<1>2. \A i \in DOMAIN Segs : ~(i >= piece.at) BY <1>1
<1>3. \A x \in InPiece : x <= piece.last BY <1>1, PieceInQuad
<1> QED BY <1>1, <1>2, <1>3, NotRecorded

LEMMA CountedEffect ==
  ASSUME Inv, Counted, NEW G, Effect(G), dup' = dup,
         rexlen' = rexlen + Cardinality(G \cap Recorded)
  PROVE  Counted'
<1>1. Pending \subseteq SeqNums /\ G \subseteq Pending /\ IsFiniteSet(SeqNums)
  <2>1. IsFiniteSet(SeqNums)
    <3>1. 0 \in Int /\ SeqLimit - 1 \in Int BY SeqSpaceAssumption DEF SeqLimit
    <3> QED BY <3>1, FS_Interval DEF SeqNums
  <2> QED BY <2>1 DEF Effect, Pending, InPiece, InRest
<1> DEFINE a == Pending' \cap Recorded'
           b == G \cap Recorded
<1>2. Pending \cap Recorded = a \cup b /\ a \cap b = {} BY <1>1 DEF Effect
<1>3. a \subseteq SeqNums /\ b \subseteq SeqNums BY <1>1 DEF Effect
<1> HIDE DEF a, b
<1>4. IsFiniteSet(a) /\ IsFiniteSet(b) BY <1>1, <1>3, FS_Subset
<1>5. Cardinality(a) \in Nat /\ Cardinality(b) \in Nat /\ Cardinality(a \cap b) = 0
  BY <1>2, <1>4, FS_CardinalityType, FS_EmptySet
<1>6. Cardinality(Pending \cap Recorded) = Cardinality(a) + Cardinality(b)
  <2>1. Cardinality(a \cup b) = Cardinality(a) + Cardinality(b) - Cardinality(a \cap b) BY <1>4, FS_Union
  <2>2. Cardinality(Pending \cap Recorded) = Cardinality(a \cup b) BY <1>2
  <2>3. Cardinality(a \cup b) = Cardinality(a) + Cardinality(b) BY <1>5, <2>1
  <2> QED BY <2>2, <2>3
<1>7. rexlen \in Int /\ dup \in Nat BY DEF Inv, TypeOK
<1>8. rexlen' = rexlen + Cardinality(b) BY DEF b
<1>9. rexlen' + Cardinality(a) = dup /\ rexlen' >= 0 BY <1>5, <1>6, <1>7, <1>8 DEF Counted
<1> QED BY <1>9 DEF Counted, a

\* The retransmitted bytes that a step within a segment counts.
LEMMA WithinCount ==
  ASSUME Inv, WalkWithin
  PROVE  LET G == {x \in InPiece : x <= Cur.last}
         IN  /\ rexlen' = rexlen + Cardinality(G \cap Recorded)
             /\ rexlen' > rexlen
<1> DEFINE G == {x \in InPiece : x <= Cur.last}
           l == IF piece.last <= Cur.last THEN piece.last ELSE Cur.last
<1>1. /\ Adding /\ piece.first <= Cur.last /\ piece.first <= piece.last
      /\ piece.first \in Nat /\ piece.last \in Nat /\ Cur.last \in Nat
      /\ piece.last \in SeqNums
  BY WalkWithinList
<1>2. /\ piece.last <= Cur.last => rexlen' = rexlen + piece.last - piece.first + 1
      /\ ~(piece.last <= Cur.last) => rexlen' = rexlen + Cur.last - piece.first + 1
  BY <1>1, WalkWithinList
<1>3. rexlen \in Int BY DEF Inv, TypeOK
<1>4. /\ l \in Nat /\ piece.first <= l /\ l <= piece.last /\ l <= Cur.last
      /\ rexlen' = rexlen + (l - piece.first + 1)
      /\ \A x \in Nat : x <= piece.last /\ x <= Cur.last => x <= l
  BY <1>1, <1>2, <1>3
<1> HIDE DEF l
<1>5. G \cap Recorded = G BY WalkWithinEffect
<1>6. G = piece.first .. l
  <2>1. \A x \in SeqNums : x \in Nat BY SeqSpaceAssumption DEF SeqNums, SeqLimit
  <2>2. \A x \in piece.first .. l : x \in SeqNums /\ piece.first <= x /\ x <= piece.last /\ x <= Cur.last
    BY <1>1, <1>4, SeqSpaceAssumption DEF SeqNums, SeqLimit
  <2> DEFINE c == Cur.last
  <2>3. \A x \in Nat : x <= piece.last /\ x <= c => x <= l BY <1>4
  <2>4. G = {x \in InPiece : x <= c} OBVIOUS
  <2>5. \A x \in piece.first .. l : x \in SeqNums /\ piece.first <= x /\ x <= piece.last /\ x <= c BY <2>2
  <2> HIDE DEF c, G
  <2> QED BY <1>1, <1>4, <2>1, <2>3, <2>4, <2>5 DEF InPiece
<1>7. Cardinality(G) = l - piece.first + 1
  <2> DEFINE f == piece.first
  <2>1. f \in Int /\ l \in Int /\ ~(f > l) BY <1>1, <1>4
  <2> HIDE DEF f
  <2>2. Cardinality(f .. l) = IF f > l THEN 0 ELSE l - f + 1 BY <2>1, FS_Interval
  <2>3. Cardinality(f .. l) = l - f + 1 BY <2>1, <2>2
  <2> QED BY <1>6, <2>3 DEF f
<1> HIDE DEF G
<1>8. rexlen' > rexlen BY <1>1, <1>3, <1>4
<1>9. rexlen' = rexlen + Cardinality(G \cap Recorded) BY <1>4, <1>5, <1>7
<1> QED BY <1>8, <1>9 DEF G

LEMMA CountedStep ==
  ASSUME CutRight, Inv, EdgesKept, Counted, [Next]_vars
  PROVE  Counted'
<1>0. Cardinality({}) = 0 /\ rexlen \in Int /\ dup \in Nat BY FS_EmptySet DEF Inv, TypeOK
<1>1. ASSUME NEW seq, NEW len, <<seq, len>> \in Data, RecvData(seq, len)
      PROVE  Counted'
  <2> DEFINE q == QuadOf(seq)
             known == {s \in Recorded : QuadOf(s) # Opposite(q) \/ Settled(q)}
  <2>1. /\ Pending' = Bytes(seq, len)
        /\ \A s : s \in Recorded' <=> s \in Recorded /\ Stays(q, QuadOf(s))
    BY <1>1, RecvDataEffect
  <2>2. rexlen' = 0 /\ dup' = Cardinality(Bytes(seq, len) \cap known) BY <1>1 DEF RecvData, Bytes
  <2>3. Recorded' = known BY <2>1 DEF Stays
  <2>4. Cardinality(Pending' \cap Recorded') \in Nat
    <3>1. Pending' \cap Recorded' \subseteq SeqNums BY DEF Pending, InPiece, InRest
    <3> QED BY <3>1, SeqNumsFinite
  <2> HIDE DEF known
  <2> QED BY <2>1, <2>2, <2>3, <2>4 DEF Counted
<1>2. ASSUME NEW ack \in Acks, NEW nodata \in BOOLEAN, RecvAck(ack, nodata)
      PROVE  Counted'
  <2>1. Pending' = {} /\ rexlen' = 0 /\ dup' = 0 BY <1>2, RecvAckRecorded DEF RecvAck
  <2>2. Pending' \cap Recorded' = {} BY <2>1
  <2> QED BY <1>0, <2>1, <2>2 DEF Counted
<1>3. CASE WalkOn
  <2>1. Effect({}) /\ UNCHANGED rexlen /\ OthersKept BY <1>3, WalkOnEffect DEF WalkOn
  <2>2. rexlen' = rexlen + Cardinality({} \cap Recorded) BY <1>0, <2>1
  <2> QED BY <2>1, <2>2, CountedEffect DEF OthersKept, history
<1>4. CASE InsertBefore
  <2>1. Effect(InPiece) /\ rexlen' = rexlen /\ OthersKept /\ InPiece \cap Recorded = {}
    BY <1>4, InsertBeforeList, InsertBeforeEffect, InsertBeforeNew
  <2>2. rexlen' = rexlen + Cardinality(InPiece \cap Recorded) BY <1>0, <2>1
  <2> QED BY <2>1, <2>2, CountedEffect DEF OthersKept, history
<1>5. CASE SplitBefore
  <2> DEFINE G == {x \in InPiece : x < Cur.first}
  <2>1. Effect(G) /\ rexlen' = rexlen /\ OthersKept /\ G \cap Recorded = {}
    BY <1>5, SplitBeforeList, SplitBeforeEffect, SplitBeforeNew
  <2> HIDE DEF G
  <2>2. rexlen' = rexlen + Cardinality(G \cap Recorded) BY <1>0, <2>1
  <2> QED BY <2>1, <2>2, CountedEffect DEF OthersKept, history
<1>6. CASE WalkWithin
  <2> DEFINE G == {x \in InPiece : x <= Cur.last}
  <2>1. Effect(G) /\ rexlen' = rexlen + Cardinality(G \cap Recorded) /\ OthersKept
    BY <1>6, WalkWithinList, WalkWithinEffect, WithinCount
  <2> HIDE DEF G
  <2> QED BY <2>1, CountedEffect DEF OthersKept, history
<1>7. CASE TackOn
  <2>1. Effect(InPiece) /\ rexlen' = rexlen /\ OthersKept /\ InPiece \cap Recorded = {}
    BY <1>7, TackOnList, TackOnEffect, TackOnNew
  <2>2. rexlen' = rexlen + Cardinality(InPiece \cap Recorded) BY <1>0, <2>1
  <2> QED BY <2>1, <2>2, CountedEffect DEF OthersKept, history
<1>8. CASE Quiet
  <2>1. /\ UNCHANGED <<dup, rexlen>> /\ Pending' = Pending
        /\ (~Adding \/ UNCHANGED vars)
    BY <1>8, QuietEffect
  <2>2. Pending' \cap Recorded' = Pending \cap Recorded
    <3>1. CASE ~Adding
      <4>1. Pending = {} BY <3>1 DEF Pending, InPiece, InRest
      <4> QED BY <2>1, <4>1
    <3>2. CASE UNCHANGED vars
      <4>1. pquad' = pquad BY <3>2 DEF vars
      <4>2. Recorded' = Recorded BY <4>1 DEF Recorded, Exists
      <4> QED BY <2>1, <4>2
    <3> QED BY <2>1, <3>1, <3>2
  <2> QED BY <2>1, <2>2 DEF Counted
<1> QED BY <1>1, <1>2, <1>3, <1>4, <1>5, <1>6, <1>7, <1>8, Steps DEF Walks

\* A packet before something recorded meets it on its way through the
\* lists.
Ahead ==
  \E s \in Recorded : Adding /\ \/ QuadOf(s) = piece.quad /\ s >= piece.first
                                \/ rest # NoRest /\ QuadOf(s) = rest.quad
LateKnown == late => rexlen > 0 \/ order \/ Ahead

LEMMA LateStep ==
  ASSUME CutRight, Inv, EdgesKept, Counted, LateKnown, [Next]_vars
  PROVE  LateKnown'
<1>0. rexlen \in Int /\ order \in BOOLEAN BY DEF Inv, TypeOK
<1>1. ASSUME NEW seq, NEW len, <<seq, len>> \in Data, RecvData(seq, len)
      PROVE  LateKnown'
  <2> DEFINE q == QuadOf(seq)
             z == QuadOf(seq + len - 1)
             two == q # z
             known == {s \in Recorded : QuadOf(s) # Opposite(q) \/ Settled(q)}
  <2>1. /\ Adding' /\ piece'.quad = q /\ piece'.first = seq
        /\ two => rest' # NoRest /\ rest'.quad = z
    BY <1>1, RecvDataPiece
  <2>2. \A s : s \in Recorded' <=> s \in Recorded /\ Stays(q, QuadOf(s)) BY <1>1, RecvDataEffect
  <2>3. (seq + len - 1) % SeqLimit = seq + len - 1 BY <1>1, BytesSpan
  <2>4. late' = \E s \in known : (QuadOf(s) = q /\ s >= seq) \/ (two /\ QuadOf(s) = z)
    BY <1>1, <2>3 DEF RecvData
  <2>5. known = Recorded' BY <2>2 DEF Stays
  <2> HIDE DEF known, q, z
  <2> QED BY <2>1, <2>4, <2>5 DEF LateKnown, Ahead
<1>2. ASSUME NEW ack \in Acks, NEW nodata \in BOOLEAN, RecvAck(ack, nodata)
      PROVE  LateKnown'
  BY <1>2 DEF RecvAck, LateKnown
<1>3. CASE WalkOn
  <2>1. /\ UNCHANGED <<pquad, pc, rest, rexlen, order>> /\ piece' = [piece EXCEPT !.at = @ + 1]
        /\ late' = late /\ Adding
    BY <1>3 DEF WalkOn, OthersKept, history, Adding, Walking
  <2>2. piece'.first = piece.first /\ piece'.quad = piece.quad /\ Recorded' = Recorded
    BY <2>1, Walked DEF Pieces, Recorded, Exists
  <2> QED BY <2>1, <2>2 DEF LateKnown, Ahead, Adding
<1>4. CASE InsertBefore
  <2>1. /\ order' = (order \/ piece.last < Cur.last)
        /\ piece.at \in 1 .. Len(Segs) /\ Segs \in Seq(Segment) /\ Cur.first <= Cur.last
        /\ piece.last < Cur.first /\ piece \in Pieces
    BY <1>4, InsertBeforeList, BeforeStrict, Walked
  <2>2. Cur.first \in Nat /\ Cur.last \in Nat /\ piece.last \in Nat
    BY <2>1, SegmentFields, PieceFields DEF Cur
  <2>3. piece.last < Cur.last BY <2>1, <2>2
  <2> QED BY <2>1, <2>3 DEF LateKnown
<1>5. CASE SplitBefore
  <2>1. /\ Adding /\ Adding' /\ piece.at \in 1 .. Len(Segs) /\ Segs \in Seq(Segment)
        /\ piece.quad \in Quads /\ QuadOf(Cur.first) = piece.quad /\ Cur.first \in SeqNums
        /\ Cur.first <= Cur.last
        /\ piece'.quad = piece.quad /\ piece'.first = Cur.first
    BY <1>5, SplitBeforeList
  <2>2. Effect({x \in InPiece : x < Cur.first}) BY <1>5, SplitBeforeEffect
  <2>3. Cur.first \in Recorded
    <3>1. Cur.first \in Nat /\ piece.at \in DOMAIN Segs /\ pquad[piece.quad] # NoQuad
      BY <2>1, SegmentFields, Walked DEF Cur
    <3>2. Holds(Segs, Cur.first) BY <2>1, <3>1 DEF Holds, Cur
    <3> DEFINE c == Cur.first
    <3>3. c \in SeqNums /\ QuadOf(c) = piece.quad /\ Holds(Segs, c) BY <2>1, <3>2
    <3> HIDE DEF c
    <3>4. c \in Recorded BY <3>1, <3>3, RecordedHere, RecordedAt DEF Inv, Segs
    <3> QED BY <3>4 DEF c
  <2>4. Cur.first \in Recorded' /\ Cur.first >= piece'.first
    BY <2>1, <2>2, <2>3, SeqSpaceAssumption DEF Effect, SeqNums, SeqLimit
  <2>5. Ahead' BY <2>1, <2>4 DEF Ahead
  <2> QED BY <2>5 DEF LateKnown
<1>6. CASE WalkWithin
  <2>1. rexlen' > rexlen /\ rexlen >= 0 /\ rexlen' \in Int
    <3>1. Inv' BY <1>6, WalkWithinStep
    <3> QED BY <1>6, <3>1, WithinCount DEF Counted, Inv, TypeOK
  <2>2. rexlen' > 0 BY <1>0, <2>1
  <2> QED BY <2>2 DEF LateKnown
<1>7. CASE TackOn
  <2>1. /\ Adding /\ Return /\ UNCHANGED <<rexlen, order, late>>
        /\ Segs \in Seq(Segment) /\ Passed(Segs, Len(Segs) + 1, piece.first)
        /\ piece.first \in SeqNums /\ pquad[piece.quad] # NoQuad
    BY <1>7, TackOnList, Walked DEF OthersKept, history
  <2>2. Recorded \subseteq Recorded' BY <1>7, TackOnEffect DEF Effect
  <2>3. ASSUME NEW s \in Recorded, QuadOf(s) = piece.quad, s >= piece.first
        PROVE  FALSE
    <3>1. s \in SeqNums /\ Holds(Segs, s) BY <2>3, RecordedHere, RecordedAt DEF Inv, Segs
    <3>2. PICK i \in DOMAIN Segs : Segs[i].first <= s /\ s <= Segs[i].last BY <3>1 DEF Holds
    <3>3. i < Len(Segs) + 1 /\ Segs[i].last \in Nat BY <2>1, <3>2, SegmentFields
    <3>4. Segs[i].last < piece.first BY <2>1, <3>2, <3>3 DEF Passed
    <3>5. s \in Nat /\ piece.first \in Nat BY <2>1, <3>1, SeqSpaceAssumption DEF SeqNums, SeqLimit
    <3> QED BY <2>3, <3>2, <3>3, <3>4, <3>5
  <2>4. ASSUME Ahead
        PROVE  Ahead'
    <3>1. PICK s \in Recorded : rest # NoRest /\ QuadOf(s) = rest.quad BY <2>3, <2>4 DEF Ahead
    <3>2. Adding' /\ piece'.quad = rest.quad /\ piece'.first = rest.first BY <2>1, <3>1, ReturnPiece
    <3>3. rest.quad \in Quads /\ rest.first = FirstSeq(rest.quad) /\ s \in SeqNums
      BY <2>1, <3>1, RecordedHere, RecordedAt DEF Inv, RestSound, TypeOK
    <3>4. s \in Nat /\ rest.quad \in Nat BY <3>3, SeqSpaceAssumption DEF SeqNums, SeqLimit, Quads
    <3>5. FirstSeq(rest.quad) <= s BY <3>1, <3>4, QuadRange
    <3>6. s >= piece'.first BY <3>2, <3>3, <3>4, <3>5, SeqSpaceAssumption DEF FirstSeq
    <3> QED BY <2>2, <3>1, <3>2, <3>6 DEF Ahead
  <2> QED BY <2>1, <2>4 DEF LateKnown
<1>8. CASE Quiet
  <2>1. UNCHANGED <<late, rexlen, order>> /\ (~Adding \/ UNCHANGED vars) BY <1>8, QuietEffect
  <2>2. CASE ~Adding BY <2>1, <2>2 DEF LateKnown, Ahead
  <2>3. CASE UNCHANGED vars
    <3>1. UNCHANGED <<pquad, pc, piece, rest>> BY <2>3 DEF vars, work
    <3> QED BY <2>1, <3>1 DEF LateKnown, Ahead, Recorded, Exists, Adding
  <2> QED BY <2>1, <2>2, <2>3
<1> QED BY <1>1, <1>2, <1>3, <1>4, <1>5, <1>6, <1>7, <1>8, Steps DEF Walks

LEMMA EdgesInvariant == ASSUME CutRight, NoByteShared PROVE Spec => []EdgesKept
<1>1. Init => EdgesKept BY DEF Init, EdgesKept, Adding, Exists
<1>2. Inv /\ EdgesKept /\ [Next]_vars => EdgesKept' BY CutRight, NoByteShared, EdgesStep
<1>3. Spec => []Inv BY CutRight, Invariant
<1> QED BY <1>1, <1>2, <1>3, PTL DEF Spec

\* What rexmit tells tcp.c of a packet (rexmit.c:99-207) is true: how many
\* of its bytes are recorded already, and that a packet with none of them,
\* and not out of order, comes after everything recorded.
THEOREM CountsRight ==
  ASSUME CutRight, NoByteShared
  PROVE  Spec => []Retransmissions
<1>1. Init => Counted /\ LateKnown
  <2>1. ASSUME Init
        PROVE  Counted /\ LateKnown
    <3>1. pc = "idle" /\ rexlen = 0 /\ dup = 0 /\ ~late BY <2>1 DEF Init
    <3>2. Pending \cap Recorded = {} BY <3>1 DEF Pending, InPiece, InRest, Adding
    <3>3. rexlen + Cardinality({}) = dup /\ rexlen >= 0 BY <3>1, FS_EmptySet
    <3> QED BY <3>1, <3>2, <3>3 DEF Counted, LateKnown
  <2> QED BY <2>1
<1>2. Inv /\ EdgesKept /\ Counted /\ [Next]_vars => Counted' BY CutRight, CountedStep
<1>3. Inv /\ EdgesKept /\ Counted /\ LateKnown /\ [Next]_vars => LateKnown' BY CutRight, LateStep
<1>4. Inv /\ Counted /\ LateKnown => Retransmissions
  <2>1. ASSUME Inv, Counted, LateKnown, pc = "idle"
        PROVE  rexlen = dup /\ (late => rexlen > 0 \/ order)
    <3>1. ~Adding /\ Pending \cap Recorded = {} /\ rexlen \in Int /\ ~Ahead
      BY <2>1 DEF Pending, InPiece, InRest, Adding, Inv, TypeOK, Ahead
    <3>2. rexlen + Cardinality({}) = dup BY <2>1, <3>1 DEF Counted
    <3>3. rexlen = dup BY <3>1, <3>2, FS_EmptySet
    <3> QED BY <2>1, <3>1, <3>3 DEF LateKnown
  <2> QED BY <2>1 DEF Retransmissions, RexmitCount, InOrderMeansNew
<1>5. Spec => []Inv /\ []EdgesKept BY CutRight, NoByteShared, Invariant, EdgesInvariant
<1> QED BY <1>1, <1>2, <1>3, <1>4, <1>5, PTL DEF Spec

------------------------------
\* The segments that the packet may yet meet.  retrans, an u_char, counts
\* at most one retransmission per packet, so it does not come back to 0
\* as long as there are no more packets than it can count.
ToPass(q, i) == Adding /\ \/ q = piece.quad /\ i >= piece.at
                          \/ rest # NoRest /\ q = rest.quad
NoWrap ==
  \A q \in Quads : Exists(q) => \A i \in DOMAIN pquad[q].segs :
    /\ pquad[q].segs[i].retrans <= packets
    /\ ToPass(q, i) => pquad[q].segs[i].retrans < packets

LEMMA ReturnToPass ==
  ASSUME Inv, Adding, Return, NEW k, NEW i, ToPass(k, i)'
  PROVE  ToPass(k, i) /\ k # piece.quad
<1>1. rest # NoRest /\ k = rest.quad BY ReturnPiece DEF ToPass
<1> QED BY <1>1 DEF ToPass, Inv, RestSound

LEMMA GoOnToPass ==
  ASSUME Inv, Adding, Adding', piece'.quad = piece.quad, piece'.at = piece.at + 1, rest' = rest,
         NEW k, NEW i, ToPass(k, i)'
  PROVE  /\ k # piece.quad => ToPass(k, i)
         /\ k = piece.quad => i >= piece.at + 1
BY DEF ToPass, Inv, RestSound

LEMMA NoWrapSet ==
  ASSUME Inv, NoWrap, Adding, packets' = packets, NEW q, q = piece.quad,
         NEW s, GoodList(q, s), SetSegs(q, s),
         \A k, i : ToPass(k, i)' /\ k # q => ToPass(k, i),
         \A i \in DOMAIN s : /\ s[i].retrans <= packets
                             /\ ToPass(q, i)' => s[i].retrans < packets
  PROVE  NoWrap'
<1>1. Relisted(pquad, q, s, pquad') BY Walked, PieceFields, NewList DEF SetSegs, Inv
<1>2. ASSUME NEW k \in Quads, pquad'[k] # NoQuad, NEW i \in DOMAIN pquad'[k].segs
      PROVE  /\ pquad'[k].segs[i].retrans <= packets
             /\ ToPass(k, i)' => pquad'[k].segs[i].retrans < packets
  <2>1. CASE k = q BY <1>1, <1>2, <2>1 DEF Relisted
  <2>2. CASE k # q
    <3>1. pquad'[k] = pquad[k] /\ pquad[k] # NoQuad BY <1>1, <1>2, <2>2 DEF Relisted
    <3>2. /\ pquad[k].segs[i].retrans <= packets
          /\ ToPass(k, i) => pquad[k].segs[i].retrans < packets
      BY <1>2, <3>1 DEF NoWrap, Exists
    <3> QED BY <2>2, <3>1, <3>2
  <2> QED BY <2>1, <2>2
<1> QED BY <1>2 DEF NoWrap, Exists

LEMMA InsertedFrom ==
  ASSUME NEW s \in Seq(Segment), NEW i \in 1 .. Len(s), NEW e \in Segment,
         NEW k \in DOMAIN InsertAt(s, i, e)
  PROVE  \/ InsertAt(s, i, e)[k] = e /\ k = i
         \/ \E j \in DOMAIN s : InsertAt(s, i, e)[k] = s[j] /\ ((k < i /\ j = k) \/ (k > i /\ j = k - 1))
<1> DEFINE t == InsertAt(s, i, e)
<1>1. t \in Seq(Segment) /\ Inserted(s, i, e, t) /\ Len(s) \in Nat /\ DOMAIN s = 1 .. Len(s) BY Insertion
<1> HIDE DEF t
<1>2. k \in 1 .. Len(s) + 1 /\ t[k] = IF k < i THEN s[k] ELSE IF k = i THEN e ELSE s[k - 1]
  BY <1>1 DEF Inserted, t
<1>3. CASE k = i BY <1>2, <1>3 DEF t
<1>4. CASE k < i BY <1>1, <1>2, <1>4 DEF t
<1>5. CASE k > i
  <2>1. t[k] = s[k - 1] /\ k - 1 \in DOMAIN s BY <1>1, <1>2, <1>5
  <2> QED BY <1>5, <2>1 DEF t
<1> QED BY <1>2, <1>3, <1>4, <1>5

\* Dropping the first segment leaves the others, one with another begin.
Alike(a, b) == a.last = b.last /\ a.acked = b.acked /\ a.retrans = b.retrans /\ a.time = b.time

LEMMA CappedFrom ==
  ASSUME NEW s \in Seq(Segment), NEW k \in DOMAIN Capped(s)
  PROVE  \E j \in DOMAIN s : Alike(Capped(s)[k], s[j])
<1>1. CASE ~(Len(s) > MaxSegPerQuad) BY <1>1 DEF Capped, Alike
<1>2. CASE Len(s) > MaxSegPerQuad
  <2> DEFINE e == [s[2] EXCEPT !.first = s[1].first]
             t == Capped(s)
  <2>1. /\ Len(s) >= 2 /\ Len(s) \in Nat /\ DOMAIN t = 1 .. Len(s) - 1 /\ t[1] = e
        /\ e.last = s[2].last /\ e.acked = s[2].acked /\ e.retrans = s[2].retrans
        /\ e.time = s[2].time
        /\ \A j \in 2 .. Len(s) - 1 : t[j] = s[j + 1]
    BY <1>2, CappedAt
  <2>2. k \in DOMAIN t OBVIOUS
  <2> HIDE DEF t, e
  <2>3. CASE k = 1
    <3>1. 2 \in DOMAIN s BY <2>1
    <3> QED BY <2>1, <2>3, <3>1 DEF Alike, t
  <2>4. CASE k # 1
    <3>1. t[k] = s[k + 1] /\ k + 1 \in DOMAIN s BY <2>1, <2>2, <2>4
    <3> QED BY <3>1 DEF Alike, t
  <2> QED BY <2>3, <2>4
<1> QED BY <1>1, <1>2

LEMMA AppendedFrom ==
  ASSUME NEW s \in Seq(Segment), NEW e \in Segment, NEW k \in DOMAIN Append(s, e)
  PROVE  Append(s, e)[k] = e \/ \E j \in DOMAIN s : Append(s, e)[k] = s[j]
<1> DEFINE t == Append(s, e)
<1>1. /\ DOMAIN t = 1 .. Len(s) + 1 /\ DOMAIN s = 1 .. Len(s) /\ Len(s) \in Nat
      /\ t[Len(s) + 1] = e /\ \A j \in 1 .. Len(s) : t[j] = s[j]
  OBVIOUS
<1>2. k \in DOMAIN t OBVIOUS
<1> HIDE DEF t
<1>3. t[k] = e \/ \E j \in DOMAIN s : t[k] = s[j] BY <1>1, <1>2
<1> QED BY <1>3 DEF t

LEMMA WalksNoWrap ==
  ASSUME RetransMod > MaxPackets, Inv, NoWrap, Walks
  PROVE  NoWrap'
<1> PICK q : q = piece.quad OBVIOUS
<1>0. /\ Adding /\ packets' = packets /\ packets \in Nat /\ q \in Quads
      /\ Segs \in Seq(Segment) /\ piece.at \in Nat /\ Len(Segs) \in Nat
      /\ RetransMod \in Nat /\ MaxPackets \in Nat /\ packets <= MaxPackets
  BY WalksEffect, Walked, PieceFields, SeqSpaceAssumption DEF Inv, TypeOK
<1>1. ASSUME NEW i \in DOMAIN Segs
      PROVE  /\ Segs[i].retrans <= packets
             /\ i >= piece.at => Segs[i].retrans < packets
             /\ Segs[i].retrans \in Nat
  <2>1. pquad[q] # NoQuad /\ i \in DOMAIN pquad[q].segs /\ pquad[q].segs[i] = Segs[i] BY <1>0, Walked DEF Segs
  <2>2. Segs[i].retrans \in Nat BY <1>0, SegmentFields
  <2> QED BY <1>0, <2>1, <2>2 DEF NoWrap, Exists, ToPass
<1>2. ASSUME Return
      PROVE  \A k, i : ToPass(k, i)' => ToPass(k, i) /\ k # q
  BY <1>0, <1>2, ReturnToPass
<1>3. ASSUME Adding', piece'.quad = q, piece'.at = piece.at + 1, rest' = rest
      PROVE  /\ \A k, i : ToPass(k, i)' /\ k # q => ToPass(k, i)
             /\ \A i : ToPass(q, i)' => i >= piece.at + 1
  BY <1>0, <1>3, GoOnToPass
<1>4. \A a, b : NewSeg(a, b).retrans = 0 BY DEF NewSeg
<1>5. CASE WalkOn
  <2>1. /\ UNCHANGED <<pquad, pc, rest>> /\ piece' = [piece EXCEPT !.at = @ + 1] BY <1>5 DEF WalkOn
  <2>2. piece'.at = piece.at + 1 /\ piece'.quad = q /\ Adding' BY <1>0, <2>1, Walked DEF Pieces, Adding
  <2>3. \A k, i : ToPass(k, i)' /\ k # q => ToPass(k, i) BY <1>3, <2>1, <2>2
  <2>4. \A i \in DOMAIN Segs : ToPass(q, i)' => Segs[i].retrans < packets
    <3>1. ASSUME NEW i \in DOMAIN Segs, ToPass(q, i)'
          PROVE  Segs[i].retrans < packets
      <4>1. i >= piece.at + 1 BY <1>3, <2>1, <2>2, <3>1
      <4>2. i >= piece.at BY <1>0, <4>1
      <4> QED BY <1>1, <4>2
    <3> QED BY <3>1
  <2>5. ASSUME NEW k \in Quads, pquad[k] # NoQuad, NEW i \in DOMAIN pquad[k].segs
        PROVE  /\ pquad[k].segs[i].retrans <= packets
               /\ ToPass(k, i)' => pquad[k].segs[i].retrans < packets
    <3>1. CASE k = q BY <1>1, <2>4, <2>5, <3>1 DEF Segs
    <3>2. CASE k # q BY <2>3, <2>5, <3>2 DEF NoWrap, Exists
    <3> QED BY <3>1, <3>2
  <2> QED BY <1>0, <2>1, <2>5 DEF NoWrap, Exists
<1>6. CASE InsertBefore
  <2> DEFINE e == NewSeg(piece.first, piece.last)
             s == InsertAt(Segs, piece.at, e)
  <2>1. /\ Return /\ piece.at \in 1 .. Len(Segs) /\ e \in Segment
        /\ GoodList(q, s) /\ SetSegs(q, s)
    BY <1>6, InsertBeforeList
  <2>2. e.retrans = 0 BY <1>4
  <2> HIDE DEF e
  <2>3. \A k \in DOMAIN s : s[k] = e \/ \E j \in DOMAIN Segs : s[k] = Segs[j] BY <1>0, <2>1, InsertedFrom
  <2> HIDE DEF s
  <2>4. \A k \in DOMAIN s : s[k].retrans <= packets BY <1>0, <1>1, <2>2, <2>3
  <2> QED BY <1>0, <1>2, <2>1, <2>4, NoWrapSet
<1>7. CASE SplitBefore
  <2> DEFINE e == NewSeg(piece.first, Cur.first - 1)
             s == InsertAt(Segs, piece.at, e)
  <2>1. /\ Adding' /\ piece'.quad = q /\ piece'.at = piece.at + 1 /\ rest' = rest
        /\ piece.at \in 1 .. Len(Segs) /\ e \in Segment
        /\ GoodList(q, s) /\ SetSegs(q, s)
    BY <1>7, SplitBeforeList
  <2>2. e.retrans = 0 BY <1>4
  <2> HIDE DEF e
  <2>3. \A k \in DOMAIN s :
          \/ s[k] = e /\ k = piece.at
          \/ \E j \in DOMAIN Segs :
               s[k] = Segs[j] /\ ((k < piece.at /\ j = k) \/ (k > piece.at /\ j = k - 1))
    BY <1>0, <2>1, InsertedFrom
  <2>4. \A k \in DOMAIN s : k \in Nat BY <2>1 DEF GoodList
  <2> HIDE DEF s
  <2>5. ASSUME NEW k \in DOMAIN s
        PROVE  s[k].retrans <= packets /\ (k >= piece.at + 1 => s[k].retrans < packets)
    <3>1. CASE s[k] = e /\ k = piece.at BY <1>0, <2>2, <3>1
    <3>2. CASE \E j \in DOMAIN Segs :
                 s[k] = Segs[j] /\ ((k < piece.at /\ j = k) \/ (k > piece.at /\ j = k - 1))
      <4>1. PICK j \in DOMAIN Segs :
              s[k] = Segs[j] /\ ((k < piece.at /\ j = k) \/ (k > piece.at /\ j = k - 1))
        BY <3>2
      <4>2. k >= piece.at + 1 => j >= piece.at BY <1>0, <2>4, <4>1
      <4> QED BY <1>1, <4>1, <4>2
    <3> QED BY <2>3, <3>1, <3>2
  <2>6. \A k \in DOMAIN s : /\ s[k].retrans <= packets
                            /\ ToPass(q, k)' => s[k].retrans < packets
    BY <1>3, <2>1, <2>5
  <2>7. \A k, i : ToPass(k, i)' /\ k # q => ToPass(k, i) BY <1>3, <2>1
  <2> QED BY <1>0, <2>1, <2>6, <2>7, NoWrapSet
<1>8. CASE WalkWithin
  <2> DEFINE e == Resent(Cur)
             s == ReplaceAt(Segs, piece.at, e)
  <2>1. /\ piece.at \in 1 .. Len(Segs) /\ Cur \in Segment /\ e \in Segment
        /\ GoodList(q, s) /\ SetSegs(q, s)
        /\ Return \/ (/\ Adding' /\ piece'.quad = q /\ piece'.at = piece.at + 1
                      /\ rest' = rest)
    BY <1>8, WalkWithinList
  <2>2. e.retrans <= packets
    <3>1. Cur.retrans < packets /\ Cur.retrans \in Nat BY <1>0, <1>1, <2>1 DEF Cur
    <3>2. (Cur.retrans + 1) % RetransMod = Cur.retrans + 1 BY <1>0, <3>1, SMTT(30)
    <3>3. e.retrans = (Cur.retrans + 1) % RetransMod BY <2>1, ResentSame
    <3> QED BY <1>0, <3>1, <3>2, <3>3
  <2> HIDE DEF e
  <2>3. DOMAIN s = DOMAIN Segs /\ \A k \in DOMAIN Segs : s[k] = IF k = piece.at THEN e ELSE Segs[k]
    BY <1>0, <2>1, ReplacedAt
  <2> HIDE DEF s
  <2>4. \A k \in DOMAIN s : s[k].retrans <= packets BY <1>1, <2>2, <2>3
  <2>5. CASE Return BY <1>0, <1>2, <2>1, <2>4, <2>5, NoWrapSet
  <2>6. CASE Adding' /\ piece'.quad = q /\ piece'.at = piece.at + 1 /\ rest' = rest
    <3>1. ASSUME NEW k \in DOMAIN s, ToPass(q, k)'
          PROVE  s[k].retrans < packets
      <4>1. k >= piece.at + 1 BY <1>3, <2>6, <3>1
      <4>2. k # piece.at /\ k >= piece.at BY <1>0, <2>3, <4>1
      <4> QED BY <1>1, <2>3, <4>2
    <3>2. \A k, i : ToPass(k, i)' /\ k # q => ToPass(k, i) BY <1>3, <2>6
    <3> QED BY <1>0, <2>1, <2>4, <3>1, <3>2, NoWrapSet
  <2> QED BY <2>1, <2>5, <2>6
<1>9. CASE TackOn
  <2> DEFINE e == NewSeg(piece.first, piece.last)
             r == Append(Segs, e)
             s == Capped(r)
  <2>1. /\ Return /\ e \in Segment /\ r \in Seq(Segment)
        /\ GoodList(q, s) /\ SetSegs(q, s)
    BY <1>9, TackOnList DEF GoodList
  <2>2. e.retrans = 0 BY <1>4
  <2> HIDE DEF e
  <2>3. \A k \in DOMAIN r : r[k] = e \/ \E j \in DOMAIN Segs : r[k] = Segs[j] BY <1>0, <2>1, AppendedFrom
  <2> HIDE DEF r
  <2>4. \A k \in DOMAIN r : r[k].retrans <= packets BY <1>0, <1>1, <2>2, <2>3
  <2>5. \A k \in DOMAIN s : \E j \in DOMAIN r : Alike(s[k], r[j]) BY <2>1, CappedFrom
  <2> HIDE DEF s
  <2>6. \A k \in DOMAIN s : s[k].retrans <= packets BY <2>4, <2>5 DEF Alike
  <2> QED BY <1>0, <1>2, <2>1, <2>6, NoWrapSet
<1> QED BY <1>5, <1>6, <1>7, <1>8, <1>9 DEF Walks

LEMMA NoWrapStep ==
  ASSUME CutRight, RetransMod > MaxPackets, Inv, NoWrap, [Next]_vars
  PROVE  NoWrap'
<1>0. packets \in Nat BY SeqSpaceAssumption DEF Inv, TypeOK
<1>a. ASSUME NEW q \in Quads, NEW u, u = WhichQuad(q), NEW k \in Quads, u[k] # NoQuad,
             NEW i \in DOMAIN u[k].segs
      PROVE  u[k].segs[i].retrans <= packets /\ u[k].segs[i].retrans \in Nat
  <2>1. /\ Stays(q, k) /\ pquad[k] # NoQuad => u[k].segs = pquad[k].segs
        /\ ~Stays(q, k) => u[k] = NoQuad
        /\ pquad[k] = NoQuad => u[k].segs = <<>>
    BY <1>a, AroundSegs DEF Inv
  <2>2. pquad[k] # NoQuad /\ u[k].segs = pquad[k].segs BY <1>a, <2>1
  <2>3. u[k].segs \in Seq(Segment) BY <2>2 DEF Inv, GoodQuads, GoodList
  <2> QED BY <2>2, <2>3, SegmentFields DEF NoWrap, Exists
<1>1. ASSUME NEW seq, NEW len, <<seq, len>> \in Data, RecvData(seq, len)
      PROVE  NoWrap'
  <2>1. pquad' = WhichQuad(QuadOf(seq)) /\ packets' = packets + 1 /\ QuadOf(seq) \in Quads
    BY <1>1, RecvDataPiece DEF RecvData
  <2>2. ASSUME NEW k \in Quads, pquad'[k] # NoQuad, NEW i \in DOMAIN pquad'[k].segs
        PROVE  pquad'[k].segs[i].retrans < packets'
    <3>1. pquad'[k].segs[i].retrans <= packets /\ pquad'[k].segs[i].retrans \in Nat BY <1>a, <2>1, <2>2
    <3> QED BY <1>0, <2>1, <3>1
  <2>3. ASSUME NEW k \in Quads, pquad'[k] # NoQuad, NEW i \in DOMAIN pquad'[k].segs
        PROVE  pquad'[k].segs[i].retrans <= packets'
    <3>1. pquad'[k].segs[i].retrans <= packets /\ pquad'[k].segs[i].retrans \in Nat BY <1>a, <2>1, <2>3
    <3> QED BY <1>0, <2>1, <3>1
  <2> QED BY <2>2, <2>3 DEF NoWrap, Exists
<1>2. ASSUME NEW ack \in Acks, NEW nodata \in BOOLEAN, RecvAck(ack, nodata)
      PROVE  NoWrap'
  <2> DEFINE u == WhichQuad(QuadOf(ack))
  <2>1. ~Adding' /\ QuadOf(ack) \in Quads /\ packets' = packets + 1 BY <1>2, RecvAckRecorded DEF RecvAck
  <2>2. ASSUME NEW k \in Quads, pquad'[k] # NoQuad, NEW i \in DOMAIN pquad'[k].segs
        PROVE  pquad'[k].segs[i].retrans <= packets'
    <3>1. /\ u[k] # NoQuad /\ i \in DOMAIN u[k].segs
          /\ pquad'[k].segs[i].retrans = u[k].segs[i].retrans
      BY <1>2, <2>2, RecvAckSegs
    <3>2. u[k].segs[i].retrans <= packets /\ u[k].segs[i].retrans \in Nat BY <1>a, <2>1, <3>1
    <3> HIDE DEF u
    <3> QED BY <1>0, <2>1, <3>1, <3>2
  <2> QED BY <2>1, <2>2 DEF NoWrap, Exists, ToPass
<1>3. CASE Walks BY <1>3, WalksNoWrap
<1>4. CASE Quiet
  <2>1. CASE Collapse
    <3> DEFINE q == todo[1]
               e == Merged(Here, Following)
               s == RemoveAt(ReplaceAt(Target, piece.at, e), piece.at + 1)
    <3>1. /\ ~Adding' /\ q \in Quads /\ pquad[q] # NoQuad /\ GoodList(q, Target)
          /\ piece.at \in 1 .. Len(Target) - 1 /\ Relisted(pquad, q, s, pquad')
          /\ packets' = packets
      BY <2>1, CollapseList DEF KeptByCollapse
    <3>2. /\ Target \in Seq(Segment) /\ Len(Target) \in Nat /\ DOMAIN Target = 1 .. Len(Target)
          /\ \A i \in DOMAIN Target : Target[i].retrans <= packets
      BY <3>1 DEF NoWrap, Exists, Target, GoodList
    <3>3. /\ e.retrans = Target[piece.at].retrans /\ DOMAIN s = 1 .. Len(Target) - 1
          /\ \A k \in 1 .. Len(Target) - 1 :
               s[k] = IF k < piece.at THEN Target[k] ELSE IF k = piece.at THEN e ELSE Target[k + 1]
      BY <3>1, <3>2, MergedAt DEF Here, Following
    <3> HIDE DEF s, e
    <3>4. ASSUME NEW k \in DOMAIN s
          PROVE  s[k].retrans <= packets
      <4>1. k \in DOMAIN Target /\ k + 1 \in DOMAIN Target /\ piece.at \in DOMAIN Target BY <3>1, <3>2, <3>3
      <4>2. s[k] = Target[k] \/ s[k] = e \/ s[k] = Target[k + 1] BY <3>3
      <4> QED BY <3>2, <3>3, <4>1, <4>2
    <3> QED BY <3>1, <3>4 DEF NoWrap, Exists, Relisted, ToPass
  <2>2. CASE ~Collapse
    <3>1. UNCHANGED <<pquad, packets>> /\ ((~Adding /\ ~Adding') \/ UNCHANGED vars) BY <1>4, <2>2, QuietEffect
    <3>2. CASE ~Adding' BY <3>1, <3>2 DEF NoWrap, Exists, ToPass
    <3>3. CASE UNCHANGED vars
      <4>1. UNCHANGED <<pquad, pc, piece, rest, packets>> BY <3>3 DEF vars, work
      <4> QED BY <4>1 DEF NoWrap, Exists, ToPass, Adding
    <3> QED BY <3>1, <3>2, <3>3
  <2> QED BY <2>1, <2>2
<1> QED BY <1>1, <1>2, <1>3, <1>4, Steps

------------------------------
\* A byte of the packet that is not recorded is sent for the first time.
Unsent == \A s \in Pending \ Recorded : tx[s] = 1 /\ sent[s] = now

LEMMA UnsentStep ==
  ASSUME CutRight, Inv, Remembered, Unsent, [Next]_vars
  PROVE  Unsent'
<1>1. ASSUME NEW seq, NEW len, <<seq, len>> \in Data, RecvData(seq, len)
      PROVE  Unsent'
  <2> DEFINE q == QuadOf(seq)
  <2>1. /\ Pending = {} /\ Pending' = Bytes(seq, len)
        /\ \A s : s \in Recorded' <=> s \in Recorded /\ Stays(q, QuadOf(s))
    BY <1>1, RecvDataEffect
  <2>2. /\ tx' = [s \in SeqNums |-> IF s \in Bytes(seq, len) THEN Kept(q)[s] + 1 ELSE Kept(q)[s]]
        /\ sent' = [s \in SeqNums |-> IF s \in Bytes(seq, len) THEN now ELSE sent[s]]
        /\ now' = now
    BY <1>1 DEF RecvData, Bytes
  <2>3. \A s \in SeqNums : Kept(q)[s] = IF Stays(q, QuadOf(s)) THEN tx[s] ELSE 0 BY DEF Kept, Stays
  <2>4. \A s \in SeqNums : tx[s] \in Nat BY DEF Inv, TypeOK
  <2>5. \A s \in Pending' : s \in SeqNums BY DEF Pending, InPiece, InRest
  <2> HIDE DEF q
  <2>6. ASSUME NEW s \in Pending', s \notin Recorded'
        PROVE  tx'[s] = 1 /\ sent'[s] = now'
    <3>1. ~(tx[s] > 0 /\ Stays(q, QuadOf(s))) BY <2>1, <2>5, <2>6 DEF Remembered
    <3>2. Kept(q)[s] = 0 BY <2>3, <2>4, <2>5, <3>1
    <3> QED BY <2>1, <2>2, <2>5, <3>2
  <2> QED BY <2>6 DEF Unsent
<1>2. ASSUME NEW ack \in Acks, NEW nodata \in BOOLEAN, RecvAck(ack, nodata)
      PROVE  Unsent'
  BY <1>2, RecvAckRecorded DEF Unsent
<1>3. CASE Walks BY <1>3, WalksEffect DEF Unsent, Effect
<1>4. CASE Quiet
  <2>1. CASE ~Adding
    <3>1. Pending' = {} BY <1>4, <2>1, QuietEffect DEF Pending, InPiece, InRest
    <3> QED BY <3>1 DEF Unsent
  <2>2. CASE UNCHANGED vars
    <3>1. UNCHANGED <<pquad, tx, sent, now>> /\ Pending' = Pending BY <1>4, <2>2, QuietEffect DEF vars
    <3> QED BY <3>1 DEF Unsent, Recorded, Exists
  <2> QED BY <1>4, <2>1, <2>2, QuietEffect
<1> QED BY <1>1, <1>2, <1>3, <1>4, Steps

\* The last byte of a segment that is neither acknowledged nor counted as
\* retransmitted was sent once, when the segment says it was.
SentOnce(g, p, t, w) ==
  g.acked = 0 /\ g.retrans = 0 /\ g.last \notin p => t[g.last] = 1 /\ w[g.last] = g.time
AllSentOnce ==
  \A q \in Quads : Exists(q) => \A i \in DOMAIN pquad[q].segs :
    SentOnce(pquad[q].segs[i], Pending, tx, sent)

LEMMA SentOnceSet ==
  ASSUME Inv, AllSentOnce, Adding, NEW q, q = piece.quad, NEW s, GoodList(q, s), SetSegs(q, s),
         UNCHANGED <<tx, sent>>, NEW G, G \subseteq InPiece, Effect(G),
         \A i \in DOMAIN s : SentOnce(s[i], Pending', tx, sent)
  PROVE  AllSentOnce'
<1>1. Relisted(pquad, q, s, pquad') BY Walked, PieceFields, NewList DEF SetSegs, Inv
<1>2. ASSUME NEW k \in Quads, pquad'[k] # NoQuad, NEW i \in DOMAIN pquad'[k].segs
      PROVE  SentOnce(pquad'[k].segs[i], Pending', tx', sent')
  <2>1. CASE k = q BY <1>1, <1>2, <2>1 DEF Relisted
  <2>2. CASE k # q
    <3>1. pquad'[k] = pquad[k] /\ pquad[k] # NoQuad BY <1>1, <1>2, <2>2 DEF Relisted
    <3> DEFINE g == pquad[k].segs[i]
    <3>2. SentOnce(g, Pending, tx, sent) /\ QuadOf(g.last) = k
      BY <1>2, <3>1 DEF AllSentOnce, Exists, Inv, GoodQuads, GoodList, Sorted, Placed
    <3> HIDE DEF g
    <3>3. g.last \notin G BY <2>2, <3>2, PieceInQuad
    <3>4. SentOnce(g, Pending', tx, sent) BY <3>2, <3>3 DEF SentOnce, Effect
    <3> QED BY <3>1, <3>4 DEF g
  <2> QED BY <2>1, <2>2
<1> QED BY <1>2 DEF AllSentOnce, Exists

LEMMA OldSentOnce ==
  ASSUME Inv, AllSentOnce, Adding, NEW G, Effect(G), NEW i \in DOMAIN Segs,
         Segs[i].last \notin G
  PROVE  SentOnce(Segs[i], Pending', tx, sent)
<1>1. pquad[piece.quad] # NoQuad /\ piece.quad \in Quads BY Walked, PieceFields
<1>2. SentOnce(Segs[i], Pending, tx, sent) BY <1>1 DEF AllSentOnce, Exists, Segs
<1> QED BY <1>2 DEF SentOnce, Effect

LEMMA LastRecorded ==
  ASSUME Inv, Adding, NEW i \in DOMAIN Segs
  PROVE  Segs[i].last \in Recorded
<1>1. /\ pquad[piece.quad] # NoQuad /\ Segs \in Seq(Segment)
      /\ Segs[i].first <= Segs[i].last /\ QuadOf(Segs[i].last) = piece.quad
  BY Walked DEF GoodList, Sorted, Placed
<1> DEFINE x == Segs[i].last
<1>2. x \in SeqNums /\ x \in Nat BY <1>1, SegmentFields
<1>3. Segs[i].first <= x /\ x <= Segs[i].last /\ QuadOf(x) = piece.quad BY <1>1, <1>2
<1> HIDE DEF x
<1>4. Holds(Segs, x) BY <1>3 DEF Holds
<1>5. x \in Recorded BY <1>1, <1>2, <1>3, <1>4, RecordedHere, RecordedAt DEF Inv, Segs
<1> QED BY <1>5 DEF x

LEMMA NewSentOnce ==
  ASSUME Unsent, NEW G, Effect(G), G \cap Recorded = {}, NEW first, NEW last, last \in G
  PROVE  SentOnce(NewSeg(first, last), Pending', tx, sent)
<1>1. NewSeg(first, last).last = last /\ NewSeg(first, last).time = now BY DEF NewSeg
<1>2. last \in Pending \ Recorded BY DEF Effect
<1> QED BY <1>1, <1>2 DEF SentOnce, Unsent

LEMMA WalksSentOnce ==
  ASSUME RetransMod > MaxPackets, Inv, EdgesKept, NoWrap, Unsent, AllSentOnce, Walks
  PROVE  AllSentOnce'
<1> PICK q : q = piece.quad OBVIOUS
<1>0. /\ Adding /\ UNCHANGED <<tx, sent>> /\ q \in Quads /\ pquad[q] # NoQuad
      /\ Segs \in Seq(Segment) /\ piece.at \in Nat /\ Len(Segs) \in Nat
      /\ DOMAIN Segs = 1 .. Len(Segs)
  BY WalksEffect, Walked, PieceFields
<1>1. ASSUME NEW G, Effect(G), G \cap Recorded = {}
      PROVE  \A i \in DOMAIN Segs : SentOnce(Segs[i], Pending', tx, sent)
  BY <1>0, <1>1, OldSentOnce, LastRecorded
<1>2. piece.first <= piece.last /\ piece.last \in SeqNums /\ piece.first \in Nat
      /\ piece.last \in Nat
  BY <1>0, Walked, PieceFields DEF PieceAt, Placed
<1>3. piece.last \in InPiece BY <1>0, <1>2 DEF InPiece
<1>4. CASE WalkOn
  <2>1. Effect({}) /\ pquad' = pquad BY <1>4, WalkOnEffect DEF WalkOn
  <2>2. Pending' = Pending BY <2>1 DEF Effect
  <2> QED BY <1>0, <2>1, <2>2 DEF AllSentOnce, Exists
<1>5. CASE InsertBefore
  <2> DEFINE e == NewSeg(piece.first, piece.last)
             s == InsertAt(Segs, piece.at, e)
  <2>1. /\ piece.at \in 1 .. Len(Segs) /\ e \in Segment /\ GoodList(q, s) /\ SetSegs(q, s)
    BY <1>5, InsertBeforeList
  <2>2. Effect(InPiece) /\ InPiece \cap Recorded = {} BY <1>5, InsertBeforeEffect, InsertBeforeNew
  <2>3. SentOnce(e, Pending', tx, sent) BY <1>3, <2>2, NewSentOnce
  <2> HIDE DEF e
  <2>4. \A k \in DOMAIN s : s[k] = e \/ \E j \in DOMAIN Segs : s[k] = Segs[j] BY <1>0, <2>1, InsertedFrom
  <2> HIDE DEF s
  <2>5. \A i \in DOMAIN s : SentOnce(s[i], Pending', tx, sent) BY <1>1, <2>2, <2>3, <2>4
  <2> QED BY <1>0, <2>1, <2>2, <2>5, SentOnceSet
<1>6. CASE SplitBefore
  <2> DEFINE c == Cur.first
             e == NewSeg(piece.first, c - 1)
             s == InsertAt(Segs, piece.at, e)
             G == {x \in InPiece : x < c}
  <2>1. /\ piece.at \in 1 .. Len(Segs) /\ e \in Segment /\ GoodList(q, s) /\ SetSegs(q, s)
        /\ piece.first < c /\ c \in SeqNums /\ piece.last > c
    BY <1>6, SplitBeforeList
  <2>2. Effect(G) /\ G \cap Recorded = {} BY <1>6, SplitBeforeEffect, SplitBeforeNew
  <2>3. c - 1 \in InPiece /\ c - 1 < c
    <3>1. c \in 0 .. SeqLimit - 1 /\ SeqLimit \in Nat BY <2>1, SeqSpaceAssumption DEF SeqNums, SeqLimit
    <3> HIDE DEF c
    <3>2. c - 1 \in SeqNums /\ piece.first <= c - 1 /\ c - 1 <= piece.last /\ c - 1 < c
      BY <1>2, <2>1, <3>1 DEF SeqNums
    <3> QED BY <1>0, <3>2 DEF InPiece
  <2> HIDE DEF c
  <2>4. c - 1 \in G BY <2>3
  <2>5. G \subseteq InPiece OBVIOUS
  <2> HIDE DEF G
  <2>6. SentOnce(e, Pending', tx, sent) BY <2>2, <2>4, NewSentOnce
  <2> HIDE DEF e
  <2>7. \A k \in DOMAIN s : s[k] = e \/ \E j \in DOMAIN Segs : s[k] = Segs[j] BY <1>0, <2>1, InsertedFrom
  <2> HIDE DEF s
  <2>8. \A i \in DOMAIN s : SentOnce(s[i], Pending', tx, sent) BY <1>1, <2>2, <2>6, <2>7
  <2> QED BY <1>0, <2>1, <2>2, <2>5, <2>8, SentOnceSet
<1>7. CASE WalkWithin
  <2> DEFINE c == Cur.last
             e == Resent(Cur)
             s == ReplaceAt(Segs, piece.at, e)
             G == {x \in InPiece : x <= c}
  <2>1. /\ piece.at \in 1 .. Len(Segs) /\ Cur \in Segment /\ e \in Segment
        /\ GoodList(q, s) /\ SetSegs(q, s) /\ PieceAt(Segs, piece)
    BY <1>7, WalkWithinList
  <2>2. Effect(G) /\ G \subseteq InPiece BY <1>7, WalkWithinEffect
  <2>3. \A x \in G : x \in Nat /\ piece.first <= x /\ x <= c BY <1>0, PieceInQuad
  <2>4. c \in Nat /\ c = Segs[piece.at].last BY <2>1, SegmentFields DEF Cur
  <2> HIDE DEF G, c
  <2>5. e.retrans # 0
    <3>1. Cur.retrans < packets /\ Cur.retrans \in Nat /\ packets <= MaxPackets
          /\ packets \in Nat /\ MaxPackets \in Nat /\ RetransMod \in Nat
      <4>1. piece.at \in DOMAIN pquad[q].segs /\ pquad[q].segs[piece.at] = Cur
            /\ ToPass(q, piece.at)
        BY <1>0, <2>1 DEF Cur, Segs, ToPass
      <4>2. Cur.retrans < packets BY <1>0, <4>1 DEF NoWrap, Exists
      <4>3. Cur.retrans \in Nat BY <2>1, SegmentFields, SeqSpaceAssumption
      <4>4. packets \in 0 .. MaxPackets BY <1>0 DEF Inv, TypeOK
      <4> QED BY <4>2, <4>3, <4>4, SeqSpaceAssumption
    <3>2. (Cur.retrans + 1) % RetransMod = Cur.retrans + 1
      <4>1. \A m, r \in Nat : r + 1 < m => (r + 1) % m = r + 1 OBVIOUS
      <4>2. Cur.retrans + 1 < RetransMod BY <3>1
      <4> QED BY <3>1, <4>1, <4>2
    <3>3. e.retrans = (Cur.retrans + 1) % RetransMod BY <2>1, ResentSame
    <3> QED BY <3>1, <3>2, <3>3
  <2> HIDE DEF e
  <2>6. DOMAIN s = DOMAIN Segs /\ \A k \in DOMAIN Segs : s[k] = IF k = piece.at THEN e ELSE Segs[k]
    BY <1>0, <2>1, ReplacedAt
  <2> HIDE DEF s
  <2>7. ASSUME NEW i \in DOMAIN Segs, i # piece.at
        PROVE  Segs[i].last \notin G
    <3>1. Segs[i].last \in Nat /\ Segs[i].first \in Nat /\ Segs[i].first <= Segs[i].last
          /\ i \in Nat
      BY <1>0, SegmentFields, Walked DEF GoodList, Sorted, Placed
    <3>2. CASE i < piece.at
      <4>1. Segs[i].last < piece.first BY <2>1, <3>2 DEF PieceAt, Passed
      <4> QED BY <1>2, <2>3, <3>1, <4>1
    <3>3. CASE i > piece.at
      <4>1. Edged(Segs) /\ piece.at \in DOMAIN Segs BY <1>0, <2>1 DEF EdgesKept, Exists, Segs
      <4>2. c < Segs[i].first BY <2>4, <3>3, <4>1 DEF Edged
      <4> QED BY <2>3, <2>4, <3>1, <4>2
    <3> QED BY <1>0, <2>7, <3>1, <3>2, <3>3
  <2>8. \A i \in DOMAIN s : SentOnce(s[i], Pending', tx, sent)
    <3>1. SentOnce(e, Pending', tx, sent) BY <2>5 DEF SentOnce
    <3>2. \A i \in DOMAIN Segs : i # piece.at => SentOnce(Segs[i], Pending', tx, sent)
      BY <1>0, <2>2, <2>7, OldSentOnce
    <3> QED BY <2>6, <3>1, <3>2
  <2> QED BY <1>0, <2>1, <2>2, <2>8, SentOnceSet
<1>8. CASE TackOn
  <2> DEFINE e == NewSeg(piece.first, piece.last)
             r == Append(Segs, e)
             s == Capped(r)
  <2>1. /\ e \in Segment /\ r \in Seq(Segment) /\ GoodList(q, s) /\ SetSegs(q, s)
    BY <1>8, TackOnList DEF GoodList
  <2>2. Effect(InPiece) /\ InPiece \cap Recorded = {} BY <1>8, TackOnEffect, TackOnNew
  <2>3. SentOnce(e, Pending', tx, sent) BY <1>3, <2>2, NewSentOnce
  <2> HIDE DEF e
  <2>4. \A k \in DOMAIN r : r[k] = e \/ \E j \in DOMAIN Segs : r[k] = Segs[j] BY <1>0, <2>1, AppendedFrom
  <2> HIDE DEF r
  <2>5. \A i \in DOMAIN r : SentOnce(r[i], Pending', tx, sent) BY <1>1, <2>2, <2>3, <2>4
  <2>6. \A k \in DOMAIN s : \E j \in DOMAIN r : Alike(s[k], r[j]) BY <2>1, CappedFrom
  <2> HIDE DEF s
  <2>7. \A i \in DOMAIN s : SentOnce(s[i], Pending', tx, sent) BY <2>5, <2>6 DEF Alike, SentOnce
  <2> QED BY <1>0, <2>1, <2>2, <2>7, SentOnceSet
<1> QED BY <1>4, <1>5, <1>6, <1>7, <1>8 DEF Walks

LEMMA SentOnceStep ==
  ASSUME CutRight, RetransMod > MaxPackets, Inv, EdgesKept, NoWrap, Unsent, AllSentOnce,
         [Next]_vars
  PROVE  AllSentOnce'
<1>a. ASSUME NEW q \in Quads, NEW u, u = WhichQuad(q), NEW k \in Quads, u[k] # NoQuad,
             NEW i \in DOMAIN u[k].segs
      PROVE  /\ SentOnce(u[k].segs[i], Pending, tx, sent)
             /\ u[k].segs[i].last \in SeqNums /\ Stays(q, QuadOf(u[k].segs[i].last))
  <2>1. /\ Stays(q, k) /\ pquad[k] # NoQuad => u[k].segs = pquad[k].segs
        /\ ~Stays(q, k) => u[k] = NoQuad
        /\ pquad[k] = NoQuad => u[k].segs = <<>>
    BY <1>a, AroundSegs DEF Inv
  <2>2. pquad[k] # NoQuad /\ u[k].segs = pquad[k].segs /\ Stays(q, k) BY <1>a, <2>1
  <2>3. u[k].segs \in Seq(Segment) /\ QuadOf(u[k].segs[i].last) = k
    BY <1>a, <2>2 DEF Inv, GoodQuads, GoodList, Sorted, Placed
  <2>4. SentOnce(u[k].segs[i], Pending, tx, sent) BY <1>a, <2>2 DEF AllSentOnce, Exists
  <2>5. u[k].segs[i] \in Segment BY <1>a, <2>3
  <2> QED BY <2>2, <2>3, <2>4, <2>5, SegmentFields
<1>b. \A q, s : s \in SeqNums /\ Stays(q, QuadOf(s)) => Kept(q)[s] = tx[s] BY DEF Kept, Stays
<1>1. ASSUME NEW seq, NEW len, <<seq, len>> \in Data, RecvData(seq, len)
      PROVE  AllSentOnce'
  <2> DEFINE q == QuadOf(seq)
  <2>1. /\ pquad' = WhichQuad(q) /\ q \in Quads /\ Pending = {} /\ Pending' = Bytes(seq, len)
        /\ tx' = [s \in SeqNums |-> IF s \in Bytes(seq, len) THEN Kept(q)[s] + 1 ELSE Kept(q)[s]]
        /\ sent' = [s \in SeqNums |-> IF s \in Bytes(seq, len) THEN now ELSE sent[s]]
    <3>1. q \in Quads /\ Pending = {} /\ Pending' = Bytes(seq, len) BY <1>1, RecvDataPiece, RecvDataEffect
    <3>2. /\ pquad' = WhichQuad(q)
          /\ tx' = [s \in SeqNums |-> IF s \in Bytes(seq, len) THEN Kept(q)[s] + 1 ELSE Kept(q)[s]]
          /\ sent' = [s \in SeqNums |-> IF s \in Bytes(seq, len) THEN now ELSE sent[s]]
      BY <1>1 DEF RecvData, Bytes
    <3> QED BY <3>1, <3>2
  <2> HIDE DEF q
  <2>2. ASSUME NEW k \in Quads, pquad'[k] # NoQuad, NEW i \in DOMAIN pquad'[k].segs
        PROVE  SentOnce(pquad'[k].segs[i], Pending', tx', sent')
    <3> DEFINE g == pquad'[k].segs[i]
    <3>1. SentOnce(g, {}, tx, sent) /\ g.last \in SeqNums /\ Stays(q, QuadOf(g.last)) BY <1>a, <2>1, <2>2
    <3> HIDE DEF g
    <3>2. g.last \notin Pending' => tx'[g.last] = tx[g.last] /\ sent'[g.last] = sent[g.last]
      BY <1>b, <2>1, <3>1
    <3>3. SentOnce(g, Pending', tx', sent') BY <3>1, <3>2 DEF SentOnce
    <3> QED BY <3>3 DEF g
  <2> QED BY <2>2 DEF AllSentOnce, Exists
<1>2. ASSUME NEW ack \in Acks, NEW nodata \in BOOLEAN, RecvAck(ack, nodata)
      PROVE  AllSentOnce'
  <2> DEFINE q == QuadOf(ack)
             u == WhichQuad(q)
  <2>1. /\ q \in Quads /\ Pending = {} /\ Pending' = {} /\ tx' = Kept(q) /\ sent' = sent
    BY <1>2, RecvAckRecorded DEF RecvAck
  <2>2. ASSUME NEW k \in Quads, pquad'[k] # NoQuad, NEW i \in DOMAIN pquad'[k].segs
        PROVE  SentOnce(pquad'[k].segs[i], Pending', tx', sent')
    <3> DEFINE g == u[k].segs[i]
               a == pquad'[k].segs[i]
    <3>1. /\ u[k] # NoQuad /\ i \in DOMAIN u[k].segs
          /\ a.last = g.last /\ a.retrans = g.retrans /\ a.time = g.time
          /\ a.acked = 0 => g.acked = 0
      BY <1>2, <2>2, RecvAckSegs
    <3>2. SentOnce(g, {}, tx, sent) /\ g.last \in SeqNums /\ Stays(q, QuadOf(g.last)) BY <1>a, <2>1, <3>1
    <3> HIDE DEF g, a
    <3>3. tx'[g.last] = tx[g.last] /\ sent'[g.last] = sent[g.last] BY <1>b, <2>1, <3>2
    <3>4. SentOnce(a, Pending', tx', sent') BY <2>1, <3>1, <3>2, <3>3 DEF SentOnce
    <3> QED BY <3>4 DEF a
  <2> QED BY <2>2 DEF AllSentOnce, Exists
<1>3. CASE Walks BY <1>3, WalksSentOnce
<1>4. CASE Quiet
  <2>0. UNCHANGED <<tx, sent>> /\ Pending' = Pending BY <1>4, QuietEffect
  <2>1. CASE Collapse
    <3> DEFINE q == todo[1]
               e == Merged(Here, Following)
               s == RemoveAt(ReplaceAt(Target, piece.at, e), piece.at + 1)
    <3>1. /\ q \in Quads /\ pquad[q] # NoQuad /\ GoodList(q, Target)
          /\ piece.at \in 1 .. Len(Target) - 1 /\ Relisted(pquad, q, s, pquad')
          /\ Following.acked > 0
      BY <2>1, CollapseList
    <3>2. /\ Target \in Seq(Segment) /\ Len(Target) \in Nat /\ DOMAIN Target = 1 .. Len(Target)
          /\ \A i \in DOMAIN Target : SentOnce(Target[i], Pending, tx, sent)
      BY <3>1 DEF AllSentOnce, Exists, Target, GoodList
    <3>3. /\ e.acked = Following.acked /\ DOMAIN s = 1 .. Len(Target) - 1
          /\ \A k \in 1 .. Len(Target) - 1 :
               s[k] = IF k < piece.at THEN Target[k] ELSE IF k = piece.at THEN e ELSE Target[k + 1]
      <4>1. Here = Target[piece.at] /\ Following = Target[piece.at + 1] BY DEF Here, Following
      <4> DEFINE f == Merged(Target[piece.at], Target[piece.at + 1])
                 r == RemoveAt(ReplaceAt(Target, piece.at, f), piece.at + 1)
      <4>2. /\ f.acked = Target[piece.at + 1].acked /\ DOMAIN r = 1 .. Len(Target) - 1
            /\ \A k \in 1 .. Len(Target) - 1 :
                 r[k] = IF k < piece.at THEN Target[k] ELSE IF k = piece.at THEN f ELSE Target[k + 1]
        <5>1. Target \in Seq(Segment) /\ piece.at \in 1 .. Len(Target) - 1 BY <3>1, <3>2
        <5> QED BY <5>1, MergedAt
      <4>3. e = f /\ s = r BY <4>1
      <4> HIDE DEF e, s, f, r
      <4> QED BY <4>1, <4>2, <4>3
    <3>4. SentOnce(e, Pending, tx, sent) BY <3>1, <3>3 DEF SentOnce
    <3> HIDE DEF s, e
    <3>5. ASSUME NEW k \in DOMAIN s
          PROVE  SentOnce(s[k], Pending, tx, sent)
      <4>1. k \in DOMAIN Target /\ k + 1 \in DOMAIN Target BY <3>1, <3>2, <3>3
      <4>2. s[k] = Target[k] \/ s[k] = e \/ s[k] = Target[k + 1] BY <3>3
      <4> QED BY <3>2, <3>4, <4>1, <4>2
    <3> QED BY <2>0, <3>1, <3>5 DEF AllSentOnce, Exists, Relisted
  <2>2. CASE ~Collapse
    <3>1. UNCHANGED pquad BY <1>4, <2>2, QuietEffect
    <3> QED BY <2>0, <3>1 DEF AllSentOnce, Exists
  <2> QED BY <2>1, <2>2
<1> QED BY <1>1, <1>2, <1>3, <1>4, Steps

\* The round trip time of an ACK is taken from a byte sent once.
LEMMA LastByte ==
  ASSUME NEW last \in SeqNums, NEW ack, ack = (last + 1) % SeqLimit
  PROVE  (ack + SeqLimit - 1) % SeqLimit = last
<1>1. /\ last \in Nat /\ last < 4 * QuadSize /\ QuadSize \in Nat /\ QuadSize > 1
  BY SeqSpaceAssumption DEF SeqNums, SeqLimit
<1>2. CASE last + 1 < 4 * QuadSize
  <2>1. ack = last + 1 BY <1>1, <1>2, SMTT(30) DEF SeqLimit
  <2>2. (last + 4 * QuadSize) % (4 * QuadSize) = last BY <1>1, SMTT(30)
  <2>3. ack + SeqLimit - 1 = last + 4 * QuadSize BY <1>1, <2>1 DEF SeqLimit
  <2> QED BY <2>2, <2>3 DEF SeqLimit
<1>3. CASE last + 1 = 4 * QuadSize
  <2>1. ack = 0 BY <1>1, <1>3, SMTT(30) DEF SeqLimit
  <2>2. (4 * QuadSize - 1) % (4 * QuadSize) = 4 * QuadSize - 1 BY <1>1, SMTT(30)
  <2>3. ack + SeqLimit - 1 = 4 * QuadSize - 1 /\ last = 4 * QuadSize - 1 BY <1>1, <1>3, <2>1 DEF SeqLimit
  <2> QED BY <2>2, <2>3 DEF SeqLimit
<1> QED BY <1>1, <1>2, <1>3

LEMMA SampleAcked ==
  ASSUME Inv, AllSentOnce, NEW ack \in Acks, NEW nodata \in BOOLEAN, RecvAck(ack, nodata)
  PROVE  SampleUnambiguous'
<1> DEFINE q == QuadOf(ack)
           u == WhichQuad(q)
           prevSegs == u[u[q].prev].segs
           segs == u[q].segs
<1>1. q \in Quads /\ Pending = {} /\ tx' = Kept(q) /\ sent' = sent /\ now' = now
  BY RecvAckRecorded DEF RecvAck
<1>2. \/ sample' = NoSample
      \/ \E i \in Covers(segs, ack) :
           LET type == Returned(prevSegs, segs, i, ack, nodata)
           IN  sample' = [ack |-> ack, type |-> type,
                          rtt |-> IF type = "NORMAL" THEN now - segs[i].time ELSE 0]
  BY DEF RecvAck
<1>3. CASE sample' = NoSample BY <1>3 DEF SampleUnambiguous, NoSample
<1>4. ASSUME NEW i \in Covers(segs, ack),
             LET type == Returned(prevSegs, segs, i, ack, nodata)
             IN  sample' = [ack |-> ack, type |-> type,
                            rtt |-> IF type = "NORMAL" THEN now - segs[i].time ELSE 0]
      PROVE  SampleUnambiguous'
  <2> DEFINE type == Returned(prevSegs, segs, i, ack, nodata)
             g == segs[i]
  <2>1. sample'.ack = ack /\ sample'.type = type
        /\ (type = "NORMAL" => sample'.rtt = now - g.time)
    BY <1>4
  <2>2. i \in DOMAIN segs BY <1>4 DEF Covers
  <2>3. type = "NORMAL" => g.acked = 0 /\ g.retrans = 0 /\ (g.last + 1) % SeqLimit = ack
    <3>1. /\ \A b : RttAckin(g, b) = "NORMAL" => g.retrans = 0
          /\ "CUMUL" # "NORMAL" /\ "TRIPLE" # "NORMAL" /\ "none" # "NORMAL"
      BY DEF RttAckin
    <3> DEFINE n == g.acked = 0
               m == EndsAt(g, ack)
               b == Intervening(prevSegs, segs, i)
    <3>2. type = CASE n /\ m -> RttAckin(g, b)
                   [] n /\ ~m -> "CUMUL"
                   [] g.acked > 0 /\ m -> IF g.acked = 3 /\ nodata THEN "TRIPLE" ELSE "CUMUL"
                   [] OTHER -> "none"
      BY DEF Returned
    <3>3. g.acked > 0 => ~n
      <4>1. g.acked \in Nat
        <5>1. GoodQuads(u) /\ u[q] # NoQuad BY <1>1, Around DEF Inv
        <5>2. segs \in Seq(Segment) BY <1>1, <5>1 DEF GoodQuads, GoodList
        <5> HIDE DEF segs
        <5> QED BY <2>2, <5>2, SegmentFields
      <4> QED BY <4>1
    <3> HIDE DEF type, n, m, b, g, segs
    <3>4. type = "NORMAL" => n /\ m /\ RttAckin(g, b) = "NORMAL"
      <4>1. CASE n /\ m BY <3>2, <3>3, <4>1
      <4>2. CASE n /\ ~m BY <3>1, <3>2, <3>3, <4>2
      <4>3. CASE ~n BY <3>1, <3>2, <4>3
      <4> QED BY <4>1, <4>2, <4>3
    <3> QED BY <3>1, <3>4 DEF n, m, EndsAt
  <2>4. SentOnce(g, {}, tx, sent) /\ g.last \in SeqNums /\ QuadOf(g.last) = q
    <3>1. /\ Stays(q, q) /\ pquad[q] # NoQuad => segs = pquad[q].segs
          /\ ~Stays(q, q) => u[q] = NoQuad
          /\ pquad[q] = NoQuad /\ u[q] # NoQuad => segs = <<>>
      BY <1>1, AroundSegs DEF Inv
    <3>2. u[q] # NoQuad BY <1>1, Around DEF Inv
    <3> HIDE DEF u, segs
    <3>3. pquad[q] # NoQuad /\ segs = pquad[q].segs BY <2>2, <3>1, <3>2
    <3>4. segs \in Seq(Segment) /\ QuadOf(g.last) = q /\ SentOnce(g, Pending, tx, sent)
      BY <1>1, <2>2, <3>3 DEF Inv, GoodQuads, GoodList, Sorted, Placed, AllSentOnce, Exists
    <3>5. g \in Segment BY <2>2, <3>4
    <3> QED BY <1>1, <3>4, <3>5, SegmentFields
  <2> HIDE DEF type, g
  <2>5. Stays(q, q) BY <1>1, QuadFour DEF Stays
  <2>6. tx'[g.last] = tx[g.last] BY <1>1, <2>4, <2>5 DEF Kept, Stays
  <2>7. CASE type = "NORMAL"
    <3>1. (ack + SeqLimit - 1) % SeqLimit = g.last BY <2>3, <2>4, <2>7, LastByte
    <3>2. tx[g.last] = 1 /\ sent[g.last] = g.time BY <2>3, <2>4, <2>7 DEF SentOnce
    <3> QED BY <1>1, <2>1, <2>6, <2>7, <3>1, <3>2 DEF SampleUnambiguous
  <2>8. CASE type # "NORMAL" BY <2>1, <2>8 DEF SampleUnambiguous
  <2> QED BY <2>7, <2>8
<1> QED BY <1>2, <1>3, <1>4

LEMMA SampleStep ==
  ASSUME CutRight, Inv, AllSentOnce, SampleUnambiguous, [Next]_vars
  PROVE  SampleUnambiguous'
<1>1. ASSUME NEW seq, NEW len, <<seq, len>> \in Data, RecvData(seq, len)
      PROVE  SampleUnambiguous'
  <2>1. sample' = NoSample BY <1>1 DEF RecvData
  <2> QED BY <2>1 DEF SampleUnambiguous, NoSample
<1>2. ASSUME NEW ack \in Acks, NEW nodata \in BOOLEAN, RecvAck(ack, nodata)
      PROVE  SampleUnambiguous'
  BY <1>2, SampleAcked
<1>3. CASE Walks BY <1>3, WalksEffect DEF SampleUnambiguous
<1>4. CASE Tick BY <1>4 DEF Tick, SampleUnambiguous, NoSample
<1>5. CASE Collapse \/ CollapseOn \/ CollapseDone \/ UNCHANGED vars
  <2>1. UNCHANGED <<sample, now, tx, sent>>
    BY <1>5 DEF Collapse, CollapseOn, CollapseDone, KeptByCollapse, history, vars, results
  <2> QED BY <2>1 DEF SampleUnambiguous
<1> QED BY <1>1, <1>2, <1>3, <1>4, <1>5, Steps DEF Quiet

\* A round trip time of kind NORMAL is taken from a byte that was sent
\* once, since it was sent (rexmit.c:565-580, 769-780), as long as retrans
\* has not come round.
THEOREM SamplesRight ==
  ASSUME CutRight, NoByteShared, RetransMod > MaxPackets
  PROVE  Spec => []SampleUnambiguous
<1> DEFINE J == Remembered /\ NoWrap /\ Unsent /\ AllSentOnce /\ SampleUnambiguous
<1>1. Init => J
  BY DEF Init, Remembered, NoWrap, Unsent, AllSentOnce, SampleUnambiguous, NoSample, Exists,
         Pending, InPiece, InRest, Adding
<1>2. Inv /\ EdgesKept /\ J /\ [Next]_vars => J'
  BY CutRight, NoByteShared, RetransMod > MaxPackets, RememberedStep, NoWrapStep, UnsentStep,
     SentOnceStep, SampleStep
<1>3. Spec => []Inv /\ []EdgesKept BY CutRight, NoByteShared, Invariant, EdgesInvariant
<1>4. J => SampleUnambiguous OBVIOUS
<1> HIDE DEF J
<1> QED BY <1>1, <1>2, <1>3, <1>4, PTL DEF Spec

==============================
