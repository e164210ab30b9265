------------------------------ MODULE SeqSpace ------------------------------
(***************************************************************************)
(* What rexmit.c remembers of the bytes one side of a connection has sent: *)
(* the sequence space in four quadrants, of which at most three exist, and *)
(* in each a list of segments in sequence order.  rexmit() records a       *)
(* packet and tells how much of it is retransmitted; ack_in() marks what   *)
(* an ACK of the other side covers and takes a round trip time.  The loops *)
(* of addseg() and collapse_quad() are one step per turn; no other packet  *)
(* is handled before they are over.                                        *)
(*                                                                         *)
(* The counters of the results, the classification of anomalies and the    *)
(* statistics made from the round trip times are left out.                 *)
(***************************************************************************)
EXTENDS Integers, FiniteSets, SequencesExt

CONSTANTS
  QuadSize,       \* QUADSIZE
  MaxSegPerQuad,  \* MAX_SEG_PER_QUAD
  RetransMod,     \* 256: retrans is an u_char
  Data,           \* the packets <<th_seq, length>> that take sequence numbers
  Acks,           \* the th_ack of the other side's packets
  MaxPackets,     \* bound on the number of packets
  MaxTime,        \* bound on current_time
  NoQuad          \* NULL in pquad[]

ASSUME SeqSpaceAssumption ==
  /\ QuadSize \in Nat /\ QuadSize > 1
  /\ MaxSegPerQuad \in Nat \ {0}
  /\ RetransMod \in Nat \ {0}
  /\ Data \subseteq (0 .. 4 * QuadSize - 1) \X (1 .. QuadSize)
  /\ Acks \subseteq 0 .. 4 * QuadSize - 1
  /\ MaxPackets \in Nat
  /\ MaxTime \in Nat

(* seqnum has 32 bits in the code, a quadrant 2^30 numbers.                *)
SeqLimit == 4 * QuadSize
SeqNums == 0 .. SeqLimit - 1
Quads == 0 .. 3
QuadOf(s) == s \div QuadSize
FirstSeq(q) == QuadSize * q

(* The macro LAST_SEQ: one short for each quadrant after the first.        *)
LastSeq(q) == (QuadSize - 1) * (q + 1)

NoLink == -1
Segment == [first : SeqNums, last : SeqNums, retrans : 0 .. RetransMod - 1,
            acked : Nat, time : Nat]
Quadrant == [segs : Seq(Segment), prev : Quads \cup {NoLink}, next : Quads \cup {NoLink}]

ASSUME NoQuadAssumption == NoQuad \notin Quadrant

VARIABLES
  pquad,    \* the quadrants, or NoQuad
  pc,       \* idle, in addseg ("walk", "within") or in collapse_quad
  piece,    \* addseg: quadrant, first and last byte, position, split
  rest,     \* the part in the second quadrant, still to be added, or NoRest
  todo,     \* the quadrants to collapse, the first one from position piece.at
  rexlen,   \* what rexmit has added up
  order,    \* *pout_order
  sample,   \* the last ACK: its number and what rtt_ackin made of it
  now,      \* current_time
  packets,  \* packets handled
  tx, sent, \* history: how often, and when last, a byte was sent
  dup,      \* history: how many bytes of the packet were recorded,
  late      \*          and if anything recorded comes after it

work == <<pc, piece, rest, todo>>
results == <<rexlen, order, sample>>
history == <<tx, sent, dup, late>>
vars == <<pquad, work, results, now, packets, history>>

NoRest == <<>>
NoSample == [ack |-> 0, type |-> "none", rtt |-> 0]

TypeOK ==
  /\ pquad \in [Quads -> Quadrant \cup {NoQuad}]
  /\ pc \in {"idle", "walk", "within", "collapse"}
  /\ piece \in [quad : Quads, first : 0 .. SeqLimit, last : SeqNums,
                at : Nat \ {0}, split : BOOLEAN]
  /\ rest \in [quad : Quads, first : SeqNums, len : Int] \cup {NoRest}
  /\ todo \in Seq(Quads)
  /\ rexlen \in Int
  /\ order \in BOOLEAN
  /\ sample \in [ack : SeqNums, rtt : Nat,
                 type : {"none", "NORMAL", "AMBIG", "CUMUL", "TRIPLE", "NOSAMP"}]
  /\ now \in 0 .. MaxTime
  /\ packets \in 0 .. MaxPackets
  /\ tx \in [SeqNums -> Nat]
  /\ sent \in [SeqNums -> Nat]
  /\ dup \in Nat /\ late \in BOOLEAN

Init ==
  /\ pquad = [q \in Quads |-> NoQuad]
  /\ pc = "idle"
  /\ piece = [quad |-> 0, first |-> 0, last |-> 0, at |-> 1, split |-> FALSE]
  /\ rest = NoRest
  /\ todo = <<>>
  /\ rexlen = 0 /\ order = FALSE /\ sample = NoSample
  /\ now = 0
  /\ packets = 0
  /\ tx = [s \in SeqNums |-> 0]
  /\ sent = [s \in SeqNums |-> 0]
  /\ dup = 0 /\ late = FALSE

------------------------------
(* whichquad: the quadrant of the packet and its neighbours exist and are  *)
(* linked; "clear out the opposite side, we don't need it anymore".        *)
Exists(q) == pquad[q] # NoQuad
After(q) == (q + 1) % 4
Opposite(q) == (q + 2) % 4
Before(q) == (q + 3) % 4

NewQuad == [segs |-> <<>>, prev |-> NoLink, next |-> NoLink]
Made(q) == IF Exists(q) THEN pquad[q] ELSE NewQuad
Settled(q) == Exists(q) /\ pquad[q].prev # NoLink /\ pquad[q].next # NoLink

(* Mutant: the links to the quadrant that is freed stay.                   *)
WhichQuad_KeepsLinks(q) ==
  IF Settled(q) THEN pquad
  ELSE [k \in Quads |->
          CASE k = q -> [Made(k) EXCEPT !.prev = Before(q), !.next = After(q)]
            [] k = After(q) -> [Made(k) EXCEPT !.prev = q]
            [] k = Before(q) -> [Made(k) EXCEPT !.next = q]
            [] OTHER -> NoQuad]

WhichQuad(q) ==
  IF Settled(q) THEN pquad
  ELSE [k \in Quads |->
          CASE k = q -> [Made(k) EXCEPT !.prev = Before(q), !.next = After(q)]
            [] k = After(q) -> [Made(k) EXCEPT !.prev = q, !.next = NoLink]
            [] k = Before(q) -> [Made(k) EXCEPT !.prev = NoLink, !.next = q]
            [] OTHER -> NoQuad]

(* What the history keeps: the bytes of quadrants that still exist.        *)
Kept(q) ==
  IF Settled(q) THEN tx
  ELSE [s \in SeqNums |-> IF QuadOf(s) = Opposite(q) THEN 0 ELSE tx[s]]

BytesOf(segs) == UNION {segs[i].first .. segs[i].last : i \in DOMAIN segs}
Recorded == UNION {BytesOf(pquad[q].segs) : q \in {k \in Quads : Exists(k)}}

------------------------------
(* The start of addseg on len bytes from first on: "optimize expected      *)
(* case, it just goes at the end".                                         *)
Piece(segs, q, first, len) ==
  [quad |-> q, first |-> first, last |-> (first + len - 1) % SeqLimit,
   at |-> IF segs # <<>> /\ first > Last(segs).last THEN Len(segs) + 1 ELSE 1,
   split |-> FALSE]

(* rexmit: a packet that "lives in two different quadrants" is added in    *)
(* two pieces.                                                             *)
RecvData(seq, len) ==
  LET q == QuadOf(seq)
      last == (seq + len - 1) % SeqLimit
      two == QuadOf(seq) # QuadOf(last)
      len1 == IF two THEN LastSeq(q) - seq + 1 ELSE len
      bytes == {(seq + k) % SeqLimit : k \in 0 .. len - 1}
      known == {s \in Recorded : QuadOf(s) # Opposite(q) \/ Settled(q)}
  IN  /\ pc = "idle"
      /\ packets < MaxPackets
      /\ packets' = packets + 1
      /\ pquad' = WhichQuad(q)
      /\ pc' = "walk"
      /\ piece' = Piece(pquad'[q].segs, q, seq, len1)
      /\ rest' = IF two THEN [quad |-> pquad'[q].next, first |-> FirstSeq(QuadOf(last)),
                              len |-> len - len1]
                        ELSE NoRest
      /\ rexlen' = 0 /\ order' = FALSE /\ sample' = NoSample
      /\ tx' = [s \in SeqNums |-> IF s \in bytes THEN Kept(q)[s] + 1 ELSE Kept(q)[s]]
      /\ sent' = [s \in SeqNums |-> IF s \in bytes THEN now ELSE sent[s]]
      /\ dup' = Cardinality(bytes \cap known)
      /\ late' = \E s \in known : (QuadOf(s) = q /\ s >= seq) \/ (two /\ QuadOf(s) = QuadOf(last))
      /\ UNCHANGED <<todo, now>>

Segs == pquad[piece.quad].segs
Cur == Segs[piece.at]
SetSegs(q, segs) == pquad' = [pquad EXCEPT ![q].segs = segs]
NewSeg(first, last) ==
  [first |-> first, last |-> last, retrans |-> 0, acked |-> 0, time |-> now]

Walking == pc = "walk" /\ piece.at <= Len(Segs)
OthersKept == UNCHANGED <<todo, sample, now, packets, history>>

(* addseg returns: the second piece is next, if there is one.              *)
Return ==
  IF rest = NoRest
  THEN pc' = "idle" /\ UNCHANGED <<piece, rest>>
  ELSE /\ pc' = "walk"
       /\ piece' = Piece(pquad[rest.quad].segs, rest.quad, rest.first, rest.len)
       /\ rest' = NoRest

(* "goes beyond this one"                                                  *)
WalkOn ==
  /\ Walking
  /\ piece.first > Cur.last
  /\ piece' = [piece EXCEPT !.at = @ + 1]
  /\ UNCHANGED <<pquad, pc, rest, rexlen, order>> /\ OthersKept

StartsBefore == Walking /\ piece.first <= Cur.last /\ piece.first < Cur.first
StartsWithin == Walking /\ piece.first <= Cur.last /\ piece.first >= Cur.first

(* Mutant: the packet is not reported as out of order.                     *)
InsertBefore_NotReported ==
  /\ StartsBefore
  /\ piece.last <= Cur.first
  /\ SetSegs(piece.quad, InsertAt(Segs, piece.at, NewSeg(piece.first, piece.last)))
  /\ Return
  /\ UNCHANGED <<rexlen, order>> /\ OthersKept

(* "starts BEFORE this recorded segment", and does not overlap it, or in   *)
(* one byte.                                                               *)
InsertBefore ==
  /\ StartsBefore
  /\ piece.last <= Cur.first
  /\ order' = (order \/ piece.last < Cur.last)
  /\ SetSegs(piece.quad, InsertAt(Segs, piece.at, NewSeg(piece.first, piece.last)))
  /\ Return
  /\ UNCHANGED rexlen /\ OthersKept

(* "overlap him, split myself in 2", and go on with the second half.       *)
SplitBefore ==
  /\ StartsBefore
  /\ piece.last > Cur.first
  /\ order' = (order \/ piece.last < Cur.last)
  /\ SetSegs(piece.quad, InsertAt(Segs, piece.at, NewSeg(piece.first, Cur.first - 1)))
  /\ piece' = [piece EXCEPT !.first = Cur.first, !.at = @ + 1]
  /\ pc' = "within"
  /\ UNCHANGED <<rest, rexlen>> /\ OthersKept

(* Mutant: the retransmission is not remembered.                           *)
Resent_Forgotten(seg) == [seg EXCEPT !.time = IF piece.split THEN @ ELSE now]

(* One more retransmission; rtt_retrans, unless the packet has been split, *)
(* makes this the time the segment was sent.                               *)
Resent(seg) ==
  [seg EXCEPT !.retrans = (@ + 1) % RetransMod, !.time = IF piece.split THEN @ ELSE now]

(* "starts within this recorded sequence": all of it, or "we extend beyond *)
(* this sequence, split ourself in 2".                                     *)
WalkWithin ==
  /\ pc = "within" \/ StartsWithin
  /\ SetSegs(piece.quad, ReplaceAt(Segs, piece.at, Resent(Cur)))
  /\ IF piece.last <= Cur.last
     THEN /\ rexlen' = rexlen + piece.last - piece.first + 1
          /\ Return
     ELSE /\ rexlen' = rexlen + Cur.last - piece.first + 1
          /\ piece' = [piece EXCEPT !.first = Cur.last + 1, !.at = @ + 1, !.split = TRUE]
          /\ pc' = "walk"
          /\ UNCHANGED rest
  /\ UNCHANGED order /\ OthersKept

(* "free up the first segment in this quadrant ... recall the initial      *)
(* segment byte"                                                           *)
Capped(segs) ==
  IF Len(segs) > MaxSegPerQuad
  THEN Cons([segs[2] EXCEPT !.first = segs[1].first], Tail(Tail(segs)))
  ELSE segs

(* "it doesn't go BEFORE anybody, tack it onto the end"                    *)
TackOn ==
  /\ pc = "walk" /\ piece.at > Len(Segs)
  /\ SetSegs(piece.quad, Capped(Append(Segs, NewSeg(piece.first, piece.last))))
  /\ Return
  /\ UNCHANGED <<rexlen, order>> /\ OthersKept

------------------------------
(* ack_in: the ACK covers the unacknowledged segments of the previous      *)
(* quadrant, and those of its own quadrant up to the first that starts at  *)
(* or after it.                                                            *)
Covers(segs, ack) == {i \in DOMAIN segs : \A j \in 1 .. i : segs[j].first < ack}
EndsAt(seg, ack) == (seg.last + 1) % SeqLimit = ack
Unacked(segs) == {i \in DOMAIN segs : segs[i].acked = 0}

AckAll(segs) == [i \in DOMAIN segs |-> IF segs[i].acked = 0 THEN [segs[i] EXCEPT !.acked = 1]
                                       ELSE segs[i]]
AckCovered(segs, ack) ==
  [i \in DOMAIN segs |-> IF i \in Covers(segs, ack) THEN [segs[i] EXCEPT !.acked = @ + 1]
                         ELSE segs[i]]

(* "if ANY preceding segment was xmitted after this one"                   *)
Intervening(prevSegs, segs, i) ==
  \/ \E j \in Unacked(prevSegs) : prevSegs[j].time > segs[i].time
  \/ \E j \in 1 .. i : segs[j].time > segs[i].time

(* rtt_ackin.                                                              *)
RttAckin(seg, intervening) ==
  IF intervening THEN "NOSAMP" ELSE IF seg.retrans = 0 THEN "NORMAL" ELSE "AMBIG"

(* What the turn of the loop for segment i returns, if anything.           *)
Returned(prevSegs, segs, i, ack, nodata) ==
  CASE segs[i].acked = 0 /\ EndsAt(segs[i], ack) ->
         RttAckin(segs[i], Intervening(prevSegs, segs, i))
    [] segs[i].acked = 0 /\ ~EndsAt(segs[i], ack) -> "CUMUL"
    [] segs[i].acked > 0 /\ EndsAt(segs[i], ack) ->
         IF segs[i].acked = 3 /\ nodata THEN "TRIPLE" ELSE "CUMUL"
    [] OTHER -> "none"

RecvAck(ack, nodata) ==
  LET q == QuadOf(ack)
      quads == WhichQuad(q)
      p == quads[q].prev
      prevSegs == quads[p].segs
      segs == quads[q].segs
      telling == {i \in Covers(segs, ack) : Returned(prevSegs, segs, i, ack, nodata) # "none"}
      newPrev == Unacked(prevSegs) # {}
      newHere == Covers(segs, ack) \cap Unacked(segs) # {}
  IN  /\ pc = "idle"
      /\ packets < MaxPackets
      /\ packets' = packets + 1
      /\ pquad' = [quads EXCEPT ![p].segs = AckAll(@), ![q].segs = AckCovered(@, ack)]
      /\ \/ telling = {} /\ sample' = NoSample
         \/ \E i \in telling :
              LET type == Returned(prevSegs, segs, i, ack, nodata)
              IN  /\ \A j \in telling : j <= i
                  /\ sample' = [ack |-> ack, type |-> type,
                                rtt |-> IF type = "NORMAL" THEN now - segs[i].time ELSE 0]
      /\ todo' = (IF newPrev THEN <<p>> ELSE <<>>) \o (IF newHere THEN <<q>> ELSE <<>>)
      /\ pc' = IF newPrev \/ newHere THEN "collapse" ELSE "idle"
      /\ piece' = [piece EXCEPT !.at = 1]
      /\ tx' = Kept(q)
      /\ rexlen' = 0 /\ order' = FALSE /\ dup' = 0 /\ late' = FALSE
      /\ UNCHANGED <<rest, now, sent>>

(* collapse_quad on the first quadrant of todo.                            *)
Target == pquad[todo[1]].segs
Here == Target[piece.at]
Following == Target[piece.at + 1]
Collapsing == pc = "collapse" /\ piece.at < Len(Target) /\ Here.acked > 0
Fits == Following.acked > 0 /\ (Here.last + 1) % SeqLimit = Following.first
KeptByCollapse == UNCHANGED <<rest, rexlen, order, sample, now, packets, history>>

(* Mutant: the merged segment ends where the first one did.                *)
Merged_NotExtended(a, b) ==
  [a EXCEPT !.acked = b.acked, !.time = IF b.time > a.time THEN b.time ELSE a.time]

(* "they fit together": one larger segment with the later ACK count and    *)
(* the newer time.                                                         *)
Merged(a, b) ==
  [a EXCEPT !.last = b.last, !.acked = b.acked,
            !.time = IF b.time > a.time THEN b.time ELSE a.time]

Collapse ==
  /\ Collapsing /\ Fits
  /\ SetSegs(todo[1], RemoveAt(ReplaceAt(Target, piece.at, Merged(Here, Following)), piece.at + 1))
  /\ UNCHANGED <<pc, piece, todo>> /\ KeptByCollapse

CollapseOn ==
  /\ Collapsing /\ ~Fits
  /\ piece' = [piece EXCEPT !.at = @ + 1]
  /\ UNCHANGED <<pquad, pc, todo>> /\ KeptByCollapse

CollapseDone ==
  /\ pc = "collapse" /\ ~Collapsing
  /\ todo' = Tail(todo)
  /\ piece' = [piece EXCEPT !.at = 1]
  /\ pc' = IF todo' = <<>> THEN "idle" ELSE "collapse"
  /\ UNCHANGED pquad /\ KeptByCollapse

Tick ==
  /\ pc = "idle"
  /\ now < MaxTime
  /\ now' = now + 1
  /\ sample' = NoSample
  /\ UNCHANGED <<pquad, work, rexlen, order, packets, history>>

Next ==
  \/ \E d \in Data : RecvData(d[1], d[2])
  \/ \E ack \in Acks, nodata \in BOOLEAN : RecvAck(ack, nodata)
  \/ WalkOn \/ InsertBefore \/ SplitBefore \/ WalkWithin \/ TackOn
  \/ Collapse \/ CollapseOn \/ CollapseDone
  \/ Tick

Spec == Init /\ [][Next]_vars

------------------------------
(* The lists that addseg walks with a single comparison per segment are in *)
(* sequence order, and a segment lies in its quadrant.  Two neighbours may *)
(* share one byte: the test for "we don't overlap" is <=.                  *)
SegmentsOrdered ==
  \A q \in Quads : Exists(q) =>
    /\ \A i \in DOMAIN pquad[q].segs :
         /\ pquad[q].segs[i].first <= pquad[q].segs[i].last
         /\ QuadOf(pquad[q].segs[i].first) = q /\ QuadOf(pquad[q].segs[i].last) = q
    /\ \A i, j \in DOMAIN pquad[q].segs :
         i < j => pquad[q].segs[i].last <= pquad[q].segs[j].first

(* whichquad leaves no link to a freed quadrant, and the quadrant it       *)
(* returns has both neighbours, whose pointers rexmit and ack_in follow    *)
(* without a test (rexmit.c:134, 711).                                     *)
LinksSound ==
  \A q \in Quads : Exists(q) =>
    /\ pquad[q].next \in {NoLink, After(q)} /\ pquad[q].prev \in {NoLink, Before(q)}
    /\ pquad[q].next # NoLink => Exists(After(q)) /\ pquad[After(q)].prev = q
    /\ pquad[q].prev # NoLink => Exists(Before(q)) /\ pquad[Before(q)].next = q

(* The quadrants and their lists, as addseg, whichquad and collapse_quad   *)
(* leave them to one another between any two of their steps.               *)
Structure == TypeOK /\ SegmentsOrdered /\ LinksSound

(* No byte that was sent is forgotten as long as its quadrant exists: it   *)
(* survives splits, the merging of acknowledged segments and the dropping  *)
(* of the first segment of a full quadrant.                                *)
NothingForgotten == pc = "idle" => {s \in SeqNums : tx[s] > 0} \subseteq Recorded

(* rexmit.c:99: "returns: number of retransmitted bytes in segment", as    *)
(* far as segments remember them.                                          *)
RexmitCount == pc = "idle" => rexlen = dup

(* A packet that is neither retransmitted nor out of order, which is what  *)
(* tcp.c takes for a new one (tcp.c:1530), comes after everything          *)
(* recorded in its quadrants.                                              *)
InOrderMeansNew == pc = "idle" /\ late => rexlen > 0 \/ order

(* What rexmit tells tcp.c of a packet is true: how many of its bytes were *)
(* sent before, and whether it is a new one.                               *)
Retransmissions == RexmitCount /\ InOrderMeansNew

(* Karn's rule (rexmit.c:565-580, 769-780): the round trip time is taken   *)
(* from a byte that was sent once, and since it was sent.                  *)
SampleUnambiguous ==
  sample.type = "NORMAL" =>
    LET s == (sample.ack + SeqLimit - 1) % SeqLimit
    IN  tx[s] = 1 /\ sample.rtt = now - sent[s]

==============================
