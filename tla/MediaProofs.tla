----------------------------- MODULE MediaProofs -----------------------------
(***************************************************************************)
(* What rtp.c counts of a media flow, for windows, numbers and time stamps *)
(* of any size and any number of packets and reports.                      *)
(***************************************************************************)
EXTENDS MCRtp, FiniteSetTheorems, WellFoundedInduction, TLAPS

------------------------------
\* Remainders.

\* A number is a multiple of m and its remainder.
LEMMA Quotient ==
  ASSUME NEW m \in Nat \ {0}, NEW a \in Int
  PROVE  a % m \in 0 .. m - 1 /\ a \div m \in Int /\ a = m * (a \div m) + (a % m)
OBVIOUS

\* Below m in size, 0 is the only multiple of m.
LEMMA Multiples ==
  ASSUME NEW m \in Nat \ {0}, NEW q \in Int, -m < m * q, m * q < m
  PROVE  q = 0
<1>1. CASE q >= 1
  <2>1. m * q >= m * 1 BY <1>1
  <2> QED BY <2>1
<1>2. CASE q <= -1
  <2>1. m * q <= m * (-1) BY <1>2
  <2>2. m * (-1) = -m OBVIOUS
  <2> QED BY <2>1, <2>2
<1> QED BY <1>1, <1>2

\* There is only one remainder.
LEMMA Remainder ==
  ASSUME NEW m \in Nat \ {0}, NEW a \in Int, NEW q \in Int, NEW r \in Int,
         0 <= r, r < m, a = m * q + r
  PROVE  a % m = r
<1> DEFINE p == a \div m
<1>1. a % m \in 0 .. m - 1 /\ p \in Int /\ a = m * p + (a % m) BY Quotient
<1> HIDE DEF p
<1>2. m * (q - p) = m * q - m * p /\ q - p \in Int /\ m * q \in Int /\ m * p \in Int BY <1>1
<1>3. m * (q - p) = (a % m) - r BY <1>1, <1>2
<1>4. q - p = 0 BY <1>1, <1>2, <1>3, Multiples
<1>5. q = p BY <1>1, <1>4
<1> QED BY <1>1, <1>5

\* A multiple of m more makes no difference.
LEMMA Shift ==
  ASSUME NEW m \in Nat \ {0}, NEW a \in Int, NEW b \in Int, NEW q \in Int, a = b + m * q
  PROVE  a % m = b % m
<1> DEFINE p == b \div m
<1>1. b % m \in 0 .. m - 1 /\ p \in Int /\ b = m * p + (b % m) BY Quotient
<1> HIDE DEF p
<1>2. m * (p + q) = m * p + m * q /\ p + q \in Int BY <1>1
<1> DEFINE k == p + q  r == b % m
<1>3. k \in Int /\ r \in Int /\ 0 <= r /\ r < m BY <1>1
<1>4. a = m * k + r BY <1>1, <1>2
<1> HIDE DEF k, r
<1>5. a % m = r BY ONLY <1>3, <1>4, m \in Nat \ {0}, a \in Int, Remainder
<1> QED BY <1>5 DEF r

\* What is reduced before is reduced in the end.
LEMMA Reduced ==
  ASSUME NEW m \in Nat \ {0}, NEW a \in Int, NEW b \in Int
  PROVE  /\ ((a % m) + b) % m = (a + b) % m
         /\ (b + (a % m)) % m = (a + b) % m
         /\ ((a % m) - b) % m = (a - b) % m
         /\ (b - (a % m)) % m = (b - a) % m
<1> DEFINE p == a \div m
<1>1. a % m \in 0 .. m - 1 /\ p \in Int /\ a = m * p + (a % m) BY Quotient
<1> HIDE DEF p
<1>2. m * (-p) = -(m * p) /\ -p \in Int /\ m * p \in Int BY <1>1
<1> DEFINE r == a % m
<1>3. r \in Int /\ a = m * p + r BY <1>1
<1> HIDE DEF r
<1>4. r + b = (a + b) + m * (-p) /\ b + r = (a + b) + m * (-p) /\ r - b = (a - b) + m * (-p) BY <1>2, <1>3
<1>5. b - r = (b - a) + m * p BY <1>2, <1>3
<1> DEFINE x == r + b  y == b + r  z == r - b  s == a + b  d == a - b  n == -p
<1>6. x \in Int /\ s \in Int /\ d \in Int /\ z \in Int /\ n \in Int BY <1>2, <1>3
<1>7. x = s + m * n /\ z = d + m * n /\ y = x BY <1>3, <1>4
<1> DEFINE u == b - r  v == b - a
<1>8. u \in Int /\ v \in Int /\ u = v + m * p BY <1>3, <1>5
<1> HIDE DEF x, y, z, s, d, n, u, v
<1>9. x % m = s % m BY <1>6, <1>7, Shift
<1>10. z % m = d % m BY <1>6, <1>7, Shift
<1>11. u % m = v % m BY <1>1, <1>8, Shift
<1> QED BY <1>7, <1>9, <1>10, <1>11 DEF r, x, y, z, s, d, u, v

\* Numbers less than m apart have different remainders.
LEMMA Differ ==
  ASSUME NEW m \in Nat \ {0}, NEW a \in Int, NEW b \in Int, a % m = b % m, -m < a - b, a - b < m
  PROVE  a = b
<1> DEFINE p == a \div m  q == b \div m
<1>1. a % m \in 0 .. m - 1 /\ p \in Int /\ a = m * p + (a % m) BY Quotient
<1>2. b % m \in 0 .. m - 1 /\ q \in Int /\ b = m * q + (b % m) BY Quotient
<1> HIDE DEF p, q
<1>3. m * (p - q) = m * p - m * q /\ p - q \in Int /\ m * p \in Int /\ m * q \in Int BY <1>1, <1>2
<1>4. m * (p - q) = a - b BY <1>1, <1>2, <1>3
<1>5. p - q = 0 BY <1>3, <1>4, Multiples
<1> QED BY <1>1, <1>2, <1>5

\* A remainder by a multiple of w has the same remainder by w.
LEMMA Nested ==
  ASSUME NEW m \in Nat \ {0}, NEW w \in Nat \ {0}, m % w = 0, NEW a \in Int
  PROVE  (a % m) % w = a % w
<1> DEFINE p == a \div m  q == m \div w
<1>1. a % m \in 0 .. m - 1 /\ p \in Int /\ a = m * p + (a % m) BY Quotient
<1>2. q \in Int /\ m = w * q + (m % w) BY Quotient
<1> HIDE DEF p, q
<1>3. m = w * q BY <1>2
<1>4. m * p = w * (q * p) /\ q * p \in Int BY <1>1, <1>2, <1>3
<1> DEFINE r == a % m
<1>5. r \in Int /\ a = r + w * (q * p) BY <1>1, <1>4
<1> HIDE DEF r
<1> DEFINE s == q * p
<1> HIDE DEF s
<1>6. s \in Int /\ a = r + w * s BY <1>4, <1>5 DEF s
<1>7. r \in Int BY <1>5
<1>8. a % w = r % w BY <1>6, <1>7, Shift
<1> QED BY <1>8 DEF r
------------------------------
\* The constants, as the proofs use them.
LEMMA Sizes ==
  /\ Win \in Nat /\ Win > 1 /\ Mod \in Nat \ {0} /\ Mod % Win = 0 /\ Win \in Nat \ {0}
  /\ OverflowTh \in Nat /\ OverflowTh > 5 * Win /\ Mod > 2 * OverflowTh
  /\ TsMod \in Nat \ {0} /\ TsBack \in Nat /\ OverflowTh <= TsMod - TsBack /\ OverflowTh < TsMod
BY WindowAssumption

\* A sequence number, a slot and a time stamp.
LEMMA Ranges ==
  /\ \A n \in Int : U16(n) \in Seqs /\ U32(n) \in 0 .. TsMod - 1 /\ U16(n) % Win \in Slots
  /\ \A n \in Seqs : n \in Int
  /\ \A n \in Slots : n \in Int
  /\ \A n \in 0 .. TsMod - 1 : n \in Int
  /\ 0 \in Slots /\ 0 \in Seqs
<1>1. ASSUME NEW n \in Int
      PROVE  U16(n) \in Seqs /\ U32(n) \in 0 .. TsMod - 1 /\ U16(n) % Win \in Slots
  <2>1. n % Mod \in 0 .. Mod - 1 /\ n % TsMod \in 0 .. TsMod - 1 BY Sizes, Quotient
  <2>2. (n % Mod) % Win \in 0 .. Win - 1
    <3>1. n % Mod \in Int BY <2>1
    <3> QED BY <3>1, Sizes, Quotient
  <2> QED BY <2>1, <2>2 DEF U16, U32, Seqs, Slots
<1> QED BY <1>1, Sizes DEF Seqs, Slots

\* U16 of what was reduced before, and of numbers of 16 bits.
LEMMA SeqArithmetic ==
  ASSUME NEW a \in Int, NEW b \in Int
  PROVE  /\ U16(U16(a) + b) = U16(a + b)
         /\ U16(b - U16(a)) = U16(b - a)
         /\ U16(U16(b) - U16(a)) = U16(b - a)
         /\ U16(U16(a) - b) = U16(a - b)
         /\ a \in 0 .. Mod - 1 => U16(a) = a
         /\ U16(a) % Win = a % Win
<1>1. a % Mod \in Int /\ b % Mod \in Int BY Sizes, Quotient
<1>2. ((a % Mod) + b) % Mod = (a + b) % Mod BY Sizes, Reduced
<1>3. (b - (a % Mod)) % Mod = (b - a) % Mod BY Sizes, Reduced
<1> DEFINE r == a % Mod
<1>7. r \in Int BY <1>1
<1> HIDE DEF r
<1>8. ((b % Mod) - r) % Mod = (b - r) % Mod BY <1>7, Sizes, Reduced
<1> USE DEF r
<1>4. ((a % Mod) - b) % Mod = (a - b) % Mod BY Sizes, Reduced
<1>5. ASSUME a \in 0 .. Mod - 1
      PROVE  a % Mod = a
  <2>1. Mod \in Nat \ {0} /\ 0 \in Int /\ 0 <= a /\ a < Mod /\ a = Mod * 0 + a BY <1>5, Sizes
  <2> QED BY <2>1, Remainder
<1>6. (a % Mod) % Win = a % Win BY Sizes, Nested
<1> QED BY <1>2, <1>3, <1>4, <1>5, <1>6, <1>8 DEF U16

------------------------------
\* rtp_stat in parts: the packet is counted, its number may be taken for
\* that of an encoder that begins anew, its time stamp and number are
\* remembered.
Counting(f, seq) ==
  [f EXCEPT !.pnum = @ + 1, !.w = @ \/ U16(seq - f.initial_seqno) >= Win]
Settling(f, seq, ts) == IF Jumped(f, seq, ts) THEN BogusReset(f, seq, ts) ELSE f
Timing(f, ts) == IF U32(ts - f.largest_ts) < OverflowTh THEN [f EXCEPT !.largest_ts = ts] ELSE f
Filing(f, seq) == IF f.w THEN FullWindow(f, seq) ELSE FirstWindow(f, seq)

\* And this is all.
LEMMA StatParts ==
  ASSUME NEW f, NEW seq, NEW ts
  PROVE  RtpStat(f, seq, ts) =
           Sequence(Filing(Timing(Settling(Counting(f, seq), seq, ts), ts), seq), seq)
BY DEF RtpStat, Counting, Settling, Timing, Filing

\* What was lost is in a burst, counted or open.
Whole(f) == f \in Rtp /\ f.n_lost = f.burst + f.burst_histo

\* A slot written, and the whole window.
LEMMA StoreType ==
  ASSUME NEW f \in Rtp, NEW seq \in Seqs
  PROVE  /\ Slot(f, seq) \in Slots /\ DeltaWin(f, seq) \in Seqs
         /\ Store(f, seq) \in Rtp
         /\ Store(f, seq) = [f EXCEPT !.packets_win = [@ EXCEPT ![Slot(f, seq)] = seq]]
<1>1. f.initial_seqno \in Seqs /\ f.packets_win \in [Slots -> Seqs] BY DEF Rtp
<1>2. Slot(f, seq) \in Slots
  <2>1. seq - f.initial_seqno \in Int BY <1>1, Ranges
  <2> QED BY <2>1, Ranges DEF Slot
<1>3. DeltaWin(f, seq) \in Seqs
  <2>1. seq - f.packets_win[Slot(f, seq)] \in Int BY <1>1, <1>2, Ranges
  <2> QED BY <2>1, Ranges DEF DeltaWin
<1>4. Store(f, seq) = [f EXCEPT !.packets_win = [@ EXCEPT ![Slot(f, seq)] = seq]] BY DEF Store
<1>5. [f.packets_win EXCEPT ![Slot(f, seq)] = seq] \in [Slots -> Seqs] BY <1>1, <1>2
<1>6. Store(f, seq) \in Rtp BY <1>4, <1>5 DEF Rtp
<1> QED BY <1>2, <1>3, <1>4, <1>6

\* Each part keeps the record whole.
LEMMA CountingWhole ==
  ASSUME NEW f, Whole(f), NEW seq \in Seqs
  PROVE  /\ Whole(Counting(f, seq)) /\ Counting(f, seq).pnum = f.pnum + 1
         /\ Counting(f, seq).n_out_of_sequence = f.n_out_of_sequence
<1> DEFINE w == f.w \/ U16(seq - f.initial_seqno) >= Win
<1>1. w \in BOOLEAN /\ f.pnum + 1 \in Nat BY DEF Whole, Rtp
<1>2. Counting(f, seq) = [f EXCEPT !.pnum = @ + 1, !.w = w] BY DEF Counting, Whole, Rtp
<1> HIDE DEF w
<1> QED BY <1>1, <1>2 DEF Whole, Rtp

\* While the stream settles (BogusReset) no packet is counted here.
LEMMA SettlingWhole ==
  ASSUME NEW f, Whole(f), NEW seq \in Seqs, NEW ts \in 0 .. TsMod - 1
  PROVE  /\ Whole(Settling(f, seq, ts)) /\ Settling(f, seq, ts).pnum = f.pnum
         /\ Settling(f, seq, ts).n_out_of_sequence = f.n_out_of_sequence
<1>1. U16(seq - 1) \in Seqs BY Ranges
<1>2. [i \in Slots |-> U16(seq - 1)] \in [Slots -> Seqs] BY <1>1
<1>3. Whole(BogusReset(f, seq, ts)) /\ BogusReset(f, seq, ts).pnum = f.pnum
      /\ BogusReset(f, seq, ts).n_out_of_sequence = f.n_out_of_sequence
  BY <1>1, <1>2 DEF BogusReset, Whole, Rtp
<1> QED BY <1>3 DEF Settling

\* The time stamps leave every count as it is.
LEMMA TimingWhole ==
  ASSUME NEW f, Whole(f), NEW ts \in 0 .. TsMod - 1
  PROVE  /\ Whole(Timing(f, ts)) /\ Timing(f, ts).pnum = f.pnum
         /\ Timing(f, ts).n_out_of_sequence = f.n_out_of_sequence
BY DEF Timing, Whole, Rtp

\* A burst that goes on, and one that ends.
LEMMA BurstWhole ==
  ASSUME NEW g, Whole(g)
  PROVE  /\ Whole([g EXCEPT !.n_lost = @ + 1, !.burst = @ + 1])
         /\ Whole([g EXCEPT !.burst_histo = @ + g.burst, !.burst = 0])
<1>1. g \in Rtp /\ g.n_lost = g.burst + g.burst_histo BY DEF Whole
<1>2. g.n_lost \in Nat /\ g.burst \in Nat /\ g.burst_histo \in Nat BY <1>1 DEF Rtp
<1> DEFINE l == g.n_lost + 1  b == g.burst + 1  h == g.burst_histo + g.burst
           x == [g EXCEPT !.n_lost = l, !.burst = b]
           y == [g EXCEPT !.burst_histo = h, !.burst = 0]
<1>3. l \in Nat /\ b \in Nat /\ h \in Nat /\ l = b + g.burst_histo /\ g.n_lost = 0 + h BY <1>1, <1>2
<1>4. x = [g EXCEPT !.n_lost = @ + 1, !.burst = @ + 1] BY <1>1 DEF Rtp
<1>5. y = [g EXCEPT !.burst_histo = @ + g.burst, !.burst = 0] BY <1>1 DEF Rtp
<1> HIDE DEF l, b, h
<1>6. x \in Rtp /\ x.n_lost = l /\ x.burst = b /\ x.burst_histo = g.burst_histo BY <1>1, <1>3 DEF Rtp
<1>7. y \in Rtp /\ y.n_lost = g.n_lost /\ y.burst = 0 /\ y.burst_histo = h BY <1>1, <1>3 DEF Rtp
<1> QED BY <1>3, <1>4, <1>5, <1>6, <1>7 DEF Whole

\* Filing a packet in the window counts losses with their bursts only.
LEMMA FilingWhole ==
  ASSUME NEW f, Whole(f), NEW seq \in Seqs
  PROVE  /\ Whole(Filing(f, seq)) /\ Filing(f, seq).pnum = f.pnum
         /\ Filing(f, seq).n_out_of_sequence = f.n_out_of_sequence
<1> DEFINE g == Store(f, seq)
<1>1. f \in Rtp /\ g \in Rtp /\ g = [f EXCEPT !.packets_win = [@ EXCEPT ![Slot(f, seq)] = seq]]
  BY StoreType DEF Whole
<1>2. /\ Whole(g) /\ g.pnum = f.pnum /\ g.n_out_of_sequence = f.n_out_of_sequence
      /\ g.burst = f.burst
  BY <1>1 DEF Whole, Rtp
<1> HIDE DEF g
<1>3. Store(f, seq) = g BY DEF g
<1>4. CASE Filing(f, seq) = f BY <1>4
<1>5. CASE Filing(f, seq) = Loss(f, seq)
  <2>1. Filing(f, seq) = [g EXCEPT !.n_lost = @ + 1, !.burst = @ + 1] BY <1>3, <1>5, Zenon DEF Loss
  <2>2. Whole([g EXCEPT !.n_lost = @ + 1, !.burst = @ + 1]) BY <1>2, BurstWhole
  <2>3. /\ [g EXCEPT !.n_lost = @ + 1, !.burst = @ + 1].pnum = g.pnum
        /\ [g EXCEPT !.n_lost = @ + 1, !.burst = @ + 1].n_out_of_sequence = g.n_out_of_sequence
    BY <1>1 DEF Rtp
  <2> QED BY <1>2, <2>1, <2>2, <2>3
<1>6. CASE Filing(f, seq) = EndBurst(f, seq)
  <2>1. Filing(f, seq) = [g EXCEPT !.burst_histo = @ + f.burst, !.burst = 0] BY <1>3, <1>6, Zenon DEF EndBurst
  <2>2. Whole([g EXCEPT !.burst_histo = @ + g.burst, !.burst = 0]) BY <1>2, BurstWhole
  <2>3. /\ [g EXCEPT !.burst_histo = @ + g.burst, !.burst = 0].pnum = g.pnum
        /\ [g EXCEPT !.burst_histo = @ + g.burst, !.burst = 0].n_out_of_sequence
              = g.n_out_of_sequence
    BY <1>1 DEF Rtp
  <2> QED BY <1>2, <2>1, <2>2, <2>3
<1>7. CASE \/ Filing(f, seq) = [f EXCEPT !.n_late = @ + 1]
           \/ Filing(f, seq) = [f EXCEPT !.n_dup = @ + 1]
  BY <1>7 DEF Whole, Rtp
<1>8. CASE Filing(f, seq) = FirstWindow(f, seq) BY <1>2, <1>3, <1>8 DEF FirstWindow, Whole, Rtp
<1> QED BY <1>4, <1>5, <1>6, <1>7, <1>8 DEF Filing, FullWindow

\* A packet is out of sequence when its number is not the one after the
\* largest so far.
LEMMA SequenceWhole ==
  ASSUME NEW f, Whole(f), NEW seq \in Seqs
  PROVE  /\ Whole(Sequence(f, seq)) /\ Sequence(f, seq).pnum = f.pnum
         /\ Sequence(f, seq).n_out_of_sequence =
              IF U16(f.largest_seqno + 1) # seq THEN f.n_out_of_sequence + 1
              ELSE f.n_out_of_sequence
<1> DEFINE n == IF U16(f.largest_seqno + 1) # seq THEN f.n_out_of_sequence + 1
                ELSE f.n_out_of_sequence
           l == IF U16(seq - f.largest_seqno) < OverflowTh THEN seq ELSE f.largest_seqno
<1>1. f \in Rtp /\ n \in Nat /\ l \in Seqs BY DEF Whole, Rtp
<1>2. Sequence(f, seq) = [f EXCEPT !.n_out_of_sequence = n, !.largest_seqno = l] BY DEF Sequence, Whole, Rtp
<1>3. Sequence(f, seq).n_out_of_sequence = n BY <1>1, <1>2 DEF Rtp
<1> HIDE DEF n, l
<1>4. Whole(Sequence(f, seq)) /\ Sequence(f, seq).pnum = f.pnum BY <1>1, <1>2 DEF Whole, Rtp
<1> QED BY <1>3, <1>4 DEF n

\* So does rtp_stat, and no packet is out of sequence twice.
LEMMA StatWhole ==
  ASSUME NEW f, Whole(f), NEW seq \in Seqs, NEW ts \in 0 .. TsMod - 1
  PROVE  /\ Whole(RtpStat(f, seq, ts)) /\ RtpStat(f, seq, ts).pnum = f.pnum + 1
         /\ InSequence(RtpStat(f, seq, ts)) >= InSequence(f)
<1> DEFINE f1 == Counting(f, seq)
           f2 == Settling(f1, seq, ts)
           f3 == Timing(f2, ts)
           f4 == Filing(f3, seq)
           f5 == Sequence(f4, seq)
<1>1. Whole(f1) /\ f1.pnum = f.pnum + 1 /\ f1.n_out_of_sequence = f.n_out_of_sequence BY CountingWhole
<1> HIDE DEF f1
<1>2. Whole(f2) /\ f2.pnum = f1.pnum /\ f2.n_out_of_sequence = f1.n_out_of_sequence BY <1>1, SettlingWhole
<1> HIDE DEF f2
<1>3. Whole(f3) /\ f3.pnum = f2.pnum /\ f3.n_out_of_sequence = f2.n_out_of_sequence BY <1>2, TimingWhole
<1> HIDE DEF f3
<1>4. Whole(f4) /\ f4.pnum = f3.pnum /\ f4.n_out_of_sequence = f3.n_out_of_sequence BY <1>3, FilingWhole
<1> HIDE DEF f4
<1>5. /\ Whole(f5) /\ f5.pnum = f4.pnum
      /\ f5.n_out_of_sequence \in {f4.n_out_of_sequence, f4.n_out_of_sequence + 1}
  BY <1>4, SequenceWhole
<1>6. RtpStat(f, seq, ts) = f5 BY StatParts DEF f1, f2, f3, f4
<1> HIDE DEF f5
<1>7. f.pnum \in Nat /\ f.n_out_of_sequence \in Nat BY DEF Whole, Rtp
<1>8. /\ f5.pnum = f.pnum + 1
      /\ f5.n_out_of_sequence \in {f.n_out_of_sequence, f.n_out_of_sequence + 1}
  BY <1>1, <1>2, <1>3, <1>4, <1>5
<1>9. f5.pnum - 1 - f5.n_out_of_sequence >= f.pnum - 1 - f.n_out_of_sequence BY <1>7, <1>8
<1> QED BY <1>5, <1>6, <1>8, <1>9 DEF InSequence

------------------------------
\* The largest of some numbers up to n.
LEMMA Greatest ==
  ASSUME NEW n \in Nat, NEW X \in SUBSET (0 .. n), X # {}
  PROVE  Max(X) \in X /\ \A x \in X : x <= Max(X)
<1> DEFINE Y == {n - x : x \in X}
<1>1. Y \in SUBSET Nat /\ Y # {}
  <2>1. \A x \in X : x \in 0 .. n OBVIOUS
  <2>2. \A x \in X : n - x \in Nat BY <2>1
  <2>3. PICK x \in X : TRUE OBVIOUS
  <2>4. n - x \in Y BY <2>3
  <2> QED BY <2>2, <2>4
<1>2. \E i \in Y : \A j \in Y : ~ (<<j, i>> \in OpToRel(<, Nat)) BY <1>1, NatLessThanWellFounded, WFMin
<1>3. PICK i \in Y : \A j \in Y : ~ (<<j, i>> \in OpToRel(<, Nat)) BY <1>2
<1>4. \A j \in Y : i <= j
  <2>1. \A j, k \in Nat : <<j, k>> \in OpToRel(<, Nat) <=> j < k BY DEF OpToRel
  <2>2. \A j \in Y : ~ (j < i) /\ j \in Nat /\ i \in Nat BY <1>1, <1>3, <2>1
  <2> QED BY <2>2
<1>5. PICK m \in X : i = n - m BY <1>3
<1>6. \A x \in X : m >= x
  <2> TAKE x \in X
  <2>1. n - m <= n - x BY <1>4, <1>5
  <2>2. m \in Int /\ x \in Int OBVIOUS
  <2> QED BY <2>1, <2>2
<1>7. Max(X) \in X /\ \A x \in X : Max(X) >= x BY <1>6 DEF Max
<1>8. \A x \in X : x \in Int OBVIOUS
<1> QED BY <1>7, <1>8

\* The larger of two numbers.
LEMMA Larger ==
  ASSUME NEW n \in Nat, NEW a \in 0 .. n, NEW b \in 0 .. n
  PROVE  Max({a, b}) = IF a >= b THEN a ELSE b
<1>1. Max({a, b}) \in {a, b} /\ \A x \in {a, b} : x <= Max({a, b}) BY Greatest
<1> QED BY <1>1

\* The end of the flow finds the losses of the last window: the burst that
\* is still open is no longer than what was lost.
LEMMA CloseWhole ==
  ASSUME NEW f, Whole(f)
  PROVE  /\ Whole(RtpClose(f)) /\ RtpClose(f).pnum = f.pnum
         /\ RtpClose(f).n_out_of_sequence = f.n_out_of_sequence
<1> DEFINE last == LastSlot(f)
           absent == Missing(f)
           present == (0 .. last) \ absent
           lost == Cardinality(absent)
           tail == IF present = {} THEN f.burst + lost ELSE last - Max(present)
<1>1. f \in Rtp /\ f.n_lost \in Nat /\ f.burst \in Nat /\ f.burst_histo \in Nat
      /\ f.n_lost = f.burst + f.burst_histo
  BY DEF Whole, Rtp
<1>2. last \in Nat
  <2>1. f.largest_seqno - f.initial_seqno \in Int BY <1>1, Ranges DEF Rtp
  <2> QED BY <2>1, Ranges DEF LastSlot, Slots
<1>3. RtpClose(f) = [f EXCEPT !.n_lost = @ + lost, !.burst = tail,
                              !.burst_histo = @ + f.burst + lost - tail]
  BY DEF RtpClose
<1>4. absent \in SUBSET (0 .. last) BY DEF Missing
<1> HIDE DEF last, absent
<1>5. IsFiniteSet(0 .. last) BY <1>2, FS_Interval
<1>6. IsFiniteSet(absent) /\ lost \in Nat BY <1>4, <1>5, FS_Subset, FS_CardinalityType
<1>7. tail \in Nat /\ tail <= f.burst + lost
  <2>1. CASE present = {} BY <1>1, <1>6, <2>1
  <2>2. CASE present # {}
    <3> DEFINE m == Max(present)
    <3>1. m \in present /\ \A x \in present : x <= m BY <1>2, <2>2, Greatest
    <3> HIDE DEF m
    <3>2. m \in 0 .. last BY <3>1
    <3>3. \A x \in m + 1 .. last : x \in absent
      <4> TAKE x \in m + 1 .. last
      <4>1. x \in 0 .. last /\ ~ (x <= m) BY <1>2, <3>2
      <4> QED BY <3>1, <4>1
    <3>4. m + 1 .. last \in SUBSET absent BY <3>3
    <3>5. Cardinality(m + 1 .. last) <= lost BY <1>6, <3>4, FS_Subset
    <3>6. Cardinality(m + 1 .. last) = last - m
      <4>1. m + 1 \in Int /\ last \in Int BY <1>2, <3>2
      <4>2. Cardinality(m + 1 .. last) = IF m + 1 > last THEN 0 ELSE last - (m + 1) + 1 BY <4>1, FS_Interval
      <4> QED BY <1>2, <3>2, <4>2
    <3>7. tail = last - m BY <2>2 DEF m
    <3> HIDE DEF tail, lost
    <3>8. last - m \in Nat /\ last - m <= lost BY <1>2, <3>2, <3>5, <3>6
    <3> QED BY <1>1, <1>6, <3>7, <3>8
  <2> QED BY <2>1, <2>2
<1> HIDE DEF lost, tail
<1> DEFINE l == f.n_lost + lost
           h == f.burst_histo + f.burst + lost - tail
<1>8. l \in Nat /\ h \in Nat /\ l = tail + h BY <1>1, <1>6, <1>7
<1>9. RtpClose(f) = [f EXCEPT !.n_lost = l, !.burst = tail, !.burst_histo = h] BY <1>1, <1>3 DEF Rtp
<1> HIDE DEF l, h
<1>10. /\ RtpClose(f) \in Rtp /\ RtpClose(f).n_lost = l /\ RtpClose(f).burst = tail
       /\ RtpClose(f).burst_histo = h
  BY <1>1, <1>7, <1>8, <1>9 DEF Rtp
<1>11. RtpClose(f).pnum = f.pnum /\ RtpClose(f).n_out_of_sequence = f.n_out_of_sequence BY <1>1, <1>9 DEF Rtp
<1> QED BY <1>8, <1>10, <1>11 DEF Whole

------------------------------
\* A stream that arrives in order.

\* Numbers that are equal in 16 bits, and small ones.
LEMMA SeqEqual ==
  /\ \A a, b \in Int : U16(a) = U16(b) /\ -Mod < a - b /\ a - b < Mod => a = b
  /\ \A a \in Seqs : U16(a) = a
<1>1. ASSUME NEW a \in Int, NEW b \in Int, U16(a) = U16(b), -Mod < a - b, a - b < Mod
      PROVE  a = b
  <2>1. a % Mod = b % Mod BY <1>1 DEF U16
  <2> QED BY <1>1, <2>1, Sizes, Differ
<1>2. ASSUME NEW a \in Seqs
      PROVE  U16(a) = a
  <2>1. a \in Int /\ 0 \in Int /\ a \in 0 .. Mod - 1 BY Ranges DEF Seqs
  <2> QED BY <2>1, SeqArithmetic
<1> QED BY <1>1, <1>2

\* Two slots in a row of Win are the same for the same number only.
LEMMA SlotEqual ==
  ASSUME NEW a \in Int, NEW b \in Int
  PROVE  /\ a % Win \in Slots
         /\ a % Win = b % Win /\ -Win < a - b /\ a - b < Win => a = b
         /\ (a - Win) % Win = a % Win
         /\ a \in Slots => a % Win = a
<1>1. a % Win \in 0 .. Win - 1 BY Sizes, Quotient
<1>2. ASSUME a % Win = b % Win, -Win < a - b, a - b < Win
      PROVE  a = b
  BY <1>2, Sizes, Differ
<1>3. (a - Win) % Win = a % Win
  <2> DEFINE c == a - Win
  <2>1. Win \in Nat \ {0} /\ c \in Int /\ a \in Int /\ -1 \in Int /\ c = a + Win * (-1) BY Sizes
  <2> HIDE DEF c
  <2>2. c % Win = a % Win BY <2>1, Shift
  <2> QED BY <2>2 DEF c
<1>4. ASSUME a \in Slots
      PROVE  a % Win = a
  <2>1. Win \in Nat \ {0} /\ 0 \in Int /\ 0 <= a /\ a < Win /\ a = Win * 0 + a BY <1>4, Sizes DEF Slots
  <2> QED BY <2>1, Remainder
<1> QED BY <1>1, <1>2, <1>3, <1>4 DEF Slots

\* The window after the packets s0 to s0 + off, the others not used yet.
Held(win, s0, off, fill) ==
  /\ \A j \in 0 .. off : j > off - Win => win[j % Win] = U16(s0 + j)
  /\ \A i \in Slots : i > off => win[i] = fill

\* What the slot of the next packet holds.
LEMMA HeldBefore ==
  ASSUME NEW win, NEW s0 \in Int, NEW off \in Nat, NEW fill, Held(win, s0, off, fill)
  PROVE  win[(off + 1) % Win] = IF off + 1 < Win THEN fill ELSE U16(s0 + ((off + 1) - Win))
<1>1. CASE off + 1 < Win
  <2>1. off + 1 \in Slots /\ off + 1 > off BY <1>1, Sizes DEF Slots
  <2>2. (off + 1) % Win = off + 1 BY <2>1, SlotEqual
  <2> QED BY <1>1, <2>1, <2>2 DEF Held
<1>2. CASE off + 1 >= Win
  <2> DEFINE j == (off + 1) - Win
  <2>1. j \in 0 .. off /\ j > off - Win BY <1>2, Sizes
  <2>2. j % Win = (off + 1) % Win
    <3> DEFINE n == off + 1
    <3>1. n \in Int OBVIOUS
    <3> HIDE DEF n
    <3>2. (n - Win) % Win = n % Win BY <3>1, SlotEqual
    <3> QED BY <3>2 DEF n
  <2> HIDE DEF j
  <2>3. win[j % Win] = U16(s0 + j) BY <2>1 DEF Held
  <2>4. ~ (off + 1 < Win) BY <1>2, Sizes
  <2> QED BY <2>2, <2>3, <2>4 DEF j
<1> QED BY <1>1, <1>2, Sizes

\* And the window with it.
LEMMA HeldNext ==
  ASSUME NEW win \in [Slots -> Seqs], NEW s0 \in Int, NEW off \in Nat, NEW fill,
         Held(win, s0, off, fill)
  PROVE  Held([win EXCEPT ![(off + 1) % Win] = U16(s0 + off + 1)], s0, off + 1, fill)
<1> DEFINE n == off + 1
           new == [win EXCEPT ![n % Win] = U16(s0 + n)]
<1>0. n \in Nat /\ n % Win \in Slots /\ n = off + 1 BY SlotEqual
<1>1. s0 + off + 1 = s0 + n OBVIOUS
<1>2. \A i \in Slots : new[i] = IF i = n % Win THEN U16(s0 + n) ELSE win[i] OBVIOUS
<1> HIDE DEF n, new
<1>3. ASSUME NEW j \in 0 .. n, j > n - Win
      PROVE  new[j % Win] = U16(s0 + j)
  <2>1. j \in Int /\ n \in Int /\ j % Win \in Slots BY <1>0, SlotEqual
  <2>2. CASE j = n BY <1>0, <1>2, <2>2
  <2>3. CASE j # n
    <3>1. j \in 0 .. off /\ j > off - Win /\ -Win < j - n /\ j - n < Win BY <1>0, <1>3, <2>3, Sizes
    <3>2. j % Win # n % Win BY <2>1, <2>3, <3>1, SlotEqual
    <3>3. win[j % Win] = U16(s0 + j) BY <3>1 DEF Held
    <3> QED BY <1>2, <2>1, <3>2, <3>3
  <2> QED BY <2>2, <2>3
<1>4. ASSUME NEW i \in Slots, i > n
      PROVE  new[i] = fill
  <2>1. n \in Slots /\ i > off BY <1>0, <1>4, Sizes DEF Slots
  <2>2. n % Win = n BY <1>0, <2>1, SlotEqual
  <2>3. i # n BY <1>0, <1>4
  <2> QED BY <1>2, <2>1, <2>2, <2>3 DEF Held
<1>5. Held(new, s0, n, fill) BY <1>3, <1>4 DEF Held
<1> QED BY <1>1, <1>5 DEF n, new

\* All of them were counted as they should be.
InOrder(f, s0, off, fill) ==
  /\ f \in Rtp
  /\ f.initial_seqno = U16(s0) /\ f.largest_seqno = U16(s0 + off)
  /\ f.w <=> off >= Win
  /\ Held(f.packets_win, s0, off, fill)
  /\ f.n_lost = 0 /\ f.n_late = 0 /\ f.burst = 0

\* What the next packet means to the record: its slot holds the packet a
\* window before, or nothing yet.
Expected(f, off, fill, seq) ==
  /\ Counting(f, seq) = [f EXCEPT !.pnum = @ + 1, !.w = (off + 1 >= Win)]
  /\ Slot(f, seq) = (off + 1) % Win
  /\ off + 1 >= Win => DeltaWin(f, seq) = Win
  /\ off + 1 < Win => (DeltaWin(f, seq) = 0 <=> seq = fill)
  /\ U16(f.largest_seqno + 1) = seq /\ U16(seq - f.largest_seqno) = 1

\* The packet after off others of a clean stream is what rtp_stat expects.
LEMMA NextCounted ==
  ASSUME NEW f, NEW s0 \in Int, NEW off \in Nat, NEW fill \in Seqs,
         InOrder(f, s0, off, fill), NEW seq \in Seqs, seq = U16(s0 + off + 1)
  PROVE  Expected(f, off, fill, seq)
<1> DEFINE n == off + 1
<1>1. /\ f \in Rtp /\ f.initial_seqno = U16(s0) /\ f.largest_seqno = U16(s0 + off)
      /\ f.w \in BOOLEAN /\ (f.w <=> off >= Win)
      /\ Held(f.packets_win, s0, off, fill)
  BY DEF InOrder, Rtp
<1>2. n \in Int /\ n \in Nat /\ n = off + 1 /\ s0 + n \in Int /\ s0 + off \in Int OBVIOUS
<1> HIDE DEF n
<1>3. seq = U16(s0 + n)
  <2>1. s0 + off + 1 = s0 + n BY <1>2
  <2> QED BY <2>1
<1>4. U16(seq - f.initial_seqno) = U16(n)
  <2>1. U16(U16(s0 + n) - U16(s0)) = U16((s0 + n) - s0) BY <1>2, SeqArithmetic
  <2>2. (s0 + n) - s0 = n BY <1>2
  <2> QED BY <1>1, <1>3, <2>1, <2>2
<1>5. Slot(f, seq) = n % Win
  <2>1. U16(n) % Win = n % Win BY <1>2, SeqArithmetic
  <2> QED BY <1>4, <2>1 DEF Slot
<1>6. (f.w \/ U16(n) >= Win) <=> n >= Win
  <2>1. CASE off >= Win BY <1>1, <1>2, <2>1, Sizes
  <2>2. CASE ~ (off >= Win)
    <3>1. n \in Seqs BY <1>2, <2>2, Sizes DEF Seqs
    <3>2. U16(n) = n BY <3>1, SeqEqual
    <3> QED BY <1>1, <2>2, <3>2
  <2> QED BY <2>1, <2>2
<1>7. Counting(f, seq) = [f EXCEPT !.pnum = @ + 1, !.w = (n >= Win)]
  <2> DEFINE w == f.w \/ U16(seq - f.initial_seqno) >= Win
  <2>1. w \in BOOLEAN /\ (n >= Win) \in BOOLEAN BY <1>1
  <2>2. w <=> n >= Win BY <1>4, <1>6
  <2>3. w = (n >= Win) BY <2>1, <2>2
  <2>4. Counting(f, seq) = [f EXCEPT !.pnum = @ + 1, !.w = w] BY <1>1 DEF Counting, Rtp
  <2> QED BY <2>3, <2>4
<1>8. f.packets_win[n % Win] = IF n < Win THEN fill ELSE U16(s0 + (n - Win)) BY <1>1, HeldBefore DEF n
<1>9. ASSUME n >= Win
      PROVE  DeltaWin(f, seq) = Win
  <2> DEFINE m == s0 + (n - Win)
  <2>1. m \in Int /\ (s0 + n) - m = Win BY <1>2, Sizes
  <2>2. f.packets_win[n % Win] = U16(m) BY <1>2, <1>8, <1>9, Sizes
  <2> HIDE DEF m
  <2>3. U16(U16(s0 + n) - U16(m)) = U16((s0 + n) - m) BY <1>2, <2>1, SeqArithmetic
  <2>4. Win \in Seqs BY Sizes DEF Seqs
  <2>5. U16(Win) = Win BY <2>4, SeqEqual
  <2> QED BY <1>3, <1>5, <2>1, <2>2, <2>3, <2>5 DEF DeltaWin
<1>10. ASSUME n < Win
       PROVE  DeltaWin(f, seq) = 0 <=> seq = fill
  <2>1. DeltaWin(f, seq) = U16(seq - fill) BY <1>5, <1>8, <1>10 DEF DeltaWin
  <2>2. U16(0) = 0 BY Ranges, SeqEqual
  <2>3. seq \in Int /\ fill \in Int /\ seq - fill \in Int /\ 0 \in Int
        /\ -Mod < (seq - fill) - 0 /\ (seq - fill) - 0 < Mod
    BY Sizes DEF Seqs
  <2> DEFINE d == seq - fill
  <2>4. d \in Int /\ -Mod < d - 0 /\ d - 0 < Mod /\ (d = 0 <=> seq = fill)
    <3>1. seq \in Int /\ fill \in Int BY <2>3
    <3>2. seq - fill = 0 <=> seq = fill BY ONLY <3>1
    <3> QED BY <2>3, <3>2
  <2> HIDE DEF d
  <2>5. U16(d) = U16(0) => d = 0 BY <2>3, <2>4, SeqEqual
  <2>6. DeltaWin(f, seq) = U16(d) BY <2>1 DEF d
  <2> QED BY <2>2, <2>4, <2>5, <2>6
<1>11. U16(f.largest_seqno + 1) = seq
  <2>1. U16(U16(s0 + off) + 1) = U16((s0 + off) + 1) BY <1>2, SeqArithmetic
  <2>2. (s0 + off) + 1 = s0 + n BY <1>2
  <2> QED BY <1>1, <1>3, <2>1, <2>2
<1>12. U16(seq - f.largest_seqno) = 1
  <2>1. U16(U16(s0 + n) - U16(s0 + off)) = U16((s0 + n) - (s0 + off)) BY <1>2, SeqArithmetic
  <2>2. (s0 + n) - (s0 + off) = 1 BY <1>2
  <2>3. 1 \in Seqs BY Sizes DEF Seqs
  <2>4. U16(1) = 1 BY <2>3, SeqEqual
  <2> QED BY <1>1, <1>3, <2>1, <2>2, <2>4
<1> QED BY <1>5, <1>7, <1>9, <1>10, <1>11, <1>12 DEF n, Expected

\* The next packet is counted as one, and only as a duplicate if the slot
\* that is not used yet happens to hold its number.
LEMMA NextInOrder ==
  ASSUME NEW f, NEW s0 \in Int, NEW off \in Nat, NEW fill \in Seqs,
         InOrder(f, s0, off, fill), NEW ts \in 0 .. TsMod - 1, NEW seq \in Seqs,
         seq = U16(s0 + off + 1), NEW g, g = RtpStat(f, seq, ts)
  PROVE  /\ InOrder(g, s0, off + 1, fill)
         /\ g.n_dup = IF off + 1 < Win /\ seq = fill THEN f.n_dup + 1 ELSE f.n_dup
         /\ g.n_out_of_sequence = f.n_out_of_sequence
         /\ g.largest_ts = IF U32(ts - f.largest_ts) < OverflowTh THEN ts ELSE f.largest_ts
<1> DEFINE full == off + 1 >= Win
           f1 == Counting(f, seq)
           lts == IF U32(ts - f.largest_ts) < OverflowTh THEN ts ELSE f.largest_ts
           win == [f.packets_win EXCEPT ![(off + 1) % Win] = seq]
           dup == IF off + 1 < Win /\ seq = fill THEN f.n_dup + 1 ELSE f.n_dup
<1>1. /\ f \in Rtp /\ f.initial_seqno = U16(s0) /\ f.largest_seqno = U16(s0 + off)
      /\ Held(f.packets_win, s0, off, fill) /\ f.packets_win \in [Slots -> Seqs]
      /\ f.n_lost = 0 /\ f.n_late = 0 /\ f.burst = 0
      /\ f.pnum \in Nat /\ f.n_dup \in Nat /\ f.burst_histo \in Nat /\ f.w \in BOOLEAN
      /\ f.largest_ts \in 0 .. TsMod - 1 /\ f.n_out_of_sequence \in Nat
  BY DEF InOrder, Rtp
<1>2. /\ f1 = [f EXCEPT !.pnum = @ + 1, !.w = full]
      /\ Slot(f, seq) = (off + 1) % Win
      /\ full => DeltaWin(f, seq) = Win
      /\ off + 1 < Win => (DeltaWin(f, seq) = 0 <=> seq = fill)
      /\ U16(f.largest_seqno + 1) = seq /\ U16(seq - f.largest_seqno) = 1
  <2>1. Expected(f, off, fill, seq) BY NextCounted
  <2> QED BY <2>1 DEF Expected
<1>3. full \in BOOLEAN /\ (off + 1 < Win <=> ~ full) BY Sizes
<1>4. lts \in 0 .. TsMod - 1 /\ win \in [Slots -> Seqs] /\ dup \in Nat
  <2>1. lts \in 0 .. TsMod - 1 BY <1>1
  <2>2. win \in [Slots -> Seqs] BY <1>1
  <2>3. dup \in Nat BY <1>1
  <2> QED BY <2>1, <2>2, <2>3
<1>5. Held(win, s0, off + 1, fill) BY <1>1, HeldNext
<1> HIDE DEF full, win, lts, dup
<1> DEFINE p == f.pnum + 1
           h == [f EXCEPT !.pnum = p, !.w = full, !.largest_ts = lts]
<1>6. p \in Nat /\ f1 = [f EXCEPT !.pnum = p, !.w = full] BY <1>1, <1>2 DEF Rtp
<1> HIDE DEF p
<1>7. f1 \in Rtp /\ f1.w = full /\ f1.packets_win = f.packets_win
      /\ f1.initial_seqno = f.initial_seqno /\ f1.largest_ts = f.largest_ts
  BY <1>1, <1>6, <1>3 DEF Rtp
<1>8. DeltaWin(f1, seq) = DeltaWin(f, seq) BY <1>7 DEF DeltaWin, Slot
<1> HIDE DEF f1
<1>9. Settling(f1, seq, ts) = f1
  <2>1. full => ~ (DeltaWin(f1, seq) > 5 * Win) BY <1>2, <1>8, Sizes
  <2>2. ~ Jumped(f1, seq, ts) BY <1>7, <2>1 DEF Jumped
  <2> QED BY <2>2 DEF Settling
<1>10. Timing(f1, ts) = h
  <2>1. Timing(f1, ts) = [f1 EXCEPT !.largest_ts = lts] BY <1>7 DEF Timing, Rtp, lts
  <2>2. [f1 EXCEPT !.largest_ts = lts] = h BY <1>1, <1>6 DEF Rtp
  <2> QED BY <2>1, <2>2
<1>11. /\ h \in Rtp /\ h.w = full /\ h.packets_win = f.packets_win
       /\ h.initial_seqno = f.initial_seqno /\ h.largest_seqno = f.largest_seqno
       /\ h.n_dup = f.n_dup /\ h.burst = f.burst /\ h.burst_histo = f.burst_histo
       /\ h.n_lost = 0 /\ h.n_late = 0 /\ h.largest_ts = lts
       /\ h.n_out_of_sequence = f.n_out_of_sequence
  BY <1>1, <1>3, <1>4, <1>6 DEF Rtp
<1> HIDE DEF h
<1>12. DeltaWin(h, seq) = DeltaWin(f, seq) /\ Slot(h, seq) = (off + 1) % Win BY <1>2, <1>11 DEF DeltaWin, Slot
<1> DEFINE x == [h EXCEPT !.packets_win = win, !.n_dup = dup]
<1>13. Filing(h, seq) = x
  <2>1. Store(h, seq) = [h EXCEPT !.packets_win = win] BY <1>11, <1>12 DEF Store, Rtp, win
  <2>2. CASE full
    <3>1. FullWindow(h, seq) = EndBurst(h, seq) BY <1>2, <1>12, <2>2, Sizes DEF FullWindow
    <3>2. EndBurst(h, seq) = [[h EXCEPT !.packets_win = win] EXCEPT
                                 !.burst_histo = @ + h.burst, !.burst = 0]
      BY <2>1, Zenon DEF EndBurst
    <3>3. h.burst = 0 /\ h.burst_histo + h.burst = h.burst_histo /\ dup = h.n_dup
      BY <1>1, <1>3, <1>11, <2>2 DEF dup
    <3>4. [[h EXCEPT !.packets_win = win] EXCEPT !.burst_histo = @ + h.burst, !.burst = 0] = x
      BY <1>11, <3>3 DEF Rtp
    <3> QED BY <1>11, <2>2, <3>1, <3>2, <3>4 DEF Filing
  <2>3. CASE ~ full
    <3>1. FirstWindow(h, seq) = [[h EXCEPT !.packets_win = win] EXCEPT
                                   !.n_dup = IF DeltaWin(h, seq) = 0 THEN @ + 1 ELSE @]
      BY <2>1, Zenon DEF FirstWindow
    <3>2. dup = IF DeltaWin(h, seq) = 0 THEN h.n_dup + 1 ELSE h.n_dup
      BY <1>2, <1>3, <1>11, <1>12, <2>3 DEF dup
    <3>3. [[h EXCEPT !.packets_win = win] EXCEPT
                                   !.n_dup = IF DeltaWin(h, seq) = 0 THEN @ + 1 ELSE @] = x
      BY <1>11, <3>2 DEF Rtp
    <3> QED BY <1>11, <2>3, <3>1, <3>3 DEF Filing
  <2> QED BY <2>2, <2>3
<1>14. /\ x \in Rtp /\ x.w = full /\ x.packets_win = win /\ x.n_dup = dup
       /\ x.initial_seqno = f.initial_seqno /\ x.largest_seqno = f.largest_seqno
       /\ x.burst = 0 /\ x.n_lost = 0 /\ x.n_late = 0 /\ x.largest_ts = lts
       /\ x.n_out_of_sequence = f.n_out_of_sequence
  BY <1>1, <1>4, <1>11 DEF Rtp
<1> HIDE DEF x
<1>15. Sequence(x, seq) = [x EXCEPT !.largest_seqno = seq]
  <2>1. U16(x.largest_seqno + 1) = seq /\ U16(seq - x.largest_seqno) < OverflowTh BY <1>2, <1>14, Sizes
  <2> QED BY <1>14, <2>1 DEF Sequence, Rtp
<1>16. g = [x EXCEPT !.largest_seqno = seq] BY <1>9, <1>10, <1>13, <1>15, StatParts DEF f1
<1>17. /\ g \in Rtp /\ g.w = full /\ g.packets_win = win /\ g.n_dup = dup
       /\ g.initial_seqno = f.initial_seqno /\ g.largest_seqno = seq
       /\ g.burst = 0 /\ g.n_lost = 0 /\ g.n_late = 0 /\ g.largest_ts = lts
       /\ g.n_out_of_sequence = f.n_out_of_sequence
  BY <1>14, <1>16 DEF Rtp
<1>18. s0 + off + 1 = s0 + (off + 1) OBVIOUS
<1>19. InOrder(g, s0, off + 1, fill) BY <1>1, <1>5, <1>17, <1>18 DEF InOrder, full, win
<1> QED BY <1>17, <1>19 DEF dup, lts

\* The first packet makes the record.
LEMMA FirstInOrder ==
  ASSUME NEW s \in Int
  PROVE  InOrder(InitRtp(U16(s), 0), s, 0, 0) /\ Whole(InitRtp(U16(s), 0))
<1> DEFINE f == InitRtp(U16(s), 0)
           win == [i \in Slots |-> IF i = 0 THEN U16(s) ELSE 0]
<1>1. U16(s) \in Seqs /\ 0 \in Seqs /\ 0 \in Slots BY Ranges
<1>2. win \in [Slots -> Seqs] /\ 0 \in 0 .. TsMod - 1 BY <1>1, Sizes
<1>3. f.packets_win = win BY DEF InitRtp
<1>4. Held(win, s, 0, 0)
  <2>1. ASSUME NEW j \in 0 .. 0
        PROVE  win[j % Win] = U16(s + j)
    <3>1. j = 0 /\ 0 \in Int OBVIOUS
    <3>2. 0 % Win = 0 BY <1>1, <3>1, SlotEqual
    <3>3. s + 0 = s OBVIOUS
    <3> QED BY <1>1, <3>1, <3>2, <3>3
  <2>2. ASSUME NEW i \in Slots, i > 0
        PROVE  win[i] = 0
    BY <2>2
  <2> QED BY <2>1, <2>2 DEF Held
<1> HIDE DEF win
<1>5. f \in Rtp BY <1>1, <1>2, <1>3 DEF InitRtp, Rtp
<1>6. ~ (0 >= Win) BY Sizes
<1>7. s + 0 = s OBVIOUS
<1>8. /\ f.initial_seqno = U16(s) /\ f.largest_seqno = U16(s) /\ f.w = FALSE
      /\ f.n_lost = 0 /\ f.n_late = 0 /\ f.burst = 0 /\ f.burst_histo = 0
  BY DEF InitRtp
<1> HIDE DEF f
<1>9. InOrder(f, s, 0, 0) BY <1>3, <1>4, <1>5, <1>6, <1>7, <1>8 DEF InOrder
<1>10. Whole(f) BY <1>5, <1>8 DEF Whole
<1> QED BY <1>9, <1>10 DEF f

\* The second one is counted right away.
LEMMA FirstPackets ==
  ASSUME NEW s \in Int, NEW ts \in 0 .. TsMod - 1,
         NEW g, g = RtpStat(InitRtp(U16(s), 0), U16(s + 1), ts)
  PROVE  /\ Whole(g) /\ InOrder(g, s, 1, 0) /\ g.pnum = 2 /\ g.n_out_of_sequence = 0
         /\ g.n_dup = IF U16(s + 1) = 0 THEN 1 ELSE 0
         /\ g.largest_ts = IF U32(ts) < OverflowTh THEN ts ELSE 0
<1> DEFINE f == InitRtp(U16(s), 0)
           seq == U16(s + 1)
<1>1. InOrder(f, s, 0, 0) /\ Whole(f) BY FirstInOrder
<1>2. f.pnum = 1 /\ f.n_dup = 0 /\ f.n_out_of_sequence = 0 /\ f.largest_ts = 0 BY DEF InitRtp
<1>3. g = RtpStat(f, seq, ts) OBVIOUS
<1>4. seq \in Seqs /\ 0 \in Seqs BY Ranges
<1>5. seq = U16(s + 0 + 1)
  <2>1. s + 0 + 1 = s + 1 OBVIOUS
  <2> QED BY <2>1
<1> HIDE DEF f, seq
<1> DEFINE z == 0
<1>6. z \in Nat /\ z \in Seqs /\ InOrder(f, s, z, z) /\ seq = U16(s + z + 1) BY <1>1, <1>4, <1>5
<1> HIDE DEF z
<1>7. /\ InOrder(g, s, z + 1, z)
      /\ g.n_dup = IF z + 1 < Win /\ seq = z THEN f.n_dup + 1 ELSE f.n_dup
      /\ g.n_out_of_sequence = f.n_out_of_sequence
      /\ g.largest_ts = IF U32(ts - f.largest_ts) < OverflowTh THEN ts ELSE f.largest_ts
  BY <1>3, <1>4, <1>6, NextInOrder
<1>8. z + 1 = 1 /\ 1 < Win /\ ts - 0 = ts BY Sizes DEF z
<1>9. InOrder(g, s, 1, 0) BY <1>7, <1>8 DEF z
<1>10. g.n_dup = IF seq = 0 THEN 1 ELSE 0 BY <1>2, <1>7, <1>8 DEF z
<1>11. g.n_out_of_sequence = 0 BY <1>2, <1>7
<1>12. g.largest_ts = IF U32(ts) < OverflowTh THEN ts ELSE 0 BY <1>2, <1>7, <1>8
<1>13. Whole(g) /\ g.pnum = f.pnum + 1 BY <1>1, <1>3, <1>4, StatWhole
<1>14. g.pnum = 2 BY <1>2, <1>13
<1> QED BY <1>9, <1>10, <1>11, <1>12, <1>13, <1>14 DEF seq

\* A jump of the numbers is far from whatever a full window holds.
LEMMA FarAway ==
  ASSUME NEW f, NEW s0 \in Int, NEW off \in Nat, NEW fill, InOrder(f, s0, off, fill),
         off + 1 >= Win, NEW jump \in 5 * Win .. Mod - (Win + 1), NEW seq \in Seqs,
         seq = U16(s0 + (off + 1) + jump)
  PROVE  /\ U16(seq - f.initial_seqno) >= Win \/ f.w
         /\ DeltaWin(f, seq) > 5 * Win
<1> DEFINE n == off + 1
           r == jump % Win
           j == (n - Win) + r
<1>1. Win \in Int /\ Mod \in Int /\ jump \in Int /\ 5 * Win <= jump /\ jump < Mod - Win
      /\ Win > 1 /\ n \in Int /\ n = off + 1 /\ n >= Win
  BY Sizes
<1>2. r \in Int /\ 0 <= r /\ r < Win BY <1>1, Sizes, Quotient
<1> HIDE DEF n
<1>3. \E q \in Int : jump = Win * q + r
  <2>1. jump = Win * (jump \div Win) + (jump % Win) /\ jump \div Win \in Int BY <1>1, Sizes, Quotient
  <2> QED BY <2>1
<1> HIDE DEF r
<1>4. j \in 0 .. off /\ j > off - Win /\ j \in Int BY <1>1, <1>2
<1>5. /\ f.initial_seqno = U16(s0) /\ f.w \in BOOLEAN /\ (f.w <=> off >= Win)
      /\ Held(f.packets_win, s0, off, fill)
  BY DEF InOrder, Rtp
<1> DEFINE m == n + jump
<1>6. m \in Int /\ s0 + m \in Int /\ (s0 + m) - s0 = m /\ s0 + (off + 1) + jump = s0 + m BY <1>1
<1>7. m % Win = j % Win
  <2>1. PICK q \in Int : jump = Win * q + r BY <1>3
  <2>2. Win * (q + 1) = Win * q + Win /\ q + 1 \in Int /\ Win * q \in Int BY <1>1
  <2> DEFINE p == q + 1
  <2>3. p \in Int /\ m = j + Win * p BY <1>1, <1>2, <2>1, <2>2
  <2> HIDE DEF p, m, j
  <2> QED BY <1>4, <1>6, <2>3, Sizes, Shift
<1>8. (s0 + m) - (s0 + j) = jump + (Win - r) BY <1>1, <1>2
<1> HIDE DEF m, j
<1>9. seq = U16(s0 + m) BY <1>6
<1>10. U16(seq - f.initial_seqno) = U16(m)
  <2>1. U16(U16(s0 + m) - U16(s0)) = U16((s0 + m) - s0) BY <1>6, SeqArithmetic
  <2> QED BY <1>5, <1>6, <1>9, <2>1
<1>11. U16(seq - f.initial_seqno) >= Win \/ f.w
  <2>1. CASE off >= Win BY <1>5, <2>1
  <2>2. CASE ~ (off >= Win)
    <3>1. m \in Seqs /\ m >= Win BY <1>1, <2>2 DEF m, Seqs
    <3>2. U16(m) = m BY <3>1, SeqEqual
    <3> QED BY <1>10, <3>1, <3>2
  <2> QED BY <2>1, <2>2
<1>12. DeltaWin(f, seq) > 5 * Win
  <2>1. Slot(f, seq) = m % Win
    <3>1. U16(m) % Win = m % Win BY <1>6, SeqArithmetic
    <3> QED BY <1>10, <3>1 DEF Slot
  <2>2. f.packets_win[m % Win] = U16(s0 + j) BY <1>4, <1>5, <1>7 DEF Held
  <2>3. U16(U16(s0 + m) - U16(s0 + j)) = U16((s0 + m) - (s0 + j))
    <3>1. s0 + j \in Int BY <1>4
    <3> QED BY <1>6, <3>1, SeqArithmetic
  <2> DEFINE d == jump + (Win - r)
  <2>4. d \in Seqs /\ d > 5 * Win BY <1>1, <1>2 DEF Seqs
  <2> HIDE DEF d
  <2>5. U16(d) = d BY <2>4, SeqEqual
  <2>6. DeltaWin(f, seq) = U16(d) BY <1>8, <1>9, <2>1, <2>2, <2>3 DEF DeltaWin, d
  <2> QED BY <2>4, <2>5, <2>6
<1> QED BY <1>11, <1>12

\* An encoder that renumbers after the first window: the window begins
\* anew, and the packet is out of sequence once.
LEMMA Restart ==
  ASSUME NEW f, NEW s0 \in Int, NEW off \in Nat, NEW fill, InOrder(f, s0, off, fill),
         off + 1 >= Win, NEW jump \in 5 * Win .. Mod - (Win + 1), NEW seq \in Seqs,
         seq = U16(s0 + (off + 1) + jump), NEW ts \in 0 .. TsMod - 1,
         U32(ts - f.largest_ts) < TsMod - TsBack,
         NEW t \in Int, t = s0 + off + jump, NEW g, g = RtpStat(f, seq, ts)
  PROVE  /\ InOrder(g, t, 1, U16(t))
         /\ g.n_dup = f.n_dup /\ g.n_out_of_sequence = f.n_out_of_sequence + 1
         /\ g.largest_ts = ts
<1>1. /\ f \in Rtp /\ f.n_lost = 0 /\ f.n_late = 0 /\ f.burst = 0
      /\ f.n_dup \in Nat /\ f.n_out_of_sequence \in Nat /\ f.pnum \in Nat
  BY DEF InOrder, Rtp
<1>2. (U16(seq - f.initial_seqno) >= Win \/ f.w) /\ DeltaWin(f, seq) > 5 * Win BY FarAway
<1>3. seq = U16(t + 1) /\ U16(seq - 1) = U16(t) /\ U16(t) \in Seqs
  <2>1. s0 + (off + 1) + jump = t + 1 /\ t + 1 \in Int /\ (t + 1) - 1 = t OBVIOUS
  <2>2. U16(U16(t + 1) - 1) = U16((t + 1) - 1) BY <2>1, SeqArithmetic
  <2> QED BY <2>1, <2>2, Ranges
<1> DEFINE p == f.pnum + 1
           one == [i \in Slots |-> U16(t)]
           f1 == [f EXCEPT !.pnum = p, !.w = TRUE]
           f2 == [f1 EXCEPT !.w = FALSE, !.largest_seqno = seq, !.initial_seqno = U16(t),
                            !.largest_ts = ts, !.bogus_reset = TRUE, !.packets_win = one]
<1>4. p \in Nat /\ one \in [Slots -> Seqs] /\ \A i \in Slots : one[i] = U16(t) BY <1>1, <1>3
<1>5. Counting(f, seq) = f1 BY <1>1, <1>2 DEF Counting, Rtp
<1> HIDE DEF p, one
<1>6. f1 \in Rtp /\ f1.w = TRUE /\ f1.packets_win = f.packets_win
      /\ f1.initial_seqno = f.initial_seqno /\ f1.largest_ts = f.largest_ts
      /\ f1.n_lost = 0 /\ f1.n_late = 0 /\ f1.burst = 0 /\ f1.n_dup = f.n_dup
      /\ f1.n_out_of_sequence = f.n_out_of_sequence
  BY <1>1, <1>4 DEF Rtp
<1> HIDE DEF f1
<1>7. Settling(f1, seq, ts) = f2
  <2>1. DeltaWin(f1, seq) = DeltaWin(f, seq) BY <1>6 DEF DeltaWin, Slot
  <2>2. Jumped(f1, seq, ts) BY <1>2, <1>6, <2>1 DEF Jumped
  <2>3. BogusReset(f1, seq, ts) = f2 BY <1>3, Zenon DEF BogusReset, one
  <2> QED BY <2>2, <2>3 DEF Settling
<1>8. /\ f2 \in Rtp /\ f2.w = FALSE /\ f2.packets_win = one
      /\ f2.initial_seqno = U16(t) /\ f2.largest_seqno = seq /\ f2.largest_ts = ts
      /\ f2.n_lost = 0 /\ f2.n_late = 0 /\ f2.burst = 0 /\ f2.n_dup = f.n_dup
      /\ f2.n_out_of_sequence = f.n_out_of_sequence
  BY <1>3, <1>4, <1>6 DEF Rtp
<1> HIDE DEF f2
<1>9. Timing(f2, ts) = f2 BY <1>8 DEF Timing, Rtp
<1>10. 1 \in Slots /\ 1 \in Seqs /\ 0 \in Seqs /\ 0 \in Slots BY Sizes DEF Slots, Seqs
<1>11. U16(seq - U16(t)) = 1
  <2>1. t + 1 \in Int /\ (t + 1) - t = 1 OBVIOUS
  <2>2. U16(U16(t + 1) - U16(t)) = U16((t + 1) - t) BY <2>1, SeqArithmetic
  <2>3. U16(1) = 1 BY <1>10, SeqEqual
  <2> QED BY <1>3, <2>1, <2>2, <2>3
<1>12. Slot(f2, seq) = 1 /\ DeltaWin(f2, seq) = 1
  <2>1. 1 % Win = 1
    <3>1. 1 \in Int OBVIOUS
    <3> QED BY <1>10, <3>1, SlotEqual
  <2>2. Slot(f2, seq) = 1 BY <1>8, <1>11, <2>1 DEF Slot
  <2> QED BY <1>4, <1>8, <1>10, <1>11, <2>2 DEF DeltaWin
<1> DEFINE win == [one EXCEPT ![1] = seq]
           x == [f2 EXCEPT !.packets_win = win]
<1>13. win \in [Slots -> Seqs] /\ \A i \in Slots : win[i] = IF i = 1 THEN seq ELSE U16(t) BY <1>4
<1>14. Filing(f2, seq) = x
  <2>1. Store(f2, seq) = x BY <1>8, <1>12 DEF Store, Rtp
  <2> DEFINE d == DeltaWin(f2, seq)
             y == Store(f2, seq)
  <2>2. FirstWindow(f2, seq) = [y EXCEPT !.n_dup = IF d = 0 THEN @ + 1 ELSE @] BY DEF FirstWindow
  <2>3. y \in Rtp /\ ~ (d = 0) BY <1>8, <1>12, StoreType
  <2> HIDE DEF d, y
  <2>4. FirstWindow(f2, seq) = y BY <2>2, <2>3 DEF Rtp
  <2> QED BY <1>8, <2>1, <2>4 DEF Filing, y
<1> HIDE DEF win
<1>15. /\ x \in Rtp /\ x.w = FALSE /\ x.packets_win = win
       /\ x.initial_seqno = U16(t) /\ x.largest_seqno = seq /\ x.largest_ts = ts
       /\ x.n_lost = 0 /\ x.n_late = 0 /\ x.burst = 0 /\ x.n_dup = f.n_dup
       /\ x.n_out_of_sequence = f.n_out_of_sequence
  BY <1>8, <1>13 DEF Rtp
<1> HIDE DEF x
<1> DEFINE o == f.n_out_of_sequence + 1
<1>16. Sequence(x, seq) = [x EXCEPT !.n_out_of_sequence = o]
  <2>1. U16(seq + 1) # seq
    <3> DEFINE y == seq + 1
    <3>1. y \in Int /\ seq \in Int /\ -Mod < y - seq /\ y - seq < Mod /\ y # seq BY Sizes DEF Seqs
    <3> HIDE DEF y
    <3>2. U16(seq) = seq BY SeqEqual
    <3>3. U16(y) # U16(seq) BY <3>1, SeqEqual
    <3> QED BY <3>2, <3>3 DEF y
  <2>2. U16(seq - seq) < OverflowTh
    <3>1. seq - seq = 0 BY Ranges
    <3>2. U16(0) = 0 BY <1>10, SeqEqual
    <3> QED BY <3>1, <3>2, Sizes
  <2> QED BY <1>15, <2>1, <2>2 DEF Sequence, Rtp
<1>17. o \in Nat BY <1>1
<1> HIDE DEF o
<1>18. g = [x EXCEPT !.n_out_of_sequence = o] BY <1>5, <1>7, <1>9, <1>14, <1>16, StatParts
<1>19. /\ g \in Rtp /\ g.w = FALSE /\ g.packets_win = win
       /\ g.initial_seqno = U16(t) /\ g.largest_seqno = seq /\ g.largest_ts = ts
       /\ g.n_lost = 0 /\ g.n_late = 0 /\ g.burst = 0 /\ g.n_dup = f.n_dup
       /\ g.n_out_of_sequence = o
  BY <1>15, <1>17, <1>18 DEF Rtp
<1>20. Held(win, t, 1, U16(t))
  <2>1. ASSUME NEW j \in 0 .. 1
        PROVE  win[j % Win] = U16(t + j)
    <3>1. j % Win = j BY <1>10, SlotEqual
    <3>2. t + 0 = t OBVIOUS
    <3> QED BY <1>3, <1>10, <1>13, <3>1, <3>2
  <2>2. ASSUME NEW i \in Slots, i > 1
        PROVE  win[i] = U16(t)
    BY <1>13, <2>2
  <2> QED BY <2>1, <2>2 DEF Held
<1>21. ~ (1 >= Win) BY Sizes
<1>22. InOrder(g, t, 1, U16(t)) BY <1>3, <1>19, <1>20, <1>21 DEF InOrder
<1> QED BY <1>19, <1>22 DEF o

\* Nothing is missing when the last window is examined.
LEMMA ClosedClean ==
  ASSUME NEW f, NEW s0 \in Int, NEW off \in Nat, NEW fill, InOrder(f, s0, off, fill),
         NEW g, g = RtpClose(f)
  PROVE  /\ g.n_lost = 0 /\ g.n_late = 0 /\ g.n_dup = f.n_dup
         /\ g.n_out_of_sequence = f.n_out_of_sequence
<1> DEFINE last == off % Win
           q == off \div Win
<1>1. f \in Rtp /\ f.initial_seqno = U16(s0) /\ f.largest_seqno = U16(s0 + off)
      /\ f.n_lost = 0 /\ f.n_late = 0 /\ Held(f.packets_win, s0, off, fill)
  BY DEF InOrder
<1>2. last \in Int /\ 0 <= last /\ last < Win /\ q \in Int /\ off = Win * q + last BY Sizes, Quotient
<1>3. LastSlot(f) = last
  <2>1. s0 + off \in Int /\ (s0 + off) - s0 = off OBVIOUS
  <2>2. U16(U16(s0 + off) - U16(s0)) = U16((s0 + off) - s0) BY <2>1, SeqArithmetic
  <2>3. U16(off) % Win = off % Win BY SeqArithmetic
  <2> QED BY <1>1, <2>1, <2>2, <2>3 DEF LastSlot
<1> HIDE DEF last, q
<1>4. Win * q >= 0
  <2>1. q >= 0
    <3>1. CASE q <= -1
      <4>1. Win * q <= Win * (-1) /\ Win * q \in Int BY <1>2, <3>1, Sizes
      <4>2. Win * (-1) = -Win BY Sizes
      <4> QED BY <1>2, <4>1, <4>2, Sizes
    <3> QED BY <1>2, <3>1
  <2> QED BY <1>2, <2>1, Sizes
<1>5. ASSUME NEW i \in 0 .. last
      PROVE  f.packets_win[i] = U16(f.largest_seqno - last + i)
  <2> DEFINE j == Win * q + i
  <2>1. j \in 0 .. off /\ j > off - Win /\ j \in Int /\ (s0 + off) + (i - last) = s0 + j BY <1>2, <1>4, Sizes
  <2>2. j % Win = i
    <3>1. Win \in Nat \ {0} /\ j \in Int /\ q \in Int /\ i \in Int /\ 0 <= i /\ i < Win
          /\ j = Win * q + i
      BY <1>2, <2>1, Sizes
    <3> HIDE DEF j
    <3> QED BY <3>1, Remainder
  <2> HIDE DEF j
  <2>3. f.packets_win[i] = U16(s0 + j) BY <1>1, <2>1, <2>2 DEF Held
  <2>4. U16(U16(s0 + off) + (i - last)) = U16((s0 + off) + (i - last))
    <3> DEFINE a == s0 + off  b == i - last
    <3>1. a \in Int /\ b \in Int BY <1>2
    <3> HIDE DEF a, b
    <3>2. U16(U16(a) + b) = U16(a + b) BY <3>1, SeqArithmetic
    <3> QED BY <3>2 DEF a, b
  <2>5. f.largest_seqno - last + i = f.largest_seqno + (i - last)
    <3>1. f.largest_seqno \in Int BY <1>1, Ranges DEF Rtp
    <3> QED BY <1>2, <3>1
  <2> QED BY <1>1, <2>1, <2>3, <2>4, <2>5
<1>6. Missing(f) = {} BY <1>3, <1>5 DEF Missing
<1>7. Cardinality(Missing(f)) = 0 BY <1>6, FS_EmptySet
<1> QED BY <1>1, <1>7 DEF RtpClose, Rtp

------------------------------
\* The RTP streams.

\* The counters of a stream are whole, one packet at least came in
\* sequence, and a stream is renumbered after the packets that came.
StreamInv ==
  /\ TypeOK /\ Whole(rtp) /\ InSequence(rtp) >= 1
  /\ repeats + 2 <= rtp.pnum /\ jumped <= top + 1

\* The constants of a stream.
LEMMA StreamSizes ==
  /\ \A s \in Starts : s \in Nat
  /\ \A t \in TsSteps : t \in Nat
  /\ 1 \in TsSteps /\ JumpBy \in Nat /\ MaxSent \in Nat /\ MaxSent >= 1 /\ MaxPackets \in Nat
BY StreamAssumption

\* The number and the time stamp of a packet.
LEMMA PacketType ==
  ASSUME TypeOK, NEW k \in Int
  PROVE  /\ SeqOf(k) \in Seqs /\ TsOf(k) \in 0 .. TsMod - 1
         /\ start \in Nat /\ step \in Nat /\ jumped \in Nat /\ top \in Nat /\ top >= 1
<1>1. start \in Nat /\ step \in Nat /\ jumped \in Nat /\ top \in Nat /\ top >= 1 BY StreamSizes DEF TypeOK
<1>2. SeqOf(k) \in Seqs
  <2> DEFINE a == start + k + (IF jumped > 0 /\ k >= jumped THEN JumpBy ELSE 0)
  <2>1. a \in Int BY <1>1, StreamSizes
  <2> HIDE DEF a
  <2>2. U16(a) \in Seqs BY <2>1, Ranges
  <2> QED BY <2>2 DEF SeqOf, a
<1>3. TsOf(k) \in 0 .. TsMod - 1
  <2>1. k * step \in Int BY <1>1
  <2> QED BY <2>1, Ranges DEF TsOf
<1> QED BY <1>1, <1>2, <1>3

\* A stream begins with two packets, one of them in sequence.
LEMMA StreamInit ==
  ASSUME Init \/ NoStream
  PROVE  StreamInv
<1>1. PICK s \in Nat : rtp = RtpStat(InitRtp(U16(s), 0), U16(s + 1), U32(step)) /\ step \in Nat
  <2>1. CASE Init BY <2>1, StreamSizes DEF Init
  <2>2. CASE NoStream
    <3>1. U16(0) = 0 /\ U16(0 + 1) = 1
      <4>1. 0 \in Seqs /\ 1 \in Seqs /\ 0 + 1 = 1 BY Sizes DEF Seqs
      <4> QED BY <4>1, SeqEqual
    <3>2. U32(step) = 1
      <4>1. step = 1 /\ 1 \in 0 .. TsMod - 1 /\ 1 = TsMod * 0 + 1 BY <2>2, Sizes DEF NoStream
      <4>2. 1 % TsMod = 1 BY <4>1, Sizes, Remainder
      <4> QED BY <4>1, <4>2 DEF U32
    <3>3. rtp = RtpStat(InitRtp(0, 0), 1, 1) /\ step = 1 BY <2>2 DEF NoStream
    <3>4. rtp = RtpStat(InitRtp(U16(0), 0), U16(0 + 1), U32(step)) /\ step \in Nat BY <3>1, <3>2, <3>3
    <3> QED BY <3>4
  <2> QED BY <2>1, <2>2
<1> DEFINE ts == U32(step)
<1>2. ts \in 0 .. TsMod - 1 /\ rtp = RtpStat(InitRtp(U16(s), 0), U16(s + 1), ts) /\ s \in Int BY <1>1, Ranges
<1> HIDE DEF ts
<1>3. Whole(rtp) /\ rtp.pnum = 2 /\ rtp.n_out_of_sequence = 0 BY <1>2, FirstPackets
<1>4. InSequence(rtp) >= 1 BY <1>3 DEF InSequence
<1>5. repeats = 0 /\ jumped = 0 /\ top = 1 /\ seen = {0, 1} /\ closed \in BOOLEAN
      /\ ordered \in BOOLEAN /\ early \in BOOLEAN
      /\ start \in Starts \cup {0} /\ step \in TsSteps
  BY StreamSizes DEF Init, NoStream
<1>6. TypeOK BY <1>3, <1>5, StreamSizes DEF TypeOK, Whole
<1> QED BY <1>3, <1>4, <1>5, <1>6 DEF StreamInv

\* Every step keeps it.
LEMMA StreamStep ==
  ASSUME StreamInv, Next \/ UNCHANGED vars
  PROVE  StreamInv'
<1>1. TypeOK /\ Whole(rtp) /\ InSequence(rtp) >= 1 /\ repeats + 2 <= rtp.pnum
      /\ jumped <= top + 1 /\ repeats \in Nat /\ rtp.pnum \in Nat
      /\ jumped \in 0 .. MaxSent /\ top \in 1 .. MaxSent /\ MaxSent \in Nat
  BY StreamSizes DEF StreamInv, TypeOK, Whole, Rtp
<1>2. ASSUME NEW k \in 0 .. MaxSent, Packet(k)
      PROVE  StreamInv'
  <2>1. /\ rtp' = RtpStat(rtp, SeqOf(k), TsOf(k)) /\ rtp.pnum < MaxPackets
        /\ repeats' \in {repeats, repeats + 1} /\ seen' = seen \cup {k}
        /\ top' = Max({top, k}) /\ ordered' \in BOOLEAN /\ early' \in BOOLEAN
        /\ UNCHANGED <<start, step, jumped, report, closed>>
    BY <1>2, <1>1 DEF Packet, TypeOK
  <2>2. k \in Int BY <1>1
  <2>3. Whole(rtp') /\ rtp'.pnum = rtp.pnum + 1 /\ InSequence(rtp') >= InSequence(rtp)
    BY <1>1, <2>1, <2>2, PacketType, StatWhole
  <2>4. top' = IF top >= k THEN top ELSE k BY <1>1, <2>1, Larger
  <2>5. top' \in 1 .. MaxSent /\ jumped' <= top' + 1 BY <1>1, <2>1, <2>4
  <2>6. repeats' \in 0 .. MaxPackets /\ repeats' + 2 <= rtp'.pnum BY <1>1, <2>1, <2>3, StreamSizes
  <2>7. InSequence(rtp') >= 1
    <3>1. InSequence(rtp) \in Int /\ InSequence(rtp') \in Int BY <1>1, <2>3 DEF InSequence, Whole, Rtp
    <3> QED BY <1>1, <2>3, <3>1
  <2>8. seen' \subseteq 0 .. MaxSent BY <1>1, <2>1 DEF TypeOK
  <2>9. TypeOK' BY <1>1, <2>1, <2>3, <2>5, <2>6, <2>8 DEF TypeOK, Whole
  <2>10. Whole(rtp)' /\ (InSequence(rtp) >= 1)' BY <2>3, <2>7
  <2> QED BY <2>5, <2>6, <2>9, <2>10 DEF StreamInv
<1>3. CASE Renumber
  <2>1. jumped' \in 0 .. MaxSent /\ jumped' <= top + 1
        /\ UNCHANGED <<rtp, start, step, top, seen, repeats, ordered, early, report, closed>>
    BY <1>1, <1>3 DEF Renumber
  <2>2. TypeOK' BY <1>1, <2>1 DEF TypeOK
  <2>3. Whole(rtp)' /\ (InSequence(rtp) >= 1)' BY <1>1, <2>1
  <2> QED BY <1>1, <2>1, <2>2, <2>3 DEF StreamInv
<1>4. CASE Close
  <2>1. closed' = TRUE /\ rtp' = RtpClose(rtp)
        /\ UNCHANGED <<start, step, jumped, top, seen, repeats, ordered, early>>
    BY <1>4 DEF Close
  <2>2. Whole(rtp') /\ rtp'.pnum = rtp.pnum
        /\ rtp'.n_out_of_sequence = rtp.n_out_of_sequence
    BY <1>1, <2>1, CloseWhole
  <2>3. InSequence(rtp') >= 1 BY <1>1, <2>2 DEF InSequence
  <2>4. TypeOK' BY <1>1, <2>1, <2>2 DEF TypeOK, Whole
  <2>5. Whole(rtp)' /\ (InSequence(rtp) >= 1)' BY <2>2, <2>3
  <2> QED BY <1>1, <2>1, <2>2, <2>4, <2>5 DEF StreamInv
<1>5. CASE UNCHANGED vars
  <2>1. TypeOK' BY <1>1, <1>5 DEF TypeOK, vars
  <2>2. Whole(rtp)' /\ (InSequence(rtp) >= 1)' BY <1>1, <1>5 DEF vars
  <2> QED BY <1>1, <1>5, <2>1, <2>2 DEF StreamInv, vars
<1> QED BY <1>2, <1>3, <1>4, <1>5 DEF Next

\* So its counters are of one piece.
LEMMA StreamSound == ASSUME StreamInv PROVE Sound
BY DEF StreamInv, Sound, BurstsAddUp, Divisible, Whole

------------------------------
\* A clean stream: complete, in order, numbered anew after the first
\* window if at all.
Clean == ordered /\ ~ZeroEarly /\ (jumped = 0 \/ (jumped >= Win /\ Followed))

\* The window begins with the stream or, once a renumbered packet came,
\* with the number before it: Base is that number, Origin says which
\* packet would carry it, and Fill what the unused slots hold.
Renewed(j, t) == j > 0 /\ t >= j
Origin(j, t) == IF Renewed(j, t) THEN j - 1 ELSE 0
Base(s, j, t) == IF Renewed(j, t) THEN s + JumpBy + (j - 1) ELSE s
Fill(s, j, t) == IF Renewed(j, t) THEN U16(Base(s, j, t)) ELSE 0

\* The number of packet k.
NumberOf(s, j, k) == U16(s + k + (IF j > 0 /\ k >= j THEN JumpBy ELSE 0))

\* The record of such a stream after packet t.
InStep(f, s, d, j, t) ==
  /\ InOrder(f, Base(s, j, t), t - Origin(j, t), Fill(s, j, t))
  /\ d < OverflowTh => f.largest_ts = U32(t * d)
Charged(f, j, t) == f.n_dup = 0 /\ f.n_out_of_sequence = IF Renewed(j, t) THEN 1 ELSE 0

\* What is true of a clean stream, and of its counters also once it ended.
CleanInv ==
  Clean =>
    /\ ~closed => InStep(rtp, start, step, jumped, top)
    /\ Charged(rtp, jumped, top) /\ rtp.n_lost = 0 /\ rtp.n_late = 0

\* From one time stamp to the next.
LEMMA TicksApart ==
  ASSUME NEW t \in Nat, NEW d \in Nat, d < OverflowTh
  PROVE  U32(U32((t + 1) * d) - U32(t * d)) = d
<1> DEFINE a == (t + 1) * d  b == t * d
<1>1. a \in Int /\ b \in Int /\ a = b + d OBVIOUS
<1>2. TsMod \in Nat \ {0} /\ 0 \in Int /\ d \in Int /\ 0 <= d /\ d < TsMod
      /\ d = TsMod * 0 + d
  BY Sizes
<1> HIDE DEF a, b
<1>3. d % TsMod = d BY <1>2, Remainder
<1>4. ((a % TsMod) - b) % TsMod = (a - b) % TsMod BY <1>1, <1>2, Reduced
<1> DEFINE r == a % TsMod
<1>5. r \in Int BY <1>1, <1>2, Quotient
<1> HIDE DEF r
<1>6. (r - (b % TsMod)) % TsMod = (r - b) % TsMod BY <1>1, <1>2, <1>5, Reduced
<1>7. a - b = d BY <1>1, <1>2
<1> QED BY <1>3, <1>4, <1>6, <1>7 DEF U32, a, b, r

\* The next packet of a clean stream, renumbered or not, leaves a record
\* of a clean stream.
LEMMA NextInStep ==
  ASSUME JumpBy \in 5 * Win .. Mod - (Win + 1),
         NEW f, NEW s \in Nat, NEW d \in Nat, NEW j \in Nat, NEW t \in Nat, t >= 1, j <= t + 1,
         j = 0 \/ (j >= Win /\ d < OverflowTh),
         InStep(f, s, d, j, t), Charged(f, j, t),
         NEW seq \in Seqs, NEW ts \in 0 .. TsMod - 1, ts = U32((t + 1) * d),
         seq = NumberOf(s, j, t + 1),
         t + 1 < Win => seq # 0,
         NEW g, g = RtpStat(f, seq, ts)
  PROVE  /\ InStep(g, s, d, j, t + 1) /\ Charged(g, j, t + 1)
         /\ g.n_lost = 0 /\ g.n_late = 0
<1> DEFINE r == Renewed(j, t)
           b == Base(s, j, t)
           o == t - Origin(j, t)
           z == Fill(s, j, t)
<1>1. JumpBy \in Int /\ b \in Int /\ o \in Nat /\ z \in Seqs
  <2>1. CASE r
    <3>1. b = s + JumpBy + (j - 1) /\ o = t - (j - 1) /\ z = U16(b) BY <2>1 DEF Base, Origin, Fill
    <3>2. b \in Int /\ o \in Nat BY <2>1, <3>1, StreamSizes DEF Renewed
    <3> HIDE DEF b
    <3> QED BY <3>1, <3>2, StreamSizes, Ranges
  <2>2. CASE ~ r BY <2>2, StreamSizes, Ranges DEF Base, Origin, Fill
  <2> QED BY <2>1, <2>2
<1>2. InOrder(f, b, o, z) /\ (d < OverflowTh => f.largest_ts = U32(t * d)) BY DEF InStep
<1>3. f.n_dup = 0 /\ f.n_out_of_sequence = IF r THEN 1 ELSE 0 BY DEF Charged
<1>4. d < OverflowTh => U32(ts - f.largest_ts) < OverflowTh BY <1>2, TicksApart
<1>5. CASE r \/ j = 0
  <2>1. (Renewed(j, t + 1) <=> r) /\ Base(s, j, t + 1) = b
        /\ (t + 1) - Origin(j, t + 1) = o + 1 /\ Fill(s, j, t + 1) = z
    <3>1. Renewed(j, t + 1) <=> r BY <1>5 DEF Renewed
    <3>2. Origin(j, t) \in Int /\ Origin(j, t + 1) = Origin(j, t) BY <3>1 DEF Origin
    <3> QED BY <3>1, <3>2 DEF Base, Fill
  <2>2. s + (t + 1) + (IF j > 0 /\ t + 1 >= j THEN JumpBy ELSE 0) = b + o + 1
    <3>1. CASE r
      <4>1. b = s + JumpBy + (j - 1) /\ o = t - (j - 1) /\ j > 0 /\ t + 1 >= j
        BY <3>1 DEF Base, Origin, Renewed
      <4> QED BY <1>1, <4>1
    <3>2. CASE j = 0
      <4>1. b = s /\ o = t BY <3>2 DEF Base, Origin, Renewed
      <4> QED BY <3>2, <4>1
    <3> QED BY <1>5, <3>1, <3>2
  <2>3. seq = U16(b + o + 1) BY <2>2 DEF NumberOf
  <2>4. ~ (o + 1 < Win /\ seq = z)
    <3>1. CASE r
      <4>1. z = U16(b) BY <3>1 DEF Fill
      <4> DEFINE y == b + o + 1
      <4>2. o + 1 < Win => y \in Int /\ -Mod < y - b /\ y - b < Mod /\ y # b BY <1>1, Sizes
      <4> HIDE DEF y, b
      <4>3. o + 1 < Win => U16(y) # U16(b) BY <1>1, <4>2, SeqEqual
      <4> QED BY <2>3, <4>1, <4>3 DEF y
    <3>2. CASE j = 0
      <4>1. z = 0 /\ o = t BY <3>2 DEF Fill, Origin, Renewed
      <4> QED BY <4>1
    <3> QED BY <1>5, <3>1, <3>2
  <2> HIDE DEF r, b, o, z
  <2>5. /\ InOrder(g, b, o + 1, z)
        /\ g.n_dup = IF o + 1 < Win /\ seq = z THEN f.n_dup + 1 ELSE f.n_dup
        /\ g.n_out_of_sequence = f.n_out_of_sequence
        /\ g.largest_ts = IF U32(ts - f.largest_ts) < OverflowTh THEN ts ELSE f.largest_ts
    BY <1>1, <1>2, <2>3, NextInOrder
  <2>6. g.n_dup = f.n_dup /\ (d < OverflowTh => g.largest_ts = ts) BY <1>4, <2>4, <2>5
  <2>7. InStep(g, s, d, j, t + 1) BY <2>1, <2>5, <2>6 DEF InStep
  <2>8. Charged(g, j, t + 1) BY <1>3, <2>1, <2>5, <2>6 DEF Charged
  <2> QED BY <2>5, <2>7, <2>8 DEF InOrder
<1>6. CASE ~ r /\ j # 0
  <2>1. j = t + 1 /\ j > 0 /\ j >= Win /\ d < OverflowTh BY <1>6 DEF Renewed
  <2>2. b = s /\ o = t BY <1>6 DEF Base, Origin
  <2>3. seq = U16(b + (o + 1) + JumpBy) /\ o + 1 >= Win BY <2>1, <2>2 DEF NumberOf
  <2>4. U32(ts - f.largest_ts) < TsMod - TsBack
    <3>1. U32(ts - f.largest_ts) = d BY <1>2, <2>1, TicksApart
    <3>2. d < TsMod - TsBack BY <2>1, Sizes
    <3> QED BY <3>1, <3>2
  <2> DEFINE n == b + o + JumpBy
  <2>5. n \in Int BY <1>1
  <2>6. Renewed(j, t + 1) /\ Base(s, j, t + 1) = n /\ (t + 1) - Origin(j, t + 1) = 1
        /\ Fill(s, j, t + 1) = U16(n)
    <3>1. Renewed(j, t + 1) BY <2>1 DEF Renewed
    <3>2. s + JumpBy + (j - 1) = n /\ (t + 1) - (j - 1) = 1 BY <1>1, <2>1, <2>2
    <3>3. Base(s, j, t + 1) = n BY <3>1, <3>2 DEF Base
    <3>4. (t + 1) - Origin(j, t + 1) = 1 BY <3>1, <3>2 DEF Origin
    <3>5. Fill(s, j, t + 1) = U16(n) BY <3>1, <3>3 DEF Fill
    <3> QED BY <3>1, <3>3, <3>4, <3>5
  <2> HIDE DEF r, b, o, z
  <2>7. n = b + o + JumpBy OBVIOUS
  <2> HIDE DEF n
  <2>8. /\ InOrder(g, n, 1, U16(n)) /\ g.n_dup = f.n_dup
        /\ g.n_out_of_sequence = f.n_out_of_sequence + 1 /\ g.largest_ts = ts
    BY <1>1, <1>2, <2>3, <2>4, <2>5, <2>7, Restart
  <2>9. InStep(g, s, d, j, t + 1) BY <2>6, <2>8 DEF InStep
  <2>10. Charged(g, j, t + 1) BY <1>3, <1>6, <2>6, <2>8 DEF Charged
  <2> QED BY <2>8, <2>9, <2>10 DEF InOrder
<1> QED BY <1>5, <1>6

\* A stream begins clean, if a number 0 does not meet an unused slot.
LEMMA CleanInit ==
  ASSUME Init \/ NoStream
  PROVE  CleanInv
<1>1. CASE Init
  <2>1. /\ start \in Nat /\ step \in Nat /\ jumped = 0 /\ top = 1
        /\ rtp = RtpStat(InitRtp(U16(start), 0), U16(start + 1), U32(step))
    BY <1>1, StreamSizes DEF Init
  <2> DEFINE ts == U32(step)
  <2>2. ts \in 0 .. TsMod - 1 /\ rtp = RtpStat(InitRtp(U16(start), 0), U16(start + 1), ts)
        /\ start \in Int
    BY <2>1, Ranges
  <2> HIDE DEF ts
  <2>3. /\ InOrder(rtp, start, 1, 0) /\ rtp.n_out_of_sequence = 0
        /\ rtp.n_dup = IF U16(start + 1) = 0 THEN 1 ELSE 0
        /\ rtp.largest_ts = IF U32(ts) < OverflowTh THEN ts ELSE 0
    BY <2>2, FirstPackets
  <2>4. ~ Renewed(jumped, top) BY <2>1 DEF Renewed
  <2>5. step < OverflowTh => rtp.largest_ts = U32(top * step)
    <3> SUFFICES ASSUME step < OverflowTh
                 PROVE  rtp.largest_ts = U32(top * step)
      OBVIOUS
    <3>1. step \in Int /\ 0 \in Int /\ 0 <= step /\ step < TsMod /\ step = TsMod * 0 + step BY <2>1, Sizes
    <3>2. step % TsMod = step BY <3>1, Sizes, Remainder
    <3>3. ts = step /\ U32(ts) = step BY <3>2 DEF ts, U32
    <3>4. top * step = step BY <2>1
    <3> QED BY <2>3, <3>2, <3>3, <3>4 DEF U32
  <2>6. InStep(rtp, start, step, jumped, top)
    <3>1. Base(start, jumped, top) = start /\ Fill(start, jumped, top) = 0
          /\ top - Origin(jumped, top) = 1
      BY <2>1, <2>4 DEF Base, Fill, Origin
    <3> QED BY <2>3, <2>5, <3>1 DEF InStep
  <2>7. ASSUME ~ ZeroEarly
        PROVE  Charged(rtp, jumped, top)
    <3>1. SeqOf(1) # 0 BY <2>7, Sizes DEF ZeroEarly
    <3>2. SeqOf(1) = U16(start + 1)
      <4>1. start + 1 + 0 = start + 1 BY <2>1
      <4> QED BY <2>1, <4>1 DEF SeqOf
    <3> QED BY <2>3, <2>4, <3>1, <3>2 DEF Charged
  <2> QED BY <2>3, <2>6, <2>7 DEF CleanInv, Clean, InOrder
<1>2. CASE NoStream BY <1>2 DEF NoStream, CleanInv, Clean
<1> QED BY <1>1, <1>2

\* A step of a clean stream.
LEMMA CleanStep ==
  ASSUME JumpBy \in 5 * Win .. Mod - (Win + 1),
         StreamInv, CleanInv, Next \/ UNCHANGED vars
  PROVE  CleanInv'
<1>1. /\ TypeOK /\ jumped <= top + 1 /\ start \in Nat /\ step \in Nat /\ jumped \in Nat
      /\ top \in Nat /\ top >= 1 /\ top <= MaxSent /\ MaxSent \in Nat
  <2>1. TypeOK /\ jumped <= top + 1 /\ top \in 1 .. MaxSent BY DEF StreamInv, TypeOK
  <2>2. 0 \in Int OBVIOUS
  <2> QED BY <2>1, <2>2, PacketType, StreamSizes
<1>2. ASSUME NEW k \in 0 .. MaxSent, Packet(k), Clean'
      PROVE  /\ InStep(rtp, start, step, jumped, top)'
             /\ Charged(rtp, jumped, top)' /\ rtp'.n_lost = 0 /\ rtp'.n_late = 0
  <2>1. /\ rtp' = RtpStat(rtp, SeqOf(k), TsOf(k)) /\ ~ closed /\ top' = Max({top, k})
        /\ ordered' = (ordered /\ k = top + 1)
        /\ UNCHANGED <<start, step, jumped>>
    BY <1>2 DEF Packet
  <2>2. ordered /\ k = top + 1 BY <1>2, <2>1 DEF Clean
  <2>3. top' = top + 1
    <3>1. top \in 0 .. MaxSent BY <1>1
    <3>2. Max({top, k}) = IF top >= k THEN top ELSE k BY <1>1, <3>1, Larger
    <3> QED BY <1>1, <2>1, <2>2, <3>2
  <2>4. ZeroEarly' <=> ZeroEarly BY <2>1 DEF ZeroEarly, SeqOf
  <2>5. Clean BY <1>2, <2>1, <2>2, <2>4 DEF Clean, Followed
  <2>6. InStep(rtp, start, step, jumped, top) /\ Charged(rtp, jumped, top) BY <2>1, <2>5 DEF CleanInv
  <2> DEFINE seq == SeqOf(k)  ts == TsOf(k)
  <2>7. seq \in Seqs /\ ts \in 0 .. TsMod - 1 BY <1>1, PacketType
  <2>8. seq = NumberOf(start, jumped, top + 1) /\ ts = U32((top + 1) * step) BY <2>2 DEF SeqOf, TsOf, NumberOf
  <2>9. top + 1 < Win => seq # 0
    <3>1. top + 1 < Win => k \in 0 .. Win - 1 BY <2>2, Sizes
    <3> QED BY <2>5, <3>1 DEF Clean, ZeroEarly
  <2> HIDE DEF seq, ts
  <2>10. jumped = 0 \/ (jumped >= Win /\ step < OverflowTh) BY <2>5 DEF Clean, Followed
  <2> DEFINE g == RtpStat(rtp, seq, ts)
  <2>11. g = RtpStat(rtp, seq, ts) OBVIOUS
  <2> HIDE DEF g
  <2>12. /\ InStep(g, start, step, jumped, top + 1) /\ Charged(g, jumped, top + 1)
         /\ g.n_lost = 0 /\ g.n_late = 0
    BY <1>1, <2>6, <2>7, <2>8, <2>9, <2>10, <2>11, NextInStep
  <2>13. rtp' = g BY <2>1 DEF g, seq, ts
  <2> QED BY <2>1, <2>3, <2>12, <2>13
<1>3. ASSUME Renumber, Clean'
      PROVE  /\ ~ closed /\ InStep(rtp, start, step, jumped, top)'
             /\ Charged(rtp, jumped, top)' /\ rtp'.n_lost = 0 /\ rtp'.n_late = 0
  <2>1. ~ closed /\ jumped = 0 /\ jumped' = top + 1
        /\ UNCHANGED <<rtp, start, step, top, ordered>>
    BY <1>3 DEF Renumber
  <2>2. top + 1 >= Win BY <1>1, <1>3, <2>1 DEF Clean
  <2>3. ~ ZeroEarly
    <3> SUFFICES ASSUME NEW k \in 0 .. Win - 1, SeqOf(k) = 0
                 PROVE  ZeroEarly'
      BY <1>3 DEF Clean, ZeroEarly
    <3>1. ~ (k >= top + 1) BY <1>1, <2>2, Sizes
    <3>2. SeqOf(k)' = SeqOf(k) BY <2>1, <3>1 DEF SeqOf
    <3> QED BY <3>2 DEF ZeroEarly
  <2>4. Clean BY <1>3, <2>1, <2>3 DEF Clean
  <2>5. InStep(rtp, start, step, jumped, top) /\ Charged(rtp, jumped, top)
        /\ rtp.n_lost = 0 /\ rtp.n_late = 0
    BY <2>1, <2>4 DEF CleanInv
  <2>6. ~ Renewed(jumped, top) /\ ~ Renewed(jumped', top) BY <1>1, <2>1 DEF Renewed
  <2>7. InStep(rtp, start, step, jumped', top) /\ Charged(rtp, jumped', top)
    BY <2>5, <2>6 DEF InStep, Charged, Base, Origin, Fill
  <2> QED BY <2>1, <2>5, <2>7
<1>4. ASSUME Close, Clean'
      PROVE  /\ closed' /\ Charged(rtp, jumped, top)' /\ rtp'.n_lost = 0 /\ rtp'.n_late = 0
  <2>1. ~ closed /\ closed' = TRUE /\ rtp' = RtpClose(rtp)
        /\ UNCHANGED <<start, step, jumped, top, ordered>>
    BY <1>4 DEF Close
  <2>2. Clean BY <1>4, <2>1 DEF Clean, ZeroEarly, SeqOf, Followed
  <2>3. InStep(rtp, start, step, jumped, top) /\ Charged(rtp, jumped, top) BY <2>1, <2>2 DEF CleanInv
  <2> DEFINE b == Base(start, jumped, top)  o == top - Origin(jumped, top)
             z == Fill(start, jumped, top)
  <2>4. b \in Int /\ o \in Nat BY <1>1, StreamSizes DEF Base, Origin, Renewed
  <2>5. InOrder(rtp, b, o, z) BY <2>3 DEF InStep
  <2> HIDE DEF b, o, z
  <2> DEFINE g == RtpClose(rtp)
  <2>6. g = RtpClose(rtp) OBVIOUS
  <2> HIDE DEF g
  <2>7. /\ g.n_lost = 0 /\ g.n_late = 0 /\ g.n_dup = rtp.n_dup
        /\ g.n_out_of_sequence = rtp.n_out_of_sequence
    BY <2>4, <2>5, <2>6, ClosedClean
  <2>8. Charged(g, jumped, top) BY <2>3, <2>7 DEF Charged
  <2>9. rtp' = g BY <2>1 DEF g
  <2> QED BY <2>1, <2>7, <2>8, <2>9
<1>5. ASSUME UNCHANGED vars
      PROVE  CleanInv'
  BY <1>5 DEF vars, CleanInv, Clean, ZeroEarly, SeqOf, Followed
<1>6. ASSUME NEW k \in 0 .. MaxSent, Packet(k)
      PROVE  CleanInv'
  BY <1>2, <1>6 DEF CleanInv
<1>7. ASSUME Renumber
      PROVE  CleanInv'
  BY <1>3, <1>7 DEF CleanInv
<1>8. ASSUME Close
      PROVE  CleanInv'
  BY <1>4, <1>8 DEF CleanInv
<1> QED BY <1>5, <1>6, <1>7, <1>8 DEF Next

\* This is what a clean stream is reported with.
LEMMA CleanTells ==
  ASSUME StreamInv, CleanInv
  PROVE  CleanStream
<1> SUFFICES ASSUME Clean
             PROVE  /\ rtp.n_lost = 0 /\ rtp.n_late = 0 /\ rtp.n_dup = 0
                    /\ rtp.n_out_of_sequence = Cardinality({jumped} \cap 1 .. top)
  BY DEF CleanStream, Clean
<1>1. Charged(rtp, jumped, top) /\ rtp.n_lost = 0 /\ rtp.n_late = 0 BY DEF CleanInv
<1>2. Cardinality({jumped} \cap 1 .. top) = IF Renewed(jumped, top) THEN 1 ELSE 0
  <2>1. jumped \in Int /\ top \in Int /\ jumped >= 0 BY DEF StreamInv, TypeOK
  <2>2. CASE Renewed(jumped, top)
    <3>1. jumped \in 1 .. top BY <2>1, <2>2 DEF Renewed
    <3>2. {jumped} \cap 1 .. top = {jumped} BY <3>1
    <3> QED BY <2>2, <3>2, FS_Singleton
  <2>3. CASE ~ Renewed(jumped, top)
    <3>1. ~ (jumped \in 1 .. top) BY <2>1, <2>3 DEF Renewed
    <3>2. {jumped} \cap 1 .. top = {} BY <3>1
    <3> QED BY <2>3, <3>2, FS_EmptySet
  <2> QED BY <2>2, <2>3
<1> QED BY <1>1, <1>2 DEF Charged

------------------------------
\* What a stream is charged with on a network that loses, overtakes and
\* repeats packets.

\* What rtp_stat does with a packet that is not taken for a new beginning:
\* whether the window is full, how far the number found there is.
Full(f, seq) == f.w \/ U16(seq - f.initial_seqno) >= Win
Filed(f, g, seq, ts, w, d) ==
  /\ g \in Rtp /\ g.w = w /\ g.initial_seqno = f.initial_seqno
  /\ g.bogus_reset = f.bogus_reset
  /\ g.largest_ts = IF U32(ts - f.largest_ts) < OverflowTh THEN ts ELSE f.largest_ts
  /\ g.largest_seqno = IF U16(seq - f.largest_seqno) < OverflowTh THEN seq
                       ELSE f.largest_seqno
  /\ g.packets_win = IF ~ w \/ (d >= Win /\ d < OverflowTh)
                     THEN [f.packets_win EXCEPT ![Slot(f, seq)] = seq] ELSE f.packets_win
  /\ g.n_lost = IF w /\ d > Win /\ d < OverflowTh THEN f.n_lost + 1 ELSE f.n_lost
  /\ g.n_dup = IF d = 0 THEN f.n_dup + 1 ELSE f.n_dup
  /\ g.n_late = IF w /\ d >= OverflowTh THEN f.n_late + 1 ELSE f.n_late

\* The packet is filed so.
LEMMA StatFiled ==
  ASSUME NEW f \in Rtp, NEW seq \in Seqs, NEW ts \in 0 .. TsMod - 1,
         ~ Jumped(Counting(f, seq), seq, ts)
  PROVE  Filed(f, RtpStat(f, seq, ts), seq, ts, Full(f, seq), DeltaWin(f, seq))
<1> DEFINE g == RtpStat(f, seq, ts)  w == Full(f, seq)  d == DeltaWin(f, seq)
           i == Slot(f, seq)
<1>0. g = RtpStat(f, seq, ts) /\ w = (f.w \/ U16(seq - f.initial_seqno) >= Win)
      /\ d = DeltaWin(f, seq) /\ i = Slot(f, seq)
  BY DEF Full
<1> HIDE DEF g, w, d, i
<1> DEFINE f1 == Counting(f, seq)
           lts == IF U32(ts - f.largest_ts) < OverflowTh THEN ts ELSE f.largest_ts
           win == [f.packets_win EXCEPT ![i] = seq]
           p == f.pnum + 1
           h == [f EXCEPT !.pnum = p, !.w = w, !.largest_ts = lts]
           y == [h EXCEPT !.packets_win = win]
<1>1. /\ f.packets_win \in [Slots -> Seqs] /\ f.initial_seqno \in Seqs
      /\ f.largest_seqno \in Seqs /\ f.largest_ts \in 0 .. TsMod - 1
      /\ f.n_lost \in Nat /\ f.n_late \in Nat /\ f.burst \in Nat /\ f.burst_histo \in Nat
      /\ f.pnum \in Nat /\ f.n_dup \in Nat /\ f.w \in BOOLEAN
      /\ f.n_out_of_sequence \in Nat
  BY DEF Rtp
<1>2. w \in BOOLEAN /\ lts \in 0 .. TsMod - 1 /\ p \in Nat BY <1>0, <1>1
<1>3. d \in Seqs /\ d \in Int /\ 0 <= d /\ i \in Slots BY <1>0, StoreType, Ranges DEF Seqs
<1>4. win \in [Slots -> Seqs] BY <1>1
<1>5. f1 = [f EXCEPT !.pnum = p, !.w = w] BY <1>0 DEF Counting, Rtp
<1> HIDE DEF p, lts, win
<1>6. f1 \in Rtp /\ f1.packets_win = f.packets_win /\ f1.initial_seqno = f.initial_seqno
      /\ f1.largest_ts = f.largest_ts
  BY <1>1, <1>2, <1>5 DEF Rtp
<1>7. Settling(f1, seq, ts) = f1 BY DEF Settling
<1> HIDE DEF f1
<1>8. Timing(f1, ts) = h
  <2>1. Timing(f1, ts) = [f1 EXCEPT !.largest_ts = lts] BY <1>6 DEF Timing, Rtp, lts
  <2>2. [f1 EXCEPT !.largest_ts = lts] = h BY <1>1, <1>5 DEF Rtp
  <2> QED BY <2>1, <2>2
<1>9. /\ h \in Rtp /\ h.w = w /\ h.packets_win = f.packets_win
      /\ h.initial_seqno = f.initial_seqno /\ h.largest_seqno = f.largest_seqno
      /\ h.n_dup = f.n_dup /\ h.burst = f.burst /\ h.burst_histo = f.burst_histo
      /\ h.n_lost = f.n_lost /\ h.n_late = f.n_late /\ h.largest_ts = lts
      /\ h.n_out_of_sequence = f.n_out_of_sequence /\ h.bogus_reset = f.bogus_reset
  BY <1>1, <1>2 DEF Rtp
<1> HIDE DEF h
<1>10. DeltaWin(h, seq) = d /\ Slot(h, seq) = i BY <1>0, <1>9 DEF DeltaWin, Slot
<1>11. Store(h, seq) = y BY <1>9, <1>10 DEF Store, Rtp, win
<1>12. /\ y \in Rtp /\ y.w = w /\ y.packets_win = win
       /\ y.initial_seqno = f.initial_seqno /\ y.largest_seqno = f.largest_seqno
       /\ y.n_dup = f.n_dup /\ y.burst = f.burst /\ y.burst_histo = f.burst_histo
       /\ y.n_lost = f.n_lost /\ y.n_late = f.n_late /\ y.largest_ts = lts
       /\ y.n_out_of_sequence = f.n_out_of_sequence /\ y.bogus_reset = f.bogus_reset
  BY <1>1, <1>4, <1>9 DEF Rtp
<1> HIDE DEF y
<1> DEFINE x == Filing(h, seq)
           n == IF w /\ d > Win /\ d < OverflowTh THEN f.n_lost + 1 ELSE f.n_lost
           u == IF d = 0 THEN f.n_dup + 1 ELSE f.n_dup
           e == IF w /\ d >= OverflowTh THEN f.n_late + 1 ELSE f.n_late
           v == IF ~ w \/ (d >= Win /\ d < OverflowTh) THEN win ELSE f.packets_win
           Done == /\ x \in Rtp /\ x.w = w /\ x.initial_seqno = f.initial_seqno
                   /\ x.largest_seqno = f.largest_seqno /\ x.largest_ts = lts
                   /\ x.bogus_reset = f.bogus_reset
                   /\ x.packets_win = v /\ x.n_lost = n /\ x.n_dup = u /\ x.n_late = e
<1>13. Done
  <2>1. CASE ~ w
    <3>1. x = [y EXCEPT !.n_dup = IF d = 0 THEN @ + 1 ELSE @]
      BY <1>9, <1>10, <1>11, <2>1 DEF Filing, FirstWindow
    <3>2. x = [y EXCEPT !.n_dup = u] BY <1>12, <3>1 DEF Rtp
    <3>3. u \in Nat /\ n = f.n_lost /\ e = f.n_late /\ v = win BY <1>1, <2>1
    <3> HIDE DEF x, u, n, e, v
    <3> QED BY <1>12, <3>2, <3>3, <2>1 DEF Rtp
  <2>2. CASE w /\ d >= OverflowTh
    <3>1. x = [h EXCEPT !.n_late = @ + 1] BY <1>3, <1>9, <1>10, <2>2, Sizes DEF Filing, FullWindow
    <3>2. n = f.n_lost /\ u = f.n_dup /\ e = f.n_late + 1 /\ v = f.packets_win BY <1>3, <2>2, Sizes
    <3> DEFINE m == h.n_late + 1
    <3>3. m \in Nat /\ m = f.n_late + 1 BY <1>1, <1>9
    <3>4. x = [h EXCEPT !.n_late = m] BY <3>1
    <3> HIDE DEF x, u, n, e, v, m
    <3> QED BY <1>9, <3>2, <3>3, <3>4, <2>2 DEF Rtp
  <2>3. CASE w /\ d = 0
    <3>1. x = [h EXCEPT !.n_dup = @ + 1] BY <1>9, <1>10, <2>3, Sizes DEF Filing, FullWindow
    <3>2. n = f.n_lost /\ u = f.n_dup + 1 /\ e = f.n_late /\ v = f.packets_win BY <1>3, <2>3, Sizes
    <3> DEFINE m == h.n_dup + 1
    <3>3. m \in Nat /\ m = f.n_dup + 1 BY <1>1, <1>9
    <3>4. x = [h EXCEPT !.n_dup = m] BY <3>1
    <3> HIDE DEF x, u, n, e, v, m
    <3> QED BY <1>9, <3>2, <3>3, <3>4, <2>3 DEF Rtp
  <2>4. CASE w /\ d > Win /\ d < OverflowTh
    <3>1. x = [y EXCEPT !.n_lost = @ + 1, !.burst = @ + 1]
      BY <1>3, <1>9, <1>10, <1>11, <2>4, Sizes DEF Filing, FullWindow, Loss
    <3>2. n = f.n_lost + 1 /\ u = f.n_dup /\ e = f.n_late /\ v = win BY <1>3, <2>4, Sizes
    <3> DEFINE m == y.n_lost + 1  b == y.burst + 1
    <3>3. m \in Nat /\ b \in Nat /\ m = f.n_lost + 1 BY <1>1, <1>12
    <3>4. x = [y EXCEPT !.n_lost = m, !.burst = b] BY <1>12, <3>1 DEF Rtp
    <3> HIDE DEF x, u, n, e, v, m, b
    <3> QED BY <1>12, <3>2, <3>3, <3>4, <2>4 DEF Rtp
  <2>5. CASE w /\ d = Win
    <3>1. x = [y EXCEPT !.burst_histo = @ + h.burst, !.burst = 0]
      BY <1>3, <1>9, <1>10, <1>11, <2>5, Sizes DEF Filing, FullWindow, EndBurst
    <3>2. n = f.n_lost /\ u = f.n_dup /\ e = f.n_late /\ v = win BY <1>3, <2>5, Sizes
    <3>3. y.burst_histo + h.burst \in Nat BY <1>1, <1>9, <1>12
    <3> HIDE DEF x, u, n, e, v
    <3> QED BY <1>1, <1>12, <3>1, <3>2, <3>3, <2>5 DEF Rtp
  <2>6. CASE w /\ 0 < d /\ d < Win
    <3>1. x = h BY <1>3, <1>9, <1>10, <2>6, Sizes DEF Filing, FullWindow
    <3>2. n = f.n_lost /\ u = f.n_dup /\ e = f.n_late /\ v = f.packets_win BY <1>3, <2>6, Sizes
    <3> HIDE DEF x, u, n, e, v
    <3> QED BY <1>9, <3>1, <3>2, <2>6
  <2>7. \/ ~ w \/ (w /\ d >= OverflowTh) \/ (w /\ d = 0) \/ (w /\ d > Win /\ d < OverflowTh)
        \/ (w /\ d = Win) \/ (w /\ 0 < d /\ d < Win)
    BY <1>2, <1>3, Sizes
  <2> HIDE DEF Done
  <2> QED BY <2>1, <2>2, <2>3, <2>4, <2>5, <2>6, <2>7
<1>14. g = Sequence(x, seq) BY <1>0, <1>7, <1>8, StatParts DEF f1
<1> HIDE DEF x, n, u, e, v
<1> DEFINE o == IF U16(x.largest_seqno + 1) # seq THEN x.n_out_of_sequence + 1
                ELSE x.n_out_of_sequence
           l == IF U16(seq - f.largest_seqno) < OverflowTh THEN seq ELSE f.largest_seqno
<1>15. o \in Nat /\ l \in Seqs BY <1>1, <1>13 DEF Rtp
<1>16. g = [x EXCEPT !.n_out_of_sequence = o, !.largest_seqno = l] BY <1>13, <1>14 DEF Sequence, Rtp
<1> HIDE DEF o, l
<1>17. /\ g \in Rtp /\ g.w = w /\ g.initial_seqno = f.initial_seqno
       /\ g.bogus_reset = f.bogus_reset /\ g.largest_ts = lts /\ g.largest_seqno = l
       /\ g.packets_win = v /\ g.n_lost = n /\ g.n_dup = u /\ g.n_late = e
  BY <1>13, <1>15, <1>16 DEF Rtp
<1>18. Filed(f, g, seq, ts, w, d) BY <1>0, <1>17 DEF l, lts, n, u, e, v, win, Filed
<1> QED BY <1>18 DEF g, w, d

\* A packet that is taken for a new beginning leaves a mark.
LEMMA StatReset ==
  ASSUME NEW f \in Rtp, NEW seq \in Seqs, NEW ts \in 0 .. TsMod - 1,
         Jumped(Counting(f, seq), seq, ts)
  PROVE  RtpStat(f, seq, ts).bogus_reset = TRUE
<1> DEFINE c == Counting(f, seq)
           r == BogusReset(c, seq, ts)
           t == Timing(r, ts)
           x == Filing(t, seq)
<1>1. c \in Rtp
  <2>1. f.pnum + 1 \in Nat /\ (f.w \/ U16(seq - f.initial_seqno) >= Win) \in BOOLEAN BY DEF Rtp
  <2> QED BY <2>1 DEF Counting, Rtp
<1>2. Settling(c, seq, ts) = r BY DEF Settling
<1>3. r \in Rtp /\ r.bogus_reset = TRUE /\ r.w = FALSE
  <2>1. U16(seq - 1) \in Seqs BY Ranges
  <2> HIDE DEF c
  <2>2. [i \in Slots |-> U16(seq - 1)] \in [Slots -> Seqs] BY <2>1
  <2> QED BY <1>1, <2>1, <2>2 DEF BogusReset, Rtp
<1> HIDE DEF r, c
<1>4. t \in Rtp /\ t.bogus_reset = TRUE /\ t.w = FALSE BY <1>3 DEF Timing, Rtp
<1> HIDE DEF t
<1>5. x.bogus_reset = TRUE /\ x \in Rtp
  <2>1. x = FirstWindow(t, seq) BY <1>4 DEF Filing
  <2>2. /\ Slot(t, seq) \in Slots /\ Store(t, seq) \in Rtp
        /\ Store(t, seq) = [t EXCEPT !.packets_win = [@ EXCEPT ![Slot(t, seq)] = seq]]
    BY <1>4, StoreType
  <2> DEFINE y == Store(t, seq)
             z == IF DeltaWin(t, seq) = 0 THEN y.n_dup + 1 ELSE y.n_dup
  <2>3. y.bogus_reset = TRUE /\ y \in Rtp BY <1>4, <2>2 DEF Rtp
  <2> HIDE DEF y
  <2>4. z \in Nat BY <2>3 DEF Rtp
  <2>5. x = [y EXCEPT !.n_dup = z] BY <2>1, <2>3 DEF FirstWindow, Rtp, y
  <2> HIDE DEF z, x
  <2> QED BY <2>3, <2>4, <2>5 DEF Rtp
<1>6. RtpStat(f, seq, ts) = Sequence(x, seq) BY <1>2, StatParts DEF t, c
<1> HIDE DEF x
<1> QED BY <1>5, <1>6 DEF Sequence, Rtp

\* A packet that came, after which none came that uses its slot.
Latest(S, k) == k \in S /\ \A m \in S : m > k => m % Win # k % Win

\* The packets that came: t is the last one of the encoder, and the first
\* window came before any other packet.
Arrived(S, t) ==
  /\ t \in S /\ S \in SUBSET (0 .. t)
  /\ t >= Win => 0 .. Win - 1 \subseteq S

\* What the record knows of them.
Recorded(f, s, t, S) ==
  /\ f \in Rtp /\ f.initial_seqno = U16(s) /\ f.largest_seqno = U16(s + t)
  /\ f.w <=> t >= Win
  /\ \A k \in S : Latest(S, k) => f.packets_win[k % Win] = U16(s + k)

\* Packet k comes now: it is not too old, and the first window is complete
\* if k is behind it.
Timely(S, t, k) ==
  /\ t - k <= IF k \in S THEN Mod - OverflowTh ELSE Win - 1
  /\ k >= Win => 0 .. Win - 1 \subseteq S

\* No slot waits for more than five windows.
Remembered(S) == \A k \in S : k > 5 * Win => \E n \in 1 .. 5 : k - n * Win \in S

\* Of two packets that use one slot the later is a window away.
LEMMA WindowApart ==
  ASSUME NEW a \in Int, NEW b \in Int, a % Win = b % Win, a > b
  PROVE  a - b >= Win
<1> SUFFICES ASSUME a - b < Win
             PROVE  FALSE
  BY Sizes
<1>1. -Win < a - b BY Sizes
<1> QED BY <1>1, SlotEqual

\* So many windows before, the slot is the same.
LEMMA SameSlot ==
  ASSUME NEW a \in Int, NEW n \in Int
  PROVE  (a - n * Win) % Win = a % Win
<1> DEFINE c == a - n * Win  m == -n
<1>1. m \in Int /\ c \in Int BY Sizes
<1>2. c = a + Win * m
  <2>1. n * Win = Win * n /\ Win * (-n) = -(Win * n) /\ Win * n \in Int BY Sizes
  <2> QED BY <2>1
<1> HIDE DEF c, m
<1>3. c % Win = a % Win BY <1>1, <1>2, Sizes, Shift
<1> QED BY <1>3 DEF c

\* Each slot that was used was used last by some packet.
LEMMA LatestOf ==
  ASSUME NEW t \in Nat, NEW S \in SUBSET (0 .. t), NEW a \in S
  PROVE  \E b \in S : /\ Latest(S, b) /\ b % Win = a % Win /\ a <= b
                      /\ \A m \in S : m % Win = a % Win => m <= b
<1> DEFINE X == {m \in S : m % Win = a % Win}
           b == Max(X)
<1>1. X \in SUBSET (0 .. t) /\ X # {} OBVIOUS
<1>2. b \in X /\ \A x \in X : x <= b
  <2> HIDE DEF X
  <2> QED BY <1>1, Greatest
<1> HIDE DEF b
<1>3. b \in S /\ b % Win = a % Win BY <1>2
<1>4. \A m \in S : m % Win = a % Win => m <= b BY <1>2
<1>5. \A m \in S : m > b => m % Win # b % Win
  <2> TAKE m \in S
  <2>1. m \in Int /\ b \in Int BY <1>3
  <2> QED BY <1>3, <1>4, <2>1
<1> QED BY <1>3, <1>4, <1>5 DEF Latest

\* No packet came that would have overtaken this one by a window.
LEMMA NotPassed ==
  ASSUME NEW t \in Nat, NEW S, Arrived(S, t), NEW k \in Nat, k \notin S, Timely(S, t, k)
  PROVE  \A m \in S : m % Win = k % Win => k - m >= Win
<1> TAKE m \in S
<1> HAVE m % Win = k % Win
<1>1. m \in 0 .. t /\ m # k /\ t - k <= Win - 1 BY DEF Arrived, Timely
<1>2. CASE m > k
  <2>1. m - k >= Win BY <1>1, <1>2, WindowApart
  <2> QED BY <1>1, <2>1, Sizes
<1>3. CASE k > m BY <1>1, <1>3, WindowApart
<1> QED BY <1>1, <1>2, <1>3

\* The packet that used its slot last is five windows away at most.
LEMMA Before ==
  ASSUME NEW t \in Nat, NEW S, Arrived(S, t), NEW k \in Nat, k \notin S,
         Timely(S, t, k), Remembered(S \cup {k}), t >= Win \/ k >= Win
  PROVE  \E b \in S : Latest(S, b) /\ b % Win = k % Win /\ k - b \in Win .. 5 * Win
                      /\ (k - b > Win => k - Win \notin S)
<1>1. S \in SUBSET (0 .. t) /\ 0 .. Win - 1 \subseteq S BY DEF Arrived, Timely
<1>2. \A m \in S : m % Win = k % Win => k - m >= Win BY NotPassed
<1>3. \E a \in S : a % Win = k % Win /\ k - a <= 5 * Win
  <2>1. CASE k > 5 * Win
    <3>1. PICK n \in 1 .. 5 : k - n * Win \in S \cup {k} BY <2>1 DEF Remembered
    <3>2. n \in Int /\ n * Win >= Win /\ n * Win <= 5 * Win BY <3>1, Sizes
    <3>3. k - n * Win \in S /\ k - (k - n * Win) = n * Win BY <3>1, <3>2, Sizes
    <3>4. (k - n * Win) % Win = k % Win BY <3>2, SameSlot
    <3> QED BY <3>2, <3>3, <3>4
  <2>2. CASE k <= 5 * Win
    <3> DEFINE a == k % Win
    <3>1. a \in Slots /\ a % Win = a
      <4>1. k \in Int OBVIOUS
      <4>2. a \in Slots BY <4>1, SlotEqual
      <4> HIDE DEF a
      <4>3. a \in Int BY <4>2, Ranges
      <4> QED BY <4>2, <4>3, SlotEqual
    <3>2. a \in S /\ a >= 0 BY <1>1, <3>1 DEF Slots
    <3> HIDE DEF a
    <3>3. k - a <= 5 * Win /\ a % Win = k % Win BY <1>1, <2>2, <3>1, <3>2, Sizes DEF a
    <3> QED BY <3>2, <3>3
  <2> QED BY <2>1, <2>2, Sizes
<1>4. PICK a \in S : a % Win = k % Win /\ k - a <= 5 * Win BY <1>3
<1>5. PICK b \in S : /\ Latest(S, b) /\ b % Win = a % Win /\ a <= b
                     /\ \A m \in S : m % Win = a % Win => m <= b
  BY <1>1, LatestOf
<1>6. a \in Int /\ b \in Int /\ k \in Int BY <1>1
<1>7. b % Win = k % Win /\ k - b >= Win /\ k - b <= 5 * Win BY <1>2, <1>4, <1>5, <1>6, Sizes
<1>8. k - b > Win => k - Win \notin S
  <2> SUFFICES ASSUME k - b > Win, k - Win \in S
               PROVE  FALSE
    OBVIOUS
  <2>1. (k - Win) % Win = a % Win BY <1>4, <1>6, SlotEqual
  <2>2. k - Win <= b BY <1>5, <2>1
  <2> QED BY <1>6, <2>2, Sizes
<1> QED BY <1>5, <1>6, <1>7, <1>8, Sizes

\* How far a packet is behind or ahead, in numbers of 16 bits.
LEMMA Ahead ==
  ASSUME NEW a \in Nat, NEW b \in Nat
  PROVE  /\ a >= b /\ a - b < Mod => U16(a - b) = a - b
         /\ a < b /\ b - a <= Mod => U16(a - b) = Mod - (b - a)
<1>1. ASSUME a >= b, a - b < Mod
      PROVE  U16(a - b) = a - b
  <2>1. a - b \in Int /\ a - b \in 0 .. Mod - 1 /\ 0 \in Int BY <1>1, Sizes
  <2> QED BY <2>1, SeqArithmetic
<1>2. ASSUME a < b, b - a <= Mod
      PROVE  U16(a - b) = Mod - (b - a)
  <2> DEFINE c == a - b  r == Mod - (b - a)
  <2>1. c \in Int /\ r \in Int /\ 0 <= r /\ r < Mod /\ Mod * (-1) = -Mod /\ Mod \in Nat \ {0}
        /\ -1 \in Int
    BY <1>2, Sizes
  <2>2. c = Mod * (-1) + r BY <2>1, Sizes
  <2> HIDE DEF c, r
  <2>3. c % Mod = r BY <2>1, <2>2, Remainder
  <2> QED BY <2>3 DEF c, r, U16
<1> QED BY <1>1, <1>2

\* How the window finds packet k: where it looks, whether it is full, and
\* how far the number it finds is from that of k.
LEMMA Meeting ==
  ASSUME NEW s \in Nat, NEW t \in Nat, NEW S, Arrived(S, t), NEW f, Recorded(f, s, t, S),
         NEW k \in Nat, Timely(S, t, k), Remembered(S \cup {k}),
         NEW seq, seq = U16(s + k), NEW d, d = DeltaWin(f, seq)
  PROVE  /\ seq \in Seqs /\ Slot(f, seq) = k % Win /\ d \in Seqs
         /\ (f.w \/ U16(seq - f.initial_seqno) >= Win) <=> (t >= Win \/ k >= Win)
         /\ U16(seq - f.largest_seqno) < OverflowTh <=> k >= t
         /\ k \in S /\ Latest(S, k) => d = 0
         /\ k \in S /\ ~ Latest(S, k) => d >= OverflowTh /\ (t >= Win \/ k >= Win) /\ k < t
         /\ k \notin S /\ (t >= Win \/ k >= Win) =>
              d \in Win .. 5 * Win /\ (d > Win => k >= Win /\ k - Win \notin S)
<1>1. /\ f \in Rtp /\ f.initial_seqno = U16(s) /\ f.largest_seqno = U16(s + t)
      /\ f.w <=> t >= Win
      /\ \A m \in S : Latest(S, m) => f.packets_win[m % Win] = U16(s + m)
  BY DEF Recorded
<1>2. S \in SUBSET (0 .. t) /\ t \in S /\ s + k \in Int /\ s + t \in Int /\ k \in Int /\ s \in Int
  BY DEF Arrived
<1>3. seq \in Seqs BY <1>2, Ranges
<1>4. U16(seq - f.initial_seqno) = U16(k)
  <2>1. U16(U16(s + k) - U16(s)) = U16((s + k) - s) BY <1>2, SeqArithmetic
  <2>2. (s + k) - s = k BY <1>2
  <2> QED BY <1>1, <2>1, <2>2
<1>5. Slot(f, seq) = k % Win BY <1>2, <1>4, SeqArithmetic DEF Slot
<1>6. U16(seq - f.largest_seqno) = U16(k - t)
  <2>1. U16(U16(s + k) - U16(s + t)) = U16((s + k) - (s + t)) BY <1>2, SeqArithmetic
  <2>2. (s + k) - (s + t) = k - t BY <1>2
  <2> QED BY <1>1, <2>1, <2>2
<1>7. ASSUME NEW m \in S, Latest(S, m), m % Win = k % Win
      PROVE  d = U16(k - m)
  <2>1. m \in Nat /\ s + m \in Int BY <1>2
  <2>2. U16(U16(s + k) - U16(s + m)) = U16((s + k) - (s + m)) BY <1>2, <2>1, SeqArithmetic
  <2>3. (s + k) - (s + m) = k - m BY <1>2, <2>1
  <2>4. f.packets_win[k % Win] = U16(s + m) BY <1>1, <1>7
  <2> QED BY <1>5, <2>2, <2>3, <2>4 DEF DeltaWin
<1>8. d \in Seqs
  <2>1. f.packets_win[k % Win] \in Seqs BY <1>1, <1>2, SlotEqual DEF Rtp
  <2>2. seq - f.packets_win[k % Win] \in Int BY <1>3, <2>1, Ranges
  <2> QED BY <1>5, <2>2, Ranges DEF DeltaWin
<1>9. k \in S /\ Latest(S, k) => d = 0
  <2> SUFFICES ASSUME k \in S, Latest(S, k)
               PROVE  d = 0
    OBVIOUS
  <2>1. d = U16(k - k) BY <1>7
  <2>2. U16(k - k) = k - k BY Ahead, Sizes
  <2> QED BY <2>1, <2>2
<1>10. k \in S /\ ~ Latest(S, k) => d >= OverflowTh /\ (t >= Win \/ k >= Win) /\ k < t
  <2> SUFFICES ASSUME k \in S, ~ Latest(S, k)
               PROVE  d >= OverflowTh /\ (t >= Win \/ k >= Win) /\ k < t
    OBVIOUS
  <2>1. PICK b \in S : Latest(S, b) /\ b % Win = k % Win /\ k <= b BY <1>2, LatestOf
  <2>2. b \in Nat /\ b <= t /\ b > k BY <1>2, <2>1
  <2>3. b - k >= Win BY <1>2, <2>1, <2>2, WindowApart
  <2>4. t - k <= Mod - OverflowTh BY DEF Timely
  <2>5. b - k <= Mod - OverflowTh /\ b - k <= Mod BY <2>2, <2>4, Sizes
  <2>6. d = Mod - (b - k) BY <1>7, <2>1, <2>2, <2>5, Ahead
  <2> QED BY <2>2, <2>3, <2>5, <2>6, Sizes
<1>11. k \notin S /\ (t >= Win \/ k >= Win) =>
         /\ d \in Win .. 5 * Win /\ (d > Win => k >= Win /\ k - Win \notin S)
         /\ k - t <= 5 * Win
  <2> SUFFICES ASSUME k \notin S, t >= Win \/ k >= Win
               PROVE  /\ d \in Win .. 5 * Win /\ (d > Win => k >= Win /\ k - Win \notin S)
                      /\ k - t <= 5 * Win
    OBVIOUS
  <2>1. PICK b \in S : Latest(S, b) /\ b % Win = k % Win /\ k - b \in Win .. 5 * Win
                       /\ (k - b > Win => k - Win \notin S)
    BY Before
  <2>2. b \in Nat /\ b <= t /\ k >= b /\ k - b < Mod BY <1>2, <2>1, Sizes
  <2>3. d = k - b BY <1>7, <2>1, <2>2, Ahead
  <2> QED BY <2>1, <2>2, <2>3, Sizes
<1>12. U16(k - t) < OverflowTh <=> k >= t
  <2>1. CASE k >= t
    <3>1. k - t <= 5 * Win
      <4>1. CASE k \in S BY <1>2, <2>1, <4>1, Sizes
      <4>2. CASE k \notin S /\ (t >= Win \/ k >= Win) BY <1>11, <4>2
      <4>3. CASE t < Win /\ k < Win BY <4>3, Sizes
      <4> QED BY <4>1, <4>2, <4>3, Sizes
    <3>2. U16(k - t) = k - t
      <4>1. k - t < Mod BY <3>1, Sizes
      <4> QED BY <2>1, <4>1, Ahead
    <3> QED BY <2>1, <3>1, <3>2, Sizes
  <2>2. CASE k < t
    <3>1. t - k <= Mod - OverflowTh BY Sizes DEF Timely
    <3>2. U16(k - t) = Mod - (t - k) BY <2>2, <3>1, Ahead, Sizes
    <3> QED BY <2>2, <3>1, <3>2, Sizes
  <2> QED BY <2>1, <2>2
<1>13. (f.w \/ U16(k) >= Win) <=> (t >= Win \/ k >= Win)
  <2>1. CASE t >= Win BY <1>1, <2>1
  <2>2. CASE t < Win
    <3>1. k < Mod
      <4>1. CASE k \in S BY <1>2, <2>2, <4>1, Sizes
      <4>2. CASE k \notin S /\ k >= Win BY <1>11, <2>2, <4>2, Sizes
      <4>3. CASE k < Win BY <4>3, Sizes
      <4> QED BY <4>1, <4>2, <4>3, Sizes
    <3>2. U16(k - 0) = k - 0 BY <3>1, Ahead
    <3>3. U16(k) = k BY <3>2
    <3> QED BY <1>1, <2>2, <3>3
  <2> QED BY <2>1, <2>2, Sizes
<1> QED BY <1>3, <1>4, <1>5, <1>6, <1>8, <1>9, <1>10, <1>11, <1>12, <1>13

\* Packet k changes who used its slot last, and no other slot.
LEMMA LatestNow ==
  ASSUME NEW t \in Nat, NEW S \in SUBSET (0 .. t), NEW k \in Nat,
         k \notin S => \A m \in S : m % Win = k % Win => k - m >= Win
  PROVE  /\ \A m \in S \cup {k} : m # k /\ Latest(S \cup {k}, m) => Latest(S, m) /\ (k \in S \/ m % Win # k % Win)
         /\ k \notin S => Latest(S \cup {k}, k)
         /\ k \in S /\ Latest(S \cup {k}, k) => Latest(S, k)
<1>1. ASSUME NEW m \in S \cup {k}, m # k, Latest(S \cup {k}, m)
      PROVE  Latest(S, m) /\ (k \in S \/ m % Win # k % Win)
  <2>1. m \in S /\ m \in Int /\ k \in Int BY <1>1
  <2>2. Latest(S, m) BY <1>1, <2>1 DEF Latest
  <2>3. ASSUME k \notin S, m % Win = k % Win
        PROVE  FALSE
    <3>1. k - m >= Win BY <2>1, <2>3
    <3>2. k > m BY <2>1, <3>1, Sizes
    <3> QED BY <1>1, <2>3, <3>2 DEF Latest
  <2> QED BY <2>2, <2>3
<1>2. ASSUME k \notin S
      PROVE  Latest(S \cup {k}, k)
  <2>1. ASSUME NEW m \in S, m > k, m % Win = k % Win
        PROVE  FALSE
    <3>1. k - m >= Win /\ m \in Int /\ k \in Int BY <1>2, <2>1
    <3> QED BY <2>1, <3>1, Sizes
  <2> QED BY <2>1 DEF Latest
<1>3. ASSUME k \in S, Latest(S \cup {k}, k)
      PROVE  Latest(S, k)
  BY <1>3 DEF Latest
<1> QED BY <1>1, <1>2, <1>3

\* The packets passed over: they did not come, and a later one uses their
\* slot.
Gone(S, t) == {j \in 0 .. t : j \notin S /\ \E m \in S : m > j /\ m % Win = j % Win}

\* They are as many as any set of them says.
LEMMA GoneFinite ==
  ASSUME NEW t \in Nat, NEW S
  PROVE  /\ IsFiniteSet(Gone(S, t)) /\ IsFiniteSet((0 .. t) \ S)
         /\ Cardinality(Gone(S, t)) \in Nat /\ Cardinality((0 .. t) \ S) \in Nat
         /\ Gone(S, t) \subseteq (0 .. t) \ S
         /\ Cardinality(Gone(S, t)) <= Cardinality((0 .. t) \ S)
<1>1. 0 \in Int /\ t \in Int OBVIOUS
<1>2. IsFiniteSet(0 .. t) BY <1>1, FS_Interval
<1>3. Gone(S, t) \subseteq (0 .. t) \ S /\ (0 .. t) \ S \subseteq 0 .. t BY DEF Gone
<1>4. IsFiniteSet((0 .. t) \ S) BY <1>2, <1>3, FS_Subset
<1>5. IsFiniteSet(Gone(S, t)) /\ Cardinality(Gone(S, t)) <= Cardinality((0 .. t) \ S) BY <1>3, <1>4, FS_Subset
<1> QED BY <1>3, <1>4, <1>5, FS_CardinalityType

\* A packet that came is none of them, and makes the one before it one of
\* them that did not come.
LEMMA GoneGrows ==
  ASSUME NEW t \in Nat, NEW S \in SUBSET (0 .. t), NEW k \in Nat,
         k \notin S => \A m \in S : m % Win = k % Win => k - m >= Win,
         NEW u \in Nat, u = IF t >= k THEN t ELSE k
  PROVE  /\ Cardinality(Gone(S, t)) <= Cardinality(Gone(S \cup {k}, u))
         /\ k \notin S /\ k >= Win /\ k - Win \notin S =>
              Cardinality(Gone(S, t)) + 1 <= Cardinality(Gone(S \cup {k}, u))
<1> DEFINE G == Gone(S, t)  H == Gone(S \cup {k}, u)
<1>1. G \subseteq H
  <2> SUFFICES ASSUME NEW j \in G
               PROVE  j \in H
    OBVIOUS
  <2>1. j \in 0 .. t /\ j \notin S BY DEF Gone
  <2>2. PICK m \in S : m > j /\ m % Win = j % Win BY DEF Gone
  <2>3. j # k
    <3> SUFFICES ASSUME j = k
                 PROVE  FALSE
      OBVIOUS
    <3>1. k - m >= Win /\ m \in Int /\ k \in Int BY <2>1, <2>2
    <3> QED BY <2>2, <3>1, Sizes
  <2>4. j \in 0 .. u BY <2>1
  <2> QED BY <2>1, <2>2, <2>3, <2>4 DEF Gone
<1>2. IsFiniteSet(G) /\ IsFiniteSet(H) /\ Cardinality(G) \in Nat /\ Cardinality(H) \in Nat BY GoneFinite
<1>3. Cardinality(G) <= Cardinality(H)
  <2> HIDE DEF G, H
  <2> QED BY <1>1, <1>2, FS_Subset
<1>4. ASSUME k \notin S, k >= Win, k - Win \notin S
      PROVE  Cardinality(G) + 1 <= Cardinality(H)
  <2> DEFINE j == k - Win
  <2>1. j \in Int /\ k \in Int /\ Win \in Nat /\ Win > 1 /\ j \in 0 .. u /\ k > j BY <1>4, Sizes
  <2>2. j % Win = k % Win BY <2>1, SlotEqual
  <2>3. j \in H
    <3>1. j \notin S \cup {k} BY <1>4, <2>1
    <3> HIDE DEF j
    <3> QED BY <2>1, <2>2, <3>1 DEF Gone
  <2>4. j \notin G
    <3> SUFFICES ASSUME j \in G
                 PROVE  FALSE
      OBVIOUS
    <3>1. PICK m \in S : m > j /\ m % Win = j % Win BY DEF Gone
    <3>2. k - m >= Win /\ m \in Int BY <1>4, <2>2, <3>1
    <3> QED BY <2>1, <3>1, <3>2
  <2>5. IsFiniteSet(G \cup {j}) /\ Cardinality(G \cup {j}) = Cardinality(G) + 1
    <3> HIDE DEF G, j
    <3> QED BY <1>2, <2>4, FS_AddElement
  <2>6. G \cup {j} \subseteq H BY <1>1, <2>3
  <2> HIDE DEF G, H, j
  <2>7. Cardinality(G \cup {j}) <= Cardinality(H) BY <1>2, <2>6, FS_Subset
  <2> QED BY <2>5, <2>7
<1> QED BY <1>3, <1>4

\* The last packet of the encoder that came by, and what the next packet k
\* changes of the record.
Later(t, k) == IF t >= k THEN t ELSE k
Charging(f, g, s, u, S, k, ts) ==
  /\ Recorded(g, s, u, S \cup {k}) /\ g.bogus_reset = f.bogus_reset
  /\ g.largest_ts = IF U32(ts - f.largest_ts) < OverflowTh THEN ts ELSE f.largest_ts
  /\ g.n_dup + g.n_late >= f.n_dup + f.n_late + (IF k \in S THEN 1 ELSE 0)
  /\ \/ g.n_lost = f.n_lost
     \/ g.n_lost = f.n_lost + 1 /\ k \notin S /\ k >= Win /\ k - Win \notin S

\* A packet of a stream that is not taken for a new beginning: the record
\* is right again, a repeat is found, and only a packet that was passed
\* over is called lost.
LEMMA Arrival ==
  ASSUME NEW s \in Nat, NEW t \in Nat, NEW S, Arrived(S, t), NEW f, Recorded(f, s, t, S),
         NEW k \in Nat, Timely(S, t, k), Remembered(S \cup {k}),
         NEW seq, seq = U16(s + k), NEW ts \in 0 .. TsMod - 1,
         ~ Jumped(Counting(f, seq), seq, ts)
  PROVE  /\ Arrived(S \cup {k}, Later(t, k))
         /\ Charging(f, RtpStat(f, seq, ts), s, Later(t, k), S, k, ts)
<1> DEFINE g == RtpStat(f, seq, ts)  u == Later(t, k)
<1>0. g = RtpStat(f, seq, ts) /\ u = (IF t >= k THEN t ELSE k) /\ u \in Nat BY DEF Later
<1> HIDE DEF g, u
<1> DEFINE w == f.w \/ U16(seq - f.initial_seqno) >= Win
           d == DeltaWin(f, seq)
           i == Slot(f, seq)
           stored == ~ w \/ (d >= Win /\ d < OverflowTh)
<1>1. /\ f \in Rtp /\ f.initial_seqno = U16(s) /\ f.largest_seqno = U16(s + t)
      /\ f.w <=> t >= Win
      /\ \A m \in S : Latest(S, m) => f.packets_win[m % Win] = U16(s + m)
  BY DEF Recorded
<1>2. S \in SUBSET (0 .. t) /\ t \in S /\ k \in Int /\ (t >= Win => 0 .. Win - 1 \subseteq S) BY DEF Arrived
<1>3. /\ seq \in Seqs /\ i = k % Win /\ d \in Seqs
      /\ w <=> (t >= Win \/ k >= Win)
      /\ U16(seq - f.largest_seqno) < OverflowTh <=> k >= t
      /\ k \in S /\ Latest(S, k) => d = 0
      /\ k \in S /\ ~ Latest(S, k) => d >= OverflowTh /\ (t >= Win \/ k >= Win) /\ k < t
      /\ k \notin S /\ (t >= Win \/ k >= Win) =>
           d \in Win .. 5 * Win /\ (d > Win => k >= Win /\ k - Win \notin S)
  BY Meeting
<1>4. /\ g \in Rtp /\ g.w = w /\ g.initial_seqno = f.initial_seqno
      /\ g.bogus_reset = f.bogus_reset
      /\ g.largest_ts = IF U32(ts - f.largest_ts) < OverflowTh THEN ts ELSE f.largest_ts
      /\ g.largest_seqno = IF U16(seq - f.largest_seqno) < OverflowTh THEN seq
                           ELSE f.largest_seqno
      /\ g.packets_win = IF stored THEN [f.packets_win EXCEPT ![i] = seq] ELSE f.packets_win
      /\ g.n_lost = IF w /\ d > Win /\ d < OverflowTh THEN f.n_lost + 1 ELSE f.n_lost
      /\ g.n_dup = IF d = 0 THEN f.n_dup + 1 ELSE f.n_dup
      /\ g.n_late = IF w /\ d >= OverflowTh THEN f.n_late + 1 ELSE f.n_late
  <2>1. Filed(f, g, seq, ts, Full(f, seq), DeltaWin(f, seq)) BY <1>0, <1>1, <1>3, StatFiled
  <2> QED BY <2>1 DEF Filed, Full
<1> HIDE DEF w, d, i
<1>5. d \in Int /\ 0 <= d /\ (k \notin S => stored) /\ (k \in S /\ stored => Latest(S, k))
  <2>1. d \in Int /\ 0 <= d BY <1>3, Ranges DEF Seqs
  <2> QED BY <1>3, <2>1, Sizes
<1>6. Arrived(S \cup {k}, u) BY <1>0, <1>2, Sizes DEF Arrived, Timely
<1>7. k \notin S => \A m \in S : m % Win = k % Win => k - m >= Win BY NotPassed
<1>8. /\ \A m \in S \cup {k} : m # k /\ Latest(S \cup {k}, m) =>
                                 Latest(S, m) /\ (k \in S \/ m % Win # k % Win)
      /\ k \in S /\ Latest(S \cup {k}, k) => Latest(S, k)
  BY <1>2, <1>7, LatestNow
<1>9. f.packets_win \in [Slots -> Seqs] /\ i \in Slots BY <1>1, <1>2, <1>3, SlotEqual DEF Rtp
<1>10. ASSUME NEW m \in S \cup {k}, Latest(S \cup {k}, m)
       PROVE  g.packets_win[m % Win] = U16(s + m)
  <2>1. m \in Int BY <1>2
  <2>2. m % Win \in Slots BY <2>1, SlotEqual
  <2>3. CASE m = k
    <3>1. CASE stored BY <1>3, <1>4, <1>9, <2>3, <3>1
    <3>2. CASE ~ stored
      <4>1. k \in S /\ Latest(S, k) BY <1>5, <1>8, <1>10, <2>3, <3>2
      <4> QED BY <1>1, <1>4, <2>3, <3>2, <4>1
    <3> HIDE DEF stored
    <3> QED BY <3>1, <3>2
  <2>4. CASE m # k
    <3>1. m \in S /\ Latest(S, m) /\ (k \in S \/ m % Win # k % Win) BY <1>8, <1>10, <2>4
    <3>2. f.packets_win[m % Win] = U16(s + m) BY <1>1, <3>1
    <3>3. stored => m % Win # k % Win
      <4> SUFFICES ASSUME stored, m % Win = k % Win
                   PROVE  FALSE
        OBVIOUS
      <4>1. k \in S /\ Latest(S, k) BY <1>5, <3>1
      <4>2. m > k \/ k > m BY <1>2, <2>1, <2>4
      <4> QED BY <3>1, <4>1, <4>2 DEF Latest
    <3> HIDE DEF stored
    <3> QED BY <1>3, <1>4, <1>9, <2>2, <3>2, <3>3
  <2> QED BY <2>3, <2>4
<1>11. Recorded(g, s, u, S \cup {k})
  <2>1. g.largest_seqno = U16(s + u) BY <1>0, <1>1, <1>3, <1>4
  <2>2. g.w <=> u >= Win BY <1>0, <1>3, <1>4, Sizes
  <2> QED BY <1>1, <1>4, <1>10, <2>1, <2>2 DEF Recorded
<1>12. f.n_dup \in Nat /\ f.n_late \in Nat /\ f.n_lost \in Nat BY <1>1 DEF Rtp
<1>13. g.n_dup + g.n_late >= f.n_dup + f.n_late + (IF k \in S THEN 1 ELSE 0)
  <2>1. k \in S => d = 0 \/ (w /\ d >= OverflowTh) BY <1>3
  <2> HIDE DEF stored
  <2> QED BY <1>4, <1>12, <2>1
<1>14. \/ g.n_lost = f.n_lost
       \/ g.n_lost = f.n_lost + 1 /\ k \notin S /\ k >= Win /\ k - Win \notin S
  <2>1. w /\ d > Win /\ d < OverflowTh => k \notin S /\ k >= Win /\ k - Win \notin S BY <1>3, <1>5, Sizes
  <2> HIDE DEF stored
  <2> QED BY <1>4, <2>1
<1> QED BY <1>4, <1>6, <1>11, <1>13, <1>14 DEF g, u, Charging

\* When the stream ends no more packets are called lost than were.
LEMMA Ending ==
  ASSUME NEW s \in Nat, NEW t \in Nat, NEW S, Arrived(S, t), NEW f, Recorded(f, s, t, S)
  PROVE  Cardinality(Missing(f)) + Cardinality(Gone(S, t)) <= Cardinality((0 .. t) \ S)
<1> DEFINE r == t % Win
           At(i) == (t - r) + i
           M == Missing(f)
           A == {At(i) : i \in M}
           G == Gone(S, t)
           L == (0 .. t) \ S
<1>1. /\ f.initial_seqno = U16(s) /\ f.largest_seqno = U16(s + t)
      /\ \A m \in S : Latest(S, m) => f.packets_win[m % Win] = U16(s + m)
      /\ S \in SUBSET (0 .. t) /\ s + t \in Int /\ t \in Int /\ s \in Int
  BY DEF Recorded, Arrived
<1>2. r \in Slots /\ r \in Int /\ 0 <= r /\ r < Win /\ r <= t
  <2>1. r \in 0 .. Win - 1 /\ t = Win * (t \div Win) + r /\ t \div Win \in Int BY Sizes, Quotient
  <2>2. t \div Win >= 0
    <3> SUFFICES ASSUME t \div Win <= -1
                 PROVE  FALSE
      BY <2>1
    <3> DEFINE q == t \div Win
    <3>1. q \in Int /\ q <= -1 /\ t = Win * q + r BY <2>1
    <3> HIDE DEF q, r
    <3>2. Win * q <= Win * (-1) /\ Win * (-1) = -Win BY <3>1, Sizes
    <3> QED BY <2>1, <3>1, <3>2, Sizes
  <2>3. Win * (t \div Win) >= 0 BY <2>1, <2>2, Sizes
  <2> HIDE DEF r
  <2> QED BY <2>1, <2>3, Sizes DEF Slots
<1>3. LastSlot(f) = r
  <2>1. U16(U16(s + t) - U16(s)) = U16((s + t) - s) BY <1>1, SeqArithmetic
  <2>2. (s + t) - s = t BY <1>1
  <2>3. U16(t) % Win = t % Win BY <1>1, SeqArithmetic
  <2> QED BY <1>1, <2>1, <2>2, <2>3 DEF LastSlot
<1>4. ASSUME NEW i \in 0 .. r
      PROVE  At(i) \in 0 .. t /\ At(i) % Win = i /\ \A m \in S : m > At(i) => m % Win # i
  <2>1. i \in Int /\ At(i) \in Int /\ At(i) \in 0 .. t /\ i \in Slots BY <1>1, <1>2, Sizes DEF Slots
  <2>2. At(i) % Win = i
    <3> DEFINE q == t \div Win  c == At(i)
    <3>1. r \in 0 .. Win - 1 /\ t = Win * q + r /\ q \in Int BY Sizes, Quotient
    <3> HIDE DEF q, r
    <3>2. c = Win * q + i /\ 0 <= i /\ i < Win /\ c \in Int
      <4>1. Win * q \in Int BY <3>1, Sizes
      <4> QED BY <2>1, <3>1, <4>1, <1>2, Sizes
    <3> HIDE DEF c
    <3>3. c % Win = i BY <2>1, <3>1, <3>2, Sizes, Remainder
    <3> QED BY <3>3 DEF c
  <2>3. ASSUME NEW m \in S, m > At(i), m % Win = i
        PROVE  FALSE
    <3>1. m \in Int /\ m <= t BY <1>1
    <3>2. m - At(i) >= Win BY <2>1, <2>2, <2>3, <3>1, WindowApart
    <3>3. t - At(i) <= r BY <1>1, <1>2, <2>1
    <3> QED BY <1>2, <2>1, <3>1, <3>2, <3>3, Sizes
  <2> QED BY <2>1, <2>2, <2>3
<1>5. M \subseteq 0 .. r BY <1>3 DEF Missing
<1>6. ASSUME NEW i \in M
      PROVE  At(i) \in L /\ At(i) \notin G
  <2>1. i \in 0 .. r /\ f.packets_win[i] # U16(f.largest_seqno - r + i) /\ i \in Int BY <1>2, <1>3 DEF Missing
  <2> DEFINE j == At(i)
  <2>2. j \in 0 .. t /\ j % Win = i /\ \A m \in S : m > j => m % Win # i BY <1>4, <2>1
  <2>3. j \notin S
    <3> SUFFICES ASSUME j \in S
                 PROVE  FALSE
      OBVIOUS
    <3>1. Latest(S, j) BY <2>2 DEF Latest
    <3>2. f.packets_win[i] = U16(s + j) BY <1>1, <2>2, <3>1
    <3>3. U16(s + t) - r + i = U16(s + t) + (i - r) /\ i - r \in Int
          /\ (s + t) + (i - r) = s + j
      <4>1. U16(s + t) \in Int BY <1>1, Ranges
      <4> QED BY <1>1, <1>2, <2>1, <4>1
    <3>4. U16(U16(s + t) + (i - r)) = U16((s + t) + (i - r)) BY <1>1, <3>3, SeqArithmetic
    <3> HIDE DEF j
    <3> QED BY <1>1, <2>1, <3>2, <3>3, <3>4
  <2>4. j \notin G BY <2>2 DEF Gone
  <2> QED BY <2>2, <2>3, <2>4
<1>7. IsFiniteSet(M) /\ IsFiniteSet(G) /\ IsFiniteSet(L) /\ G \subseteq L
      /\ Cardinality(G) \in Nat /\ Cardinality(L) \in Nat
  <2>1. IsFiniteSet(0 .. r) BY <1>2, FS_Interval
  <2>2. IsFiniteSet(M) BY <1>5, <2>1, FS_Subset
  <2> QED BY <2>2, GoneFinite
<1>8. A \subseteq L \ G BY <1>6
<1>9. IsFiniteSet(L \ G) /\ Cardinality(L \ G) = Cardinality(L) - Cardinality(G)
  <2> HIDE DEF L, G
  <2>1. G \cap L = G /\ L \cap G = G BY <1>7
  <2> QED BY <1>7, <2>1, FS_Difference
<1>10. Cardinality(M) <= Cardinality(L \ G)
  <2> DEFINE h == [i \in M |-> At(i)]
  <2>1. \A i \in M : i \in Int BY <1>2, <1>5
  <2>2. h \in Injection(M, L \ G)
    <3>1. h \in [M -> L \ G] BY <1>6
    <3>2. \A a, b \in M : h[a] = h[b] => a = b BY <1>1, <1>2, <2>1
    <3> HIDE DEF M, L, G, h
    <3> QED BY <3>1, <3>2 DEF Injection, IsInjective
  <2> HIDE DEF M, L, G, h
  <2> QED BY <1>7, <1>9, <2>2, FS_Injection
<1> HIDE DEF M, G, L
<1>11. Cardinality(M) \in Nat BY <1>7, FS_CardinalityType
<1>12. Cardinality(M) + Cardinality(G) <= Cardinality(L) BY <1>7, <1>9, <1>10, <1>11
<1> QED BY <1>12 DEF M, G, L

\* How far a time stamp is behind or ahead, in numbers of 32 bits.
LEMMA TicksBetween ==
  ASSUME NEW a \in Nat, NEW b \in Nat
  PROVE  /\ a >= b /\ a - b < TsMod => U32(U32(a) - U32(b)) = a - b
         /\ a < b /\ b - a <= TsMod => U32(U32(a) - U32(b)) = TsMod - (b - a)
<1>1. U32(U32(a) - U32(b)) = U32(a - b)
  <2> DEFINE r == b % TsMod
  <2>1. r \in Int /\ a \in Int /\ b \in Int BY Sizes, Quotient
  <2>2. (a - (b % TsMod)) % TsMod = (a - b) % TsMod BY <2>1, Sizes, Reduced
  <2> HIDE DEF r
  <2>3. ((a % TsMod) - r) % TsMod = (a - r) % TsMod BY <2>1, Sizes, Reduced
  <2> QED BY <2>2, <2>3 DEF U32, r
<1>2. ASSUME a >= b, a - b < TsMod
      PROVE  U32(a - b) = a - b
  <2> DEFINE c == a - b
  <2>1. c \in Int /\ 0 <= c /\ c < TsMod /\ 0 \in Int /\ c = TsMod * 0 + c /\ TsMod \in Nat \ {0}
    BY <1>2, Sizes
  <2> HIDE DEF c
  <2>2. c % TsMod = c BY <2>1, Remainder
  <2> QED BY <2>2 DEF c, U32
<1>3. ASSUME a < b, b - a <= TsMod
      PROVE  U32(a - b) = TsMod - (b - a)
  <2> DEFINE c == a - b  r == TsMod - (b - a)
  <2>1. c \in Int /\ r \in Int /\ 0 <= r /\ r < TsMod /\ TsMod * (-1) = -TsMod
        /\ TsMod \in Nat \ {0} /\ -1 \in Int
    BY <1>3, Sizes
  <2>2. c = TsMod * (-1) + r BY <2>1, Sizes
  <2> HIDE DEF c, r
  <2>3. c % TsMod = r BY <2>1, <2>2, Remainder
  <2> QED BY <2>3 DEF c, r, U32
<1> QED BY <1>1, <1>2, <1>3

\* Products keep the order.
LEMMA Scaled ==
  ASSUME NEW a \in Nat, NEW b \in Nat, NEW d \in Nat
  PROVE  /\ a * d \in Nat /\ b * d \in Nat /\ (a - b) * d = a * d - b * d
         /\ a <= b => a * d <= b * d
<1>1. a * d \in Nat /\ b * d \in Nat /\ (a - b) * d = a * d - b * d OBVIOUS
<1>2. ASSUME a <= b
      PROVE  a * d <= b * d
  BY <1>2
<1> QED BY <1>1, <1>2

\* Where time stamps advance steadily no packet that comes in time is
\* taken for a new beginning.
LEMMA NoJump ==
  ASSUME NEW s \in Nat, NEW t \in Nat, NEW S, Arrived(S, t), NEW f, Recorded(f, s, t, S),
         NEW k \in Nat, Timely(S, t, k), Remembered(S \cup {k}),
         NEW seq, seq = U16(s + k), NEW ts, ts = U32(k * step),
         step \in Nat, Ticking, k <= t + Skip + 1, (t - k) * step <= TsBack,
         f.largest_ts = U32(t * step)
  PROVE  /\ ~ Jumped(Counting(f, seq), seq, ts)
         /\ U32(ts - f.largest_ts) < OverflowTh <=> k >= t
<1>1. S \in SUBSET (0 .. t) /\ t \in S /\ f \in Rtp BY DEF Arrived, Recorded
<1> DEFINE d == DeltaWin(f, seq)
           w == f.w \/ U16(seq - f.initial_seqno) >= Win
           c == Counting(f, seq)
<1>2. /\ d \in Seqs
      /\ w <=> (t >= Win \/ k >= Win)
      /\ k \in S /\ Latest(S, k) => d = 0
      /\ k \in S /\ ~ Latest(S, k) => k < t
      /\ k \notin S /\ (t >= Win \/ k >= Win) => d \in Win .. 5 * Win
  BY Meeting
<1>3. c.w = w /\ c.largest_ts = f.largest_ts /\ DeltaWin(c, seq) = d BY <1>1 DEF Counting, DeltaWin, Slot, Rtp
<1> DEFINE a == k * step  b == t * step  e == U32(ts - f.largest_ts)
<1>4. a \in Nat /\ b \in Nat /\ Skip \in Nat /\ step > 0 BY StreamAssumption DEF Ticking
<1>5. ASSUME k >= t
      PROVE  e < OverflowTh /\ ~ (w /\ d > 5 * Win)
  <2>1. a - b <= (Skip + 1) * step /\ b <= a
    <3> DEFINE n == k - t  m == Skip + 1
    <3>1. n \in Nat /\ m \in Nat /\ n <= m BY <1>4, <1>5
    <3>2. n * step <= m * step BY <3>1, Scaled
    <3>3. (k - t) * step = k * step - t * step /\ t * step <= k * step BY <1>5, Scaled
    <3> QED BY <3>2, <3>3
  <2>2. (Skip + 1) * step < OverflowTh BY DEF Ticking
  <2> HIDE DEF a, b
  <2>3. a - b < OverflowTh /\ a >= b /\ a - b < TsMod
    <3> DEFINE z == (Skip + 1) * step
    <3>1. z \in Nat BY <1>4
    <3>2. a - b <= z /\ z < OverflowTh /\ b <= a BY <2>1, <2>2
    <3> HIDE DEF z
    <3> QED BY <1>4, <3>1, <3>2, Sizes
  <2>4. U32(U32(a) - U32(b)) = a - b BY <1>4, <2>3, TicksBetween
  <2>5. e = U32(U32(a) - U32(b)) BY DEF a, b
  <2>6. ~ (w /\ d > 5 * Win)
    <3>1. CASE k \in S
      <4>1. k = t BY <1>1, <1>5, <3>1
      <4>2. d = 0 BY <1>2, <3>1, <4>1
      <4> HIDE DEF d
      <4> QED BY <4>2, Sizes
    <3>2. CASE k \notin S
      <4> HIDE DEF d
      <4> QED BY <1>2, <3>2, Sizes
    <3> QED BY <3>1, <3>2
  <2> HIDE DEF e, d, w
  <2> QED BY <2>3, <2>4, <2>5, <2>6
<1>6. ASSUME k < t
      PROVE  e >= TsMod - TsBack
  <2>1. b - a = (t - k) * step /\ a <= b BY <1>6, Scaled
  <2>2. b - a > 0
    <3> DEFINE n == t - k
    <3>1. n \in Nat /\ 1 <= n BY <1>6
    <3>2. 1 * step <= n * step BY <3>1, Scaled
    <3> QED BY <1>4, <2>1, <3>2
  <2>3. b - a <= TsBack BY <2>1
  <2> HIDE DEF a, b
  <2>4. a < b /\ b - a <= TsMod BY <1>4, <2>2, <2>3, Sizes
  <2>5. U32(U32(a) - U32(b)) = TsMod - (b - a) BY <1>4, <2>4, TicksBetween
  <2>6. e = U32(U32(a) - U32(b)) BY DEF a, b
  <2> HIDE DEF e
  <2> QED BY <1>4, <2>3, <2>5, <2>6, Sizes
<1>7. e \in Int /\ d \in Int
  <2>1. ts - f.largest_ts \in Int
    <3>1. ts \in 0 .. TsMod - 1 /\ f.largest_ts \in 0 .. TsMod - 1 BY <1>4, Ranges
    <3> QED BY <3>1, Ranges
  <2>2. e \in 0 .. TsMod - 1 BY <2>1, Ranges
  <2> HIDE DEF e, d
  <2> QED BY <1>2, <2>2, Ranges
<1>8. Jumped(c, seq, ts) <=> d > 5 * Win /\ e < TsMod - TsBack /\ w BY <1>3 DEF Jumped
<1> HIDE DEF e, d, w, c
<1>9. e < OverflowTh <=> k >= t BY <1>5, <1>6, <1>7, Sizes
<1>10. ~ Jumped(c, seq, ts) BY <1>5, <1>6, <1>7, <1>8, Sizes
<1> QED BY <1>9, <1>10 DEF e, c

\* What is true of a stream that was never numbered anew and whose packets
\* come in time, and of its counters also once it ended.
Tallied(f, s, t, S, r) ==
  /\ r <= f.n_dup + f.n_late
  /\ ~ closed => Recorded(f, s, t, S) /\ f.n_lost <= Cardinality(Gone(S, t))
  /\ closed => f.n_lost <= Cardinality((0 .. t) \ S)
ChargeInv ==
  /\ early => Arrived(seen, top)
  /\ jumped = 0 /\ early /\ ~ Forgotten =>
       /\ Ticking => ~ rtp.bogus_reset /\ rtp.largest_ts = U32(top * step)
       /\ ~ rtp.bogus_reset => Tallied(rtp, start, top, seen, repeats)

\* Forgotten says it of the packets that came.
LEMMA Memory ==
  ~ Forgotten <=> Remembered(seen)
BY DEF Forgotten, Remembered

\* A slot that waits too long does so for ever.
LEMMA StillRemembered ==
  ASSUME NEW t \in Nat, NEW S, Arrived(S, t), NEW k \in Nat, Timely(S, t, k),
         Remembered(S \cup {k})
  PROVE  Remembered(S)
<1> SUFFICES ASSUME NEW m \in S, m > 5 * Win
             PROVE  \E n \in 1 .. 5 : m - n * Win \in S
  BY DEF Remembered
<1>1. PICK n \in 1 .. 5 : m - n * Win \in S \cup {k} BY DEF Remembered
<1>2. ASSUME m - n * Win = k, k \notin S
      PROVE  FALSE
  <2>1. m \in Int /\ n \in Int /\ n * Win >= Win /\ n * Win \in Int BY Sizes DEF Arrived
  <2>2. (m - n * Win) % Win = m % Win BY <2>1, SameSlot
  <2>3. k - m >= Win BY <1>2, <2>2, NotPassed
  <2> QED BY <1>2, <2>1, <2>3, Sizes
<1> QED BY <1>1, <1>2

\* Of the two packets that begin a stream nothing is charged.
LEMMA ChargeInit ==
  ASSUME Init \/ NoStream
  PROVE  ChargeInv
<1>1. CASE NoStream BY <1>1 DEF NoStream, ChargeInv
<1>2. CASE Init
  <2> DEFINE f == InitRtp(U16(start), 0)  seq == U16(start + 1)  ts == U32(step)
  <2>1. /\ start \in Nat /\ step \in Nat /\ jumped = 0 /\ top = 1 /\ seen = {0, 1}
        /\ repeats = 0 /\ closed = FALSE /\ rtp = RtpStat(f, seq, ts)
    BY <1>2, StreamSizes DEF Init
  <2> DEFINE S == {0}
  <2>2. Arrived(S, 0) /\ Timely(S, 0, 1) /\ Remembered(S \cup {1}) BY Sizes DEF Arrived, Timely, Remembered
  <2>3. /\ U16(start) \in Seqs /\ seq \in Seqs /\ ts \in 0 .. TsMod - 1 /\ 0 \in 0 .. TsMod - 1
        /\ U32(0) = 0 /\ start + 0 = start
    <3>1. 0 \in 0 .. TsMod - 1 /\ TsMod \in Nat \ {0} /\ 0 \in Int /\ 0 < TsMod /\ 0 <= 0
          /\ 0 = TsMod * 0 + 0
      BY Sizes
    <3>2. 0 % TsMod = 0 BY <3>1, Remainder
    <3> QED BY <2>1, <3>1, <3>2, Ranges DEF U32
  <2>4. f \in Rtp /\ Recorded(f, start, 0, S)
    <3>1. [i \in Slots |-> IF i = 0 THEN U16(start) ELSE 0] \in [Slots -> Seqs] BY <2>3, Ranges
    <3>2. f \in Rtp BY <2>3, <3>1 DEF InitRtp, Rtp
    <3>3. 0 % Win = 0 /\ 0 \in Slots
      <4>1. 0 \in Int /\ 0 \in Slots BY Ranges
      <4> QED BY <4>1, SlotEqual
    <3>4. /\ f.initial_seqno = U16(start) /\ f.largest_seqno = U16(start + 0) /\ f.w = FALSE
          /\ f.packets_win[0] = U16(start + 0)
      BY <2>3, <3>3 DEF InitRtp
    <3> HIDE DEF f
    <3> QED BY <3>2, <3>3, <3>4, Sizes DEF Recorded
  <2>5. f.n_dup = 0 /\ f.n_late = 0 /\ f.n_lost = 0 /\ f.bogus_reset = FALSE /\ f.largest_ts = 0
    BY DEF InitRtp
  <2> DEFINE k == 1  t == 0  u == Later(t, k)
  <2>6. /\ t \in Nat /\ k \in Nat /\ u \in Nat
        /\ Arrived(S, t) /\ Timely(S, t, k) /\ Remembered(S \cup {k})
        /\ Recorded(f, start, t, S) /\ seq = U16(start + k) /\ k <= t + Skip + 1
        /\ ~ (t >= Win \/ k >= Win) /\ k >= t /\ S \cup {k} = seen /\ k \notin S /\ u = top
    BY <2>1, <2>2, <2>4, Sizes, StreamAssumption DEF Later
  <2>7. ts = U32(k * step) /\ f.largest_ts = U32(t * step) /\ (t - k) * step <= TsBack
    <3>1. k * step = step /\ t * step = 0 /\ (t - k) * step = -step BY <2>1
    <3> HIDE DEF f
    <3> QED BY <2>1, <2>3, <2>5, <3>1, Sizes
  <2> HIDE DEF k, t, u, f, seq, ts, S
  <2>8. ~ Jumped(Counting(f, seq), seq, ts)
    <3>1. ~ (f.w \/ U16(seq - f.initial_seqno) >= Win) BY <2>1, <2>6, Meeting
    <3>2. ~ Counting(f, seq).w BY <2>4, <3>1 DEF Counting, Rtp
    <3> QED BY <3>2 DEF Jumped
  <2>9. /\ Arrived(seen, top) /\ Recorded(rtp, start, top, seen)
        /\ rtp.bogus_reset = f.bogus_reset
        /\ rtp.largest_ts = IF U32(ts - f.largest_ts) < OverflowTh THEN ts ELSE f.largest_ts
        /\ rtp.n_dup + rtp.n_late >= f.n_dup + f.n_late
        /\ rtp.n_lost = f.n_lost
    <3>1. Arrived(S \cup {k}, Later(t, k)) /\ Charging(f, rtp, start, Later(t, k), S, k, ts)
      BY <2>1, <2>3, <2>6, <2>8, Arrival
    <3>2. rtp.n_dup \in Nat /\ rtp.n_late \in Nat BY <3>1 DEF Charging, Recorded, Rtp
    <3>3. u = Later(t, k) BY DEF u
    <3>4. /\ Recorded(rtp, start, u, S \cup {k}) /\ rtp.bogus_reset = f.bogus_reset
          /\ rtp.largest_ts = IF U32(ts - f.largest_ts) < OverflowTh THEN ts ELSE f.largest_ts
          /\ rtp.n_lost = f.n_lost
      BY <2>6, <3>1, <3>3 DEF Charging
    <3>5. rtp.n_dup + rtp.n_late >= f.n_dup + f.n_late BY <2>5, <3>2
    <3> QED BY <2>6, <3>1, <3>3, <3>4, <3>5
  <2>10. Ticking => rtp.largest_ts = U32(top * step)
    <3> SUFFICES ASSUME Ticking
                 PROVE  rtp.largest_ts = U32(top * step)
      OBVIOUS
    <3>1. U32(ts - f.largest_ts) < OverflowTh <=> k >= t BY <2>1, <2>6, <2>7, NoJump
    <3>2. top * step = k * step BY <2>1 DEF k
    <3> QED BY <2>6, <2>7, <2>9, <3>1, <3>2
  <2>11. Tallied(rtp, start, top, seen, repeats)
    <3>1. Cardinality(Gone(seen, top)) \in Nat BY <2>1, GoneFinite
    <3>2. repeats <= rtp.n_dup + rtp.n_late /\ rtp.n_lost <= Cardinality(Gone(seen, top))
      <4>1. rtp.n_dup \in Nat /\ rtp.n_late \in Nat BY <2>9 DEF Recorded, Rtp
      <4> QED BY <2>1, <2>5, <2>9, <3>1, <4>1
    <3> QED BY <2>1, <2>9, <3>2 DEF Tallied
  <2> QED BY <2>1, <2>5, <2>9, <2>10, <2>11 DEF ChargeInv
<1> QED BY <1>1, <1>2

\* The next packet of such a stream.
LEMMA ChargePacket ==
  ASSUME StreamInv, ChargeInv, NEW k \in 0 .. MaxSent, k <= top + Skip + 1, Packet(k)
  PROVE  ChargeInv'
<1> DEFINE seq == U16(start + k)  ts == U32(k * step)  S == seen \cup {k}
           u == IF top >= k THEN top ELSE k
<1>1. /\ start \in Nat /\ step \in Nat /\ jumped \in Nat /\ top \in Nat /\ k \in Nat
      /\ u \in Nat /\ rtp \in Rtp /\ top \in 0 .. MaxSent /\ MaxSent \in Nat /\ repeats \in Nat
  <2>1. TypeOK /\ k \in Nat /\ MaxSent \in Nat /\ top \in 1 .. MaxSent BY StreamSizes DEF StreamInv, TypeOK
  <2>2. rtp \in Rtp /\ repeats \in Nat BY <2>1, StreamSizes DEF TypeOK
  <2>3. 0 \in Int OBVIOUS
  <2> QED BY <2>1, <2>2, <2>3, PacketType
<1>2. /\ ~ closed /\ rtp' = RtpStat(rtp, SeqOf(k), TsOf(k))
      /\ early' = (early /\ InTime(k) /\ (k >= Win => 0 .. (Win - 1) \subseteq seen))
      /\ repeats' = IF k \in seen THEN repeats + 1 ELSE repeats
      /\ seen' = S /\ top' = Max({top, k})
      /\ start' = start /\ step' = step /\ jumped' = jumped /\ closed' = closed
  BY DEF Packet
<1>3. top' = u BY <1>1, <1>2, Larger
<1>4. TsOf(k) = ts /\ (jumped = 0 => SeqOf(k) = seq)
  <2>1. start + k + 0 = start + k BY <1>1
  <2> QED BY <2>1 DEF TsOf, SeqOf
<1>5. seq \in Seqs /\ ts \in 0 .. TsMod - 1
  <2>1. start + k \in Int /\ k * step \in Int BY <1>1
  <2> QED BY <2>1, Ranges
<1> HIDE DEF seq, ts, u
<1>6. ASSUME early'
      PROVE  /\ early /\ Arrived(seen, top) /\ Timely(seen, top, k)
             /\ (top - k) * step <= TsBack /\ Arrived(S, u)
  <2>1. early /\ InTime(k) /\ (k >= Win => 0 .. Win - 1 \subseteq seen) BY <1>2, <1>6
  <2>2. Arrived(seen, top) BY <2>1 DEF ChargeInv
  <2>3. Timely(seen, top, k) /\ (top - k) * step <= TsBack BY <2>1 DEF InTime, Timely
  <2>4. Arrived(S, u) BY <1>1, <2>2, <2>3, Sizes DEF Arrived, Timely, u
  <2> QED BY <2>1, <2>2, <2>3, <2>4
<1>7. ASSUME jumped' = 0, early', ~ Forgotten'
      PROVE  /\ Ticking' => ~ rtp'.bogus_reset /\ rtp'.largest_ts = U32(top' * step')
             /\ ~ rtp'.bogus_reset => Tallied(rtp, start, top, seen, repeats)'
  <2>1. Remembered(S) /\ jumped = 0
    <3>1. Remembered(seen)' BY <1>7, Memory, PTL
    <3> QED BY <1>2, <1>7, <3>1
  <2>2. Arrived(seen, top) /\ Timely(seen, top, k) /\ early /\ (top - k) * step <= TsBack BY <1>6, <1>7
  <2>3. ~ Forgotten BY <1>1, <2>1, <2>2, StillRemembered, Memory
  <2>4. /\ Ticking => ~ rtp.bogus_reset /\ rtp.largest_ts = U32(top * step)
        /\ ~ rtp.bogus_reset => Tallied(rtp, start, top, seen, repeats)
    BY <2>1, <2>2, <2>3 DEF ChargeInv
  <2>5. rtp' = RtpStat(rtp, seq, ts) BY <1>2, <1>4, <2>1
  <2>6. Ticking' <=> Ticking BY <1>2 DEF Ticking
  <2>7. ASSUME Ticking
        PROVE  /\ ~ Jumped(Counting(rtp, seq), seq, ts) /\ ~ rtp.bogus_reset
               /\ U32(ts - rtp.largest_ts) < OverflowTh <=> k >= top
    <3>1. Recorded(rtp, start, top, seen) /\ rtp.largest_ts = U32(top * step) /\ ~ rtp.bogus_reset
      BY <1>2, <2>4, <2>7 DEF Tallied
    <3>2. seq = U16(start + k) /\ ts = U32(k * step) BY DEF seq, ts
    <3> QED BY <1>1, <2>1, <2>2, <2>7, <3>1, <3>2, NoJump
  <2>8. ASSUME ~ rtp'.bogus_reset
        PROVE  ~ Jumped(Counting(rtp, seq), seq, ts)
    BY <1>1, <1>5, <2>5, <2>8, StatReset
  <2>9. ASSUME ~ Jumped(Counting(rtp, seq), seq, ts)
        PROVE  rtp'.bogus_reset = rtp.bogus_reset
    BY <1>1, <1>5, <2>5, <2>9, StatFiled DEF Filed
  <2>10. ASSUME ~ Jumped(Counting(rtp, seq), seq, ts), ~ rtp.bogus_reset
         PROVE  Charging(rtp, rtp', start, u, seen, k, ts)
    <3>1. Recorded(rtp, start, top, seen) BY <1>2, <2>4, <2>10 DEF Tallied
    <3>2. seq = U16(start + k) /\ u = Later(top, k) BY DEF seq, u, Later
    <3> QED BY <1>1, <1>5, <2>1, <2>2, <2>5, <2>10, <3>1, <3>2, Arrival
  <2>11. Ticking' => ~ rtp'.bogus_reset /\ rtp'.largest_ts = U32(top' * step')
    <3> SUFFICES ASSUME Ticking
                 PROVE  ~ rtp'.bogus_reset /\ rtp'.largest_ts = U32(top' * step')
      BY <2>6
    <3>1. /\ ~ rtp'.bogus_reset
          /\ rtp'.largest_ts = IF k >= top THEN ts ELSE rtp.largest_ts
      BY <2>7, <2>10 DEF Charging
    <3>2. rtp.largest_ts = U32(top * step) BY <2>4
    <3>3. u = IF k >= top THEN k ELSE top BY <1>1 DEF u
    <3> QED BY <1>2, <1>3, <3>1, <3>2, <3>3 DEF ts
  <2>12. ~ rtp'.bogus_reset => Tallied(rtp, start, top, seen, repeats)'
    <3> SUFFICES ASSUME ~ rtp'.bogus_reset
                 PROVE  Tallied(rtp, start, top, seen, repeats)'
      OBVIOUS
    <3>1. ~ Jumped(Counting(rtp, seq), seq, ts) /\ ~ rtp.bogus_reset BY <2>8, <2>9
    <3>2. repeats <= rtp.n_dup + rtp.n_late /\ rtp.n_lost <= Cardinality(Gone(seen, top))
      BY <1>2, <2>4, <3>1 DEF Tallied
    <3>3. rtp.n_dup \in Nat /\ rtp.n_late \in Nat /\ rtp.n_lost \in Nat /\ rtp' \in Rtp
          /\ rtp'.n_dup \in Nat /\ rtp'.n_late \in Nat
      BY <1>1, <2>10, <3>1 DEF Rtp, Recorded, Charging
    <3>4. repeats' <= rtp'.n_dup + rtp'.n_late BY <1>1, <1>2, <2>10, <3>1, <3>2, <3>3 DEF Charging
    <3>5. rtp'.n_lost <= Cardinality(Gone(S, u))
      <4>1. seen \in SUBSET (0 .. top) /\ u = IF top >= k THEN top ELSE k BY <2>2 DEF Arrived, u
      <4>2. k \notin seen => \A m \in seen : m % Win = k % Win => k - m >= Win BY <1>1, <2>2, NotPassed
      <4>3. /\ Cardinality(Gone(seen, top)) <= Cardinality(Gone(S, u))
            /\ k \notin seen /\ k >= Win /\ k - Win \notin seen =>
                 Cardinality(Gone(seen, top)) + 1 <= Cardinality(Gone(S, u))
        BY <1>1, <4>1, <4>2, GoneGrows
      <4>4. Cardinality(Gone(seen, top)) \in Nat /\ Cardinality(Gone(S, u)) \in Nat BY <1>1, GoneFinite
      <4> QED BY <2>10, <3>1, <3>2, <3>3, <4>3, <4>4 DEF Charging
    <3> QED BY <1>2, <1>3, <2>10, <3>1, <3>4, <3>5 DEF Tallied, Charging
  <2> QED BY <2>11, <2>12
<1> QED BY <1>2, <1>3, <1>6, <1>7 DEF ChargeInv

\* The end of such a stream.
LEMMA ChargeClose ==
  ASSUME StreamInv, ChargeInv, Close
  PROVE  ChargeInv'
<1>1. /\ ~ closed /\ closed' = TRUE /\ rtp' = RtpClose(rtp)
      /\ UNCHANGED <<start, step, jumped, top, seen, repeats, early>>
  BY DEF Close
<1>2. rtp \in Rtp /\ top \in Nat /\ start \in Nat
  <2>1. TypeOK /\ 0 \in Int BY DEF StreamInv
  <2> QED BY <2>1, PacketType DEF TypeOK
<1>3. /\ rtp'.n_dup = rtp.n_dup /\ rtp'.n_late = rtp.n_late
      /\ rtp'.bogus_reset = rtp.bogus_reset /\ rtp'.largest_ts = rtp.largest_ts
      /\ rtp'.n_lost = rtp.n_lost + Cardinality(Missing(rtp))
  BY <1>1, <1>2 DEF RtpClose, Rtp
<1>4. (Forgotten' <=> Forgotten) /\ (Ticking' <=> Ticking) BY <1>1 DEF Forgotten, Ticking
<1>5. ASSUME Tallied(rtp, start, top, seen, repeats), Arrived(seen, top)
      PROVE  Tallied(rtp, start, top, seen, repeats)'
  <2>1. /\ repeats <= rtp.n_dup + rtp.n_late /\ Recorded(rtp, start, top, seen)
        /\ rtp.n_lost <= Cardinality(Gone(seen, top))
    BY <1>1, <1>5 DEF Tallied
  <2>2. Cardinality(Missing(rtp)) + Cardinality(Gone(seen, top)) <=
          Cardinality((0 .. top) \ seen)
    BY <1>2, <1>5, <2>1, Ending
  <2>3. Cardinality(Gone(seen, top)) \in Nat /\ Cardinality((0 .. top) \ seen) \in Nat
        /\ rtp.n_lost \in Nat
    BY <1>2, GoneFinite DEF Rtp
  <2>4. Cardinality(Missing(rtp)) \in Nat
    <3>1. LastSlot(rtp) \in Int
      <4>1. rtp.largest_seqno - rtp.initial_seqno \in Int BY <1>2, Ranges DEF Rtp
      <4>2. LastSlot(rtp) \in Slots BY <4>1, Ranges DEF LastSlot
      <4> QED BY <4>2, Ranges
    <3>2. IsFiniteSet(0 .. LastSlot(rtp)) /\ Missing(rtp) \subseteq 0 .. LastSlot(rtp)
      BY <3>1, FS_Interval DEF Missing
    <3> QED BY <3>2, FS_Subset, FS_CardinalityType
  <2>5. rtp'.n_lost <= Cardinality((0 .. top) \ seen) BY <1>3, <2>1, <2>2, <2>3, <2>4
  <2> QED BY <1>1, <1>3, <2>1, <2>5 DEF Tallied
<1> QED BY <1>1, <1>3, <1>4, <1>5 DEF ChargeInv

\* Every step keeps it.
LEMMA ChargeStep ==
  ASSUME StreamInv, ChargeInv, Next \/ UNCHANGED vars
  PROVE  ChargeInv'
<1>1. CASE Renumber
  <2>1. top \in Nat
    <3>1. TypeOK /\ 0 \in Int BY DEF StreamInv
    <3> QED BY <3>1, PacketType
  <2>2. jumped' = top + 1 /\ early' = early /\ seen' = seen /\ top' = top BY <1>1 DEF Renumber
  <2>3. jumped' # 0 BY <2>1, <2>2
  <2> QED BY <2>2, <2>3 DEF ChargeInv
<1>2. CASE UNCHANGED vars
  <2>1. (Forgotten' <=> Forgotten) /\ (Ticking' <=> Ticking) BY <1>2 DEF vars, Forgotten, Ticking
  <2>2. Tallied(rtp, start, top, seen, repeats)' <=> Tallied(rtp, start, top, seen, repeats)
    BY <1>2 DEF vars, Tallied
  <2> QED BY <1>2, <2>1, <2>2 DEF vars, ChargeInv
<1> QED BY <1>1, <1>2, ChargePacket, ChargeClose DEF Next

\* So it is charged with what happened.
LEMMA ChargeTells ==
  ASSUME StreamInv, ChargeInv
  PROVE  ChargesTrue
<1>1. jumped \in Nat /\ top \in Nat /\ rtp \in Rtp
  <2>1. TypeOK /\ 0 \in Int BY DEF StreamInv
  <2> QED BY <2>1, PacketType DEF TypeOK
<1>2. ResetExplained BY <1>1 DEF ChargeInv, ResetExplained
<1>3. ASSUME Plain
      PROVE  rtp.n_lost <= Cardinality((0 .. top) \ seen) /\ repeats <= rtp.n_dup + rtp.n_late
  <2>1. Tallied(rtp, start, top, seen, repeats) BY <1>3 DEF Plain, ChargeInv
  <2>2. Cardinality(Gone(seen, top)) \in Nat /\ Cardinality((0 .. top) \ seen) \in Nat
        /\ Cardinality(Gone(seen, top)) <= Cardinality((0 .. top) \ seen) /\ rtp.n_lost \in Nat
    BY <1>1, GoneFinite DEF Rtp
  <2>3. rtp.n_lost <= Cardinality((0 .. top) \ seen)
    <3>1. CASE closed BY <2>1, <3>1 DEF Tallied
    <3>2. CASE ~ closed BY <2>1, <2>2, <3>2 DEF Tallied
    <3> QED BY <3>1, <3>2
  <2> QED BY <2>1, <2>3 DEF Tallied
<1> QED BY <1>2, <1>3 DEF ChargesTrue, LossNeverOver, RepeatsFound

------------------------------
\* The RTCP packets.

\* struct rtcp, what it added to the histograms, a packet and its block.
RtcpRecord ==
  [type : {"UNKNOWN", "FIRST_RTCP", "RTCP"}, pnum : Nat, last_SR : 0 .. MaxClock,
   last_SR_id : 0 .. MaxReports, tx_b : 0 .. TxMod - 1, jitter_samples : Nat,
   c_lost : Int, rtt_sum : Nat, rtt_min : 0 .. MaxClock, rtt_max : 0 .. MaxClock,
   rtt_samples : Nat, errors : SUBSET Errors]
HistRecord == [bits : Nat, lost : Int, dup : Int]
BlockRecord == [lsr : 0 .. MaxReports, dlsr : Nat, c_lost : Int]
PacketRecord == [pt : {200, 201, 203}, rc : 0 .. 2, cut : BOOLEAN, id : 0 .. MaxReports,
                 tx_b : 0 .. TxMod - 1, block : BlockRecord]
Parsing == [f : RtcpRecord, h : HistRecord, rtt : Int, goesOn : BOOLEAN]

\* The extremes of the round trips fit their sum; without any it is 0.
Fits(f) ==
  IF f.rtt_samples = 0 THEN f.rtt_sum = 0
  ELSE /\ f.rtt_min <= f.rtt_max /\ f.rtt_max <= f.rtt_sum
       /\ f.rtt_sum <= f.rtt_max * f.rtt_samples

\* The losses of the histogram are those since the first report.
Balanced(f, h, first) ==
  h.lost - h.dup = f.c_lost - first /\ (f.jitter_samples = 0 => f.c_lost = first)

\* What a sender report sets, and what a report block does.
SameSender(f, g) ==
  g.last_SR = f.last_SR /\ g.last_SR_id = f.last_SR_id /\ g.tx_b = f.tx_b
SameBlock(f, g) ==
  /\ g.jitter_samples = f.jitter_samples /\ g.c_lost = f.c_lost /\ g.rtt_sum = f.rtt_sum
  /\ g.rtt_min = f.rtt_min /\ g.rtt_max = f.rtt_max /\ g.rtt_samples = f.rtt_samples
SamePacket(f, g) == g.type = f.type /\ g.pnum = f.pnum

\* The constants.
LEMMA RtcpSizes ==
  /\ TxMod \in Nat \ {0} /\ TxStep \in Nat /\ TxStart \in Nat /\ 8 * TxStep < TxMod
  /\ TxStep < TxMod /\ MaxReports \in Nat /\ MaxClock \in Nat /\ MaxClock >= 1
  /\ MaxFromSender \in Nat /\ MaxFromReceiver \in Nat
BY RtcpAssumption

\* A bound times a count.
LEMMA Product ==
  ASSUME NEW a \in Nat, NEW b \in Nat, a <= b, NEW n \in Nat
  PROVE  a * n <= b * n /\ b * (n + 1) = b * n + b /\ b * n \in Nat /\ a * n \in Nat
<1>1. PICK c \in Nat : b = a + c
  <2>1. b - a \in Nat /\ b = a + (b - a) OBVIOUS
  <2> QED BY <2>1
<1>2. b * n = a * n + c * n /\ c * n >= 0 /\ c * n \in Nat /\ a * n \in Nat BY <1>1
<1> QED BY <1>2

\* A round trip more.
LEMMA SampledFits ==
  ASSUME NEW f \in RtcpRecord, Fits(f), NEW rtt \in -1 .. MaxClock
  PROVE  /\ Sampled(f, rtt) \in RtcpRecord /\ Fits(Sampled(f, rtt))
         /\ SameSender(f, Sampled(f, rtt)) /\ SamePacket(f, Sampled(f, rtt))
         /\ Sampled(f, rtt).jitter_samples = f.jitter_samples
         /\ Sampled(f, rtt).c_lost = f.c_lost /\ Sampled(f, rtt).errors = f.errors
         /\ Sampled(f, rtt).rtt_samples \in {f.rtt_samples, f.rtt_samples + 1}
<1>1. CASE rtt < 0 BY <1>1 DEF Sampled, SameSender, SamePacket
<1>2. CASE ~ (rtt < 0)
  <2> DEFINE low == IF f.rtt_min > rtt \/ f.rtt_sum = 0 THEN rtt ELSE f.rtt_min
             high == IF f.rtt_max < rtt \/ f.rtt_sum = 0 THEN rtt ELSE f.rtt_max
             sum == f.rtt_sum + rtt
             n == f.rtt_samples
             more == n + 1
             g == [f EXCEPT !.rtt_min = low, !.rtt_max = high, !.rtt_sum = sum,
                            !.rtt_samples = more]
  <2>1. /\ f.rtt_min \in Nat /\ f.rtt_max \in Nat /\ f.rtt_sum \in Nat /\ n \in Nat
        /\ rtt \in Nat /\ rtt <= MaxClock /\ MaxClock \in Nat
        /\ f.rtt_min <= MaxClock /\ f.rtt_max <= MaxClock
    BY <1>2, RtcpSizes DEF RtcpRecord
  <2>2. Sampled(f, rtt) = g BY <1>2 DEF Sampled, RtcpRecord
  <2>3. low \in 0 .. MaxClock /\ high \in 0 .. MaxClock /\ sum \in Nat /\ more \in Nat
        /\ more # 0 /\ low \in Nat /\ high \in Nat
    BY <2>1
  <2>4. low <= high /\ high <= sum /\ sum <= high * more
    <3>1. CASE f.rtt_sum = 0
      <4>1. low = rtt /\ high = rtt /\ sum = rtt BY <2>1, <3>1
      <4>2. rtt * more = rtt * n + rtt /\ rtt * n \in Nat BY <2>1, Product
      <4> QED BY <2>1, <4>1, <4>2
    <3>2. CASE f.rtt_sum # 0
      <4>1. f.rtt_min <= f.rtt_max /\ f.rtt_max <= f.rtt_sum /\ f.rtt_sum <= f.rtt_max * n BY <3>2 DEF Fits
      <4>2. f.rtt_max <= high /\ rtt <= high /\ low <= high /\ high <= sum BY <2>1, <3>2, <4>1
      <4>3. f.rtt_max * n <= high * n /\ high * (n + 1) = high * n + high
            /\ high * n \in Nat /\ f.rtt_max * n \in Nat
        <5> HIDE DEF high, n
        <5> QED BY <2>1, <2>3, <4>2, Product
      <4> DEFINE x == f.rtt_max * n  y == high * n
      <4>4. sum <= y + high
        <5> HIDE DEF x, y, high
        <5>1. x \in Nat /\ y \in Nat /\ x <= y /\ f.rtt_sum <= x BY <4>1, <4>3 DEF x, y
        <5> QED BY <2>1, <2>3, <4>2, <5>1
      <4> QED BY <4>2, <4>3, <4>4
    <3> QED BY <3>1, <3>2
  <2> HIDE DEF low, high, sum, more, n
  <2>5. /\ g \in RtcpRecord /\ g.rtt_min = low /\ g.rtt_max = high /\ g.rtt_sum = sum
        /\ g.rtt_samples = more /\ g.jitter_samples = f.jitter_samples
        /\ g.c_lost = f.c_lost /\ g.errors = f.errors
    BY <2>3 DEF RtcpRecord
  <2>6. SameSender(f, g) /\ SamePacket(f, g) BY DEF SameSender, SamePacket, RtcpRecord
  <2> HIDE DEF g
  <2>7. Fits(g) BY <2>3, <2>4, <2>5 DEF Fits
  <2>8. more = f.rtt_samples + 1 BY DEF more, n
  <2> QED BY <2>2, <2>5, <2>6, <2>7, <2>8
<1> QED BY <1>1, <1>2

\* A packet on its way through rtcp_stat: what it found is consistent.
Counted(x, first) ==
  /\ x \in Parsing /\ Fits(x.f) /\ x.f.rtt_samples <= x.f.jitter_samples
  /\ Balanced(x.f, x.h, first)

\* The loss a direction began with, after its first report block.
After(f, g, first) == IF f.jitter_samples = 0 /\ g.jitter_samples = 1 THEN g.c_lost ELSE first

\* The report blocks were looked at: one was counted, or none.
BlockRead(x, y, first, o, b) ==
  /\ Counted(y, After(x.f, y.f, first)) /\ SamePacket(x.f, y.f)
  /\ y.f.jitter_samples \in {x.f.jitter_samples, x.f.jitter_samples + 1}
  /\ y.rtt \in {x.rtt, RoundTrip(o, b)}

\* A round trip is no longer than the probe runs.
LEMMA RoundTripType ==
  ASSUME NEW o \in RtcpRecord, NEW b \in BlockRecord, clock \in 1 .. MaxClock
  PROVE  RoundTrip(o, b) \in -1 .. MaxClock
<1> DEFINE rtt == clock - o.last_SR - b.dlsr
<1>1. o.last_SR \in Nat /\ b.dlsr \in Nat /\ clock \in Nat /\ clock <= MaxClock
  BY RtcpSizes DEF RtcpRecord, BlockRecord
<1>2. rtt \in Int /\ rtt <= MaxClock /\ MaxClock \in Nat BY <1>1, RtcpSizes
<1>3. RoundTrip(o, b) = -1 \/ (RoundTrip(o, b) = rtt /\ rtt >= 0) BY DEF RoundTrip
<1> HIDE DEF rtt
<1> QED BY <1>2, <1>3

\* A part that is cut counts nothing.
LEMMA CheckedKeeps ==
  ASSUME NEW x \in Parsing, NEW missing \in BOOLEAN, warn \in BOOLEAN,
         NEW y, y = Checked(x, missing)
  PROVE  /\ y \in Parsing /\ y.h = x.h /\ y.rtt = x.rtt
         /\ SameSender(x.f, y.f) /\ SameBlock(x.f, y.f) /\ SamePacket(x.f, y.f)
         /\ ~ missing => y = x
<1>1. CASE ~ missing BY <1>1 DEF Checked, SameSender, SameBlock, SamePacket
<1>2. CASE missing
  <2> DEFINE e == x.f.errors \cup {"TRUNCATED"}
             f == [x.f EXCEPT !.errors = e]
             on == ~ warn
  <2>1. x.f \in RtcpRecord /\ x.f.errors \in SUBSET Errors BY DEF Parsing, RtcpRecord
  <2>2. e \in SUBSET Errors /\ on \in BOOLEAN BY <2>1 DEF Errors
  <2>3. y = [x EXCEPT !.f.errors = @ \cup {"TRUNCATED"}, !.goesOn = ~ warn] BY <1>2 DEF Checked
  <2>4. y = [x EXCEPT !.f = f, !.goesOn = on] BY <2>1, <2>3 DEF Parsing, RtcpRecord
  <2> HIDE DEF e, on
  <2>5. f \in RtcpRecord BY <2>1, <2>2 DEF RtcpRecord
  <2>6. SameSender(x.f, f) /\ SameBlock(x.f, f) /\ SamePacket(x.f, f)
    BY <2>1 DEF SameSender, SameBlock, SamePacket, RtcpRecord
  <2> HIDE DEF f
  <2>7. y \in Parsing /\ y.h = x.h /\ y.rtt = x.rtt /\ y.f = f BY <2>2, <2>4, <2>5 DEF Parsing
  <2> QED BY <1>2, <2>6, <2>7
<1> QED BY <1>1, <1>2

\* A sender report.
LEMMA SenderSets ==
  ASSUME NEW x \in Parsing, NEW p \in PacketRecord, clock \in 1 .. MaxClock,
         NEW y, y = SenderInfo(x, p)
  PROVE  /\ y \in Parsing /\ SameBlock(x.f, y.f) /\ SamePacket(x.f, y.f) /\ y.rtt = x.rtt
         /\ y.h.lost = x.h.lost /\ y.h.dup = x.h.dup
         /\ y.f.last_SR = clock /\ y.f.last_SR_id = p.id /\ y.f.tx_b = p.tx_b
         /\ y.h.bits = IF x.f.last_SR # Never /\ clock > x.f.last_SR
                       THEN x.h.bits + Bits(x.f, p) ELSE x.h.bits
<1> DEFINE rated == x.f.last_SR # Never /\ clock > x.f.last_SR
           n == IF rated THEN x.h.bits + Bits(x.f, p) ELSE x.h.bits
           f == [x.f EXCEPT !.last_SR = clock, !.last_SR_id = p.id, !.tx_b = p.tx_b]
           h == [x.h EXCEPT !.bits = n]
<1>1. /\ x.f \in RtcpRecord /\ x.h \in HistRecord /\ x.h.bits \in Nat
      /\ clock \in 0 .. MaxClock /\ p.id \in 0 .. MaxReports /\ p.tx_b \in 0 .. TxMod - 1
      /\ x.f.tx_b \in 0 .. TxMod - 1
  BY RtcpSizes DEF Parsing, RtcpRecord, HistRecord, PacketRecord
<1>2. Bits(x.f, p) \in Nat
  <2> DEFINE d == (p.tx_b - x.f.tx_b) % TxMod
  <2>1. p.tx_b - x.f.tx_b \in Int BY <1>1, RtcpSizes
  <2>2. d \in 0 .. TxMod - 1 BY <2>1, RtcpSizes, Quotient
  <2> HIDE DEF d
  <2>3. 8 * d \in Int BY <2>2
  <2>4. (8 * d) % TxMod \in 0 .. TxMod - 1 BY <2>3, RtcpSizes, Quotient
  <2> QED BY <2>4 DEF Bits, d
<1>3. n \in Nat BY <1>1, <1>2
<1>4. y = [x EXCEPT !.f = f, !.h = h]
  <2>1. y = [x EXCEPT !.f.last_SR = clock, !.f.last_SR_id = p.id, !.f.tx_b = p.tx_b,
                      !.h.bits = n]
    BY DEF SenderInfo
  <2> HIDE DEF n
  <2> QED BY <1>1, <2>1 DEF Parsing, RtcpRecord, HistRecord
<1>5. n = IF x.f.last_SR # Never /\ clock > x.f.last_SR
          THEN x.h.bits + Bits(x.f, p) ELSE x.h.bits
  OBVIOUS
<1> HIDE DEF n
<1>6. /\ f \in RtcpRecord /\ f.last_SR = clock /\ f.last_SR_id = p.id /\ f.tx_b = p.tx_b
      /\ SameBlock(x.f, f) /\ SamePacket(x.f, f)
  BY <1>1 DEF RtcpRecord, SameBlock, SamePacket
<1>7. h \in HistRecord /\ h.bits = n /\ h.lost = x.h.lost /\ h.dup = x.h.dup BY <1>1, <1>3 DEF HistRecord
<1> HIDE DEF f, h
<1>8. y \in Parsing /\ y.f = f /\ y.h = h /\ y.rtt = x.rtt BY <1>4, <1>6, <1>7 DEF Parsing
<1> QED BY <1>5, <1>6, <1>7, <1>8

\* A report block.
LEMMA BlockCounts ==
  ASSUME NEW x, NEW first \in Int, Counted(x, first), NEW o \in RtcpRecord,
         NEW b \in BlockRecord, clock \in 1 .. MaxClock, NEW y, y = ReportBlock(x, o, b)
  PROVE  /\ BlockRead(x, y, first, o, b) /\ SameSender(x.f, y.f) /\ y.h.bits = x.h.bits
<1> DEFINE rtt == RoundTrip(o, b)
           g == Sampled(x.f, rtt)
           more == x.f.jitter_samples + 1
           f == [g EXCEPT !.c_lost = b.c_lost, !.jitter_samples = more]
           delta == b.c_lost - x.f.c_lost
           h == IF x.f.jitter_samples >= 1 THEN LossAdded(x.h, delta) ELSE x.h
<1>1. /\ x \in Parsing /\ Fits(x.f) /\ x.f.rtt_samples <= x.f.jitter_samples
      /\ x.h.lost - x.h.dup = x.f.c_lost - first
      /\ x.f.jitter_samples = 0 => x.f.c_lost = first
  BY DEF Counted, Balanced
<1>2. /\ x.f \in RtcpRecord /\ x.h \in HistRecord /\ b.c_lost \in Int /\ x.f.c_lost \in Int
      /\ x.f.jitter_samples \in Nat /\ x.f.rtt_samples \in Nat
      /\ x.h.lost \in Int /\ x.h.dup \in Int
  BY <1>1 DEF Parsing, RtcpRecord, HistRecord, BlockRecord
<1>3. rtt \in -1 .. MaxClock BY RoundTripType
<1>4. y = [x EXCEPT !.f = f, !.h = h, !.rtt = rtt]
  <2>1. g.jitter_samples = x.f.jitter_samples /\ g \in RtcpRecord BY <1>1, <1>2, <1>3, SampledFits
  <2>2. f = [g EXCEPT !.c_lost = b.c_lost, !.jitter_samples = @ + 1] BY <2>1 DEF RtcpRecord
  <2>3. y = [x EXCEPT !.f = [g EXCEPT !.c_lost = b.c_lost, !.jitter_samples = @ + 1],
                      !.h = IF x.f.jitter_samples >= 1 THEN LossAdded(x.h, delta) ELSE @,
                      !.rtt = rtt]
    BY DEF ReportBlock
  <2> HIDE DEF f, g, rtt, delta
  <2> QED BY <1>1, <2>2, <2>3 DEF Parsing
<1>5. rtt = RoundTrip(o, b) OBVIOUS
<1> HIDE DEF rtt
<1>6. /\ g \in RtcpRecord /\ Fits(g) /\ SameSender(x.f, g) /\ SamePacket(x.f, g)
      /\ g.rtt_samples \in {x.f.rtt_samples, x.f.rtt_samples + 1}
  BY <1>1, <1>2, <1>3, SampledFits
<1> HIDE DEF g
<1>7. more \in Nat /\ more = x.f.jitter_samples + 1 /\ g.rtt_samples <= more /\ more # 0 BY <1>1, <1>2, <1>6
<1> HIDE DEF more
<1>8. /\ f \in RtcpRecord /\ f.c_lost = b.c_lost /\ f.jitter_samples = more
      /\ f.rtt_samples = g.rtt_samples /\ f.rtt_sum = g.rtt_sum
      /\ f.rtt_min = g.rtt_min /\ f.rtt_max = g.rtt_max
      /\ SameSender(x.f, f) /\ SamePacket(x.f, f)
  BY <1>2, <1>6, <1>7 DEF RtcpRecord, SameSender, SamePacket
<1> HIDE DEF f
<1>9. Fits(f) BY <1>6, <1>8 DEF Fits
<1>10. /\ h \in HistRecord /\ h.bits = x.h.bits
       /\ h.lost - h.dup = IF x.f.jitter_samples >= 1 THEN (x.h.lost - x.h.dup) + delta
                           ELSE x.h.lost - x.h.dup
  <2>1. delta \in Int BY <1>2
  <2> DEFINE z == LossAdded(x.h, delta)  up == x.h.lost + delta  down == x.h.dup - delta
  <2>2. up \in Int /\ down \in Int BY <1>2, <2>1
  <2>3. z = IF delta >= 0 THEN [x.h EXCEPT !.lost = up] ELSE [x.h EXCEPT !.dup = down]
    BY <1>2 DEF LossAdded, HistRecord
  <2> HIDE DEF up, down, delta, z
  <2>4. CASE delta >= 0
    <3>1. z \in HistRecord /\ z.bits = x.h.bits /\ z.lost = up /\ z.dup = x.h.dup
      BY <1>2, <2>2, <2>3, <2>4 DEF HistRecord
    <3>2. z.lost - z.dup = (x.h.lost - x.h.dup) + delta BY <1>2, <2>1, <3>1 DEF up
    <3> QED BY <1>2, <3>1, <3>2 DEF z
  <2>5. CASE ~ (delta >= 0)
    <3>1. z \in HistRecord /\ z.bits = x.h.bits /\ z.lost = x.h.lost /\ z.dup = down
      BY <1>2, <2>2, <2>3, <2>5 DEF HistRecord
    <3>2. z.lost - z.dup = (x.h.lost - x.h.dup) + delta BY <1>2, <2>1, <3>1 DEF down
    <3> QED BY <1>2, <3>1, <3>2 DEF z
  <2> QED BY <2>4, <2>5
<1>11. delta = b.c_lost - x.f.c_lost OBVIOUS
<1> HIDE DEF h, delta
<1>12. y \in Parsing /\ y.f = f /\ y.h = h /\ y.rtt = rtt
  <2>1. x \in Parsing /\ f \in RtcpRecord /\ h \in HistRecord /\ rtt \in Int BY <1>1, <1>3, <1>8, <1>10
  <2> QED BY <1>4, <2>1 DEF Parsing
<1>13. Balanced(f, h, After(x.f, f, first))
  <2>1. CASE x.f.jitter_samples = 0
    <3>1. After(x.f, f, first) = f.c_lost BY <1>7, <1>8, <2>1 DEF After
    <3>2. h.lost - h.dup = 0 /\ f.c_lost - f.c_lost = 0 BY <1>1, <1>2, <1>8, <1>10, <2>1
    <3> QED BY <3>1, <3>2 DEF Balanced
  <2>2. CASE x.f.jitter_samples # 0
    <3>1. After(x.f, f, first) = first BY <2>2 DEF After
    <3>2. h.lost - h.dup = (x.f.c_lost - first) + (b.c_lost - x.f.c_lost) BY <1>1, <1>2, <1>10, <1>11, <2>2
    <3>3. h.lost - h.dup = f.c_lost - first BY <1>2, <1>8, <3>2
    <3> QED BY <1>7, <1>8, <3>1, <3>3 DEF Balanced
  <2> QED BY <2>1, <2>2
<1>14. Counted(y, After(x.f, y.f, first)) BY <1>7, <1>8, <1>9, <1>12, <1>13 DEF Counted
<1> QED BY <1>5, <1>7, <1>8, <1>10, <1>12, <1>14 DEF BlockRead

\* What counts no block leaves the counters as they were.
LEMMA SameCounted ==
  ASSUME NEW x, NEW first \in Int, Counted(x, first), NEW y \in Parsing,
         SameBlock(x.f, y.f), y.h.lost = x.h.lost, y.h.dup = x.h.dup
  PROVE  /\ Counted(y, first)
         /\ After(x.f, y.f, first) = first
<1>1. Counted(y, first) BY DEF Counted, SameBlock, Fits, Balanced
<1>2. After(x.f, y.f, first) = first BY DEF After, SameBlock
<1> QED BY <1>1, <1>2

\* And a block counted after such a part is as if it came first.
LEMMA SameThenRead ==
  ASSUME NEW x, NEW first \in Int, NEW z, NEW o, NEW b, NEW y,
         SameBlock(x.f, z.f), SamePacket(x.f, z.f), z.rtt = x.rtt,
         BlockRead(z, y, first, o, b)
  PROVE  BlockRead(x, y, first, o, b)
<1>1. After(x.f, y.f, first) = After(z.f, y.f, first) BY DEF After, SameBlock
<1> QED BY <1>1 DEF BlockRead, SameBlock, SamePacket

\* The report blocks, however many.
LEMMA BlocksRead ==
  ASSUME NEW x, NEW first \in Int, Counted(x, first), NEW o \in RtcpRecord,
         NEW p \in PacketRecord, clock \in 1 .. MaxClock, warn \in BOOLEAN,
         NEW y, y = Blocks(x, o, p)
  PROVE  /\ BlockRead(x, y, first, o, p.block)
         /\ SameSender(x.f, y.f) /\ y.h.bits = x.h.bits
<1> DEFINE b == p.block
           z == Checked(x, p.cut)
<1>1. x \in Parsing /\ x.f \in RtcpRecord /\ p.cut \in BOOLEAN /\ b \in BlockRecord
  BY DEF Counted, Parsing, PacketRecord
<1>2. ASSUME y \in Parsing, SameSender(x.f, y.f), SameBlock(x.f, y.f), SamePacket(x.f, y.f),
             y.h = x.h, y.rtt = x.rtt
      PROVE  /\ BlockRead(x, y, first, o, b)
             /\ SameSender(x.f, y.f) /\ y.h.bits = x.h.bits
  <2>1. Counted(y, first) /\ After(x.f, y.f, first) = first BY <1>2, SameCounted
  <2> QED BY <1>2, <2>1 DEF BlockRead, SameBlock
<1>3. CASE ~ x.goesOn
  <2>1. y = x BY <1>3 DEF Blocks
  <2> QED BY <1>1, <1>2, <2>1 DEF SameSender, SameBlock, SamePacket
<1>4. CASE x.goesOn /\ p.rc > 1
  <2> DEFINE e == x.f.errors \cup {"TOOMANYRR"}
             f == [x.f EXCEPT !.errors = e]
  <2>1. e \in SUBSET Errors BY <1>1 DEF RtcpRecord, Errors
  <2>2. y = [x EXCEPT !.f = f]
    <3>1. y = [x EXCEPT !.f.errors = @ \cup {"TOOMANYRR"}] BY <1>4 DEF Blocks
    <3> QED BY <1>1, <3>1 DEF Parsing, RtcpRecord
  <2> HIDE DEF e
  <2>3. f \in RtcpRecord BY <1>1, <2>1 DEF RtcpRecord
  <2>4. SameSender(x.f, f) /\ SameBlock(x.f, f) /\ SamePacket(x.f, f)
    BY <1>1 DEF SameSender, SameBlock, SamePacket, RtcpRecord
  <2> HIDE DEF f
  <2>5. y \in Parsing /\ y.f = f /\ y.h = x.h /\ y.rtt = x.rtt BY <1>1, <2>2, <2>3 DEF Parsing
  <2> QED BY <1>2, <2>4, <2>5
<1>5. CASE x.goesOn /\ ~ (p.rc > 1)
  <2>1. y = IF z.goesOn THEN ReportBlock(z, o, b) ELSE z BY <1>5 DEF Blocks
  <2>2. /\ z \in Parsing /\ z.h = x.h /\ z.rtt = x.rtt
        /\ SameSender(x.f, z.f) /\ SameBlock(x.f, z.f) /\ SamePacket(x.f, z.f)
    BY <1>1, CheckedKeeps
  <2> HIDE DEF z, b
  <2>3. CASE ~ z.goesOn
    <3>1. y = z BY <2>1, <2>3
    <3> QED BY <1>2, <2>2, <3>1 DEF b
  <2>4. CASE z.goesOn
    <3>1. y = ReportBlock(z, o, b) BY <2>1, <2>4
    <3>2. Counted(z, first) BY <2>2, SameCounted
    <3>3. BlockRead(z, y, first, o, b) /\ SameSender(z.f, y.f) /\ y.h.bits = z.h.bits
      BY <1>1, <3>1, <3>2, BlockCounts
    <3>4. BlockRead(x, y, first, o, b) BY <2>2, <3>3, SameThenRead
    <3> QED BY <2>2, <3>3, <3>4 DEF SameSender, b
  <2> QED BY <2>3, <2>4
<1> QED BY <1>3, <1>4, <1>5

\* A sender report was read, or no sender part.
SenderRead(x, y, p) ==
  /\ p.pt = 200 /\ y.f.last_SR = clock /\ y.f.last_SR_id = p.id /\ y.f.tx_b = p.tx_b
  /\ y.h.bits = IF x.f.last_SR # Never /\ clock > x.f.last_SR
                THEN x.h.bits + Bits(x.f, p) ELSE x.h.bits
NoSender(x, y, p) ==
  (p.pt # 200 \/ snap = "tiny") /\ SameSender(x.f, y.f) /\ y.h.bits = x.h.bits

\* A whole packet.
LEMMA DecodeReads ==
  ASSUME NEW x, NEW first \in Int, Counted(x, first), x.goesOn = TRUE, NEW o \in RtcpRecord,
         NEW p \in PacketRecord, clock \in 1 .. MaxClock, warn \in BOOLEAN,
         NEW y, y = Decode(x, o, p)
  PROVE  /\ BlockRead(x, y, first, o, p.block)
         /\ SenderRead(x, y, p) \/ NoSender(x, y, p)
<1> DEFINE b == p.block
           sr == Checked(x, snap = "tiny")
           z == SenderInfo(sr, p)
<1>1. x \in Parsing BY DEF Counted
<1>2. ASSUME y = x, p.pt # 200 \/ snap = "tiny"
      PROVE  BlockRead(x, y, first, o, b) /\ NoSender(x, y, p)
  <2>1. SameSender(x.f, y.f) /\ SameBlock(x.f, y.f) /\ SamePacket(x.f, y.f)
    BY <1>2 DEF SameSender, SameBlock, SamePacket
  <2>2. Counted(y, first) /\ After(x.f, y.f, first) = first BY <1>1, <1>2, <2>1, SameCounted
  <2> QED BY <1>2, <2>1, <2>2 DEF BlockRead, NoSender, SameBlock
<1>3. CASE p.pt = 200
  <2>1. y = IF ~ sr.goesOn THEN sr ELSE IF p.rc = 0 THEN z ELSE Blocks(z, o, p) BY <1>3 DEF Decode
  <2> DEFINE tiny == snap = "tiny"
  <2>2. tiny \in BOOLEAN OBVIOUS
  <2>3. sr = Checked(x, tiny) OBVIOUS
  <2> HIDE DEF tiny, sr
  <2>4. /\ sr \in Parsing /\ sr.h = x.h /\ sr.rtt = x.rtt
        /\ SameSender(x.f, sr.f) /\ SameBlock(x.f, sr.f) /\ SamePacket(x.f, sr.f)
        /\ ~ tiny => sr = x
    BY <1>1, <2>2, <2>3, CheckedKeeps
  <2>5. CASE ~ sr.goesOn
    <3>1. y = sr /\ snap = "tiny" BY <2>1, <2>4, <2>5 DEF tiny
    <3>2. Counted(y, first) /\ After(x.f, y.f, first) = first BY <2>4, <3>1, SameCounted
    <3>3. BlockRead(x, y, first, o, b) BY <2>4, <3>1, <3>2 DEF BlockRead, SameBlock
    <3> QED BY <2>4, <3>1, <3>3 DEF NoSender, b
  <2>6. CASE sr.goesOn
    <3>1. /\ z \in Parsing /\ SameBlock(sr.f, z.f) /\ SamePacket(sr.f, z.f)
          /\ z.rtt = sr.rtt /\ z.h.lost = sr.h.lost /\ z.h.dup = sr.h.dup
          /\ z.f.last_SR = clock /\ z.f.last_SR_id = p.id /\ z.f.tx_b = p.tx_b
          /\ z.h.bits = IF sr.f.last_SR # Never /\ clock > sr.f.last_SR
                        THEN sr.h.bits + Bits(sr.f, p) ELSE sr.h.bits
      BY <2>4, SenderSets
    <3> HIDE DEF z
    <3>2. SameBlock(x.f, z.f) /\ SamePacket(x.f, z.f) /\ z.rtt = x.rtt
          /\ z.h.lost = x.h.lost /\ z.h.dup = x.h.dup
      BY <2>4, <3>1 DEF SameBlock, SamePacket
    <3>3. z.h.bits = IF x.f.last_SR # Never /\ clock > x.f.last_SR
                     THEN x.h.bits + Bits(x.f, p) ELSE x.h.bits
      BY <2>4, <3>1 DEF SameSender, Bits
    <3>4. Counted(z, first) /\ After(x.f, z.f, first) = first BY <3>1, <3>2, SameCounted
    <3>5. CASE p.rc = 0
      <4>1. y = z BY <2>1, <2>6, <3>5
      <4>2. BlockRead(x, y, first, o, b) BY <3>2, <3>4, <4>1 DEF BlockRead, SameBlock
      <4>3. SenderRead(x, y, p) BY <1>3, <3>1, <3>3, <4>1 DEF SenderRead
      <4> QED BY <4>2, <4>3 DEF b
    <3>6. CASE p.rc # 0
      <4>1. y = Blocks(z, o, p) BY <2>1, <2>6, <3>6
      <4>2. BlockRead(z, y, first, o, p.block) /\ SameSender(z.f, y.f) /\ y.h.bits = z.h.bits
        BY <3>4, <4>1, BlocksRead
      <4>3. BlockRead(x, y, first, o, p.block) BY <3>2, <4>2, SameThenRead
      <4>4. SenderRead(x, y, p) BY <1>3, <3>1, <3>3, <4>2 DEF SenderRead, SameSender
      <4> QED BY <4>3, <4>4
    <3> QED BY <3>5, <3>6
  <2> QED BY <2>5, <2>6
<1>4. CASE p.pt = 201
  <2>1. y = IF p.rc = 0 /\ x.f.pnum > 1 THEN x ELSE Blocks(x, o, p) BY <1>4 DEF Decode
  <2>2. CASE y = Blocks(x, o, p)
    <3>1. BlockRead(x, y, first, o, p.block) /\ SameSender(x.f, y.f) /\ y.h.bits = x.h.bits
      BY <2>2, BlocksRead
    <3> QED BY <1>4, <3>1 DEF NoSender
  <2>3. CASE y = x BY <1>2, <1>4, <2>3
  <2> QED BY <2>1, <2>2, <2>3
<1>5. CASE p.pt = 203
  <2>1. y = x BY <1>5 DEF Decode
  <2> QED BY <1>2, <1>5, <2>1
<1>6. p.pt \in {200, 201, 203} BY DEF PacketRecord
<1> QED BY <1>3, <1>4, <1>5, <1>6

------------------------------
\* The invariant of the RTCP packets.

\* A direction: its record and its histogram agree.
Direction(f, h, first, now) ==
  /\ f.pnum <= MaxPnum /\ f.jitter_samples <= f.pnum /\ f.rtt_samples <= f.jitter_samples
  /\ f.last_SR <= now /\ Fits(f) /\ Balanced(f, h, first)

\* A sender report that left at that time, if it is the one last_SR is
\* about, is no younger than it says: repeated reports only move last_SR
\* forward.
NoYounger(f, id, at) == id = f.last_SR_id => at <= f.last_SR

\* That holds of the reports on their way, of the one heard, and of the
\* one a receiver report names.
Underway(f, m, now) == m.id \in 1 .. MaxReports /\ m.at \in 0 .. now /\ NoYounger(f, m.id, m.at)
Listened(f, m, now) ==
  Underway(f, m, now) /\ m.when \in 0 .. now /\ m.at <= m.when
Answering(f, r, now) ==
  /\ r.block \in BlockRecord /\ r.there \in Nat /\ r.born \in 0 .. now
  /\ r.block.lsr # 0 => NoYounger(f, r.block.lsr, r.born - r.block.dlsr - r.there)
Messages(f, now) ==
  /\ \A m \in toRcv : Underway(f, m, now)
  /\ heard = <<>> \/ Listened(f, heard, now)
  /\ \A r \in toProbe : Answering(f, r, now)

\* Sender reports in order: what the last one said, and the bits of all.
Tiled(f, h, n) ==
  IF f.last_SR = Never THEN n = 0 /\ h.bits = 0
  ELSE /\ n >= 1 /\ f.tx_b = (TxStart + n * TxStep) % TxMod
       /\ h.bits = 8 * TxStep * (n - 1)

RtcpInv ==
  /\ rtcp \in [Sides -> RtcpRecord] /\ hist \in [Sides -> HistRecord]
  /\ firstLost \in [Sides -> Int] /\ cumLost \in Int
  /\ clock \in 1 .. MaxClock /\ topSr \in 0 .. MaxReports /\ warn \in BOOLEAN
  /\ tooLong = FALSE
  /\ \A s \in Sides : Direction(rtcp[s], hist[s], firstLost[s], clock)
  /\ Messages(rtcp["sender"], clock)
  /\ snap = "tiny" => rtcp["sender"].last_SR_id = 0
  /\ (orderly /\ snap # "tiny") => Tiled(rtcp["sender"], hist["sender"], topSr)
  /\ totals = <<>> \/ totals = [s \in Sides |-> IF rtcp[s].type = "RTCP"
                                                THEN Totals(rtcp[s]) ELSE NoTotals]

\* It holds before the first packet.
LEMMA RtcpFirst ==
  ASSUME RtcpInit \/ RtcpNone
  PROVE  RtcpInv
<1>1. /\ rtcp = [s \in Sides |-> NewRtcp] /\ hist = [s \in Sides |-> NoHist]
      /\ firstLost = [s \in Sides |-> 0] /\ tooLong = FALSE /\ warn \in BOOLEAN /\ clock = 1
      /\ toRcv = {} /\ heard = <<>> /\ toProbe = {} /\ cumLost = 0 /\ topSr = 0
      /\ totals = <<>> \/ totals = [s \in Sides |-> NoTotals]
  BY DEF RtcpInit, RtcpNone
<1>2. /\ NewRtcp \in RtcpRecord /\ NewRtcp.last_SR_id = 0 /\ NewRtcp.last_SR = 0
      /\ NewRtcp.type # "RTCP"
  BY RtcpSizes DEF NewRtcp, RtcpRecord, Never
<1>3. NoHist \in HistRecord /\ NoHist.bits = 0 BY DEF NoHist, HistRecord
<1>4. Direction(NewRtcp, NoHist, 0, 1)
  <2>1. MaxPnum \in Nat BY RtcpSizes DEF MaxPnum
  <2> QED BY <2>1 DEF Direction, NewRtcp, NoHist, Fits, Balanced, Never
<1>5. \A s \in Sides : rtcp[s] = NewRtcp /\ hist[s] = NoHist /\ firstLost[s] = 0 BY <1>1
<1>6. "sender" \in Sides BY DEF Sides
<1>7. Messages(rtcp["sender"], clock) BY <1>1 DEF Messages
<1>8. Tiled(rtcp["sender"], hist["sender"], topSr) BY <1>1, <1>2, <1>3, <1>5, <1>6 DEF Tiled, Never
<1>9. totals = <<>> \/ totals = [s \in Sides |-> IF rtcp[s].type = "RTCP"
                                                 THEN Totals(rtcp[s]) ELSE NoTotals]
  BY <1>1, <1>2, <1>5
<1>10. \A s \in Sides : Direction(rtcp[s], hist[s], firstLost[s], clock) BY <1>1, <1>4, <1>5
<1>11. /\ rtcp \in [Sides -> RtcpRecord] /\ hist \in [Sides -> HistRecord]
       /\ firstLost \in [Sides -> Int] /\ clock \in 1 .. MaxClock /\ topSr \in 0 .. MaxReports
  BY <1>1, <1>2, <1>3, RtcpSizes
<1> QED BY <1>1, <1>2, <1>5, <1>6, <1>7, <1>8, <1>9, <1>10, <1>11 DEF RtcpInv

\* What is captured of a packet.
LEMMA CapturedType ==
  ASSUME NEW p \in PacketRecord
  PROVE  /\ Captured(p) \in PacketRecord /\ Captured(p).pt = p.pt
         /\ Captured(p).block \in {p.block, Stray}
         /\ snap = "tiny" => Captured(p).id = 0
         /\ snap # "tiny" => Captured(p).id = p.id /\ Captured(p).tx_b = p.tx_b
<1>1. Stray \in BlockRecord BY RtcpSizes DEF Stray, Block, BlockRecord
<1>2. 0 \in 0 .. MaxReports /\ 0 \in 0 .. TxMod - 1 BY RtcpSizes
<1>3. CASE snap = "tiny"
  <2>1. Captured(p) = [p EXCEPT !.cut = TRUE, !.id = 0, !.tx_b = 0, !.block = Stray] BY <1>3 DEF Captured
  <2>2. Captured(p) \in PacketRecord
    <3> DEFINE a == [p EXCEPT !.cut = TRUE]  b == [a EXCEPT !.id = 0]
               d == [b EXCEPT !.tx_b = 0]  e == [d EXCEPT !.block = Stray]
    <3>1. a \in PacketRecord BY DEF PacketRecord
    <3>2. Captured(p) = e BY <2>1
    <3> HIDE DEF a
    <3>3. b \in PacketRecord BY <1>2, <3>1 DEF PacketRecord
    <3> HIDE DEF b
    <3>4. d \in PacketRecord BY <1>2, <3>3 DEF PacketRecord
    <3> HIDE DEF d
    <3>5. e \in PacketRecord BY <1>1, <3>4 DEF PacketRecord
    <3> QED BY <3>2, <3>5
  <2>3. /\ Captured(p).pt = p.pt /\ Captured(p).block = Stray /\ Captured(p).id = 0 BY <2>1 DEF PacketRecord
  <2> QED BY <1>3, <2>2, <2>3
<1>4. CASE snap # "tiny" /\ snap = "short" /\ p.pt = 200
  <2> DEFINE c == p.rc > 0
  <2>1. c \in BOOLEAN OBVIOUS
  <2>2. Captured(p) = [p EXCEPT !.cut = c, !.block = Stray] BY <1>4 DEF Captured
  <2> HIDE DEF c
  <2>3. Captured(p) \in PacketRecord
    <3> DEFINE a == [p EXCEPT !.cut = c]  b == [a EXCEPT !.block = Stray]
    <3>1. a \in PacketRecord BY <2>1 DEF PacketRecord
    <3>2. Captured(p) = b BY <2>2
    <3> HIDE DEF a
    <3>3. b \in PacketRecord BY <1>1, <3>1 DEF PacketRecord
    <3> QED BY <3>2, <3>3
  <2>4. /\ Captured(p).pt = p.pt /\ Captured(p).block = Stray
        /\ Captured(p).id = p.id /\ Captured(p).tx_b = p.tx_b
    BY <2>2 DEF PacketRecord
  <2> QED BY <1>4, <2>3, <2>4
<1>5. CASE snap # "tiny" /\ ~ (snap = "short" /\ p.pt = 200)
  <2>1. Captured(p) = p BY <1>5 DEF Captured
  <2> QED BY <1>5, <2>1
<1> QED BY <1>3, <1>4, <1>5

\* The packets that pass the probe.
LEMMA PacketTypes ==
  /\ \A k \in 1 .. MaxReports, rc \in {0, 1} :
        /\ Sr(k, rc, NoBlock) \in PacketRecord /\ Sr(k, rc, NoBlock).pt = 200
        /\ Sr(k, rc, NoBlock).id = k /\ Sr(k, rc, NoBlock).block = NoBlock
        /\ Sr(k, rc, NoBlock).tx_b = (TxStart + k * TxStep) % TxMod
  /\ \A b \in BlockRecord, rc \in 0 .. 2 :
        Rr(rc, b) \in PacketRecord /\ Rr(rc, b).pt = 201 /\ Rr(rc, b).block = b
  /\ Bye \in PacketRecord /\ Bye.pt = 203 /\ Bye.block = NoBlock
  /\ NoBlock \in BlockRecord /\ Stray \in BlockRecord
<1>1. NoBlock \in BlockRecord /\ Stray \in BlockRecord /\ 0 \in 0 .. TxMod - 1
      /\ 0 \in 0 .. MaxReports
  BY RtcpSizes DEF NoBlock, Stray, Block, BlockRecord
<1>2. ASSUME NEW k \in 1 .. MaxReports, NEW rc \in {0, 1}
      PROVE  /\ Sr(k, rc, NoBlock) \in PacketRecord /\ Sr(k, rc, NoBlock).pt = 200
             /\ Sr(k, rc, NoBlock).id = k /\ Sr(k, rc, NoBlock).block = NoBlock
             /\ Sr(k, rc, NoBlock).tx_b = (TxStart + k * TxStep) % TxMod
  <2> DEFINE t == (TxStart + k * TxStep) % TxMod
  <2>1. TxStart + k * TxStep \in Int BY RtcpSizes
  <2>2. t \in 0 .. TxMod - 1 BY <2>1, RtcpSizes, Quotient
  <2>3. k \in 0 .. MaxReports /\ rc \in 0 .. 2 BY RtcpSizes
  <2>4. Sr(k, rc, NoBlock) = [pt |-> 200, rc |-> rc, cut |-> FALSE, id |-> k, tx_b |-> t,
                              block |-> NoBlock]
    BY DEF Sr
  <2> HIDE DEF t
  <2> QED BY <1>1, <2>2, <2>3, <2>4 DEF PacketRecord, t
<1>3. ASSUME NEW b \in BlockRecord, NEW rc \in 0 .. 2
      PROVE  Rr(rc, b) \in PacketRecord /\ Rr(rc, b).pt = 201 /\ Rr(rc, b).block = b
  BY <1>1 DEF Rr, PacketRecord
<1>4. Bye \in PacketRecord /\ Bye.pt = 203 /\ Bye.block = NoBlock
  <2> DEFINE r == Rr(0, NoBlock)
  <2>1. r \in PacketRecord /\ r.block = NoBlock BY <1>1, <1>3
  <2>2. Bye = [r EXCEPT !.pt = 203] BY DEF Bye
  <2> HIDE DEF r
  <2>3. Bye \in PacketRecord
    <3>1. 203 \in {200, 201, 203} OBVIOUS
    <3> QED BY <2>1, <2>2, <3>1 DEF PacketRecord
  <2>4. Bye.pt = 203 /\ Bye.block = r.block BY <2>1, <2>2 DEF PacketRecord
  <2> QED BY <2>1, <2>3, <2>4
<1> QED BY <1>1, <1>2, <1>3, <1>4

\* A block that names no report gives no round trip.
LEMMA NoRoundTrip ==
  ASSUME NEW o
  PROVE  RoundTrip(o, NoBlock) = -1 /\ RoundTrip(o, Stray) = -1
<1>1. NoBlock.lsr = 0 /\ Stray.lsr = 0 BY DEF NoBlock, Stray, Block
<1> QED BY <1>1 DEF RoundTrip

\* What a packet leaves of the direction it belongs to.
SenderPart(f, g, h, k, q) ==
  \/ /\ q.pt = 200 /\ g.last_SR = clock /\ g.last_SR_id = q.id /\ g.tx_b = q.tx_b
     /\ k.bits = IF f.last_SR # Never /\ clock > f.last_SR THEN h.bits + Bits(f, q)
                 ELSE h.bits
  \/ (q.pt # 200 \/ snap = "tiny") /\ SameSender(f, g) /\ k.bits = h.bits

\* Any packet keeps the two directions as they should be, as long as its
\* block claims no round trip longer than the true one.
LEMMA PassesKeeps ==
  ASSUME RtcpInv, NEW s \in Sides, NEW p \in PacketRecord, NEW truth \in Int, truth >= -1,
         RoundTrip(rtcp[Opposite(s)], Captured(p).block) <= truth, Passes(s, p, truth)
  PROVE  /\ rtcp' \in [Sides -> RtcpRecord] /\ hist' \in [Sides -> HistRecord]
         /\ firstLost' \in [Sides -> Int] /\ tooLong' = FALSE /\ totals = <<>>
         /\ UNCHANGED <<warn, snap, clock, cumLost, totals>>
         /\ \A t \in Sides : Direction(rtcp'[t], hist'[t], firstLost'[t], clock)
         /\ \A t \in Sides \ {s} : rtcp'[t] = rtcp[t] /\ hist'[t] = hist[t]
         /\ SenderPart(rtcp[s], rtcp'[s], hist[s], hist'[s], Captured(p))
<1> DEFINE q == Captured(p)
           o == rtcp[Opposite(s)]
           more == rtcp[s].pnum + 1
           f == [rtcp[s] EXCEPT !.pnum = more]
           begun == [f |-> f, h |-> hist[s], rtt |-> -1, goesOn |-> TRUE]
           x == Decode(Begin(s), o, q)
           first == firstLost[s]
           next == NextType(x.f.type)
           g == [x.f EXCEPT !.type = next]
           fl == IF rtcp[s].jitter_samples = 0 /\ x.f.jitter_samples = 1
                 THEN x.f.c_lost ELSE firstLost[s]
<1>1. /\ rtcp \in [Sides -> RtcpRecord] /\ hist \in [Sides -> HistRecord]
      /\ firstLost \in [Sides -> Int] /\ clock \in 1 .. MaxClock /\ warn \in BOOLEAN
      /\ tooLong = FALSE
      /\ \A t \in Sides : Direction(rtcp[t], hist[t], firstLost[t], clock)
  BY DEF RtcpInv
<1>2. /\ totals = <<>> /\ rtcp[s].pnum < MaxRtcp(s)
      /\ rtcp' = [rtcp EXCEPT ![s] = [x.f EXCEPT !.type = NextType(@)]]
      /\ hist' = [hist EXCEPT ![s] = x.h]
      /\ tooLong' = (tooLong \/ x.rtt > truth)
      /\ firstLost' = IF rtcp[s].jitter_samples = 0 /\ x.f.jitter_samples = 1
                      THEN [firstLost EXCEPT ![s] = x.f.c_lost] ELSE firstLost
      /\ UNCHANGED <<warn, snap, clock, cumLost, totals>>
  BY DEF Passes
<1>3. /\ rtcp[s] \in RtcpRecord /\ o \in RtcpRecord /\ hist[s] \in HistRecord /\ first \in Int
      /\ Direction(rtcp[s], hist[s], first, clock) /\ q \in PacketRecord
  <2>1. Opposite(s) \in Sides BY DEF Opposite, Sides
  <2> QED BY <1>1, <2>1, CapturedType
<1>4. more \in Nat /\ more <= MaxPnum /\ rtcp[s].jitter_samples + 1 <= more
      /\ rtcp[s].jitter_samples \in Nat
  <2>1. rtcp[s].pnum \in Nat /\ rtcp[s].jitter_samples \in Nat BY <1>3 DEF RtcpRecord
  <2>2. MaxRtcp(s) \in Nat /\ MaxPnum \in Nat /\ MaxRtcp(s) <= MaxPnum BY RtcpSizes DEF MaxRtcp, MaxPnum
  <2>3. rtcp[s].jitter_samples <= rtcp[s].pnum BY <1>3 DEF Direction
  <2> QED BY <1>2, <2>1, <2>2, <2>3
<1>5. Begin(s) = begun
  <2>1. f = [rtcp[s] EXCEPT !.pnum = @ + 1] BY <1>3 DEF RtcpRecord
  <2> QED BY <2>1 DEF Begin
<1> HIDE DEF q, o, first
<1>6. x = Decode(begun, o, q) BY <1>5
<1> HIDE DEF x
<1>7. f.pnum = more BY <1>3 DEF RtcpRecord
<1> HIDE DEF more
<1>8. /\ f \in RtcpRecord /\ SameSender(rtcp[s], f) /\ SameBlock(rtcp[s], f)
  BY <1>3, <1>4 DEF RtcpRecord, SameSender, SameBlock
<1> HIDE DEF f
<1>9. Counted(begun, first) /\ begun.goesOn = TRUE /\ begun.f = f /\ begun.h = hist[s]
      /\ begun.rtt = -1
  <2>1. begun \in Parsing BY <1>3, <1>8 DEF Parsing
  <2>2. Fits(f) /\ f.rtt_samples <= f.jitter_samples /\ Balanced(f, hist[s], first)
    BY <1>3, <1>8 DEF Direction, SameBlock, Fits, Balanced
  <2> QED BY <2>1, <2>2 DEF Counted
<1> HIDE DEF begun
<1>10. /\ BlockRead(begun, x, first, o, q.block)
       /\ SenderRead(begun, x, q) \/ NoSender(begun, x, q)
  BY <1>1, <1>3, <1>6, <1>9, DecodeReads
<1>11. /\ x \in Parsing /\ Fits(x.f) /\ x.f.rtt_samples <= x.f.jitter_samples
       /\ Balanced(x.f, x.h, After(f, x.f, first)) /\ x.f.pnum = f.pnum
       /\ x.f.jitter_samples \in {f.jitter_samples, f.jitter_samples + 1}
       /\ x.rtt \in {-1, RoundTrip(o, q.block)}
  BY <1>9, <1>10 DEF BlockRead, Counted, SamePacket
<1>12. x.f \in RtcpRecord /\ x.h \in HistRecord BY <1>11 DEF Parsing
<1>13. next \in {"UNKNOWN", "FIRST_RTCP", "RTCP"} BY DEF NextType
<1>14. g = [x.f EXCEPT !.type = NextType(@)] BY <1>12 DEF RtcpRecord
<1> HIDE DEF next
<1>15. g \in RtcpRecord /\ SameSender(x.f, g) /\ SameBlock(x.f, g) /\ g.pnum = x.f.pnum
  BY <1>12, <1>13 DEF RtcpRecord, SameSender, SameBlock
<1>16. fl = After(f, x.f, first) /\ fl \in Int
  <2>1. fl = After(f, x.f, first) BY <1>8 DEF After, SameBlock, first
  <2>2. x.f.c_lost \in Int BY <1>12 DEF RtcpRecord
  <2> QED BY <1>3, <2>1, <2>2 DEF first
<1>17. /\ rtcp' = [rtcp EXCEPT ![s] = g] /\ hist' = [hist EXCEPT ![s] = x.h]
       /\ firstLost' = [firstLost EXCEPT ![s] = fl]
  <2>1. firstLost = [firstLost EXCEPT ![s] = firstLost[s]] BY <1>1
  <2> QED BY <1>2, <1>14, <2>1
<1> HIDE DEF g, fl
<1>18. rtcp' \in [Sides -> RtcpRecord] /\ hist' \in [Sides -> HistRecord]
       /\ firstLost' \in [Sides -> Int]
  BY <1>1, <1>12, <1>15, <1>16, <1>17
<1>19. /\ \A t \in Sides \ {s} : /\ rtcp'[t] = rtcp[t] /\ hist'[t] = hist[t]
                                 /\ firstLost'[t] = firstLost[t]
       /\ rtcp'[s] = g /\ hist'[s] = x.h /\ firstLost'[s] = fl
  BY <1>1, <1>17
<1>20. tooLong' = FALSE
  <2>1. ~ (x.rtt > truth)
    <3>1. RoundTrip(o, q.block) \in Int
      <4>1. q.block \in BlockRecord BY <1>3 DEF PacketRecord
      <4>2. RoundTrip(o, q.block) \in -1 .. MaxClock BY <1>1, <1>3, <4>1, RoundTripType
      <4> QED BY <4>2
    <3>2. RoundTrip(o, q.block) <= truth BY DEF o, q
    <3> QED BY <1>11, <3>1, <3>2
  <2> QED BY <1>1, <1>2, <2>1
<1>21. SenderPart(rtcp[s], g, hist[s], x.h, q)
  BY <1>8, <1>9, <1>10, <1>15 DEF SenderRead, NoSender, SenderPart, SameSender, Bits
<1>22. Direction(g, x.h, fl, clock)
  <2>1. g.last_SR <= clock
    <3>1. rtcp[s].last_SR <= clock BY <1>3 DEF Direction
    <3> QED BY <1>1, <1>21, <3>1 DEF SenderPart, SameSender
  <2>2. g.jitter_samples <= g.pnum /\ g.pnum <= MaxPnum BY <1>4, <1>7, <1>8, <1>11, <1>15 DEF SameBlock
  <2>3. Fits(g) /\ g.rtt_samples <= g.jitter_samples /\ Balanced(g, x.h, fl)
    BY <1>11, <1>15, <1>16 DEF SameBlock, Fits, Balanced
  <2> QED BY <2>1, <2>2, <2>3 DEF Direction
<1>23. \A t \in Sides : Direction(rtcp'[t], hist'[t], firstLost'[t], clock) BY <1>1, <1>19, <1>22
<1> QED BY <1>2, <1>18, <1>19, <1>20, <1>21, <1>23 DEF q

\* Messages stay no younger than they say, while time and last_SR advance.
LEMMA Onward ==
  ASSUME NEW f \in RtcpRecord, NEW g \in RtcpRecord, NEW now \in Nat, NEW later \in Nat,
         now <= later, SameSender(f, g) \/ g.last_SR = later, NEW m
  PROVE  /\ Underway(f, m, now) => Underway(g, m, later)
         /\ Listened(f, m, now) => Listened(g, m, later)
         /\ Answering(f, m, now) => Answering(g, m, later)
<1>1. f.last_SR \in Int /\ g.last_SR \in Int BY RtcpSizes DEF RtcpRecord
<1>2. ASSUME NEW id, NEW at \in Int, at <= now, NoYounger(f, id, at)
      PROVE  NoYounger(g, id, at)
  BY <1>1, <1>2 DEF NoYounger, SameSender
<1>3. Underway(f, m, now) => Underway(g, m, later) BY <1>2 DEF Underway
<1>4. Listened(f, m, now) => Listened(g, m, later) BY <1>3 DEF Listened
<1>5. ASSUME Answering(f, m, now)
      PROVE  Answering(g, m, later)
  <2> DEFINE at == m.born - m.block.dlsr - m.there
  <2>1. m.block.dlsr \in Nat /\ m.there \in Nat /\ m.born \in 0 .. now BY <1>5 DEF Answering, BlockRecord
  <2>2. at \in Int /\ at <= now /\ m.born \in 0 .. later BY <2>1
  <2> HIDE DEF at
  <2>3. m.block.lsr # 0 => NoYounger(f, m.block.lsr, at) BY <1>5 DEF Answering, at
  <2>4. m.block.lsr # 0 => NoYounger(g, m.block.lsr, at) BY <1>2, <2>2, <2>3
  <2> QED BY <1>5, <2>2, <2>4 DEF Answering, at
<1> QED BY <1>3, <1>4, <1>5

\* The bits between two sender reports, however the counter wraps.
LEMMA BitsBetween ==
  ASSUME NEW f, NEW q, NEW n \in Nat, f.tx_b = (TxStart + n * TxStep) % TxMod,
         q.tx_b = (TxStart + (n + 1) * TxStep) % TxMod
  PROVE  Bits(f, q) = 8 * TxStep
<1> DEFINE a == TxStart + (n + 1) * TxStep
           b == TxStart + n * TxStep
           r == a % TxMod
           s == b % TxMod
<1>1. a \in Int /\ b \in Int /\ a - b = TxStep BY RtcpSizes
<1> HIDE DEF a, b
<1>2. r \in Int BY <1>1, RtcpSizes, Quotient
<1>3. (r - b) % TxMod = (a - b) % TxMod BY <1>1, RtcpSizes, Reduced
<1> HIDE DEF r
<1>4. (r - s) % TxMod = (r - b) % TxMod BY <1>1, <1>2, RtcpSizes, Reduced
<1>5. \A c \in 0 .. TxMod - 1 : c % TxMod = c
  <2> TAKE c \in 0 .. TxMod - 1
  <2>1. c \in Int /\ 0 \in Int /\ 0 <= c /\ c < TxMod /\ c = TxMod * 0 + c BY RtcpSizes
  <2> QED BY <2>1, RtcpSizes, Remainder
<1>6. TxStep \in 0 .. TxMod - 1 /\ 8 * TxStep \in 0 .. TxMod - 1 BY RtcpSizes
<1>7. (r - s) % TxMod = TxStep BY <1>1, <1>3, <1>4, <1>5, <1>6
<1>8. (8 * TxStep) % TxMod = 8 * TxStep BY <1>5, <1>6
<1>9. q.tx_b = r /\ f.tx_b = s BY DEF r, a, b
<1> HIDE DEF s
<1> QED BY <1>7, <1>8, <1>9 DEF Bits

\* A step that lets no packet pass.
LEMMA NoPacket ==
  ASSUME RtcpInv, UNCHANGED <<rtcp, hist, tooLong, warn, snap, topSr, orderly, firstLost>>,
         clock' \in clock .. MaxClock, cumLost' \in Int,
         Messages(rtcp["sender"], clock)',
         totals' = totals \/ totals' = [s \in Sides |-> IF rtcp[s].type = "RTCP"
                                                        THEN Totals(rtcp[s]) ELSE NoTotals]
  PROVE  RtcpInv'
<1>1. /\ rtcp \in [Sides -> RtcpRecord] /\ hist \in [Sides -> HistRecord]
      /\ firstLost \in [Sides -> Int]
      /\ clock \in 1 .. MaxClock /\ topSr \in 0 .. MaxReports /\ warn \in BOOLEAN
      /\ tooLong = FALSE
      /\ \A s \in Sides : Direction(rtcp[s], hist[s], firstLost[s], clock)
      /\ snap = "tiny" => rtcp["sender"].last_SR_id = 0
      /\ (orderly /\ snap # "tiny") => Tiled(rtcp["sender"], hist["sender"], topSr)
      /\ totals = <<>> \/ totals = [s \in Sides |-> IF rtcp[s].type = "RTCP"
                                                    THEN Totals(rtcp[s]) ELSE NoTotals]
  BY DEF RtcpInv
<1>2. ASSUME NEW s \in Sides
      PROVE  Direction(rtcp[s], hist[s], firstLost[s], clock')
  <2>1. rtcp[s].last_SR \in Int BY <1>1, RtcpSizes DEF RtcpRecord
  <2>2. Direction(rtcp[s], hist[s], firstLost[s], clock) BY <1>1
  <2>3. rtcp[s].last_SR <= clock' BY <1>1, <2>1, <2>2 DEF Direction
  <2> QED BY <2>2, <2>3 DEF Direction
<1>3. clock' \in 1 .. MaxClock BY <1>1
<1>4. (\A s \in Sides : Direction(rtcp[s], hist[s], firstLost[s], clock))' BY <1>2
<1>5. ((orderly /\ snap # "tiny") => Tiled(rtcp["sender"], hist["sender"], topSr))' BY <1>1 DEF Tiled
<1>6. (totals = <<>> \/ totals = [s \in Sides |-> IF rtcp[s].type = "RTCP"
                                                  THEN Totals(rtcp[s]) ELSE NoTotals])'
  BY <1>1
<1> QED BY <1>1, <1>3, <1>4, <1>5, <1>6 DEF RtcpInv

\* A sender report passes.
LEMMA SenderReportKeeps ==
  ASSUME RtcpInv, NEW k \in 1 .. MaxReports, NEW rc \in {0, 1}, SenderReport(k, rc)
  PROVE  RtcpInv'
<1> DEFINE p == Sr(k, rc, NoBlock)
           q == Captured(p)
           f == rtcp["sender"]
           g == rtcp'["sender"]
           h == hist["sender"]
           hp == hist'["sender"]
<1>1. /\ rtcp \in [Sides -> RtcpRecord] /\ clock \in 1 .. MaxClock /\ topSr \in 0 .. MaxReports
      /\ warn \in BOOLEAN /\ cumLost \in Int /\ Messages(f, clock)
      /\ snap = "tiny" => f.last_SR_id = 0
      /\ (orderly /\ snap # "tiny") => Tiled(f, h, topSr)
      /\ \A s \in Sides : Direction(rtcp[s], hist[s], firstLost[s], clock)
  BY DEF RtcpInv
<1>2. /\ Passes("sender", p, 0)
      /\ toRcv' = toRcv \cup {[id |-> k, at |-> clock]}
      /\ topSr' = IF k > topSr THEN k ELSE topSr
      /\ orderly' = (orderly /\ k = topSr + 1 /\ f.last_SR # clock)
      /\ UNCHANGED <<heard, toProbe>>
  BY DEF SenderReport
<1>3. p \in PacketRecord /\ p.pt = 200 /\ p.id = k /\ p.block = NoBlock
      /\ p.tx_b = (TxStart + k * TxStep) % TxMod /\ "sender" \in Sides
  BY PacketTypes DEF Sides
<1> HIDE DEF p
<1>4. /\ q.pt = 200 /\ q.block \in {NoBlock, Stray}
      /\ snap = "tiny" => q.id = 0
      /\ snap # "tiny" => q.id = k /\ q.tx_b = (TxStart + k * TxStep) % TxMod
  BY <1>3, CapturedType
<1>5. RoundTrip(rtcp[Opposite("sender")], q.block) <= 0 /\ 0 \in Int /\ 0 >= -1 BY <1>4, NoRoundTrip
<1>6. /\ rtcp' \in [Sides -> RtcpRecord] /\ hist' \in [Sides -> HistRecord]
      /\ firstLost' \in [Sides -> Int] /\ tooLong' = FALSE /\ totals = <<>>
      /\ UNCHANGED <<warn, snap, clock, cumLost, totals>>
      /\ \A t \in Sides : Direction(rtcp'[t], hist'[t], firstLost'[t], clock)
      /\ SenderPart(f, g, h, hp, q)
  BY <1>2, <1>3, <1>5, PassesKeeps
<1> HIDE DEF q
<1>7. f \in RtcpRecord /\ g \in RtcpRecord BY <1>1, <1>3, <1>6
<1> HIDE DEF f, g, h, hp
<1>8. \/ /\ g.last_SR = clock /\ g.last_SR_id = q.id /\ g.tx_b = q.tx_b
         /\ hp.bits = IF f.last_SR # Never /\ clock > f.last_SR THEN h.bits + Bits(f, q)
                      ELSE h.bits
      \/ snap = "tiny" /\ SameSender(f, g)
  BY <1>4, <1>6 DEF SenderPart
<1>9. snap = "tiny" => g.last_SR_id = 0 BY <1>1, <1>4, <1>8 DEF SameSender
<1>10. Messages(rtcp["sender"], clock)'
  <2>1. clock \in Nat /\ clock <= clock /\ (SameSender(f, g) \/ g.last_SR = clock) BY <1>1, <1>8, RtcpSizes
  <2>2. Underway(g, [id |-> k, at |-> clock], clock)
    <3>1. NoYounger(g, k, clock)
      <4>1. k # 0 OBVIOUS
      <4> QED BY <1>1, <1>8, <1>9, <2>1, <4>1 DEF NoYounger
    <3>2. clock \in 0 .. clock BY <1>1
    <3> QED BY <3>1, <3>2 DEF Underway
  <2>3. ASSUME NEW m \in toRcv
        PROVE  Underway(g, m, clock)
    <3>1. Underway(f, m, clock) BY <1>1 DEF Messages
    <3> QED BY <1>7, <2>1, <3>1, Onward
  <2>4. heard = <<>> \/ Listened(g, heard, clock)
    <3>1. heard = <<>> \/ Listened(f, heard, clock) BY <1>1 DEF Messages
    <3> QED BY <1>7, <2>1, <3>1, Onward
  <2>5. ASSUME NEW r \in toProbe
        PROVE  Answering(g, r, clock)
    <3>1. Answering(f, r, clock) BY <1>1 DEF Messages
    <3> QED BY <1>7, <2>1, <3>1, Onward
  <2>6. clock' = clock /\ heard' = heard /\ toProbe' = toProbe BY <1>2, <1>6
  <2>7. \A m \in toRcv' : Underway(g, m, clock) BY <1>2, <2>2, <2>3
  <2> QED BY <2>4, <2>5, <2>6, <2>7 DEF Messages, g
<1>11. ASSUME orderly', snap # "tiny"
       PROVE  Tiled(g, hp, topSr')
  <2>1. orderly /\ k = topSr + 1 /\ f.last_SR # clock /\ topSr \in Nat /\ topSr' = topSr + 1
    <3>1. orderly /\ k = topSr + 1 /\ f.last_SR # clock BY <1>2, <1>11, Zenon DEF f
    <3>2. topSr \in Nat BY <1>1, RtcpSizes
    <3> QED BY <1>2, <3>1, <3>2
  <2>2. Tiled(f, h, topSr) BY <1>1, <1>11, <2>1
  <2>3. f.last_SR <= clock /\ f.last_SR \in Int /\ clock \in Nat /\ clock # 0
    BY <1>1, <1>3, <1>7, RtcpSizes DEF f, Direction, RtcpRecord
  <2>4. /\ g.last_SR = clock /\ g.tx_b = (TxStart + (topSr + 1) * TxStep) % TxMod
        /\ hp.bits = IF f.last_SR # Never /\ clock > f.last_SR THEN h.bits + Bits(f, q)
                     ELSE h.bits
    BY <1>4, <1>8, <1>11, <2>1
  <2>5. hp.bits = 8 * TxStep * topSr
    <3>1. CASE f.last_SR = Never
      <4>1. topSr = 0 /\ h.bits = 0 BY <2>2, <3>1 DEF Tiled
      <4> QED BY <2>4, <3>1, <4>1, RtcpSizes
    <3>2. CASE f.last_SR # Never
      <4>1. /\ topSr >= 1 /\ f.tx_b = (TxStart + topSr * TxStep) % TxMod
            /\ h.bits = 8 * TxStep * (topSr - 1)
        BY <2>2, <3>2 DEF Tiled
      <4>2. q.tx_b = (TxStart + (topSr + 1) * TxStep) % TxMod BY <1>4, <1>11, <2>1
      <4>3. Bits(f, q) = 8 * TxStep BY <2>1, <4>1, <4>2, BitsBetween
      <4>4. clock > f.last_SR BY <2>1, <2>3
      <4>5. hp.bits = 8 * TxStep * (topSr - 1) + 8 * TxStep BY <2>4, <3>2, <4>1, <4>3, <4>4
      <4> DEFINE c == 8 * TxStep
      <4>6. c \in Nat BY RtcpSizes
      <4> HIDE DEF c
      <4>7. c * (topSr - 1) + c = c * topSr BY <2>1, <4>6
      <4> QED BY <4>5, <4>7 DEF c
    <3> QED BY <3>1, <3>2
  <2>6. (topSr + 1) - 1 = topSr /\ topSr + 1 >= 1 BY <2>1
  <2> QED BY <2>1, <2>3, <2>4, <2>5, <2>6 DEF Tiled, Never
<1>12. ((orderly /\ snap # "tiny") => Tiled(rtcp["sender"], hist["sender"], topSr))'
  <2>1. snap' = snap BY <1>6
  <2> QED BY <1>11, <2>1 DEF Tiled, g, hp
<1>13. (snap = "tiny" => rtcp["sender"].last_SR_id = 0)' BY <1>6, <1>9 DEF g
<1>14. topSr' \in 0 .. MaxReports BY <1>1, <1>2
<1>15. (\A t \in Sides : Direction(rtcp[t], hist[t], firstLost[t], clock))' BY <1>6
<1>16. totals' = <<>> /\ clock' \in 1 .. MaxClock /\ warn' \in BOOLEAN /\ cumLost' \in Int BY <1>1, <1>6
<1> QED BY <1>6, <1>10, <1>12, <1>13, <1>14, <1>15, <1>16 DEF RtcpInv

\* A packet of the receiver passes.
LEMMA ReceiverKeeps ==
  ASSUME RtcpInv, NEW p \in PacketRecord, p.pt # 200, NEW truth \in Int, truth >= -1,
         RoundTrip(rtcp["sender"], Captured(p).block) <= truth,
         Passes("receiver", p, truth), toProbe' \in SUBSET toProbe,
         UNCHANGED <<toRcv, heard, topSr, orderly>>
  PROVE  RtcpInv'
<1>1. /\ clock \in 1 .. MaxClock /\ topSr \in 0 .. MaxReports
      /\ warn \in BOOLEAN /\ cumLost \in Int /\ Messages(rtcp["sender"], clock)
      /\ snap = "tiny" => rtcp["sender"].last_SR_id = 0
      /\ (orderly /\ snap # "tiny") => Tiled(rtcp["sender"], hist["sender"], topSr)
  BY DEF RtcpInv
<1>2. "receiver" \in Sides /\ Opposite("receiver") = "sender" /\ "sender" \in Sides \ {"receiver"}
  BY DEF Sides, Opposite
<1>3. /\ rtcp' \in [Sides -> RtcpRecord] /\ hist' \in [Sides -> HistRecord]
      /\ firstLost' \in [Sides -> Int] /\ tooLong' = FALSE /\ totals = <<>>
      /\ UNCHANGED <<warn, snap, clock, cumLost, totals>>
      /\ \A t \in Sides : Direction(rtcp'[t], hist'[t], firstLost'[t], clock)
      /\ \A t \in Sides \ {"receiver"} : rtcp'[t] = rtcp[t] /\ hist'[t] = hist[t]
  BY <1>2, PassesKeeps
<1>4. rtcp'["sender"] = rtcp["sender"] /\ hist'["sender"] = hist["sender"] BY <1>2, <1>3
<1>5. Messages(rtcp["sender"], clock)' BY <1>1, <1>3, <1>4 DEF Messages
<1>6. ((orderly /\ snap # "tiny") => Tiled(rtcp["sender"], hist["sender"], topSr))' BY <1>1, <1>3, <1>4
<1>7. (\A t \in Sides : Direction(rtcp[t], hist[t], firstLost[t], clock))' BY <1>3
<1>8. /\ totals' = <<>> /\ clock' \in 1 .. MaxClock /\ warn' \in BOOLEAN /\ cumLost' \in Int
      /\ topSr' \in 0 .. MaxReports /\ (snap = "tiny" => rtcp["sender"].last_SR_id = 0)'
  BY <1>1, <1>3, <1>4
<1> QED BY <1>3, <1>5, <1>6, <1>7, <1>8 DEF RtcpInv

\* Every step keeps it.
LEMMA RtcpStep ==
  ASSUME RtcpInv, RtcpNext \/ UNCHANGED rtcpVars
  PROVE  RtcpInv'
<1>1. /\ rtcp \in [Sides -> RtcpRecord] /\ clock \in 1 .. MaxClock /\ cumLost \in Int
      /\ Messages(rtcp["sender"], clock)
  BY DEF RtcpInv
<1>2. rtcp["sender"] \in RtcpRecord BY <1>1 DEF Sides
<1>3. ASSUME NEW k \in 1 .. MaxReports, NEW rc \in {0, 1}, SenderReport(k, rc)
      PROVE  RtcpInv'
  BY <1>3, SenderReportKeeps
<1>4. ASSUME NEW m \in toRcv, Hear(m)
      PROVE  RtcpInv'
  <2>1. /\ heard' = [id |-> m.id, at |-> m.at, when |-> clock] /\ toRcv' = toRcv \ {m}
        /\ UNCHANGED <<rtcp, hist, tooLong, warn, snap, clock, toProbe, cumLost, topSr, orderly,
                       firstLost, totals>>
    BY <1>4 DEF Hear
  <2>2. Underway(rtcp["sender"], m, clock) BY <1>1 DEF Messages
  <2>3. Listened(rtcp["sender"], heard', clock)
    <3>1. /\ heard'.id = m.id /\ heard'.at = m.at /\ heard'.when = clock BY <2>1
    <3>2. clock \in 0 .. clock /\ m.at <= clock BY <1>1, <2>2 DEF Underway
    <3> QED BY <2>2, <3>1, <3>2 DEF Listened, Underway
  <2>4. Messages(rtcp["sender"], clock)' BY <1>1, <2>1, <2>3 DEF Messages
  <2>5. clock' \in clock .. MaxClock /\ cumLost' \in Int BY <1>1, <2>1
  <2> QED BY <2>1, <2>4, <2>5, NoPacket
<1>5. ASSUME Answer
      PROVE  RtcpInv'
  <2> DEFINE lsr == IF heard = <<>> THEN 0 ELSE heard.id
             dlsr == IF heard = <<>> THEN 0 ELSE clock - heard.when
             there == IF heard = <<>> THEN 0 ELSE heard.when - heard.at
             b == Block(lsr, dlsr, cumLost')
             r == [block |-> b, there |-> there, born |-> clock]
  <2>1. /\ toProbe' = {r} /\ cumLost' = NextLost
        /\ UNCHANGED <<rtcp, hist, tooLong, warn, snap, clock, toRcv, heard, topSr,
                       orderly, firstLost, totals>>
    BY <1>5 DEF Answer
  <2>2. cumLost' \in Int BY <1>1, <2>1 DEF NextLost
  <2>3. heard = <<>> \/ Listened(rtcp["sender"], heard, clock) BY <1>1 DEF Messages
  <2>4. /\ lsr \in 0 .. MaxReports /\ dlsr \in Nat /\ there \in Nat
        /\ lsr # 0 => NoYounger(rtcp["sender"], lsr, clock - dlsr - there)
    <3>1. CASE heard = <<>> BY <3>1, RtcpSizes
    <3>2. CASE heard # <<>>
      <4>1. /\ heard.id \in 1 .. MaxReports /\ heard.at \in 0 .. clock
            /\ NoYounger(rtcp["sender"], heard.id, heard.at)
            /\ heard.when \in 0 .. clock /\ heard.at <= heard.when
        BY <2>3, <3>2 DEF Listened, Underway
      <4>2. lsr = heard.id /\ dlsr = clock - heard.when /\ there = heard.when - heard.at BY <3>2
      <4> HIDE DEF lsr, dlsr, there
      <4>3. clock - dlsr - there = heard.at BY <1>1, <4>1, <4>2
      <4> QED BY <1>1, <4>1, <4>2, <4>3, RtcpSizes
    <3> QED BY <3>1, <3>2
  <2> HIDE DEF lsr, dlsr, there
  <2>5. b = [lsr |-> lsr, dlsr |-> dlsr, c_lost |-> cumLost'] BY DEF Block
  <2>6. b \in BlockRecord BY <2>2, <2>4, <2>5 DEF BlockRecord
  <2>7. Answering(rtcp["sender"], r, clock)
    <3>1. r.block = b /\ r.there = there /\ r.born = clock
          /\ b.lsr = lsr /\ b.dlsr = dlsr
      BY <2>5
    <3> HIDE DEF r, b
    <3>2. clock \in 0 .. clock BY <1>1
    <3> QED BY <2>4, <2>6, <3>1, <3>2 DEF Answering
  <2> HIDE DEF r
  <2>8. Messages(rtcp["sender"], clock)' BY <1>1, <2>1, <2>7 DEF Messages
  <2>9. clock' \in clock .. MaxClock BY <1>1, <2>1
  <2> QED BY <2>1, <2>2, <2>8, <2>9, NoPacket
<1>6. ASSUME NEW r \in toProbe, NEW rc \in {1, 2}, NEW again \in BOOLEAN,
             ReceiverReport(r, rc, again)
      PROVE  RtcpInv'
  <2> DEFINE p == Rr(rc, r.block)
             truth == r.there + clock - r.born
  <2>1. /\ Passes("receiver", p, truth)
        /\ toProbe' = IF again THEN toProbe ELSE toProbe \ {r}
        /\ UNCHANGED <<toRcv, heard, topSr, orderly>>
    BY <1>6 DEF ReceiverReport
  <2>2. /\ r.block \in BlockRecord /\ r.there \in Nat /\ r.born \in 0 .. clock
        /\ r.block.lsr # 0 =>
             NoYounger(rtcp["sender"], r.block.lsr, r.born - r.block.dlsr - r.there)
    BY <1>1 DEF Messages, Answering
  <2>3. p \in PacketRecord /\ p.pt = 201 /\ p.block = r.block
    <3>1. rc \in 0 .. 2 OBVIOUS
    <3> QED BY <2>2, <3>1, PacketTypes
  <2>4. truth \in Int /\ truth >= 0 BY <1>1, <2>2
  <2>5. RoundTrip(rtcp["sender"], Captured(p).block) <= truth
    <3> DEFINE o == rtcp["sender"]
               b == r.block
    <3>1. Captured(p).block \in {b, Stray} BY <2>3, CapturedType
    <3>2. RoundTrip(o, Stray) = -1 BY NoRoundTrip
    <3>3. RoundTrip(o, b) = -1 \/ RoundTrip(o, b) <= truth
      <4>1. RoundTrip(o, b) = -1
            \/ (RoundTrip(o, b) = clock - o.last_SR - b.dlsr
                /\ b.lsr # 0 /\ b.lsr = o.last_SR_id)
        BY DEF RoundTrip
      <4>2. ASSUME b.lsr # 0, b.lsr = o.last_SR_id
            PROVE  clock - o.last_SR - b.dlsr <= truth
        <5>1. r.born - b.dlsr - r.there <= o.last_SR BY <2>2, <4>2 DEF NoYounger
        <5>2. o.last_SR \in Int /\ b.dlsr \in Int BY <1>2, <2>2, RtcpSizes DEF RtcpRecord, BlockRecord
        <5> QED BY <1>1, <2>2, <5>1, <5>2
      <4> QED BY <4>1, <4>2
    <3> HIDE DEF truth, p
    <3> QED BY <2>4, <3>1, <3>2, <3>3
  <2>6. truth >= -1 /\ p.pt # 200 /\ toProbe' \in SUBSET toProbe BY <2>1, <2>3, <2>4
  <2> HIDE DEF p, truth
  <2> QED BY <2>1, <2>3, <2>4, <2>5, <2>6, ReceiverKeeps
<1>7. ASSUME NEW p \in {Rr(0, Stray), Bye}, NoReport(p)
      PROVE  RtcpInv'
  <2>1. /\ Passes("receiver", p, 0) /\ UNCHANGED <<toRcv, heard, toProbe, topSr, orderly>>
    BY <1>7 DEF NoReport
  <2>2. p \in PacketRecord /\ p.pt # 200 /\ p.block \in {Stray, NoBlock}
    <3>1. Rr(0, Stray) \in PacketRecord /\ Rr(0, Stray).pt = 201 /\ Rr(0, Stray).block = Stray BY PacketTypes
    <3>2. Bye \in PacketRecord /\ Bye.pt = 203 /\ Bye.block = NoBlock BY PacketTypes
    <3> QED BY <3>1, <3>2
  <2>3. RoundTrip(rtcp["sender"], Captured(p).block) = -1
    <3>1. Captured(p).block \in {Stray, NoBlock} BY <2>2, CapturedType
    <3> QED BY <3>1, NoRoundTrip
  <2>4. RoundTrip(rtcp["sender"], Captured(p).block) <= 0 /\ 0 \in Int /\ 0 >= -1
        /\ toProbe' \in SUBSET toProbe
    BY <2>1, <2>3
  <2> QED BY <2>1, <2>2, <2>4, ReceiverKeeps
<1>8. ASSUME RtcpClose
      PROVE  RtcpInv'
  <2>1. /\ totals' = [s \in Sides |-> IF rtcp[s].type = "RTCP" THEN Totals(rtcp[s])
                                      ELSE NoTotals]
        /\ toRcv' = {} /\ toProbe' = {} /\ heard' = <<>>
        /\ UNCHANGED <<rtcp, hist, tooLong, warn, snap, clock, cumLost, topSr, orderly,
                       firstLost>>
    BY <1>8 DEF RtcpClose
  <2>2. Messages(rtcp["sender"], clock)' BY <2>1 DEF Messages
  <2>3. clock' \in clock .. MaxClock /\ cumLost' \in Int BY <1>1, <2>1
  <2> QED BY <2>1, <2>2, <2>3, NoPacket
<1>9. ASSUME Tick
      PROVE  RtcpInv'
  <2>1. /\ clock < MaxClock /\ clock' = clock + 1
        /\ UNCHANGED <<rtcp, hist, tooLong, warn, snap, toRcv, heard, toProbe, cumLost, topSr,
                       orderly, firstLost, totals>>
    BY <1>9 DEF Tick
  <2> DEFINE later == clock + 1
             o == rtcp["sender"]
  <2>2. clock \in Nat /\ later \in Nat /\ clock <= later /\ SameSender(o, o) BY <1>1 DEF SameSender
  <2>3. clock' = later BY <2>1
  <2> HIDE DEF later, o
  <2>4. o \in RtcpRecord /\ Messages(o, clock) BY <1>1, <1>2 DEF o
  <2>5. ASSUME NEW m \in toRcv
        PROVE  Underway(o, m, later)
    <3>1. Underway(o, m, clock) BY <2>4 DEF Messages
    <3> QED BY <2>2, <2>4, <3>1, Onward
  <2>6. heard = <<>> \/ Listened(o, heard, later)
    <3>1. heard = <<>> \/ Listened(o, heard, clock) BY <2>4 DEF Messages
    <3> QED BY <2>2, <2>4, <3>1, Onward
  <2>7. ASSUME NEW r \in toProbe
        PROVE  Answering(o, r, later)
    <3>1. Answering(o, r, clock) BY <2>4 DEF Messages
    <3> QED BY <2>2, <2>4, <3>1, Onward
  <2>8. Messages(rtcp["sender"], clock)' BY <2>1, <2>3, <2>5, <2>6, <2>7 DEF Messages, o
  <2>9. clock' \in clock .. MaxClock /\ cumLost' \in Int BY <1>1, <2>1, RtcpSizes
  <2> QED BY <2>1, <2>8, <2>9, NoPacket
<1>10. ASSUME UNCHANGED rtcpVars
       PROVE  RtcpInv'
  <2>1. UNCHANGED <<rtcp, hist, tooLong, warn, snap, clock, toRcv, heard, toProbe, cumLost,
                    topSr, orderly, firstLost, totals>>
    BY <1>10 DEF rtcpVars
  <2>2. Messages(rtcp["sender"], clock)' BY <1>1, <2>1 DEF Messages
  <2>3. clock' \in clock .. MaxClock /\ cumLost' \in Int BY <1>1, <2>1
  <2> QED BY <2>1, <2>2, <2>3, NoPacket
<1> QED BY <1>3, <1>4, <1>5, <1>6, <1>7, <1>8, <1>9, <1>10 DEF RtcpNext

\* The types of the RTCP records.
LEMMA RtcpTypes == ASSUME RtcpInv PROVE RtcpTypeOK
<1>1. ASSUME NEW s \in Sides
      PROVE  rtcp[s] \in [type : {"UNKNOWN", "FIRST_RTCP", "RTCP"}, pnum : 0 .. MaxPnum,
                          last_SR : 0 .. MaxClock, last_SR_id : 0 .. MaxReports,
                          tx_b : 0 .. (TxMod - 1), jitter_samples : 0 .. MaxPnum,
                          c_lost : Int, rtt_sum : Nat, rtt_min : 0 .. MaxClock,
                          rtt_max : 0 .. MaxClock, rtt_samples : 0 .. MaxPnum,
                          errors : SUBSET Errors]
  <2> DEFINE f == rtcp[s]
  <2>1. f \in RtcpRecord /\ Direction(f, hist[s], firstLost[s], clock) BY DEF RtcpInv
  <2>2. f.pnum \in 0 .. MaxPnum /\ f.jitter_samples \in 0 .. MaxPnum
        /\ f.rtt_samples \in 0 .. MaxPnum
    <3>1. f.pnum \in Nat /\ f.jitter_samples \in Nat /\ f.rtt_samples \in Nat BY <2>1 DEF RtcpRecord
    <3>2. MaxPnum \in Nat BY RtcpSizes DEF MaxPnum
    <3> QED BY <2>1, <3>1, <3>2 DEF Direction
  <2> HIDE DEF f
  <2>3. f \in [type : {"UNKNOWN", "FIRST_RTCP", "RTCP"}, pnum : 0 .. MaxPnum,
               last_SR : 0 .. MaxClock, last_SR_id : 0 .. MaxReports,
               tx_b : 0 .. (TxMod - 1), jitter_samples : 0 .. MaxPnum,
               c_lost : Int, rtt_sum : Nat, rtt_min : 0 .. MaxClock,
               rtt_max : 0 .. MaxClock, rtt_samples : 0 .. MaxPnum,
               errors : SUBSET Errors]
    BY <2>1, <2>2, Zenon DEF RtcpRecord
  <2> QED BY <2>3 DEF f
<1>2. rtcp \in [Sides -> RtcpRecord] /\ clock \in 1 .. MaxClock /\ topSr \in 0 .. MaxReports BY DEF RtcpInv
<1> QED BY <1>1, <1>2 DEF RtcpTypeOK

\* And what they tell.
LEMMA RtcpTells == ASSUME RtcpInv PROVE RtcpTrue
<1>1. LossesTell
  <2> SUFFICES ASSUME NEW s \in Sides
               PROVE  /\ rtcp[s].jitter_samples > 0 =>
                           hist[s].lost - hist[s].dup = rtcp[s].c_lost - firstLost[s]
                      /\ (totals # <<>> /\ rtcp[s].type = "RTCP") =>
                           totals[s].t_lost = firstLost[s] + hist[s].lost - hist[s].dup
    BY DEF LossesTell
  <2>1. hist[s].lost - hist[s].dup = rtcp[s].c_lost - firstLost[s] BY DEF RtcpInv, Direction, Balanced
  <2>2. /\ hist[s].lost \in Int /\ hist[s].dup \in Int /\ rtcp[s].c_lost \in Int
        /\ firstLost[s] \in Int
    <3>1. rtcp[s] \in RtcpRecord /\ hist[s] \in HistRecord /\ firstLost[s] \in Int BY DEF RtcpInv
    <3> QED BY <3>1 DEF RtcpRecord, HistRecord
  <2>3. ASSUME totals # <<>>, rtcp[s].type = "RTCP"
        PROVE  totals[s].t_lost = rtcp[s].c_lost
    <3>1. totals[s] = Totals(rtcp[s]) BY <2>3 DEF RtcpInv
    <3> QED BY <3>1 DEF Totals
  <2>4. firstLost[s] + hist[s].lost - hist[s].dup = rtcp[s].c_lost BY <2>1, <2>2
  <2> QED BY <2>1, <2>3, <2>4
<1>2. RatesTile BY DEF RtcpInv, RatesTile, Tiled
<1>3. RoundTripNeverOver BY DEF RtcpInv, RoundTripNeverOver
<1>4. Extremes
  <2> SUFFICES ASSUME NEW s \in Sides, rtcp[s].rtt_samples > 0
               PROVE  /\ rtcp[s].rtt_min <= rtcp[s].rtt_max
                      /\ rtcp[s].rtt_max <= rtcp[s].rtt_sum
                      /\ rtcp[s].rtt_sum <= rtcp[s].rtt_max * rtcp[s].rtt_samples
    BY DEF Extremes
  <2>1. Fits(rtcp[s]) BY DEF RtcpInv, Direction
  <2> QED BY <2>1 DEF Fits
<1> QED BY <1>1, <1>2, <1>3, <1>4 DEF RtcpTrue

------------------------------
\* The theorems.

\* What rtp.c keeps of a media flow stays of one piece, whatever the
\* network does with its packets and reports: every loss is in a burst,
\* and the delays always have a packet to be averaged over.
THEOREM MediaKept == McSpec => []MediaSound
<1> DEFINE Inv == StreamInv /\ RtcpInv
<1>1. McInit => Inv BY StreamInit, RtcpFirst DEF McInit
<1>2. Inv /\ [McNext]_<<vars, rtcpVars>> => Inv' BY StreamStep, RtcpStep DEF McNext
<1>3. Inv => MediaSound BY StreamSound, RtcpTypes DEF MediaSound
<1> QED BY <1>1, <1>2, <1>3, PTL DEF McSpec

\* Losses, bit rates and round trips derived from RTCP reports are those
\* that happened, though reports are lost, repeated, reordered and cut and
\* the sender's counter wraps.
THEOREM ReportsTrue == McSpec => []RtcpTrue
<1>1. McInit => RtcpInv BY RtcpFirst DEF McInit
<1>2. RtcpInv /\ [McNext]_<<vars, rtcpVars>> => RtcpInv' BY RtcpStep DEF McNext
<1>3. RtcpInv => RtcpTrue BY RtcpTells
<1> QED BY <1>1, <1>2, <1>3, PTL DEF McSpec

\* A stream that arrives complete and in order is charged with nothing,
\* however long it is and however often its numbers wrap, also when the
\* encoder renumbers once by a jump that the window cannot miss.
THEOREM CleanStreams ==
  ASSUME JumpBy \in 5 * Win .. Mod - (Win + 1)
  PROVE  McSpec => []CleanStream
<1> DEFINE Inv == StreamInv /\ CleanInv
<1>1. McInit => Inv BY StreamInit, CleanInit DEF McInit
<1>2. Inv /\ [McNext]_<<vars, rtcpVars>> => Inv' BY StreamStep, CleanStep DEF McNext
<1>3. Inv => CleanStream BY CleanTells
<1> QED BY <1>1, <1>2, <1>3, PTL DEF McSpec

\* Packets called lost were lost, every repeat is found, and what is taken
\* for a renumbering encoder is one, unless a packet came out of time or a
\* slot of the window was missed five times.
THEOREM ChargesKept == McSpec => []ChargesTrue
<1> DEFINE Inv == StreamInv /\ ChargeInv
<1>1. McInit => Inv BY StreamInit, ChargeInit DEF McInit
<1>2. Inv /\ [McNext]_<<vars, rtcpVars>> => Inv' BY StreamStep, ChargeStep DEF McNext
<1>3. Inv => ChargesTrue BY ChargeTells
<1> QED BY <1>1, <1>2, <1>3, PTL DEF McSpec

==============================
