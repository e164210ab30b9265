---------------------------- MODULE MeasureProofs ----------------------------
(***************************************************************************)
(* What is measured of a flow.  Bufferbloat: the consistency checks of     *)
(* bufferbloat.c never fail, and the windowed log says for every second    *)
(* what happened in it, for any round trip times, any number of ACKs and   *)
(* any length of the connection.  TcpAnalysis: for any two streams and any *)
(* configuration of the flow, its types, the closing of its sides, the     *)
(* bytes counted once, its messages, what is on its way, the windows as    *)
(* scaled by the options of the SYNs, and the rates.                       *)
(***************************************************************************)
EXTENDS Bufferbloat, TcpAnalysis, FiniteSetTheorems, WellFoundedInduction, TLAPS

\* What holds of one direction, whether its last sample is still in the
\* open window or not.
QueueSound(r) ==
  LET w == InWindow(r)
  IN  /\ 0 <= w.count /\ w.count <= w.chances
      /\ 0 <= w.qd /\ w.qd <= w.gross
      /\ w.count = 0 => w.qd = 0 /\ w.gross = 0
      /\ r.until.count <= r.until.chances

\* Nothing has been counted before the first window opens.
Unused(r) ==
  /\ r.tot = Zero /\ r.until = Zero
  /\ r.last_unwindowed = 0 /\ r.not_void_windows = 0

\* The directions share the window and the line printed last: the second
\* before the window, once there is one.
Shared(s, t) ==
  /\ s["C2S"].last_window_edge = s["S2C"].last_window_edge
  /\ s["C2S"].last_printed = s["S2C"].last_printed
  /\ s["C2S"].last_window_edge <= t
  /\ s["C2S"].last_printed # 0 =>
       s["C2S"].last_window_edge = s["C2S"].last_printed + 1
  /\ s["C2S"].last_window_edge = 0 =>
       s["C2S"].last_printed = 0 /\ Unused(s["C2S"]) /\ Unused(s["S2C"])

\* The inductive invariant of both directions.  An open window has seen
\* the ACK that opened it.
Synced(s, t) ==
  /\ Shared(s, t)
  /\ \A d \in Sides : QueueSound(s[d]) /\ LastCounted(s[d])
  /\ s["C2S"].last_window_edge # 0 => SomeChance(s)

------------------------------
\* Division as the code uses it.
LEMMA DivType ==
  ASSUME NEW a \in Nat, NEW n \in Nat \ {0}
  PROVE  a \div n \in Nat
  BY SMTT(30)

\* Division by a whole number does not reverse an order.
LEMMA DivMonotone ==
  ASSUME NEW a \in Nat, NEW b \in Nat, NEW n \in Nat \ {0}, b <= a
  PROVE  b \div n <= a \div n
  <1> DEFINE p == a \div n
             q == b \div n
  <1>1. p \in Nat /\ q \in Nat BY DivType
  <1>2. n * q <= b /\ b < n * (q + 1) /\ n * p <= a /\ a < n * (p + 1) BY SMTT(30)
  <1> HIDE DEF p, q
  <1>3. ASSUME q >= p + 1 PROVE FALSE
    <2>1. n * (p + 1) <= n * q BY <1>1, <1>3, SMTT(30)
    <2>2. n * (p + 1) \in Int /\ n * q \in Int BY <1>1
    <2>3. QED BY <1>1, <1>2, <2>1, <2>2
  <1>4. q <= p BY <1>1, <1>3
  <1>5. QED BY <1>4 DEF p, q

\* A round trip time in milliseconds.
LEMMA GrossType ==
  ASSUME NEW rtt \in Rtts
  PROVE  GrossDelay(rtt) \in Delays /\ GrossDelay(rtt) \in Nat
  <1>1. rtt \in Nat BY BufferbloatAssumption
  <1>2. QED BY <1>1, DivType DEF GrossDelay, Delays

\* What the counters of a direction are.
LEMMA WindowType ==
  ASSUME NEW r \in Stats
  PROVE  /\ r.tot \in Sums /\ r.until \in Sums
         /\ InWindow(r) \in [count : Int, chances : Int, qd : Int, gross : Int]
         /\ InWindow(r).count = r.tot.count - r.until.count
         /\ InWindow(r).chances = r.tot.chances - r.until.chances
         /\ InWindow(r).qd = r.tot.qd - r.until.qd
         /\ InWindow(r).gross = r.tot.gross - r.until.gross
  <1>1. r.tot \in Sums /\ r.until \in Sums BY DEF Stats
  <1>2. QED BY <1>1 DEF Sums, InWindow

\* The base is at most the gross delay it has just seen, so that no
\* queueing delay is negative; nothing else changes.
SameCounts(r, q) ==
  /\ q.tot = r.tot /\ q.until = r.until
  /\ q.last_window_edge = r.last_window_edge /\ q.last_printed = r.last_printed
  /\ q.last_unwindowed = r.last_unwindowed
  /\ q.not_void_windows = r.not_void_windows

\* A new gross delay changes no count, and its queueing delay lies under
\* it.
LEMMA GrossFacts ==
  ASSUME NEW r \in Stats, NEW g \in Delays, g \in Nat
  PROVE  /\ WithGross(r, g) \in Stats
         /\ SameCounts(r, WithGross(r, g))
         /\ QueueingDelay(WithGross(r, g)) \in 0 .. g
  <1>1. r.delay_base \in Nat BY DEF Stats
  <1>2. WithGross(r, g) \in Stats /\ SameCounts(r, WithGross(r, g)) BY <1>1 DEF Stats, WithGross, SameCounts
  <1>3. /\ WithGross(r, g).cur_gross = g
        /\ WithGross(r, g).delay_base = IF g < r.delay_base \/ r.delay_base = 0
                                        THEN g ELSE r.delay_base
    BY DEF Stats, WithGross
  <1>4. QED BY <1>1, <1>2, <1>3 DEF QueueingDelay

\* A direction whose counters are untouched stays sound.
LEMMA SameSound ==
  ASSUME NEW r, NEW q, SameCounts(r, q)
  PROVE  /\ InWindow(q) = InWindow(r)
         /\ QueueSound(r) <=> QueueSound(q)
         /\ LastCounted(r) <=> LastCounted(q)
         /\ Unused(r) <=> Unused(q)
  <1>1. InWindow(q) = InWindow(r) BY DEF SameCounts, InWindow
  <1>2. QED BY <1>1 DEF SameCounts, QueueSound, LastCounted, Unused

------------------------------
\* A closed window is empty and everything since the start is kept.
LEMMA CloseFacts ==
  ASSUME NEW r \in Stats, QueueSound(r), NEW t \in 1 .. MaxTime
  PROVE  /\ Close(r, t) \in Stats
         /\ InWindow(Close(r, t)) = Zero
         /\ Close(r, t).tot = r.tot
         /\ Close(r, t).until.count <= Close(r, t).until.chances
         /\ Close(r, t).last_window_edge = t
  <1> DEFINE w == InWindow(r)
             u == IF w.count # 0 THEN r.tot
                  ELSE [r.until EXCEPT !.chances = r.tot.chances]
             n == IF w.count # 0 THEN r.not_void_windows + 1 ELSE r.not_void_windows
             q == IF w.count # 0 THEN r.windowed_qd_sum + WindowQd(w)
                  ELSE r.windowed_qd_sum
  <1>1. /\ r.tot \in Sums /\ r.until \in Sums
        /\ w \in [count : Int, chances : Int, qd : Int, gross : Int]
        /\ w.count = r.tot.count - r.until.count
        /\ w.chances = r.tot.chances - r.until.chances
        /\ w.qd = r.tot.qd - r.until.qd /\ w.gross = r.tot.gross - r.until.gross
    BY WindowType
  <1>2. /\ 0 <= w.count /\ w.count <= w.chances /\ 0 <= w.qd
        /\ w.count = 0 => w.qd = 0 /\ w.gross = 0
        /\ r.until.count <= r.until.chances
    BY DEF QueueSound
  <1>3. w.count # 0 => WindowQd(w) \in Nat
    <2>1. w.count \in Nat /\ w.qd \in Nat BY <1>1, <1>2
    <2> HIDE DEF w
    <2>2. QED BY <2>1, DivType DEF WindowQd
  <1> HIDE DEF w
  <1>4. u \in Sums BY <1>1 DEF Sums
  <1>5. n \in Nat /\ q \in Nat BY <1>1, <1>3 DEF Stats
  <1>6. Close(r, t) = [r EXCEPT !.until = u, !.last_window_edge = t,
                                !.not_void_windows = n, !.windowed_qd_sum = q]
    BY DEF Close, w, u, n, q
  <1>7. /\ u.count = r.tot.count /\ u.chances = r.tot.chances
        /\ u.qd = r.tot.qd /\ u.gross = r.tot.gross
    BY <1>1, <1>2 DEF Sums
  <1>8. u.count <= u.chances BY <1>1, <1>2, <1>7 DEF Sums
  <1> HIDE DEF u, n, q
  <1>9. Close(r, t) \in Stats
    <2> DEFINE r1 == [r EXCEPT !.until = u]
               r2 == [r1 EXCEPT !.last_window_edge = t]
               r3 == [r2 EXCEPT !.not_void_windows = n]
               r4 == [r3 EXCEPT !.windowed_qd_sum = q]
    <2>1. t \in 0 .. MaxTime BY BufferbloatAssumption
    <2>2. r1 \in Stats BY <1>4 DEF Stats
    <2> HIDE DEF r1
    <2>3. r2 \in Stats BY <2>1, <2>2 DEF Stats
    <2> HIDE DEF r2
    <2>4. r3 \in Stats BY <1>5, <2>3 DEF Stats
    <2> HIDE DEF r3
    <2>5. r4 \in Stats BY <1>5, <2>4 DEF Stats
    <2>6. Close(r, t) = r4 BY <1>6 DEF r1, r2, r3, Stats
    <2>7. QED BY <2>5, <2>6
  <1>10. /\ Close(r, t).tot = r.tot /\ Close(r, t).until = u
         /\ Close(r, t).last_window_edge = t
    BY <1>6 DEF Stats
  <1>11. InWindow(Close(r, t)) = Zero
    <2>1. InWindow(Close(r, t)) =
            [count |-> r.tot.count - u.count, chances |-> r.tot.chances - u.chances,
             qd |-> r.tot.qd - u.qd, gross |-> r.tot.gross - u.gross]
      BY <1>10 DEF InWindow
    <2>2. /\ r.tot.count - u.count = 0 /\ r.tot.chances - u.chances = 0
          /\ r.tot.qd - u.qd = 0 /\ r.tot.gross - u.gross = 0
      BY <1>1, <1>4, <1>7 DEF Sums
    <2>3. QED BY <2>1, <2>2 DEF Zero
  <1>12. QED BY <1>8, <1>9, <1>10, <1>11

\* An empty window with until in order is sound.
LEMMA EmptySound ==
  ASSUME NEW r, InWindow(r) = Zero, r.until.count <= r.until.chances
  PROVE  QueueSound(r)
  BY DEF QueueSound, Zero

\* What windowed_queueing_delay leaves behind for an ACK of direction d at
\* second t, with s2 for the directions afterwards.
WindowResult(s, d, t) ==
  LET s2 == Windowed(s, d, t)
  IN  /\ s2 \in [Sides -> Stats]
      /\ s2["C2S"].last_window_edge = t /\ s2["S2C"].last_window_edge = t
      /\ s2["C2S"].last_printed = s2["S2C"].last_printed
      /\ s2["C2S"].last_printed # 0 => t = s2["C2S"].last_printed + 1
      /\ \A x \in Sides : QueueSound(s2[x]) /\ s2[x].tot = s[x].tot
      /\ LastCounted(s2[OtherSide(d)])
      /\ \A x \in Sides :
           InWindow(s2[x]) = IF Over(s, t) THEN Zero ELSE InWindow(s[x])

\* A sample of a later second closes the open window and keeps the
\* directions in agreement.
LEMMA WindowedFacts ==
  ASSUME NEW s \in [Sides -> Stats], NEW d \in Sides, NEW t \in 1 .. MaxTime,
         Synced(s, t)
  PROVE  WindowResult(s, d, t)
  <1> DEFINE s2 == Windowed(s, d, t)
  <1>1. /\ \A x \in Sides : s[x] \in Stats /\ QueueSound(s[x]) /\ LastCounted(s[x])
        /\ OtherSide(d) \in Sides /\ OtherSide(d) # d
        /\ "C2S" \in Sides /\ "S2C" \in Sides
    BY DEF Synced, Sides, OtherSide
  <1>2. /\ s[d].last_window_edge = s["C2S"].last_window_edge
        /\ s["S2C"].last_window_edge = s["C2S"].last_window_edge
        /\ s["S2C"].last_printed = s["C2S"].last_printed
        /\ s["C2S"].last_window_edge <= t
        /\ s["C2S"].last_printed # 0 =>
             s["C2S"].last_window_edge = s["C2S"].last_printed + 1
        /\ s["C2S"].last_window_edge = 0 => s["C2S"].last_printed = 0
    BY DEF Synced, Shared, Sides
  <1>3. /\ \A x \in Sides : /\ s[x].last_window_edge \in 0 .. MaxTime
                             /\ s[x].last_printed \in 0 .. MaxTime
                             /\ s[x].last_unwindowed \in Nat
        /\ MaxTime \in Nat
    BY <1>1, BufferbloatAssumption DEF Stats
  <1>4. CASE s["C2S"].last_window_edge = 0
    <2>1. s2 = [x \in Sides |-> [s[x] EXCEPT !.last_window_edge = t]] BY <1>2, <1>4 DEF Windowed
    <2>2. \A x \in Sides :
            /\ s2[x] \in Stats
            /\ s2[x].tot = s[x].tot /\ s2[x].until = s[x].until
            /\ s2[x].last_window_edge = t
            /\ s2[x].last_printed = s[x].last_printed
            /\ s2[x].last_unwindowed = s[x].last_unwindowed
      BY <1>1, <2>1 DEF Stats
    <2>3. s2 \in [Sides -> Stats] BY <2>1, <2>2
    <2>4. \A x \in Sides : /\ InWindow(s2[x]) = InWindow(s[x])
                           /\ QueueSound(s2[x]) /\ LastCounted(s2[x])
      BY <1>1, <2>2 DEF InWindow, QueueSound, LastCounted
    <2>5. ~ Over(s, t) BY <1>4 DEF Over
    <2> HIDE DEF s2
    <2>6. QED BY <1>1, <1>2, <1>4, <2>2, <2>3, <2>4, <2>5 DEF WindowResult, s2
  <1>5. CASE Over(s, t)
    <2>1. s2 = [x \in Sides |->
                  [Close(s[x], t) EXCEPT
                     !.last_printed = t - 1,
                     !.last_unwindowed = IF x = d THEN @ ELSE 0]]
      BY <1>2, <1>5 DEF Windowed, Over
    <2>2. t - 1 \in 0 .. MaxTime BY <1>3
    <2>3. ASSUME NEW x \in Sides
          PROVE  /\ s2[x] \in Stats
                 /\ s2[x].tot = s[x].tot /\ InWindow(s2[x]) = Zero
                 /\ s2[x].last_window_edge = t /\ s2[x].last_printed = t - 1
                 /\ x # d => s2[x].last_unwindowed = 0
                 /\ QueueSound(s2[x])
      <3> DEFINE c == Close(s[x], t)
                 l == IF x = d THEN c.last_unwindowed ELSE 0
      <3>1. /\ c \in Stats /\ InWindow(c) = Zero /\ c.tot = s[x].tot
            /\ c.until.count <= c.until.chances /\ c.last_window_edge = t
        BY <1>1, CloseFacts
      <3>2. s2[x] = [c EXCEPT !.last_printed = t - 1, !.last_unwindowed = l] BY <2>1
      <3> HIDE DEF c
      <3>3. l \in Nat BY <3>1 DEF Stats
      <3>4. /\ s2[x] \in Stats /\ s2[x].tot = c.tot /\ s2[x].until = c.until
            /\ s2[x].last_window_edge = t /\ s2[x].last_printed = t - 1
            /\ s2[x].last_unwindowed = l
        BY <2>2, <3>1, <3>2, <3>3 DEF Stats
      <3>5. InWindow(s2[x]) = Zero BY <3>1, <3>4 DEF InWindow
      <3>6. QED BY <3>1, <3>4, <3>5, EmptySound
    <2>4. s2 \in [Sides -> Stats] BY <2>1, <2>3
    <2>5. LastCounted(s2[OtherSide(d)]) BY <1>1, <2>3 DEF LastCounted
    <2> HIDE DEF s2
    <2>6. QED BY <1>1, <1>3, <1>5, <2>3, <2>4, <2>5 DEF WindowResult, s2
  <1>6. CASE s["C2S"].last_window_edge = t
    <2>1. t # 0 /\ ~ Over(s, t) BY <1>3, <1>6 DEF Over
    <2>2. s2 = s BY <1>2, <1>6, <2>1 DEF Windowed
    <2> HIDE DEF s2
    <2>3. QED BY <1>1, <1>2, <1>6, <2>1, <2>2 DEF WindowResult, s2
  <1>7. QED BY <1>2, <1>3, <1>4, <1>5, <1>6 DEF Over

------------------------------
\* Directions in agreement pass the checks of
\* check_direction_consistency_light.
LEMMA SoundConsistent ==
  ASSUME NEW s \in [Sides -> Stats], NEW t \in 1 .. MaxTime,
         s["C2S"].last_printed = s["S2C"].last_printed,
         s["C2S"].last_window_edge = s["S2C"].last_window_edge,
         s["C2S"].last_window_edge <= t,
         \A x \in Sides : QueueSound(s[x])
  PROVE  Consistent(s, t)
  <1>1. ASSUME NEW d \in Sides
        PROVE  LET r == s[d]
                   w == InWindow(r)
               IN  /\ r.last_window_edge <= t
                   /\ w.gross >= w.qd
                   /\ w.count >= 0 /\ w.chances >= 0
                   /\ r.tot.count <= r.tot.chances
                   /\ r.until.count <= r.until.chances
    <2> DEFINE r == s[d]
               w == InWindow(r)
    <2>1. r \in Stats /\ QueueSound(r) /\ r.last_window_edge <= t BY DEF Sides
    <2>2. /\ r.tot \in Sums /\ r.until \in Sums
          /\ w \in [count : Int, chances : Int, qd : Int, gross : Int]
          /\ w.count = r.tot.count - r.until.count
          /\ w.chances = r.tot.chances - r.until.chances
      BY <2>1, WindowType
    <2>3. /\ 0 <= w.count /\ w.count <= w.chances /\ w.qd <= w.gross
          /\ r.until.count <= r.until.chances
      BY <2>1 DEF QueueSound
    <2> HIDE DEF r, w
    <2>4. QED BY <2>1, <2>2, <2>3 DEF Sums, r, w
  <1>2. QED BY <1>1 DEF Consistent

\* An open window with an ACK in it may be printed and closed.
LEMMA SoundClosable ==
  ASSUME NEW s \in [Sides -> Stats], NEW t \in 1 .. MaxTime,
         Synced(s, t), Over(s, t)
  PROVE  Closable(s, t)
  <1>1. SomeChance(s) BY DEF Synced, Over
  <1>2. ASSUME NEW d \in Sides
        PROVE  LET r == s[d]
                   w == InWindow(r)
               IN  /\ r.last_window_edge > r.last_printed
                   /\ r.last_printed # 0 => r.last_window_edge = r.last_printed + 1
                   /\ t > r.last_window_edge
                   /\ 0 <= w.count /\ w.count <= w.chances
                   /\ w.qd >= 0 /\ r.until.qd >= 0
                   /\ w.count # 0 =>
                        /\ LastCounted(r)
                        /\ w.gross >= w.qd
                        /\ w.gross \div w.count >= WindowQd(w)
                   /\ w.count = 0 => w.qd = 0 /\ w.gross = 0
    <2> DEFINE r == s[d]
               w == InWindow(r)
    <2>1. /\ r \in Stats /\ QueueSound(r) /\ LastCounted(r)
          /\ r.last_window_edge # 0 /\ t > r.last_window_edge
          /\ r.last_printed # 0 => r.last_window_edge = r.last_printed + 1
      BY DEF Synced, Shared, Over, Sides
    <2>2. r.last_window_edge \in Nat /\ r.last_printed \in Nat BY <2>1, BufferbloatAssumption DEF Stats
    <2>3. w \in [count : Int, chances : Int, qd : Int, gross : Int] /\ r.until \in Sums BY <2>1, WindowType
    <2>4. /\ 0 <= w.count /\ w.count <= w.chances /\ 0 <= w.qd /\ w.qd <= w.gross
          /\ w.count = 0 => w.qd = 0 /\ w.gross = 0
      BY <2>1 DEF QueueSound
    <2> HIDE DEF r, w
    <2>5. w.count # 0 => w.gross \div w.count >= WindowQd(w)
      <3> SUFFICES ASSUME w.count # 0 PROVE w.gross \div w.count >= WindowQd(w) OBVIOUS
      <3>1. w.count \in Nat \ {0} /\ w.qd \in Nat /\ w.gross \in Nat BY <2>3, <2>4
      <3>2. w.qd \div w.count <= w.gross \div w.count BY <2>4, <3>1, DivMonotone
      <3>3. w.qd \div w.count \in Nat /\ w.gross \div w.count \in Nat BY <3>1, DivType
      <3>4. QED BY <3>2, <3>3 DEF WindowQd
    <2>6. r.last_window_edge > r.last_printed BY <2>1, <2>2
    <2>7. r.until.qd >= 0 /\ w.qd >= 0 /\ w.gross >= w.qd BY <2>3, <2>4 DEF Sums
    <2>8. QED BY <2>1, <2>4, <2>5, <2>6, <2>7 DEF r, w
  <1>3. QED BY <1>1, <1>2 DEF Closable

\* No check of windowed_queueing_delay fails.
LEMMA WindowChecksHold ==
  ASSUME NEW s \in [Sides -> Stats], NEW d \in Sides, NEW t \in 1 .. MaxTime,
         Synced(s, t)
  PROVE  WindowChecks(s, d, t)
  <1>1. Consistent(s, t) BY SoundConsistent DEF Synced, Shared
  <1> DEFINE s2 == Windowed(s, d, t)
  <1>2. /\ s2 \in [Sides -> Stats] /\ \A x \in Sides : QueueSound(s2[x])
        /\ s2["C2S"].last_window_edge = t /\ s2["S2C"].last_window_edge = t
        /\ s2["C2S"].last_printed = s2["S2C"].last_printed
        /\ Over(s, t) => \A x \in Sides : InWindow(s2[x]) = Zero
    BY WindowedFacts DEF WindowResult
  <1> HIDE DEF s2
  <1>3. Consistent(s2, t) BY <1>2, SoundConsistent
  <1>4. Over(s, t) => Closable(s, t) /\ Closed(s2) BY <1>2, SoundClosable DEF Closed
  <1>5. QED BY <1>1, <1>3, <1>4 DEF WindowChecks, s2

------------------------------
\* One ACK added to an open window.
Tallied(w, k, qd, g) ==
  [count |-> w.count + k, chances |-> w.chances + 1,
   qd |-> w.qd + qd, gross |-> w.gross + g]

\* What an ACK of direction d leaves behind: k is 1 with a sample, qd and
\* g are 0 without.
AckResult(s, s3, d, t, k, qd, g) ==
  /\ s3 \in [Sides -> Stats]
  /\ Synced(s3, t)
  /\ s3["C2S"].last_window_edge = t
  /\ \A x \in Sides :
       LET kept == IF Over(s, t) THEN Zero ELSE InWindow(s[x])
       IN  InWindow(s3[x]) = IF x = d THEN Tallied(kept, k, qd, g) ELSE kept

\* The last sample, with its direction's counters, is all an ACK changes
\* once its window is open.
LEMMA AckFacts ==
  ASSUME NEW s \in [Sides -> Stats], NEW d \in Sides, NEW t \in 1 .. MaxTime,
         WindowResult(s, d, t),
         NEW k \in {0, 1}, NEW g \in Nat, NEW qd \in 0 .. g,
         k = 0 => g = 0,
         NEW q \in Stats,
         q.tot = Tallied(Windowed(s, d, t)[d].tot, k, qd, g),
         q.until = Windowed(s, d, t)[d].until,
         q.last_window_edge = Windowed(s, d, t)[d].last_window_edge,
         q.last_printed = Windowed(s, d, t)[d].last_printed,
         q.last_unwindowed = qd
  PROVE  AckResult(s, [Windowed(s, d, t) EXCEPT ![d] = q], d, t, k, qd, g)
  <1> DEFINE s2 == Windowed(s, d, t)
             s3 == [s2 EXCEPT ![d] = q]
             w == InWindow(s2[d])
  <1>1. /\ s2 \in [Sides -> Stats]
        /\ s2["C2S"].last_window_edge = t /\ s2["S2C"].last_window_edge = t
        /\ s2["C2S"].last_printed = s2["S2C"].last_printed
        /\ s2["C2S"].last_printed # 0 => t = s2["C2S"].last_printed + 1
        /\ \A x \in Sides : QueueSound(s2[x])
        /\ LastCounted(s2[OtherSide(d)])
        /\ \A x \in Sides :
             InWindow(s2[x]) = IF Over(s, t) THEN Zero ELSE InWindow(s[x])
    BY DEF WindowResult
  <1>2. /\ q.tot = Tallied(s2[d].tot, k, qd, g) /\ q.until = s2[d].until
        /\ q.last_window_edge = t
        /\ q.last_printed = s2["C2S"].last_printed
    BY <1>1 DEF Sides
  <1> HIDE DEF s2
  <1>3. /\ s3 \in [Sides -> Stats] /\ s3[d] = q
        /\ \A x \in Sides : x # d => s3[x] = s2[x] /\ x = OtherSide(d)
        /\ "C2S" \in Sides /\ "S2C" \in Sides
    BY <1>1 DEF Sides, OtherSide
  <1>4. /\ w \in [count : Int, chances : Int, qd : Int, gross : Int]
        /\ s2[d].tot \in Sums /\ s2[d].until \in Sums
        /\ w.count = s2[d].tot.count - s2[d].until.count
        /\ w.chances = s2[d].tot.chances - s2[d].until.chances
        /\ w.qd = s2[d].tot.qd - s2[d].until.qd
        /\ w.gross = s2[d].tot.gross - s2[d].until.gross
    BY <1>1, WindowType
  <1>5. /\ 0 <= w.count /\ w.count <= w.chances /\ 0 <= w.qd /\ w.qd <= w.gross
        /\ w.count = 0 => w.qd = 0 /\ w.gross = 0
        /\ s2[d].until.count <= s2[d].until.chances
    BY <1>1 DEF QueueSound
  <1>6. w = InWindow(s2[d]) OBVIOUS
  <1>7. InWindow(q) = Tallied(w, k, qd, g)
    <2>1. /\ q.tot.count = s2[d].tot.count + k
          /\ q.tot.chances = s2[d].tot.chances + 1
          /\ q.tot.qd = s2[d].tot.qd + qd /\ q.tot.gross = s2[d].tot.gross + g
      BY <1>2 DEF Tallied
    <2> HIDE DEF w
    <2>2. /\ q.tot.count - q.until.count = w.count + k
          /\ q.tot.chances - q.until.chances = w.chances + 1
          /\ q.tot.qd - q.until.qd = w.qd + qd
          /\ q.tot.gross - q.until.gross = w.gross + g
      BY <1>2, <1>4, <2>1 DEF Sums
    <2>3. QED BY <2>2 DEF InWindow, Tallied
  <1> HIDE DEF w
  <1>8. /\ InWindow(q).count = w.count + k /\ InWindow(q).chances = w.chances + 1
        /\ InWindow(q).qd = w.qd + qd /\ InWindow(q).gross = w.gross + g
    BY <1>7 DEF Tallied
  <1>9. QueueSound(q) /\ LastCounted(q) /\ InWindow(q).chances > 0
    <2>1. /\ 0 <= w.count + k /\ w.count + k <= w.chances + 1
          /\ 0 <= w.qd + qd /\ w.qd + qd <= w.gross + g
          /\ w.count + k = 0 => w.qd + qd = 0 /\ w.gross + g = 0
          /\ w.qd + qd <= 0 => qd = 0
          /\ w.chances + 1 > 0
      BY <1>4, <1>5
    <2>2. q.until.count <= q.until.chances BY <1>2, <1>5
    <2>3. QED BY <1>8, <2>1, <2>2 DEF QueueSound, LastCounted
  <1> HIDE DEF s3
  <1>10. \A x \in Sides : QueueSound(s3[x]) /\ LastCounted(s3[x]) BY <1>1, <1>3, <1>9
  <1>11. Shared(s3, t)
    <2>1. \A x \in Sides : /\ s3[x].last_window_edge = t
                           /\ s3[x].last_printed = s2["C2S"].last_printed
      BY <1>1, <1>2, <1>3 DEF Sides
    <2>2. t # 0 /\ t <= t BY BufferbloatAssumption
    <2>3. QED BY <1>1, <1>3, <2>1, <2>2 DEF Shared
  <1>12. SomeChance(s3) BY <1>3, <1>9 DEF SomeChance
  <1>13. s3["C2S"].last_window_edge = t BY <1>1, <1>2, <1>3
  <1>14. \A x \in Sides :
           LET kept == IF Over(s, t) THEN Zero ELSE InWindow(s[x])
           IN  InWindow(s3[x]) = IF x = d THEN Tallied(kept, k, qd, g) ELSE kept
    BY <1>1, <1>3, <1>6, <1>7
  <1>15. AckResult(s, s3, d, t, k, qd, g) BY <1>3, <1>10, <1>11, <1>12, <1>13, <1>14 DEF AckResult, Synced
  <1>16. QED BY <1>15 DEF s3, s2

\* chance_is_not_valid.
LEMMA NotValidFacts ==
  ASSUME NEW s \in [Sides -> Stats], NEW d \in Sides, NEW t \in 1 .. MaxTime,
         Synced(s, t)
  PROVE  AckResult(s, NotValid(s, d, t), d, t, 0, 0, 0)
  <1> DEFINE r == Windowed(s, d, t)[d]
             q == Wasted(r)
  <1>1. WindowResult(s, d, t) BY WindowedFacts
  <1>2. Windowed(s, d, t) \in [Sides -> Stats] BY <1>1 DEF WindowResult
  <1>3. r \in Stats BY <1>2
  <1>4. NotValid(s, d, t) = [Windowed(s, d, t) EXCEPT ![d] = q] BY <1>2 DEF NotValid
  <1> HIDE DEF r
  <1>5. r.tot \in Sums BY <1>3 DEF Stats
  <1>6. [r.tot EXCEPT !.chances = @ + 1] = Tallied(r.tot, 0, 0, 0) BY <1>5 DEF Sums, Tallied
  <1>7. Tallied(r.tot, 0, 0, 0) \in Sums BY <1>5 DEF Sums, Tallied
  <1>8. q = [r EXCEPT !.tot = Tallied(r.tot, 0, 0, 0), !.last_unwindowed = 0] BY <1>3, <1>6 DEF Wasted, Stats
  <1> HIDE DEF q
  <1>9. /\ q \in Stats /\ q.tot = Tallied(r.tot, 0, 0, 0) /\ q.until = r.until
        /\ q.last_window_edge = r.last_window_edge
        /\ q.last_printed = r.last_printed /\ q.last_unwindowed = 0
    BY <1>3, <1>7, <1>8 DEF Stats
  <1>10. AckResult(s, [Windowed(s, d, t) EXCEPT ![d] = q], d, t, 0, 0, 0)
    <2>1. 0 \in {0, 1} /\ 0 \in Nat /\ 0 \in 0 .. 0 OBVIOUS
    <2>2. QED BY <1>1, <1>9, <2>1, AckFacts DEF r
  <1>11. QED BY <1>4, <1>10

\* The new gross delay does not touch what the directions agree on.
GrossResult(s, s1, t) ==
  /\ s1 \in [Sides -> Stats] /\ Synced(s1, t)
  /\ Over(s1, t) <=> Over(s, t)
  /\ \A x \in Sides : InWindow(s1[x]) = InWindow(s[x])

\* A new gross delay keeps the directions in agreement.
LEMMA GrossAgreed ==
  ASSUME NEW s \in [Sides -> Stats], NEW d \in Sides, NEW t \in 1 .. MaxTime,
         Synced(s, t), NEW g \in Delays, g \in Nat
  PROVE  GrossResult(s, [s EXCEPT ![d] = WithGross(s[d], g)], t)
  <1> DEFINE s1 == [s EXCEPT ![d] = WithGross(s[d], g)]
             r == WithGross(s[d], g)
  <1>1. r \in Stats /\ SameCounts(s[d], r) BY GrossFacts
  <1> HIDE DEF r
  <1>2. s1 \in [Sides -> Stats] /\ s1 = [s EXCEPT ![d] = r] BY <1>1 DEF r
  <1> HIDE DEF s1
  <1>3. \A x \in Sides : SameCounts(s[x], s1[x]) BY <1>1, <1>2 DEF SameCounts
  <1>4. \A x \in Sides : /\ InWindow(s1[x]) = InWindow(s[x])
                         /\ QueueSound(s[x]) <=> QueueSound(s1[x])
                         /\ LastCounted(s[x]) <=> LastCounted(s1[x])
                         /\ Unused(s[x]) <=> Unused(s1[x])
    BY <1>3, SameSound
  <1>5. \A x \in Sides : /\ s1[x].last_window_edge = s[x].last_window_edge
                         /\ s1[x].last_printed = s[x].last_printed
    BY <1>3 DEF SameCounts
  <1>6. Shared(s1, t) BY <1>4, <1>5 DEF Synced, Shared, Sides
  <1>7. SomeChance(s) <=> SomeChance(s1) BY <1>4 DEF SomeChance
  <1>8. Synced(s1, t) BY <1>4, <1>5, <1>6, <1>7 DEF Synced, Sides
  <1>9. Over(s1, t) <=> Over(s, t) BY <1>5 DEF Over, Sides
  <1>10. GrossResult(s, s1, t) BY <1>2, <1>4, <1>8, <1>9 DEF GrossResult
  <1>11. QED BY <1>10 DEF s1

\* bufferbloat_analysis.
LEMMA AnalysedFacts ==
  ASSUME NEW s \in [Sides -> Stats], NEW d \in Sides, NEW t \in 1 .. MaxTime,
         Synced(s, t), NEW g \in Delays, g \in Nat
  PROVE  AckResult(s, Analysed(s, d, g, t), d, t, 1,
                   QueueingDelay(WithGross(s[d], g)), g)
  <1> DEFINE Q == QueueingDelay(WithGross(s[d], g))
             s1 == [s EXCEPT ![d] = WithGross(s[d], g)]
             r == Windowed(s1, d, t)[d]
             q == Sampled(r, Q, g)
  <1>1. Q \in 0 .. g BY GrossFacts
  <1>2. /\ s1 \in [Sides -> Stats] /\ Synced(s1, t)
        /\ Over(s1, t) <=> Over(s, t)
        /\ \A x \in Sides : InWindow(s1[x]) = InWindow(s[x])
    <2>1. GrossResult(s, s1, t) BY GrossAgreed
    <2> HIDE DEF s1
    <2>2. QED BY <2>1 DEF GrossResult
  <1>3. Analysed(s, d, g, t) = [Windowed(s1, d, t) EXCEPT ![d] = Sampled(@, Q, g)] BY DEF Analysed
  <1> HIDE DEF Q, s1
  <1>4. WindowResult(s1, d, t) BY <1>2, WindowedFacts
  <1>5. Windowed(s1, d, t) \in [Sides -> Stats] BY <1>4 DEF WindowResult
  <1>6. r \in Stats /\ Analysed(s, d, g, t) = [Windowed(s1, d, t) EXCEPT ![d] = q] BY <1>3, <1>5
  <1>7. r = Windowed(s1, d, t)[d] OBVIOUS
  <1> HIDE DEF r
  <1>8. r.tot \in Sums /\ Q \in Nat BY <1>1, <1>6 DEF Stats
  <1>9. Tallied(r.tot, 1, Q, g) \in Sums BY <1>8 DEF Sums, Tallied
  <1>10. q = [r EXCEPT !.tot = Tallied(r.tot, 1, Q, g), !.last_unwindowed = Q]
    BY <1>6 DEF Sampled, Tallied, Stats
  <1> HIDE DEF q
  <1>11. /\ q \in Stats /\ q.tot = Tallied(r.tot, 1, Q, g) /\ q.until = r.until
         /\ q.last_window_edge = r.last_window_edge
         /\ q.last_printed = r.last_printed /\ q.last_unwindowed = Q
    BY <1>6, <1>8, <1>9, <1>10 DEF Stats
  <1>12. AckResult(s1, [Windowed(s1, d, t) EXCEPT ![d] = q], d, t, 1, Q, g)
    <2>1. 1 \in {0, 1} /\ (1 = 0 => g = 0) OBVIOUS
    <2>2. QED BY <1>1, <1>2, <1>4, <1>7, <1>11, <2>1, AckFacts
  <1>13. AckResult(s, [Windowed(s1, d, t) EXCEPT ![d] = q], d, t, 1, Q, g) BY <1>2, <1>12 DEF AckResult
  <1>14. QED BY <1>6, <1>13 DEF Q

\* No check of bufferbloat_analysis fails.
LEMMA AnalysisChecksHold ==
  ASSUME NEW s \in [Sides -> Stats], NEW d \in Sides, NEW t \in 1 .. MaxTime,
         Synced(s, t), NEW g \in Delays, g \in Nat
  PROVE  AnalysisChecks(s, d, g, t)
  <1> DEFINE r  == WithGross(s[d], g)
             s1 == [s EXCEPT ![d] = r]
             s3 == Analysed(s, d, g, t)
  <1>1. Consistent(s, t) BY SoundConsistent DEF Synced, Shared
  <1>2. (\A x \in Sides : s[x].not_void_windows # 0) => SomeChance(s) BY DEF Synced, Shared, Unused, Sides
  <1>3. LastCounted(s[d]) BY DEF Synced
  <1>4. QueueingDelay(r) \in 0 .. g BY GrossFacts
  <1>5. WindowChecks(s1, d, t)
    <2>1. s1 \in [Sides -> Stats] /\ Synced(s1, t) BY GrossAgreed DEF GrossResult
    <2> HIDE DEF s1
    <2>2. QED BY <2>1, WindowChecksHold
  <1>6. AckResult(s, s3, d, t, 1, QueueingDelay(r), g) BY AnalysedFacts
  <1> HIDE DEF r, s3
  <1>7. s3 \in [Sides -> Stats] /\ Synced(s3, t) BY <1>6 DEF AckResult
  <1>8. Consistent(s3, t) BY <1>7, SoundConsistent DEF Synced, Shared
  <1>9. LastCounted(s3[d]) BY <1>7 DEF Synced
  <1>10. InWindow(s3[d]).chances > 0
    <2> DEFINE kept == IF Over(s, t) THEN Zero ELSE InWindow(s[d])
    <2>1. InWindow(s3[d]) = Tallied(kept, 1, QueueingDelay(r), g) BY <1>6 DEF AckResult
    <2>2. kept.chances \in Int /\ kept.chances >= 0
      <3>1. s[d] \in Stats /\ QueueSound(s[d]) BY DEF Synced
      <3>2. /\ InWindow(s[d]) \in [count : Int, chances : Int, qd : Int, gross : Int]
            /\ 0 <= InWindow(s[d]).count /\ InWindow(s[d]).count <= InWindow(s[d]).chances
        BY <3>1, WindowType DEF QueueSound
      <3>3. QED BY <3>2 DEF Zero
    <2> HIDE DEF kept
    <2>3. QED BY <2>1, <2>2 DEF Tallied
  <1>11. QueueingDelay(r) <= g BY <1>4
  <1>12. QED
    BY <1>1, <1>2, <1>3, <1>5, <1>8, <1>9, <1>10, <1>11
    DEF AnalysisChecks, r, s3

------------------------------
\* The log against what happened.  The second of the open window.
Edge(s) == s["C2S"].last_window_edge

\* The lines of a log that ends before second e agree with past.
Printed(rep, past, e) ==
  /\ rep # <<>> => e = rep[1].edge + Len(rep)
  /\ \A i \in 1 .. Len(rep) :
       /\ rep[i].edge = rep[1].edge + i - 1
       /\ rep[i].edge < e
       /\ \A x \in Sides : rep[i].line[x] = Line(past[x][rep[i].edge])

\* The open window holds its second, and nothing has happened later.
Remembered(s, past) ==
  /\ \A x \in Sides : \A sec \in 1 .. MaxTime : sec > Edge(s) => past[x][sec] = Zero
  /\ Edge(s) # 0 => \A x \in Sides : InWindow(s[x]) = past[x][Edge(s)]

Entries == [edge : 1 .. MaxTime, line : [Sides -> Outcomes]]

Reports == Seq(Entries)

Histories == [Sides -> [1 .. MaxTime -> Sums]]

\* A sound window prints a line of the log.
LEMMA LineType ==
  ASSUME NEW r \in Stats, QueueSound(r)
  PROVE  Line(InWindow(r)) \in Outcomes
  <1> DEFINE w == InWindow(r)
  <1>1. /\ w \in [count : Int, chances : Int, qd : Int, gross : Int]
        /\ 0 <= w.count /\ w.count <= w.chances /\ 0 <= w.qd
    BY WindowType DEF QueueSound
  <1> HIDE DEF w
  <1>2. w.count \in Nat /\ w.chances \in Nat /\ w.qd \in Nat BY <1>1
  <1>3. WindowQd(w) \in Nat \cup {-1} BY <1>2, DivType DEF WindowQd
  <1>4. Line(w) \in Outcomes BY <1>2, <1>3 DEF Line, Outcomes
  <1>5. QED BY <1>4 DEF w

\* A second without samples prints a void line.
LEMMA ZeroLine == Line(Zero) \in Outcomes
  BY DEF Line, Zero, WindowQd, Outcomes

\* The lines a later second prints: the open window, then void ones.
LEMMA LinesFacts ==
  ASSUME NEW s \in [Sides -> Stats], NEW t \in 1 .. MaxTime, Synced(s, t),
         Over(s, t)
  PROVE  /\ Lines(s, t) \in Reports
         /\ Len(Lines(s, t)) = t - Edge(s)
         /\ \A i \in 1 .. t - Edge(s) :
              /\ Lines(s, t)[i].edge = Edge(s) + i - 1
              /\ \A x \in Sides :
                   Lines(s, t)[i].line[x] =
                     Line(IF i = 1 THEN InWindow(s[x]) ELSE Zero)
  <1> DEFINE e == Edge(s)
             L(i) == [x \in Sides |-> Line(IF i = 1 THEN InWindow(s[x]) ELSE Zero)]
             rep == [i \in 1 .. t - e |-> [edge |-> e + i - 1, line |-> L(i)]]
  <1>1. \A x \in Sides : /\ s[x] \in Stats /\ QueueSound(s[x])
                         /\ InWindow(Close(s[x], t)) = Zero
    BY CloseFacts DEF Synced
  <1>2. e \in 1 .. MaxTime /\ e < t /\ MaxTime \in Nat
    BY <1>1, BufferbloatAssumption DEF Over, Edge, Stats, Sides
  <1>3. Lines(s, t) =
          [i \in 1 .. t - e |->
             [edge |-> e + i - 1,
              line |-> [x \in Sides |-> Line(IF i = 1 THEN InWindow(s[x])
                                           ELSE InWindow(Close(s[x], t)))]]]
    BY DEF Lines, Edge
  <1>4. Lines(s, t) = rep BY <1>1, <1>3
  <1>5. \A i \in 1 .. t - e : L(i) \in [Sides -> Outcomes] BY <1>1, LineType, ZeroLine
  <1>6. \A i \in 1 .. t - e : \A x \in Sides :
          L(i)[x] = Line(IF i = 1 THEN InWindow(s[x]) ELSE Zero)
    OBVIOUS
  <1> HIDE DEF e, L
  <1>7. rep \in Reports /\ Len(rep) = t - e
    <2>1. \A i \in 1 .. t - e : [edge |-> e + i - 1, line |-> L(i)] \in Entries BY <1>2, <1>5 DEF Entries
    <2>2. t - e \in Nat BY <1>2
    <2>3. QED BY <2>1, <2>2 DEF Reports
  <1>8. \A i \in 1 .. t - e : rep[i].edge = e + i - 1 /\ rep[i].line = L(i) OBVIOUS
  <1> HIDE DEF rep
  <1>9. QED BY <1>4, <1>6, <1>7, <1>8 DEF e

\* The log grows by the lines of the seconds up to the one that opens.
LEMMA PrintedGrows ==
  ASSUME NEW s \in [Sides -> Stats], NEW t \in 1 .. MaxTime, Synced(s, t),
         NEW rep \in Reports, NEW past \in Histories,
         Printed(rep, past, Edge(s)), Remembered(s, past)
  PROVE  /\ rep \o Lines(s, t) \in Reports
         /\ Printed(rep \o Lines(s, t), past, t)
  <1> DEFINE e == Edge(s)
             new == Lines(s, t)
             all == rep \o new
  <1>1. e \in 0 .. MaxTime /\ e <= t /\ MaxTime \in Nat
    BY BufferbloatAssumption DEF Edge, Synced, Shared, Stats, Sides
  <1>2. \A i \in 1 .. Len(rep) : rep[i].edge \in 1 .. MaxTime
    <2>1. \A i \in 1 .. Len(rep) : rep[i] \in Entries BY DEF Reports
    <2>2. QED BY <2>1 DEF Entries
  <1>3. CASE Over(s, t)
    <2>1. /\ new \in Reports /\ Len(new) = t - e
          /\ \A i \in 1 .. t - e :
               /\ new[i].edge = e + i - 1
               /\ \A x \in Sides :
                    new[i].line[x] = Line(IF i = 1 THEN InWindow(s[x]) ELSE Zero)
      BY <1>3, LinesFacts
    <2>2. e # 0 /\ e < t BY <1>3 DEF Over, Edge
    <2>3. /\ rep # <<>> => e = rep[1].edge + Len(rep)
          /\ \A i \in 1 .. Len(rep) :
               /\ rep[i].edge = rep[1].edge + i - 1
               /\ rep[i].edge < e
               /\ \A x \in Sides : rep[i].line[x] = Line(past[x][rep[i].edge])
      BY DEF Printed
    <2>4. \A i \in 1 .. t - e : \A x \in Sides : new[i].line[x] = Line(past[x][new[i].edge])
      <3>1. TAKE i \in 1 .. t - e
      <3> TAKE x \in Sides
      <3>2. e + i - 1 \in 1 .. MaxTime BY <1>1, <2>2
      <3>3. i = 1 => InWindow(s[x]) = past[x][e + i - 1] BY <1>1, <2>2 DEF Remembered
      <3>4. i # 1 => past[x][e + i - 1] = Zero BY <1>1, <3>2 DEF Remembered
      <3>5. QED BY <2>1, <3>3, <3>4
    <2> HIDE DEF e, new
    <2>5. /\ all \in Reports /\ Len(all) = Len(rep) + (t - e)
          /\ \A i \in 1 .. Len(all) : all[i] \in Entries
      <3>1. rep \in Seq(Entries) /\ new \in Seq(Entries) BY <2>1 DEF Reports
      <3>2. all \in Seq(Entries) /\ Len(all) = Len(rep) + Len(new) BY <3>1
      <3>3. \A i \in 1 .. Len(all) : all[i] \in Entries BY <3>2
      <3>4. QED BY <2>1, <3>2, <3>3 DEF Reports
    <2>6. /\ \A i \in 1 .. Len(rep) : all[i] = rep[i]
          /\ \A i \in Len(rep) + 1 .. Len(all) :
               all[i] = new[i - Len(rep)] /\ i - Len(rep) \in 1 .. t - e
      BY <1>1, <2>1, <2>2 DEF Reports
    <2>7. Len(rep) \in Nat /\ (rep # <<>> => Len(rep) >= 1) BY DEF Reports
    <2>8. all # <<>> /\ all[1].edge + Len(rep) = e
      <3>1. CASE rep = <<>>
        <4>1. Len(rep) = 0 /\ all[1] = new[1] /\ 1 \in 1 .. t - e BY <1>1, <2>2, <2>5, <2>6, <3>1
        <4>2. QED BY <1>1, <2>1, <2>2, <2>5, <4>1
      <3>2. CASE rep # <<>>
        <4>1. all[1] = rep[1] /\ rep[1].edge \in Int BY <1>2, <2>6, <2>7, <3>2
        <4>2. QED BY <1>1, <2>2, <2>3, <2>5, <2>7, <3>2, <4>1
      <3>3. QED BY <3>1, <3>2
    <2> HIDE DEF all
    <2>9. Len(all) >= 1 /\ all[1].edge \in Int
      <3>1. Len(all) >= 1 /\ Len(all) \in Nat BY <1>1, <2>2, <2>5, <2>7
      <3>2. all[1] \in Entries BY <2>5, <3>1
      <3>3. QED BY <3>1, <3>2 DEF Entries
    <2>10. ASSUME NEW i \in 1 .. Len(all)
           PROVE  /\ all[i].edge = all[1].edge + i - 1
                  /\ all[i].edge < t
                  /\ \A x \in Sides : all[i].line[x] = Line(past[x][all[i].edge])
      <3>1. CASE i \in 1 .. Len(rep)
        <4>1. rep # <<>> /\ 1 \in 1 .. Len(rep) BY <3>1
        <4>2. all[i] = rep[i] /\ all[1] = rep[1] BY <2>6, <3>1, <4>1
        <4>3. QED BY <1>1, <1>2, <2>2, <2>3, <3>1, <4>2
      <3>2. CASE i \in Len(rep) + 1 .. Len(all)
        <4> DEFINE j == i - Len(rep)
        <4>1. all[i] = new[j] /\ j \in 1 .. t - e BY <2>6, <3>2
        <4>2. new[j].edge = e + j - 1 BY <2>1, <4>1
        <4>3. i = j + Len(rep) /\ j \in Nat BY <2>7, <3>2
        <4>4. all[i].edge = all[1].edge + i - 1 /\ all[i].edge < t
          <5>1. all[i].edge = e + j - 1 BY <4>1, <4>2
          <5>2. /\ e \in Int /\ t \in Int /\ all[1].edge \in Int /\ Len(rep) \in Int
                /\ i \in Int /\ j \in Int
            BY <1>1, <2>7, <2>9, <4>3
          <5>3. j <= t - e BY <4>1, <5>2
          <5> HIDE DEF j
          <5>4. QED BY <2>8, <4>3, <5>1, <5>2, <5>3
        <4>5. \A x \in Sides : new[j].line[x] = Line(past[x][new[j].edge]) BY <2>4, <4>1
        <4>6. QED BY <4>1, <4>4, <4>5
      <3>3. QED BY <2>7, <3>1, <3>2
    <2>11. t = all[1].edge + Len(all)
      <3>1. Len(new) = t - e BY <2>1
      <3>2. Len(all) = Len(rep) + (t - e) BY <2>5, <3>1
      <3>3. e \in Int /\ t \in Int /\ Len(rep) \in Int /\ all[1].edge \in Int BY <1>1, <2>7, <2>9
      <3> QED BY <2>8, <3>2, <3>3
    <2>12. Printed(all, past, t) BY <2>10, <2>11 DEF Printed
    <2>13. QED BY <2>5, <2>12 DEF all, new
  <1>4. CASE ~ Over(s, t)
    <2>1. e = 0 \/ e = t BY <1>1, <1>4 DEF Over, Edge
    <2>2. all = rep BY <1>4 DEF Lines, Reports
    <2>3. e = 0 => rep = <<>> BY <1>2 DEF Printed, Reports
    <2>4. Printed(rep, past, t) BY <2>1, <2>3 DEF Printed
    <2>5. QED BY <2>2, <2>4
  <1>5. QED BY <1>3, <1>4

------------------------------
\* A log and a history that agree with the directions.
Kept(rep, past, s) ==
  /\ rep \in Reports /\ past \in Histories
  /\ Printed(rep, past, Edge(s))
  /\ Remembered(s, past)

\* One ACK of direction d at second t, with everything it changes: the
\* invariant of the directions, of the log and of what happened.
LEMMA AckKeeps ==
  ASSUME NEW s \in [Sides -> Stats], NEW d \in Sides, NEW t \in 1 .. MaxTime,
         Synced(s, t),
         NEW rep \in Reports, NEW past \in Histories,
         Printed(rep, past, Edge(s)), Remembered(s, past),
         NEW k \in {0, 1}, NEW g \in Nat, NEW qd \in 0 .. g,
         NEW s3, AckResult(s, s3, d, t, k, qd, g)
  PROVE  Kept(rep \o Lines(s, t),
              [past EXCEPT ![d][t] = Tallied(past[d][t], k, qd, g)], s3)
  <1> DEFINE h3 == [past EXCEPT ![d][t] = Tallied(past[d][t], k, qd, g)]
             all == rep \o Lines(s, t)
             e == Edge(s)
             c == Tallied(past[d][t], k, qd, g)
  <1>1. c \in Sums
    <2>1. past[d][t] \in Sums BY DEF Histories
    <2>2. QED BY <2>1 DEF Sums, Tallied
  <1>2. /\ h3 \in Histories
        /\ \A x \in Sides : \A sec \in 1 .. MaxTime :
             h3[x][sec] = IF x = d /\ sec = t THEN c ELSE past[x][sec]
    <2> HIDE DEF c
    <2>1. h3 = [past EXCEPT ![d][t] = c] BY DEF c
    <2>2. QED BY <1>1, <2>1 DEF Histories
  <1> HIDE DEF h3
  <1>3. Edge(s3) = t /\ e \in 0 .. MaxTime /\ e <= t /\ MaxTime \in Nat
    BY BufferbloatAssumption
    DEF AckResult, Edge, Synced, Shared, Stats, Sides
  <1>4. all \in Reports /\ Printed(all, past, t) BY PrintedGrows
  <1> HIDE DEF all
  <1>5. Printed(all, h3, t)
    <2>1. \A i \in 1 .. Len(all) : all[i].edge \in 1 .. MaxTime
      <3>1. \A i \in 1 .. Len(all) : all[i] \in Entries BY <1>4 DEF Reports
      <3>2. QED BY <3>1 DEF Entries
    <2>2. \A i \in 1 .. Len(all) : \A x \in Sides :
            h3[x][all[i].edge] = past[x][all[i].edge]
      <3>1. TAKE i \in 1 .. Len(all)
      <3> TAKE x \in Sides
      <3>2. all[i].edge < t BY <1>4 DEF Printed
      <3>3. all[i].edge \in 1 .. MaxTime BY <2>1
      <3> DEFINE sec == all[i].edge
      <3> HIDE DEF sec
      <3>4. sec \in 1 .. MaxTime /\ sec # t BY <3>2, <3>3 DEF sec
      <3>5. h3[x][sec] = past[x][sec] BY <1>2, <3>4
      <3>6. QED BY <3>5 DEF sec
    <2>3. QED BY <1>4, <2>2 DEF Printed
  <1>6. ASSUME NEW x \in Sides
        PROVE  InWindow(s3[x]) = h3[x][t]
    <2> DEFINE kept == IF Over(s, t) THEN Zero ELSE InWindow(s[x])
    <2>1. InWindow(s3[x]) = IF x = d THEN Tallied(kept, k, qd, g) ELSE kept BY DEF AckResult
    <2>2. kept = past[x][t]
      <3>1. CASE e = 0
        <4>1. s[x].tot = Zero /\ s[x].until = Zero /\ ~ Over(s, t)
          BY <3>1 DEF Synced, Shared, Unused, Edge, Over, Sides
        <4>2. InWindow(s[x]) = Zero BY <4>1 DEF InWindow, Zero
        <4>3. past[x][t] = Zero BY <1>3, <3>1 DEF Remembered
        <4>4. QED BY <4>1, <4>2, <4>3
      <3>2. CASE e = t
        <4>1. ~ Over(s, t) /\ e # 0 BY <1>3, <3>2 DEF Over, Edge
        <4>2. InWindow(s[x]) = past[x][t] BY <3>2, <4>1 DEF Remembered
        <4>3. QED BY <4>1, <4>2
      <3>3. CASE e # 0 /\ e < t
        <4>1. Over(s, t) BY <3>3 DEF Over, Edge
        <4>2. past[x][t] = Zero BY <1>3, <3>3 DEF Remembered
        <4>3. QED BY <4>1, <4>2
      <3>4. QED BY <1>3, <3>1, <3>2, <3>3
    <2> HIDE DEF kept
    <2>3. QED BY <1>2, <2>1, <2>2
  <1>7. Remembered(s3, h3)
    <2>1. ASSUME NEW x \in Sides, NEW sec \in 1 .. MaxTime, sec > t
          PROVE  h3[x][sec] = Zero
      <3>1. past[x][sec] = Zero BY <1>3, <2>1 DEF Remembered
      <3>2. QED BY <1>2, <2>1, <3>1
    <2>2. QED BY <1>3, <1>6, <2>1 DEF Remembered
  <1>8. QED
    <2>1. Kept(all, h3, s3) BY <1>2, <1>3, <1>4, <1>5, <1>7 DEF Kept
    <2>2. QED BY <2>1 DEF h3, all

------------------------------
IInv ==
  /\ TypeOK
  /\ ChecksHold
  /\ Synced(stat, now)
  /\ Printed(report, hist, Edge(stat))
  /\ Remembered(stat, hist)

\* The type invariant over named sets.
LEMMA TypeSets ==
  TypeOK <=>
    /\ now \in 1 .. MaxTime /\ stat \in [Sides -> Stats] /\ report \in Reports
    /\ stopped \in {"no", "stamp", "chances", "check"}
    /\ acks \in 0 .. MaxAcks /\ hist \in Histories
    /\ low \in [Sides -> Nat \cup {-1}]
  BY DEF TypeOK, Reports, Entries, Histories

\* The directions still agree at a later second.
LEMMA AgreedLater ==
  ASSUME NEW s \in [Sides -> Stats], NEW t1 \in Int, NEW t2 \in Int,
         t1 <= t2, Synced(s, t1)
  PROVE  Synced(s, t2)
  <1>1. s["C2S"].last_window_edge \in Int BY DEF Stats, Sides
  <1>2. QED BY <1>1 DEF Synced, Shared

\* The inductive invariant holds at the start.
LEMMA InitIInv == Init => IInv
  <1> SUFFICES ASSUME Init PROVE IInv OBVIOUS
  <1>1. Zero \in Sums /\ 0 \in Delays /\ 0 \in 0 .. MaxTime BY BufferbloatAssumption DEF Zero, Sums, Delays
  <1>2. Fresh \in Stats BY <1>1 DEF Fresh, Stats
  <1>3. \A x \in Sides :
          /\ stat[x].last_window_edge = 0 /\ stat[x].last_printed = 0
          /\ stat[x].tot = Zero /\ stat[x].until = Zero
          /\ stat[x].last_unwindowed = 0 /\ stat[x].not_void_windows = 0
    BY DEF Init, Fresh
  <1>4. TypeOK
    <2>1. /\ now \in 1 .. MaxTime /\ stat \in [Sides -> Stats]
          /\ stopped \in {"no", "stamp", "chances", "check"}
          /\ acks \in 0 .. MaxAcks
      BY <1>2, BufferbloatAssumption DEF Init
    <2>2. report \in Reports /\ hist \in Histories /\ low \in [Sides -> Nat \cup {-1}]
      BY <1>1 DEF Init, Reports, Histories
    <2>3. QED BY <2>1, <2>2, TypeSets
  <1>5. \A x \in Sides : InWindow(stat[x]) = Zero BY <1>3 DEF InWindow, Zero
  <1>6. \A x \in Sides : QueueSound(stat[x]) /\ LastCounted(stat[x]) /\ Unused(stat[x])
    BY <1>3, <1>5, EmptySound DEF LastCounted, Unused, Zero
  <1>7. Synced(stat, now)
    <2>1. 0 <= now BY DEF Init
    <2>2. QED BY <1>3, <1>6, <2>1 DEF Synced, Shared, Sides
  <1>8. Printed(report, hist, Edge(stat)) BY DEF Init, Printed
  <1>9. Remembered(stat, hist) BY <1>3 DEF Init, Remembered, Edge, Sides
  <1>10. QED BY <1>4, <1>7, <1>8, <1>9 DEF IInv, ChecksHold, Init

\* An ACK that ends the program only moves the clock on.
LEMMA ExitKeeps ==
  ASSUME IInv, NEW t \in now .. MaxTime,
         NEW why \in {"stamp", "chances"}, Arrives(t, why), Exit
  PROVE  IInv'
  <1>1. /\ now \in 1 .. MaxTime /\ stat \in [Sides -> Stats] /\ report \in Reports
        /\ acks \in 0 .. MaxAcks /\ hist \in Histories
        /\ low \in [Sides -> Nat \cup {-1}] /\ MaxTime \in Nat /\ MaxAcks \in Nat
    BY TypeSets, BufferbloatAssumption DEF IInv
  <1>2. /\ now' = t /\ acks' = acks + 1 /\ stopped' = why
        /\ stat' = stat /\ report' = report /\ hist' = hist /\ low' = low
        /\ acks < MaxAcks
    BY DEF Arrives, Exit
  <1>3. t \in 1 .. MaxTime /\ now <= t /\ acks' \in 0 .. MaxAcks
    <2>1. now \in Int /\ MaxTime \in Int /\ 1 <= now BY <1>1
    <2>2. t \in now .. MaxTime OBVIOUS
    <2>3. t \in 1 .. MaxTime /\ now <= t BY <2>1, <2>2
    <2>4. acks' \in 0 .. MaxAcks BY <1>1, <1>2
    <2>5. QED BY <2>3, <2>4
  <1>4. TypeOK' BY <1>1, <1>2, <1>3 DEF TypeOK, Reports, Entries, Histories
  <1>5. Synced(stat, t) BY <1>1, <1>3, AgreedLater DEF IInv
  <1>6. Synced(stat', now') BY <1>2, <1>5
  <1>7. Printed(report', hist', Edge(stat')) /\ Remembered(stat', hist') BY <1>2 DEF IInv
  <1>8. QED BY <1>2, <1>4, <1>6, <1>7 DEF IInv, ChecksHold

\* An ACK that is handled, with k, qd and g as in AckResult.
LEMMA HandledKeeps ==
  ASSUME IInv, NEW d \in Sides, NEW t \in now .. MaxTime,
         NEW k \in {0, 1}, NEW g \in Nat, NEW qd \in 0 .. g,
         Arrives(t, "no"), AckResult(stat, stat', d, t, k, qd, g),
         report' = report \o Lines(stat, t),
         hist' = [hist EXCEPT ![d][t] = Tallied(hist[d][t], k, qd, g)],
         low' \in [Sides -> Nat \cup {-1}]
  PROVE  IInv'
  <1>1. /\ now \in 1 .. MaxTime /\ stat \in [Sides -> Stats] /\ report \in Reports
        /\ acks \in 0 .. MaxAcks /\ hist \in Histories
        /\ MaxTime \in Nat /\ MaxAcks \in Nat
    BY TypeSets, BufferbloatAssumption DEF IInv
  <1>2. /\ now' = t /\ acks' = acks + 1 /\ stopped' = "no" /\ acks < MaxAcks BY DEF Arrives
  <1>3. t \in 1 .. MaxTime /\ acks' \in 0 .. MaxAcks /\ now <= t BY <1>1, <1>2
  <1>4. Synced(stat, t) BY <1>1, <1>3, AgreedLater DEF IInv
  <1>5. /\ hist' \in Histories /\ report' \in Reports
        /\ Printed(report', hist', Edge(stat')) /\ Remembered(stat', hist')
    <2>1. Printed(report, hist, Edge(stat)) /\ Remembered(stat, hist) BY DEF IInv
    <2>2. Kept(report \o Lines(stat, t),
               [hist EXCEPT ![d][t] = Tallied(hist[d][t], k, qd, g)], stat')
      BY <1>1, <1>3, <1>4, <2>1, AckKeeps
    <2>3. Kept(report', hist', stat') BY <2>2
    <2>4. QED BY <2>3 DEF Kept
  <1>6. stat' \in [Sides -> Stats] /\ Synced(stat', now') BY <1>2 DEF AckResult
  <1>7. TypeOK' BY <1>2, <1>3, <1>5, <1>6 DEF TypeOK, Reports, Entries, Histories
  <1>8. QED BY <1>2, <1>5, <1>6, <1>7 DEF IInv, ChecksHold

\* Every step keeps the inductive invariant.
LEMMA NextIInv == IInv /\ [Next]_vars => IInv'
  <1> SUFFICES ASSUME IInv, [Next]_vars PROVE IInv' OBVIOUS
  <1>1. /\ now \in 1 .. MaxTime /\ stat \in [Sides -> Stats] /\ hist \in Histories
        /\ low \in [Sides -> Nat \cup {-1}] /\ MaxTime \in Nat
    BY TypeSets, BufferbloatAssumption DEF IInv
  <1>2. ASSUME NEW d \in Sides, NEW t \in now .. MaxTime
        PROVE  t \in 1 .. MaxTime /\ Synced(stat, t)
    <2>1. t \in 1 .. MaxTime /\ now <= t BY <1>1
    <2>2. QED BY <1>1, <2>1, AgreedLater DEF IInv
  <1>3. ASSUME NEW d \in Sides, NEW t \in now .. MaxTime, NEW rtt \in Rtts,
               Sample(d, rtt, t)
        PROVE  IInv'
    <2> DEFINE g == GrossDelay(rtt)
               q == QueueingDelay(WithGross(stat[d], g))
               ends == SampleEnds(d, rtt, t)
    <2>1. g \in Delays /\ g \in Nat BY GrossType
    <2>2. /\ Arrives(t, ends)
          /\ ends = "no" =>
               /\ stat' = Analysed(stat, d, g, t)
               /\ report' = report \o Lines(stat, t)
               /\ hist' = [hist EXCEPT ![d][t] = Tallied(@, 1, q, g)]
               /\ low' = [low EXCEPT ![d] = IF @ = -1 \/ g < @ THEN g ELSE @]
          /\ ends # "no" => Exit
      BY <1>3 DEF Sample, Tallied
    <2> HIDE DEF g
    <2>3. q \in 0 .. g BY <1>1, <2>1, GrossFacts
    <2>4. ends \in {"stamp", "chances", "no"} BY <1>1, <1>2, <2>1, AnalysisChecksHold DEF SampleEnds, g
    <2>5. AckResult(stat, Analysed(stat, d, g, t), d, t, 1, q, g) BY <1>1, <1>2, <2>1, AnalysedFacts
    <2> HIDE DEF q, ends
    <2>6. CASE ends = "no"
      <3>1. low' \in [Sides -> Nat \cup {-1}] BY <1>1, <2>1, <2>2, <2>6
      <3>2. AckResult(stat, stat', d, t, 1, q, g) /\ Arrives(t, "no") BY <2>2, <2>5, <2>6
      <3>3. hist' = [hist EXCEPT ![d][t] = Tallied(hist[d][t], 1, q, g)]
        BY <1>1, <1>2, <2>2, <2>6 DEF Histories
      <3>4. 1 \in {0, 1} /\ report' = report \o Lines(stat, t) BY <2>2, <2>6
      <3>5. QED BY <2>1, <2>3, <3>1, <3>2, <3>3, <3>4, HandledKeeps
    <2>7. CASE ends # "no" BY <2>2, <2>4, <2>7, ExitKeeps
    <2>8. QED BY <2>6, <2>7
  <1>4. ASSUME NEW d \in Sides, NEW t \in now .. MaxTime, Chance(d, t)
        PROVE  IInv'
    <2> DEFINE ends == ChanceEnds(d, t)
    <2>1. /\ Arrives(t, ends)
          /\ ends = "no" =>
               /\ stat' = NotValid(stat, d, t)
               /\ report' = report \o Lines(stat, t)
               /\ hist' = [hist EXCEPT ![d][t].chances = @ + 1]
               /\ low' = low
          /\ ends # "no" => Exit
      BY <1>4 DEF Chance
    <2>2. ends \in {"chances", "no"} BY <1>1, <1>2, WindowChecksHold DEF ChanceEnds
    <2>3. AckResult(stat, NotValid(stat, d, t), d, t, 0, 0, 0) BY <1>1, <1>2, NotValidFacts
    <2> HIDE DEF ends
    <2>4. CASE ends = "no"
      <3>1. low' \in [Sides -> Nat \cup {-1}] BY <1>1, <2>1, <2>4
      <3>2. AckResult(stat, stat', d, t, 0, 0, 0) /\ Arrives(t, "no") BY <2>1, <2>3, <2>4
      <3>3. hist' = [hist EXCEPT ![d][t] = Tallied(hist[d][t], 0, 0, 0)]
        <4>1. t \in 1 .. MaxTime BY <1>2
        <4>2. hist[d][t] \in Sums BY <1>1, <4>1 DEF Histories
        <4>3. [hist[d][t] EXCEPT !.chances = @ + 1] = Tallied(hist[d][t], 0, 0, 0) BY <4>2 DEF Sums, Tallied
        <4>4. hist' = [hist EXCEPT ![d][t] = [hist[d][t] EXCEPT !.chances = @ + 1]]
          BY <1>1, <2>1, <2>4, <4>1 DEF Histories
        <4>5. QED BY <4>3, <4>4
      <3>4. /\ 0 \in {0, 1} /\ 0 \in Nat /\ 0 \in 0 .. 0
            /\ report' = report \o Lines(stat, t)
        BY <2>1, <2>4
      <3>5. QED BY <3>1, <3>2, <3>3, <3>4, HandledKeeps
    <2>5. CASE ends # "no" BY <2>1, <2>2, <2>5, ExitKeeps
    <2>6. QED BY <2>4, <2>5
  <1>5. CASE UNCHANGED vars BY <1>5 DEF vars, IInv, TypeOK, ChecksHold, Reports
  <1>6. QED BY <1>3, <1>4, <1>5 DEF Next

\* The invariant above is inductive.
THEOREM Correct == Spec => []IInv
  BY InitIInv, NextIInv, PTL DEF Spec

\* Type correctness: no counter is ever negative, and a printed average is
\* a number or BUFFEBLOAT_NOSAMPLES.
THEOREM TypeCorrect == Spec => []TypeOK
  <1>1. IInv => TypeOK BY DEF IInv
  <1>2. QED BY Correct, <1>1, PTL

\* None of the checks of the SEVERE_DEBUG build can end the program.
THEOREM ChecksNeverFail == Spec => []ChecksHold
  <1>1. IInv => ChecksHold BY DEF IInv
  <1>2. QED BY Correct, <1>1, PTL

\* The windowed log misses no second and repeats none.
THEOREM SecondsTiled == Spec => []WindowsTile
  <1>1. IInv => WindowsTile
    <2> SUFFICES ASSUME IInv PROVE WindowsTile OBVIOUS
    <2>1. \A d \in Sides : stat[d].last_window_edge = Edge(stat) BY DEF IInv, Synced, Shared, Edge, Sides
    <2>2. QED BY <2>1 DEF IInv, Printed, WindowsTile
  <1>2. QED BY Correct, <1>1, PTL

\* Every line of the windowed log says what happened in its second.
THEOREM SecondsReported == Spec => []WindowsReportTheirSecond
  <1>1. IInv => WindowsReportTheirSecond BY DEF IInv, Printed, WindowsReportTheirSecond
  <1>2. QED BY Correct, <1>1, PTL

------------------------------
\* The base delay.  It is 0 until a direction has a delay; windows that
\* close and chances that are wasted leave it alone.
Based == \A d \in Sides : /\ low[d] = -1 => stat[d].delay_base = 0
                          /\ low[d] > 0 => stat[d].delay_base = low[d]

\* The windows leave the least delay alone.
LEMMA WindowedBase ==
  ASSUME NEW s \in [Sides -> Stats], NEW d \in Sides, NEW t, NEW x \in Sides
  PROVE  Windowed(s, d, t)[x].delay_base = s[x].delay_base
  <1>1. Close(s[x], t).delay_base = s[x].delay_base BY DEF Close, Stats
  <1>2. CASE s[d].last_window_edge = 0 BY <1>2 DEF Windowed, Stats
  <1>3. CASE s[d].last_window_edge # 0 /\ Over(s, t)
    <2>1. Windowed(s, d, t)[x] =
            [Close(s[x], t) EXCEPT !.last_printed = t - 1,
                                   !.last_unwindowed = IF x = d THEN @ ELSE 0]
      BY <1>3 DEF Windowed
    <2> HIDE DEF Close
    <2>2. QED BY <1>1, <2>1
  <1>4. CASE s[d].last_window_edge # 0 /\ ~ Over(s, t) BY <1>4 DEF Windowed
  <1>5. QED BY <1>2, <1>3, <1>4

\* A sample lowers the least delay of its own direction only.
LEMMA AnalysedBase ==
  ASSUME NEW s \in [Sides -> Stats], NEW d \in Sides, NEW t \in 1 .. MaxTime,
         Synced(s, t), NEW g \in Delays, g \in Nat, NEW x \in Sides
  PROVE  Analysed(s, d, g, t)[x].delay_base =
           IF x = d /\ (g < s[d].delay_base \/ s[d].delay_base = 0)
           THEN g ELSE s[x].delay_base
  <1> DEFINE r == WithGross(s[d], g)
             s1 == [s EXCEPT ![d] = r]
             s2 == Windowed(s1, d, t)
  <1>1. r \in Stats /\ r.delay_base = IF g < s[d].delay_base \/ s[d].delay_base = 0
                                      THEN g ELSE s[d].delay_base
    BY GrossFacts DEF WithGross, Stats
  <1> HIDE DEF r
  <1>2. s1 \in [Sides -> Stats] /\ s1[x].delay_base = IF x = d THEN r.delay_base
                                                     ELSE s[x].delay_base
    BY <1>1
  <1>3. s2[x].delay_base = s1[x].delay_base BY <1>2, WindowedBase
  <1>4. Analysed(s, d, g, t) = [s2 EXCEPT ![d] = Sampled(@, QueueingDelay(r), g)] BY DEF Analysed, r
  <1> DEFINE q == Sampled(s2[d], QueueingDelay(r), g)
  <1>5. DOMAIN s2 = Sides
    <2>1. Synced(s1, t) BY GrossAgreed DEF GrossResult, r
    <2>2. s2 \in [Sides -> Stats] BY <1>2, <2>1, WindowedFacts DEF WindowResult
    <2>3. QED BY <2>2
  <1>6. q.delay_base = s2[d].delay_base BY DEF Sampled
  <1> HIDE DEF s2, q
  <1>7. Analysed(s, d, g, t)[x] = IF x = d THEN q ELSE s2[x] BY <1>4, <1>5 DEF q
  <1>8. QED BY <1>1, <1>2, <1>3, <1>6, <1>7

\* Every step keeps the least delay the least of the samples.
LEMMA BasedStep == IInv /\ Based /\ [Next]_vars => Based'
  <1> SUFFICES ASSUME IInv, Based, [Next]_vars PROVE Based' OBVIOUS
  <1>1. /\ now \in 1 .. MaxTime /\ stat \in [Sides -> Stats]
        /\ low \in [Sides -> Nat \cup {-1}] /\ MaxTime \in Nat
    BY TypeSets, BufferbloatAssumption DEF IInv
  <1>2. ASSUME NEW d \in Sides, NEW t \in now .. MaxTime
        PROVE  t \in 1 .. MaxTime /\ Synced(stat, t)
    <2>1. t \in 1 .. MaxTime /\ now <= t BY <1>1
    <2>2. QED BY <1>1, <2>1, AgreedLater DEF IInv
  <1>3. \A x \in Sides : stat[x].delay_base \in Nat BY <1>1 DEF Stats
  <1>4. CASE UNCHANGED <<stat, low>> BY <1>4 DEF Based
  <1>5. ASSUME NEW d \in Sides, NEW t \in now .. MaxTime, NEW rtt \in Rtts,
               Sample(d, rtt, t)
        PROVE  Based'
    <2> DEFINE g == GrossDelay(rtt)
    <2>1. g \in Delays /\ g \in Nat BY GrossType
    <2>2. \/ UNCHANGED <<stat, low>>
          \/ /\ stat' = Analysed(stat, d, g, t)
             /\ low' = [low EXCEPT ![d] = IF @ = -1 \/ g < @ THEN g ELSE @]
      BY <1>5 DEF Sample, Exit
    <2> HIDE DEF g
    <2>3. ASSUME stat' = Analysed(stat, d, g, t), NEW x \in Sides,
                 low' = [low EXCEPT ![d] = IF @ = -1 \/ g < @ THEN g ELSE @]
          PROVE  /\ low'[x] = -1 => stat'[x].delay_base = 0
                 /\ low'[x] > 0 => stat'[x].delay_base = low'[x]
      <3>1. stat'[x].delay_base =
              IF x = d /\ (g < stat[d].delay_base \/ stat[d].delay_base = 0)
              THEN g ELSE stat[x].delay_base
        BY <1>1, <1>2, <2>1, <2>3, AnalysedBase
      <3>2. /\ low[x] = -1 => stat[x].delay_base = 0
            /\ low[x] > 0 => stat[x].delay_base = low[x]
            /\ low[x] \in Nat \cup {-1}
        BY <1>1 DEF Based
      <3>3. CASE x # d BY <1>1, <2>3, <3>1, <3>2, <3>3
      <3>4. CASE x = d
        <4>1. low'[x] = IF low[x] = -1 \/ g < low[x] THEN g ELSE low[x] BY <1>1, <2>3, <3>4
        <4>2. stat'[x].delay_base = IF g < stat[x].delay_base \/ stat[x].delay_base = 0
                                    THEN g ELSE stat[x].delay_base
          BY <3>1, <3>4
        <4>3. QED BY <1>3, <2>1, <3>2, <4>1, <4>2
      <3>5. QED BY <3>3, <3>4
    <2>4. QED BY <1>4, <2>2, <2>3 DEF Based
  <1>6. ASSUME NEW d \in Sides, NEW t \in now .. MaxTime, Chance(d, t)
        PROVE  Based'
    <2>1. \/ UNCHANGED <<stat, low>>
          \/ stat' = NotValid(stat, d, t) /\ low' = low
      BY <1>6 DEF Chance, Exit
    <2>2. ASSUME NEW x \in Sides
          PROVE  NotValid(stat, d, t)[x].delay_base = stat[x].delay_base
      <3> DEFINE s2 == Windowed(stat, d, t)
                 q == Wasted(s2[d])
      <3>1. s2[x].delay_base = stat[x].delay_base BY <1>1, WindowedBase
      <3>2. s2 \in [Sides -> Stats] BY <1>1, <1>2, WindowedFacts DEF WindowResult
      <3>3. NotValid(stat, d, t) = [s2 EXCEPT ![d] = q] BY DEF NotValid
      <3>4. q.delay_base = s2[d].delay_base BY DEF Wasted
      <3> HIDE DEF s2, q
      <3>5. QED BY <3>1, <3>2, <3>3, <3>4
    <2>3. QED BY <1>4, <2>1, <2>2 DEF Based
  <1>7. QED BY <1>4, <1>5, <1>6 DEF Next, vars

\* The base delay is the smallest delay of its direction until a round
\* trip is shorter than a millisecond, whatever windows close and whatever
\* chances are wasted in between (bufferbloat.c:205-213).
THEOREM BaseMeasured == Spec => []BaseIsMinimum
  <1>1. Init => Based BY DEF Init, Based, Fresh
  <1>2. Based => BaseIsMinimum BY DEF Based, BaseIsMinimum
  <1>3. QED BY <1>1, <1>2, BasedStep, Correct, PTL DEF Spec

\* The structures of a connection agree, whatever ACKs come and when
\* (bufferbloat.c:1240-1340).
THEOREM AgreementKept == Spec => []ConnectionSound
  <1>1. TypeOK /\ ChecksHold => ConnectionSound BY DEF ConnectionSound
  <1>2. QED BY <1>1, TypeCorrect, ChecksNeverFail, PTL

\* The windowed log is complete and true (bufferbloat.c:1038-1195).
THEOREM LogIsTrue == Spec => []LogTrue
  <1>1. WindowsTile /\ WindowsReportTheirSecond => LogTrue BY DEF LogTrue
  <1>2. QED BY <1>1, SecondsTiled, SecondsReported, PTL

------------------------------
\* The lines of the log with samples of a direction.  A later second adds
\* the line of the open window, if it has samples, and void ones.
NotVoid(rep, x) == {i \in 1 .. Len(rep) : rep[i].line[x].samples # 0}

OneIfNotVoid(s, t, x) ==
  IF Over(s, t) /\ InWindow(s[x]).count # 0 THEN 1 ELSE 0

\* A sample of a later second adds the line of the open window to those
\* that are not void.
LEMMA NotVoidGrows ==
  ASSUME NEW s \in [Sides -> Stats], NEW t \in 1 .. MaxTime, Synced(s, t),
         NEW rep \in Reports, NEW x \in Sides
  PROVE  Cardinality(NotVoid(rep \o Lines(s, t), x)) =
           Cardinality(NotVoid(rep, x)) + OneIfNotVoid(s, t, x)
  <1> DEFINE new == Lines(s, t)
             all == rep \o new
             e == Edge(s)
             n == Len(rep)
  <1>1. /\ rep \in Seq(Entries) /\ n \in Nat
        /\ IsFiniteSet(NotVoid(rep, x)) /\ Cardinality(NotVoid(rep, x)) \in Nat
    <2>1. rep \in Seq(Entries) /\ n \in Nat BY DEF Reports
    <2>2. IsFiniteSet(1 .. n) BY <2>1, FS_Interval
    <2>3. NotVoid(rep, x) \in SUBSET (1 .. n) BY DEF NotVoid
    <2>4. IsFiniteSet(NotVoid(rep, x)) BY <2>2, <2>3, FS_Subset
    <2>5. QED BY <2>1, <2>4, FS_CardinalityType
  <1>2. CASE ~ Over(s, t)
    <2>1. all = rep BY <1>1, <1>2 DEF Lines
    <2>2. OneIfNotVoid(s, t, x) = 0 BY <1>2 DEF OneIfNotVoid
    <2> HIDE DEF all
    <2>3. QED BY <1>1, <2>1, <2>2 DEF all
  <1>3. CASE Over(s, t)
    <2>1. /\ new \in Reports /\ Len(new) = t - e
          /\ \A i \in 1 .. t - e :
               new[i].line[x] = Line(IF i = 1 THEN InWindow(s[x]) ELSE Zero)
      BY <1>3, LinesFacts
    <2>2. e \in 1 .. MaxTime /\ e < t /\ t \in Int BY <1>3, BufferbloatAssumption DEF Over, Edge, Stats, Sides
    <2> HIDE DEF new, e
    <2>3. \A i \in 1 .. t - e :
            new[i].line[x].samples = IF i = 1 THEN InWindow(s[x]).count ELSE 0
      <3>1. \A w : Line(w).samples = w.count BY DEF Line
      <3>2. Zero.count = 0 BY DEF Zero
      <3>3. QED BY <2>1, <3>1, <3>2
    <2>4. /\ Len(all) = n + (t - e)
          /\ \A i \in 1 .. n : all[i] = rep[i]
          /\ \A i \in n + 1 .. Len(all) : all[i] = new[i - n] /\ i - n \in 1 .. t - e
      <3>1. new \in Seq(Entries) /\ Len(new) = t - e /\ t - e \in Nat BY <2>1, <2>2 DEF Reports
      <3> HIDE DEF n
      <3>2. /\ Len(all) = n + Len(new)
            /\ \A i \in 1 .. n : all[i] = rep[i]
            /\ \A i \in n + 1 .. n + Len(new) : all[i] = new[i - n]
        BY <1>1, <3>1 DEF n
      <3>3. \A i \in n + 1 .. n + (t - e) : i - n \in 1 .. t - e BY <1>1, <2>2
      <3> HIDE DEF all
      <3>4. QED BY <3>1, <3>2, <3>3
    <2> HIDE DEF all
    <2>5. \A i \in 1 .. Len(all) :
            \/ i \in 1 .. n
            \/ i = n + 1
            \/ i \in n + 1 .. Len(all) /\ i # n + 1
      BY <1>1, <2>2, <2>4
    <2>6. n + 1 \in 1 .. Len(all) /\ n + 1 \in n + 1 .. Len(all) /\ (n + 1) - n = 1 BY <1>1, <2>2, <2>4
    <2>7. \A i \in 1 .. n : i \in 1 .. Len(all) /\ i # n + 1 BY <1>1, <2>2, <2>4
    <2>8. all[n + 1].line[x].samples = InWindow(s[x]).count
      <3>1. all[n + 1] = new[1] /\ 1 \in 1 .. t - e BY <2>4, <2>6
      <3>2. QED BY <2>3, <3>1
    <2>9. ASSUME NEW i \in n + 1 .. Len(all), i # n + 1
          PROVE  all[i].line[x].samples = 0
      <3>1. all[i] = new[i - n] /\ i - n \in 1 .. t - e BY <2>4, <2>9
      <3>2. i - n # 1 BY <1>1, <2>9
      <3>3. QED BY <2>3, <3>1, <3>2
    <2>10. NotVoid(all, x) =
             NotVoid(rep, x) \cup (IF InWindow(s[x]).count # 0 THEN {n + 1} ELSE {})
      <3>1. \A i \in 1 .. n : i \in NotVoid(all, x) <=> i \in NotVoid(rep, x) BY <2>4, <2>7 DEF NotVoid
      <3>2. n + 1 \in NotVoid(all, x) <=> InWindow(s[x]).count # 0 BY <2>6, <2>8 DEF NotVoid
      <3>3. \A i \in NotVoid(all, x) : i \in 1 .. n \/ i = n + 1 BY <2>5, <2>9 DEF NotVoid
      <3>4. \A i \in NotVoid(rep, x) : i \in 1 .. n BY DEF NotVoid
      <3>5. QED BY <3>1, <3>2, <3>3, <3>4
    <2>11. n + 1 \notin NotVoid(rep, x) BY <1>1 DEF NotVoid
    <2>12. CASE InWindow(s[x]).count # 0
      <3>1. NotVoid(all, x) = NotVoid(rep, x) \cup {n + 1} BY <2>10, <2>12
      <3>2. Cardinality(NotVoid(all, x)) = Cardinality(NotVoid(rep, x)) + 1
        BY <1>1, <2>11, <3>1, FS_AddElement
      <3>3. OneIfNotVoid(s, t, x) = 1 BY <1>3, <2>12 DEF OneIfNotVoid
      <3>4. QED BY <3>2, <3>3 DEF all, new
    <2>13. CASE InWindow(s[x]).count = 0
      <3>1. NotVoid(all, x) = NotVoid(rep, x) BY <2>10, <2>13
      <3>2. OneIfNotVoid(s, t, x) = 0 BY <2>13 DEF OneIfNotVoid
      <3>3. QED BY <1>1, <3>1, <3>2 DEF all, new
    <2>14. QED BY <2>12, <2>13
  <1>4. QED BY <1>2, <1>3

\* close_window counts the window it closes, if it has samples; nothing
\* else touches not_void_windows.
LEMMA WindowedNotVoid ==
  ASSUME NEW s \in [Sides -> Stats], NEW d \in Sides, NEW t \in 1 .. MaxTime,
         Synced(s, t), NEW x \in Sides
  PROVE  Windowed(s, d, t)[x].not_void_windows =
           s[x].not_void_windows + OneIfNotVoid(s, t, x)
  <1>1. s[x].not_void_windows \in Nat /\ s[x] \in Stats BY DEF Stats
  <1>2. s[d].last_window_edge = s["C2S"].last_window_edge BY DEF Synced, Shared, Sides
  <1>3. CASE s[d].last_window_edge = 0
    <2>1. ~ Over(s, t) BY <1>2, <1>3 DEF Over
    <2>2. Windowed(s, d, t)[x].not_void_windows = s[x].not_void_windows BY <1>1, <1>3 DEF Windowed, Stats
    <2>3. QED BY <1>1, <2>1, <2>2 DEF OneIfNotVoid
  <1>4. CASE s[d].last_window_edge # 0 /\ Over(s, t)
    <2>1. Windowed(s, d, t)[x] =
            [Close(s[x], t) EXCEPT !.last_printed = t - 1,
                                   !.last_unwindowed = IF x = d THEN @ ELSE 0]
      BY <1>4 DEF Windowed
    <2>2. Close(s[x], t).not_void_windows =
            IF InWindow(s[x]).count # 0 THEN s[x].not_void_windows + 1
            ELSE s[x].not_void_windows
      BY <1>1 DEF Close, Stats
    <2> HIDE DEF Close
    <2>3. Windowed(s, d, t)[x].not_void_windows = Close(s[x], t).not_void_windows BY <2>1
    <2>4. QED BY <1>1, <1>4, <2>2, <2>3 DEF OneIfNotVoid
  <1>5. CASE s[d].last_window_edge # 0 /\ ~ Over(s, t)
    <2>1. Windowed(s, d, t) = s /\ OneIfNotVoid(s, t, x) = 0 BY <1>5 DEF Windowed, OneIfNotVoid
    <2>2. QED BY <1>1, <2>1
  <1>6. QED BY <1>3, <1>4, <1>5

\* A sample that is not valid counts the window it closes.
LEMMA NotValidNotVoid ==
  ASSUME NEW s \in [Sides -> Stats], NEW d \in Sides, NEW t \in 1 .. MaxTime,
         Synced(s, t), NEW x \in Sides
  PROVE  NotValid(s, d, t)[x].not_void_windows =
           s[x].not_void_windows + OneIfNotVoid(s, t, x)
  <1> DEFINE s2 == Windowed(s, d, t)
             q == Wasted(s2[d])
  <1>1. s2[x].not_void_windows = s[x].not_void_windows + OneIfNotVoid(s, t, x) BY WindowedNotVoid
  <1>2. s2 \in [Sides -> Stats] BY WindowedFacts DEF WindowResult
  <1>3. NotValid(s, d, t) = [s2 EXCEPT ![d] = q] BY DEF NotValid
  <1>4. q.not_void_windows = s2[d].not_void_windows BY DEF Wasted
  <1> HIDE DEF s2, q
  <1>5. QED BY <1>1, <1>2, <1>3, <1>4

\* A valid sample counts the window it closes.
LEMMA AnalysedNotVoid ==
  ASSUME NEW s \in [Sides -> Stats], NEW d \in Sides, NEW t \in 1 .. MaxTime,
         Synced(s, t), NEW g \in Delays, g \in Nat, NEW x \in Sides
  PROVE  Analysed(s, d, g, t)[x].not_void_windows =
           s[x].not_void_windows + OneIfNotVoid(s, t, x)
  <1> DEFINE r == WithGross(s[d], g)
             s1 == [s EXCEPT ![d] = r]
             s2 == Windowed(s1, d, t)
             q == Sampled(s2[d], QueueingDelay(r), g)
  <1>1. GrossResult(s, s1, t) BY GrossAgreed
  <1>2. s1[x].not_void_windows = s[x].not_void_windows
    <2>1. SameCounts(s[d], r) BY GrossFacts
    <2> HIDE DEF r
    <2>2. QED BY <2>1 DEF SameCounts
  <1>3. Analysed(s, d, g, t) = [s2 EXCEPT ![d] = q] BY DEF Analysed
  <1>4. q.not_void_windows = s2[d].not_void_windows BY DEF Sampled
  <1> HIDE DEF q, s1
  <1>5. /\ s2[x].not_void_windows = s1[x].not_void_windows + OneIfNotVoid(s1, t, x)
        /\ s2 \in [Sides -> Stats]
    BY <1>1, WindowedNotVoid, WindowedFacts DEF GrossResult, WindowResult
  <1>6. OneIfNotVoid(s1, t, x) = OneIfNotVoid(s, t, x) BY <1>1 DEF GrossResult, OneIfNotVoid
  <1> HIDE DEF s2
  <1>7. QED BY <1>2, <1>3, <1>4, <1>5, <1>6

\* Every step keeps the count of the lines that are not void.
LEMMA NotVoidStep == IInv /\ NotVoidCounted /\ [Next]_vars => NotVoidCounted'
  <1> SUFFICES ASSUME IInv, NotVoidCounted, [Next]_vars PROVE NotVoidCounted' OBVIOUS
  <1>1. /\ now \in 1 .. MaxTime /\ stat \in [Sides -> Stats] /\ report \in Reports
        /\ MaxTime \in Nat
    BY TypeSets, BufferbloatAssumption DEF IInv
  <1>2. ASSUME NEW d \in Sides, NEW t \in now .. MaxTime
        PROVE  t \in 1 .. MaxTime /\ Synced(stat, t)
    <2>1. t \in 1 .. MaxTime /\ now <= t BY <1>1
    <2>2. QED BY <1>1, <2>1, AgreedLater DEF IInv
  <1>3. CASE UNCHANGED <<stat, report>> BY <1>3 DEF NotVoidCounted
  <1>4. ASSUME NEW d \in Sides, NEW t \in now .. MaxTime, report' = report \o Lines(stat, t),
               \A x \in Sides : stat'[x].not_void_windows =
                                 stat[x].not_void_windows + OneIfNotVoid(stat, t, x)
        PROVE  NotVoidCounted'
    <2>1. ASSUME NEW x \in Sides
          PROVE  stat'[x].not_void_windows = Cardinality(NotVoid(report', x))
      <3>1. Cardinality(NotVoid(report', x)) =
              Cardinality(NotVoid(report, x)) + OneIfNotVoid(stat, t, x)
        BY <1>1, <1>2, <1>4, NotVoidGrows
      <3>2. stat[x].not_void_windows = Cardinality(NotVoid(report, x)) BY DEF NotVoidCounted, NotVoid
      <3>3. QED BY <1>4, <3>1, <3>2
    <2>2. QED BY <2>1 DEF NotVoidCounted, NotVoid
  <1>5. ASSUME NEW d \in Sides, NEW t \in now .. MaxTime, NEW rtt \in Rtts,
               Sample(d, rtt, t)
        PROVE  NotVoidCounted'
    <2> DEFINE g == GrossDelay(rtt)
    <2>1. g \in Delays /\ g \in Nat BY GrossType
    <2>2. \/ UNCHANGED <<stat, report>>
          \/ stat' = Analysed(stat, d, g, t) /\ report' = report \o Lines(stat, t)
      BY <1>5 DEF Sample, Exit
    <2> HIDE DEF g
    <2>3. \A x \in Sides : Analysed(stat, d, g, t)[x].not_void_windows =
                            stat[x].not_void_windows + OneIfNotVoid(stat, t, x)
      BY <1>1, <1>2, <2>1, AnalysedNotVoid
    <2>4. QED BY <1>3, <1>4, <2>2, <2>3
  <1>6. ASSUME NEW d \in Sides, NEW t \in now .. MaxTime, Chance(d, t)
        PROVE  NotVoidCounted'
    <2>1. \/ UNCHANGED <<stat, report>>
          \/ stat' = NotValid(stat, d, t) /\ report' = report \o Lines(stat, t)
      BY <1>6 DEF Chance, Exit
    <2>2. \A x \in Sides : NotValid(stat, d, t)[x].not_void_windows =
                            stat[x].not_void_windows + OneIfNotVoid(stat, t, x)
      BY <1>1, <1>2, NotValidNotVoid
    <2>3. QED BY <1>3, <1>4, <2>1, <2>2
  <1>7. QED BY <1>3, <1>5, <1>6 DEF Next, vars

\* What a connection carries from one window to the next is right: its
\* base delay, and not_void_windows, which is the number of printed lines
\* with samples however many void seconds lie between (bufferbloat.c:1171).
THEOREM TotalsCarried == Spec => []CarriedOver
  <1>1. Init => NotVoidCounted
    <2> SUFFICES ASSUME Init PROVE NotVoidCounted OBVIOUS
    <2>1. \A d \in Sides : stat[d].not_void_windows = 0 BY DEF Init, Fresh
    <2>2. \A d \in Sides : {i \in 1 .. Len(report) : report[i].line[d].samples # 0} = {} BY DEF Init
    <2>3. QED BY <2>1, <2>2, FS_EmptySet DEF NotVoidCounted
  <1>2. NotVoidCounted /\ BaseIsMinimum => CarriedOver BY DEF CarriedOver
  <1>3. QED BY <1>1, <1>2, NotVoidStep, Correct, BaseMeasured, PTL DEF Spec

------------------------------
(***************************************************************************)
(* The measures of a TCP flow, TcpAnalysis: for any packets, streams and   *)
(* receivers, what a connection's packets close, count and measure.        *)
(***************************************************************************)
\* The fields of a tcb; a pair of tcbs with those fields.
Fields == DOMAIN Tcb
Shaped(g) == DOMAIN g = Dirs /\ \A x \in Dirs : DOMAIN g[x] = Fields
\* The fields of S apart, n is g.
Differ(n, g, S) == \A x \in Dirs : \A k \in Fields \ S : n[x][k] = g[x][k]

\* A flow has two directions.
LEMMA OtherDir ==
  ASSUME NEW d \in Dirs
  PROVE  Other(d) \in Dirs /\ Other(d) # d /\ Other(Other(d)) = d /\ \A x \in Dirs : x = d \/ x = Other(d)
BY DEF Dirs, Other

\* What counting the flags of a packet sets, and leaves alone.
LEMMA CountFlagsEffect ==
  ASSUME NEW g, Shaped(g), NEW p, p.dir \in Dirs, NEW n, n = CountFlags(g, p)
  PROVE  /\ Shaped(n)
         /\ \A x \in Dirs :
              /\ n[x].syn_count = IF x = p.dir THEN g[x].syn_count + One(p.syn) ELSE g[x].syn_count
              /\ n[x].fin_count = IF x = p.dir THEN g[x].fin_count + One(p.fin) ELSE g[x].fin_count
              /\ n[x].fin_seqno = IF x = p.dir /\ p.fin THEN Seq0(p) ELSE g[x].fin_seqno
         /\ Differ(n, g, {"syn_count", "fin_count", "reset_count", "fin_seqno"})
<1>1. /\ Shaped(n)
      /\ n[p.dir].syn_count = g[p.dir].syn_count + One(p.syn)
      /\ n[p.dir].fin_count = g[p.dir].fin_count + One(p.fin)
      /\ n[p.dir].fin_seqno = IF p.fin THEN Seq0(p) ELSE g[p.dir].fin_seqno
  BY SMTT(30) DEF CountFlags, Shaped, Fields, Tcb, Dirs
<1>2. ASSUME NEW x \in Dirs \ {p.dir} PROVE n[x] = g[x] BY DEF CountFlags, Shaped
<1>3. ASSUME NEW k \in Fields \ {"syn_count", "fin_count", "reset_count", "fin_seqno"}
      PROVE  n[p.dir][k] = g[p.dir][k]
  <2>1. k \in DOMAIN g[p.dir] BY DEF Shaped
  <2> QED BY <2>1 DEF CountFlags, Shaped
<1> QED BY <1>1, <1>2, <1>3 DEF Differ

\* A side is closed by the number past the last FIN it sent.
LEMMA AckOfFinEffect ==
  ASSUME NEW g, Shaped(g), NEW p, p.dir \in Dirs, NEW n, n = AckOfFin(g, p)
  PROVE  /\ Shaped(n)
         /\ \A x \in Dirs :
              n[x].closed = IF /\ x = Other(p.dir) /\ p.ackset /\ g[x].fin_count >= 1
                               /\ Ack0(p) >= Mod(g[x].fin_seqno + 1)
                            THEN TRUE ELSE g[x].closed
         /\ Differ(n, g, {"closed"})
<1> DEFINE o == Other(p.dir)
           due == p.ackset /\ g[o].fin_count >= 1 /\ Ack0(p) >= Mod(g[o].fin_seqno + 1)
<1>0. o \in Dirs BY DEF Other, Dirs
<1>1. CASE due
  <2>1. n = [g EXCEPT ![o].closed = TRUE] BY <1>1 DEF AckOfFin
  <2> HIDE DEF o
  <2>2. Shaped(n) /\ n[o].closed = TRUE BY <2>1, <1>0 DEF Shaped, Fields, Tcb, Dirs
  <2>3. \A x \in Dirs \ {o} : n[x] = g[x] BY <2>1 DEF Shaped
  <2>4. ASSUME NEW k \in Fields \ {"closed"} PROVE n[o][k] = g[o][k]
    <3>1. k \in DOMAIN g[o] BY <1>0 DEF Shaped
    <3> QED BY <3>1, <2>1, <1>0 DEF Shaped
  <2> QED BY <2>2, <2>3, <2>4, <1>1 DEF Differ, o
<1>2. CASE ~ due
  <2>1. n = g BY <1>2 DEF AckOfFin
  <2> QED BY <2>1, <1>2 DEF Differ
<1> QED BY <1>1, <1>2

\* What is sent is in flight until an acknowledgement comes.
LEMMA FlightFlagsEffect ==
  ASSUME NEW g, Shaped(g), NEW p, p.dir \in Dirs, NEW n, n = FlightFlags(g, p)
  PROVE  /\ Shaped(n)
         /\ \A x \in Dirs :
              n[x].cwnd_flag = IF x = p.dir THEN g[x].cwnd_flag \/ p.len # 0 \/ Control(p)
                               ELSE g[x].cwnd_flag /\ ~p.ackset
         /\ Differ(n, g, {"cwnd_flag"})
<1> DEFINE o == Other(p.dir)
<1>0. o \in Dirs /\ o # p.dir /\ \A x \in Dirs : x = o \/ x = p.dir BY DEF Other, Dirs
<1>1. n = [[g EXCEPT ![o].cwnd_flag = g[o].cwnd_flag /\ ~p.ackset]
             EXCEPT ![p.dir].cwnd_flag = g[p.dir].cwnd_flag \/ p.len # 0 \/ Control(p)]
  BY <1>0 DEF FlightFlags, Shaped
<1> HIDE DEF o
<1>2. Shaped(n) /\ n[o].cwnd_flag = (g[o].cwnd_flag /\ ~p.ackset)
      /\ n[p.dir].cwnd_flag = (g[p.dir].cwnd_flag \/ p.len # 0 \/ Control(p))
  BY <1>1, <1>0 DEF Shaped, Fields, Tcb, Dirs
<1>4. ASSUME NEW k \in Fields \ {"cwnd_flag"} PROVE n[o][k] = g[o][k] /\ n[p.dir][k] = g[p.dir][k]
  <2>1. k \in DOMAIN g[o] /\ k \in DOMAIN g[p.dir] BY <1>0 DEF Shaped
  <2> QED BY <2>1, <1>1, <1>0 DEF Shaped
<1> QED BY <1>0, <1>2, <1>4 DEF Differ, o

\* What a FIN sets.
LEMMA FinLimitsEffect ==
  ASSUME NEW g, Shaped(g), NEW p, p.dir \in Dirs, NEW n, n = FinLimits(g, p)
  PROVE  /\ Shaped(n)
         /\ \A x \in Dirs :
              /\ n[x].bad_behavior = IF x = p.dir /\ ~(~p.fin) THEN (g[p.dir].bad_behavior \/ (g[p.dir].fin_count > 1 /\ g[p.dir].fin # Seq0(p) + p.len)) ELSE g[x].bad_behavior
              /\ n[x].fin = IF x = p.dir /\ ~(~p.fin) THEN Mod(Seq0(p) + p.len) ELSE g[x].fin
         /\ Differ(n, g, {"bad_behavior", "fin"})
<1>1. CASE ~p.fin
  <2>1. n = g BY <1>1 DEF FinLimits
  <2> QED BY <2>1, <1>1 DEF Differ
<1>2. CASE ~(~p.fin)
  <2>2. Shaped(n) /\ n[p.dir].bad_behavior = (g[p.dir].bad_behavior \/ (g[p.dir].fin_count > 1 /\ g[p.dir].fin # Seq0(p) + p.len)) /\ n[p.dir].fin = Mod(Seq0(p) + p.len)
    BY <1>2 DEF FinLimits, Shaped, Fields, Tcb, Dirs
  <2>3. \A x \in Dirs \ {p.dir} : n[x] = g[x] BY <1>2 DEF FinLimits, Shaped
  <2>4. ASSUME NEW k \in Fields \ {"bad_behavior", "fin"} PROVE n[p.dir][k] = g[p.dir][k]
    <3>1. k \in DOMAIN g[p.dir] BY DEF Shaped
    <3> QED BY <3>1, <1>2 DEF FinLimits, Shaped
  <2> QED BY <2>2, <2>3, <2>4, <1>2 DEF Differ
<1> QED BY <1>1, <1>2

\* What the options of a packet set.
LEMMA TakeOptionsEffect ==
  ASSUME NEW g, Shaped(g), NEW p, p.dir \in Dirs, NEW n, n = TakeOptions(g, p)
  PROVE  /\ Shaped(n)
         /\ \A x \in Dirs :
              /\ n[x].window_scale = IF x = p.dir THEN (IF p.opts.ws = Absent THEN g[p.dir].window_scale ELSE p.opts.ws) ELSE g[x].window_scale
              /\ n[x].f1323_ws = IF x = p.dir THEN (g[p.dir].f1323_ws \/ p.opts.ws # Absent) ELSE g[x].f1323_ws
              /\ n[x].mss = IF x = p.dir THEN (IF p.opts.mss = Absent THEN g[p.dir].mss ELSE p.opts.mss) ELSE g[x].mss
              /\ n[x].f1323_ts = IF x = p.dir THEN (g[p.dir].f1323_ts \/ p.opts.ts) ELSE g[x].f1323_ts
              /\ n[x].fsack_req = IF x = p.dir THEN (g[p.dir].fsack_req \/ p.opts.sack_req) ELSE g[x].fsack_req
              /\ n[x].sacks_sent = IF x = p.dir THEN g[p.dir].sacks_sent + One(p.opts.sack_count > 0) ELSE g[x].sacks_sent
         /\ Differ(n, g, {"window_scale", "f1323_ws", "mss", "f1323_ts", "fsack_req", "sacks_sent"})
<1>2. Shaped(n) /\ n[p.dir].window_scale = (IF p.opts.ws = Absent THEN g[p.dir].window_scale ELSE p.opts.ws) /\ n[p.dir].f1323_ws = (g[p.dir].f1323_ws \/ p.opts.ws # Absent) /\ n[p.dir].mss = (IF p.opts.mss = Absent THEN g[p.dir].mss ELSE p.opts.mss) /\ n[p.dir].f1323_ts = (g[p.dir].f1323_ts \/ p.opts.ts) /\ n[p.dir].fsack_req = (g[p.dir].fsack_req \/ p.opts.sack_req) /\ n[p.dir].sacks_sent = g[p.dir].sacks_sent + One(p.opts.sack_count > 0)
  BY ZenonT(60) DEF TakeOptions, Shaped, Fields, Tcb, Dirs
<1>3. \A x \in Dirs \ {p.dir} : n[x] = g[x] BY DEF TakeOptions, Shaped
<1>4. ASSUME NEW k \in Fields \ {"window_scale", "f1323_ws", "mss", "f1323_ts", "fsack_req", "sacks_sent"} PROVE n[p.dir][k] = g[p.dir][k]
  <2>1. k \in DOMAIN g[p.dir] BY DEF Shaped
  <2> QED BY <2>1 DEF TakeOptions, Shaped
<1> QED BY <1>2, <1>3, <1>4 DEF Differ

\* The first number that is not 0 stays.
LEMMA MinSeqEffect ==
  ASSUME NEW g, Shaped(g), NEW p, p.dir \in Dirs, NEW n, n = MinSeq(g, p)
  PROVE  /\ Shaped(n)
         /\ \A x \in Dirs :
              /\ n[x].min_seq = IF x = p.dir THEN (IF g[p.dir].min_seq = 0 THEN Seq0(p) ELSE g[p.dir].min_seq) ELSE g[x].min_seq
         /\ Differ(n, g, {"min_seq"})
<1>2. Shaped(n) /\ n[p.dir].min_seq = (IF g[p.dir].min_seq = 0 THEN Seq0(p) ELSE g[p.dir].min_seq)
  BY DEF MinSeq, Shaped, Fields, Tcb, Dirs
<1>3. \A x \in Dirs \ {p.dir} : n[x] = g[x] BY DEF MinSeq, Shaped
<1>4. ASSUME NEW k \in Fields \ {"min_seq"} PROVE n[p.dir][k] = g[p.dir][k]
  <2>1. k \in DOMAIN g[p.dir] BY DEF Shaped
  <2> QED BY <2>1 DEF MinSeq, Shaped
<1> QED BY <1>2, <1>3, <1>4 DEF Differ

\* What a window that is advertised sets.
LEMMA WindowsEffect ==
  ASSUME NEW g, Shaped(g), NEW p, p.dir \in Dirs, NEW eff, NEW n, n = Windows(g, p, eff)
  PROVE  /\ Shaped(n)
         /\ \A x \in Dirs :
              /\ n[x].win_max = IF x = p.dir /\ ~(~p.ackset /\ ~p.syn) THEN (IF eff > g[p.dir].win_max THEN eff ELSE g[p.dir].win_max) ELSE g[x].win_max
              /\ n[x].win_min = IF x = p.dir /\ ~(~p.ackset /\ ~p.syn) THEN (IF eff > 0 /\ (g[p.dir].win_min = 0 \/ eff < g[p.dir].win_min) THEN eff ELSE g[p.dir].win_min) ELSE g[x].win_min
         /\ Differ(n, g, {"win_max", "win_min"})
<1>1. CASE ~p.ackset /\ ~p.syn
  <2>1. n = g BY <1>1 DEF Windows
  <2> QED BY <2>1, <1>1 DEF Differ
<1>2. CASE ~(~p.ackset /\ ~p.syn)
  <2>2. Shaped(n) /\ n[p.dir].win_max = (IF eff > g[p.dir].win_max THEN eff ELSE g[p.dir].win_max) /\ n[p.dir].win_min = (IF eff > 0 /\ (g[p.dir].win_min = 0 \/ eff < g[p.dir].win_min) THEN eff ELSE g[p.dir].win_min)
    BY <1>2 DEF Windows, Shaped, Fields, Tcb, Dirs
  <2>3. \A x \in Dirs \ {p.dir} : n[x] = g[x] BY <1>2 DEF Windows, Shaped
  <2>4. ASSUME NEW k \in Fields \ {"win_max", "win_min"} PROVE n[p.dir][k] = g[p.dir][k]
    <3>1. k \in DOMAIN g[p.dir] BY DEF Shaped
    <3> QED BY <3>1, <1>2 DEF Windows, Shaped
  <2> QED BY <2>2, <2>3, <2>4, <1>2 DEF Differ
<1> QED BY <1>1, <1>2

\* The last acknowledgement number is kept.
LEMMA AckNumberEffect ==
  ASSUME NEW g, Shaped(g), NEW p, p.dir \in Dirs, NEW n, n = AckNumber(g, p)
  PROVE  /\ Shaped(n)
         /\ \A x \in Dirs :
              /\ n[x].ack = IF x = p.dir /\ ~(~p.ackset) THEN Ack0(p) ELSE g[x].ack
         /\ Differ(n, g, {"ack"})
<1>1. CASE ~p.ackset
  <2>1. n = g BY <1>1 DEF AckNumber
  <2> QED BY <2>1, <1>1 DEF Differ
<1>2. CASE ~(~p.ackset)
  <2>2. Shaped(n) /\ n[p.dir].ack = Ack0(p) BY <1>2 DEF AckNumber, Shaped, Fields, Tcb, Dirs
  <2>3. \A x \in Dirs \ {p.dir} : n[x] = g[x] BY <1>2 DEF AckNumber, Shaped
  <2>4. ASSUME NEW k \in Fields \ {"ack"} PROVE n[p.dir][k] = g[p.dir][k]
    <3>1. k \in DOMAIN g[p.dir] BY DEF Shaped
    <3> QED BY <3>1, <1>2 DEF AckNumber, Shaped
  <2> QED BY <2>2, <2>3, <2>4, <1>2 DEF Differ
<1> QED BY <1>1, <1>2

\* Until data is acknowledged, what is sent is the initial window.
LEMMA InitialWindowEffect ==
  ASSUME NEW g, Shaped(g), NEW p, p.dir \in Dirs, NEW n, n = InitialWindow(g, p)
  PROVE  /\ Shaped(n)
         /\ \A x \in Dirs :
              /\ n[x].initialwin_bytes = IF x = p.dir /\ ~(g[p.dir].data_acked \/ Again(p) > 0) THEN g[p.dir].initialwin_bytes + p.len ELSE g[x].initialwin_bytes
         /\ Differ(n, g, {"initialwin_bytes"})
<1>1. CASE g[p.dir].data_acked \/ Again(p) > 0
  <2>1. n = g BY <1>1 DEF InitialWindow
  <2> QED BY <2>1, <1>1 DEF Differ
<1>2. CASE ~(g[p.dir].data_acked \/ Again(p) > 0)
  <2>2. Shaped(n) /\ n[p.dir].initialwin_bytes = g[p.dir].initialwin_bytes + p.len
    BY <1>2 DEF InitialWindow, Shaped, Fields, Tcb, Dirs
  <2>3. \A x \in Dirs \ {p.dir} : n[x] = g[x] BY <1>2 DEF InitialWindow, Shaped
  <2>4. ASSUME NEW k \in Fields \ {"initialwin_bytes"} PROVE n[p.dir][k] = g[p.dir][k]
    <3>1. k \in DOMAIN g[p.dir] BY DEF Shaped
    <3> QED BY <3>1, <1>2 DEF InitialWindow, Shaped
  <2> QED BY <2>2, <2>3, <2>4, <1>2 DEF Differ
<1> QED BY <1>1, <1>2

\* What a packet adds to the bytes sent once.
LEMMA UniqueEffect ==
  ASSUME NEW g, Shaped(g), NEW p, p.dir \in Dirs, NEW n, n = Unique(g, p)
  PROVE  /\ Shaped(n)
         /\ \A x \in Dirs :
              /\ n[x].unique_bytes = IF x = p.dir /\ ~(Retrans(g, p) >= p.len) THEN g[p.dir].unique_bytes + p.len - Retrans(g, p) ELSE g[x].unique_bytes
         /\ Differ(n, g, {"unique_bytes"})
<1>1. CASE Retrans(g, p) >= p.len
  <2>1. n = g BY <1>1 DEF Unique
  <2> QED BY <2>1, <1>1 DEF Differ
<1>2. CASE ~(Retrans(g, p) >= p.len)
  <2>2. Shaped(n) /\ n[p.dir].unique_bytes = g[p.dir].unique_bytes + p.len - Retrans(g, p)
    BY <1>2 DEF Unique, Shaped, Fields, Tcb, Dirs
  <2>3. \A x \in Dirs \ {p.dir} : n[x] = g[x] BY <1>2 DEF Unique, Shaped
  <2>4. ASSUME NEW k \in Fields \ {"unique_bytes"} PROVE n[p.dir][k] = g[p.dir][k]
    <3>1. k \in DOMAIN g[p.dir] BY DEF Shaped
    <3> QED BY <3>1, <1>2 DEF Unique, Shaped
  <2> QED BY <2>2, <2>3, <2>4, <1>2 DEF Differ
<1> QED BY <1>1, <1>2

\* Bytes sent again, or the next number expected.
LEMMA SeqOrRexmitEffect ==
  ASSUME NEW g, Shaped(g), NEW p, p.dir \in Dirs, NEW n, n = SeqOrRexmit(g, p)
  PROVE  /\ Shaped(n)
         /\ \A x \in Dirs :
              /\ n[x].rexmit_bytes = IF x = p.dir THEN g[p.dir].rexmit_bytes + Again(p) ELSE g[x].rexmit_bytes
              /\ n[x].seq = IF x = p.dir THEN (IF Again(p) > 0 THEN g[p.dir].seq ELSE Mod(Seq0(p) + p.len)) ELSE g[x].seq
         /\ Differ(n, g, {"rexmit_bytes", "seq"})
<1>2. Shaped(n) /\ n[p.dir].rexmit_bytes = g[p.dir].rexmit_bytes + Again(p) /\ n[p.dir].seq = (IF Again(p) > 0 THEN g[p.dir].seq ELSE Mod(Seq0(p) + p.len))
  BY DEF SeqOrRexmit, Shaped, Fields, Tcb, Dirs
<1>3. \A x \in Dirs \ {p.dir} : n[x] = g[x] BY DEF SeqOrRexmit, Shaped
<1>4. ASSUME NEW k \in Fields \ {"rexmit_bytes", "seq"} PROVE n[p.dir][k] = g[p.dir][k]
  <2>1. k \in DOMAIN g[p.dir] BY DEF Shaped
  <2> QED BY <2>1 DEF SeqOrRexmit, Shaped
<1> QED BY <1>2, <1>3, <1>4 DEF Differ

\* What is outstanding after a packet that goes forward.
LEMMA CongestionWindowEffect ==
  ASSUME NEW g, Shaped(g), NEW p, p.dir \in Dirs, NEW n, n = CongestionWindow(g, p)
  PROVE  /\ Shaped(n)
         /\ \A x \in Dirs :
              /\ n[x].cwin_max = IF x = p.dir /\ ~(~Advances(g, p)) THEN (IF Outstanding(g, p) > g[p.dir].cwin_max THEN Outstanding(g, p) ELSE g[p.dir].cwin_max) ELSE g[x].cwin_max
              /\ n[x].cwin_min = IF x = p.dir /\ ~(~Advances(g, p)) THEN (IF g[p.dir].cwin_min = 0 \/ Outstanding(g, p) < g[p.dir].cwin_min THEN Outstanding(g, p) ELSE g[p.dir].cwin_min) ELSE g[x].cwin_min
         /\ Differ(n, g, {"cwin_max", "cwin_min"})
<1>1. CASE ~Advances(g, p)
  <2>1. n = g BY <1>1 DEF CongestionWindow
  <2> QED BY <2>1, <1>1 DEF Differ
<1>2. CASE ~(~Advances(g, p))
  <2>2. Shaped(n) /\ n[p.dir].cwin_max = (IF Outstanding(g, p) > g[p.dir].cwin_max THEN Outstanding(g, p) ELSE g[p.dir].cwin_max) /\ n[p.dir].cwin_min = (IF g[p.dir].cwin_min = 0 \/ Outstanding(g, p) < g[p.dir].cwin_min THEN Outstanding(g, p) ELSE g[p.dir].cwin_min)
    BY <1>2 DEF CongestionWindow, Shaped, Fields, Tcb, Dirs
  <2>3. \A x \in Dirs \ {p.dir} : n[x] = g[x] BY <1>2 DEF CongestionWindow, Shaped
  <2>4. ASSUME NEW k \in Fields \ {"cwin_max", "cwin_min"} PROVE n[p.dir][k] = g[p.dir][k]
    <3>1. k \in DOMAIN g[p.dir] BY DEF Shaped
    <3> QED BY <3>1, <1>2 DEF CongestionWindow, Shaped
  <2> QED BY <2>2, <2>3, <2>4, <1>2 DEF Differ
<1> QED BY <1>1, <1>2

\* An acknowledgement past the SYN is one of data.
LEMMA DataAckedEffect ==
  ASSUME NEW g, Shaped(g), NEW p, p.dir \in Dirs, NEW n, n = DataAcked(g, p)
  PROVE  /\ Shaped(n)
         /\ \A x \in Dirs :
              n[x].data_acked = IF x # p.dir THEN g[x].data_acked \/ (p.ackset /\ Mod(g[x].syn + 1) # Ack0(p))
                                ELSE g[x].data_acked
         /\ Differ(n, g, {"data_acked"})
<1> DEFINE o == Other(p.dir)
           v == g[o].data_acked \/ (p.ackset /\ Mod(g[o].syn + 1) # Ack0(p))
<1>0. o \in Dirs /\ o # p.dir /\ \A x \in Dirs : x = o \/ x = p.dir BY DEF Other, Dirs
<1>1. n = [g EXCEPT ![o].data_acked = v] BY DEF DataAcked
<1> HIDE DEF o, v
<1>2. Shaped(n) /\ n[o].data_acked = v /\ n[p.dir] = g[p.dir] BY <1>1, <1>0 DEF Shaped, Fields, Tcb, Dirs
<1>4. ASSUME NEW k \in Fields \ {"data_acked"} PROVE n[o][k] = g[o][k]
  <2>1. k \in DOMAIN g[o] BY <1>0 DEF Shaped
  <2> QED BY <2>1, <1>1, <1>0 DEF Shaped
<1>5. Differ(n, g, {"data_acked"}) BY <1>0, <1>2, <1>4 DEF Differ
<1> QED BY <1>0, <1>2, <1>5 DEF v

\* What a SYN sets, on both sides.
LEMMA SynLimitsEffect ==
  ASSUME NEW g, Shaped(g), NEW p, p.dir \in Dirs, NEW n, n = SynLimits(g, p)
  PROVE  /\ Shaped(n)
         /\ \A x \in Dirs :
              /\ n[x].syn = IF p.syn /\ x = p.dir THEN Seq0(p) ELSE g[x].syn
              /\ n[x].ack = IF p.syn /\ x # p.dir THEN Seq0(p) ELSE g[x].ack
              /\ n[x].bad_behavior = IF p.syn /\ x = p.dir
                                     THEN g[x].bad_behavior \/ (g[x].syn_count > 1 /\ g[x].syn # Seq0(p))
                                     ELSE g[x].bad_behavior
         /\ Differ(n, g, {"syn", "ack", "bad_behavior"})
<1> DEFINE d == p.dir
           o == Other(d)
           b == g[d].bad_behavior \/ (g[d].syn_count > 1 /\ g[d].syn # Seq0(p))
<1>0. d \in Dirs /\ o \in Dirs /\ o # d /\ \A x \in Dirs : x = o \/ x = d BY DEF Other, Dirs
<1>1. CASE ~p.syn
  <2>1. n = g BY <1>1 DEF SynLimits
  <2> QED BY <2>1, <1>1 DEF Differ
<1>2. CASE p.syn
  <2>1. n = [g EXCEPT ![d].bad_behavior = b, ![d].syn = Seq0(p), ![o].ack = Seq0(p)] BY <1>2 DEF SynLimits
  <2> HIDE DEF d, o, b
  <2>2. Shaped(n) /\ n[o].ack = Seq0(p) /\ n[d].syn = Seq0(p) /\ n[d].bad_behavior = b
        /\ n[o].syn = g[o].syn /\ n[o].bad_behavior = g[o].bad_behavior /\ n[d].ack = g[d].ack
    BY <2>1, <1>0 DEF Shaped, Fields, Tcb, Dirs
  <2>4. ASSUME NEW k \in Fields \ {"syn", "ack", "bad_behavior"} PROVE n[o][k] = g[o][k] /\ n[d][k] = g[d][k]
    <3>1. k \in DOMAIN g[o] /\ k \in DOMAIN g[d] BY <1>0 DEF Shaped
    <3> QED BY <3>1, <2>1, <1>0 DEF Shaped
  <2>5. Differ(n, g, {"syn", "ack", "bad_behavior"})
    <3> SUFFICES ASSUME NEW x \in Dirs, NEW k \in Fields \ {"syn", "ack", "bad_behavior"} PROVE n[x][k] = g[x][k]
      BY DEF Differ
    <3> QED BY <1>0, <2>4
  <2> QED BY <1>0, <1>2, <2>2, <2>5 DEF d, b
<1> QED BY <1>1, <1>2

\* Scales hold when both sides have sent one.
LEMMA DropScalesEffect ==
  ASSUME NEW g, Shaped(g), NEW p, NEW n, n = DropScales(g, p)
  PROVE  /\ Shaped(n)
         /\ \A x \in Dirs :
              n[x].window_scale = IF ~p.syn /\ \E d \in Dirs : ~g[d].f1323_ws THEN 0 ELSE g[x].window_scale
         /\ Differ(n, g, {"window_scale"})
<1>1. CASE ~p.syn /\ \E d \in Dirs : ~g[d].f1323_ws
  <2>1. n = [d \in Dirs |-> [g[d] EXCEPT !.window_scale = 0]] BY <1>1 DEF DropScales
  <2>2. Shaped(n) /\ \A x \in Dirs : n[x].window_scale = 0 BY <2>1 DEF Shaped, Fields, Tcb
  <2>3. ASSUME NEW x \in Dirs, NEW k \in Fields \ {"window_scale"} PROVE n[x][k] = g[x][k]
    <3>1. k \in DOMAIN g[x] BY DEF Shaped
    <3> QED BY <2>1, <3>1
  <2> QED BY <2>2, <2>3, <1>1 DEF Differ
<1>2. CASE ~(~p.syn /\ \E d \in Dirs : ~g[d].f1323_ws)
  <2>1. n = g BY <1>2 DEF DropScales
  <2> QED BY <2>1, <1>2 DEF Differ
<1> QED BY <1>1, <1>2

\* What the end of a message records.
LEMMA EndMessageEffect ==
  ASSUME NEW g, Shaped(g), NEW d \in Dirs, NEW n, n = EndMessage(g, d)
  PROVE  /\ Shaped(n)
         /\ n[d].msg_size = IF g[d].msg_count < MaxMessages /\ MessageSize(g[d]) > 0
                            THEN Append(g[d].msg_size, MessageSize(g[d])) ELSE g[d].msg_size
         /\ n[d].msg_count = g[d].msg_count + One(MessageSize(g[d]) > 0)
         /\ n[d].msg_last_seq = g[d].seq
         /\ \A x \in Dirs \ {d} : n[x] = g[x]
         /\ Differ(n, g, {"msg_size", "msg_count", "msg_last_seq"})
<1> DEFINE z == IF g[d].msg_count < MaxMessages /\ MessageSize(g[d]) > 0
                THEN Append(g[d].msg_size, MessageSize(g[d])) ELSE g[d].msg_size
           c == g[d].msg_count + One(MessageSize(g[d]) > 0)
           e == g[d].seq
<1>1. n = [g EXCEPT ![d].msg_size = z, ![d].msg_count = c, ![d].msg_last_seq = e] BY DEF EndMessage
<1> HIDE DEF z, c, e
<1>2. Shaped(n) /\ n[d].msg_size = z /\ n[d].msg_count = c /\ n[d].msg_last_seq = e
  BY <1>1 DEF Shaped, Fields, Tcb, Dirs
<1>3. \A x \in Dirs \ {d} : n[x] = g[x] BY <1>1 DEF Shaped
<1>4. ASSUME NEW k \in Fields \ {"msg_size", "msg_count", "msg_last_seq"} PROVE n[d][k] = g[d][k]
  <2>1. k \in DOMAIN g[d] BY DEF Shaped
  <2> QED BY <2>1, <1>1 DEF Shaped
<1>5. Differ(n, g, {"msg_size", "msg_count", "msg_last_seq"}) BY <1>3, <1>4 DEF Differ
<1> QED BY <1>2, <1>3, <1>5 DEF z, c, e

\* The fields of the rate, which nothing else reads.
RateFields == {"rate_left_edge", "rate_bytes", "rate_sum", "rate_short", "rate_span", "rate_samples",
               "rate_empty_samples", "rate_empty_streak"}

\* The fields the flags, the options and the data of a segment move.
CountFields ==
  RateFields \cup {"syn_count", "fin_count", "reset_count", "fin_seqno", "closed", "cwnd_flag", "syn", "ack", "fin",
                   "bad_behavior", "window_scale", "f1323_ws", "mss", "f1323_ts", "fsack_req", "sacks_sent",
                   "data_bytes", "min_seq", "unique_bytes", "rexmit_bytes", "seq"}

\* The rate does not touch the other fields.
LEMMA RateWindowsKeeps ==
  ASSUME NEW t, DOMAIN t = Fields, NEW n
  PROVE  /\ DOMAIN RateWindows(t, n) = Fields
         /\ \A k \in Fields \ RateFields : RateWindows(t, n)[k] = t[k]
BY DEF RateWindows, RateFields, CountFields

\* Nor does a packet added to the rate.
LEMMA RateKeeps ==
  ASSUME NEW t, DOMAIN t = Fields, NEW len
  PROVE  /\ DOMAIN Rate(t, len) = Fields
         /\ \A k \in Fields \ RateFields : Rate(t, len)[k] = t[k]
<1> DEFINE a == IF t.rate_left_edge = None THEN [t EXCEPT !.rate_left_edge = current_time'] ELSE t
           n == (current_time' - a.rate_left_edge) \div Sampling
<1>1. DOMAIN a = Fields /\ \A k \in Fields \ RateFields : a[k] = t[k] BY DEF RateFields, CountFields
<1> HIDE DEF a
<1>2. Rate(t, len) = IF n = 0 THEN [a EXCEPT !.rate_bytes = @ + len] ELSE [RateWindows(a, n) EXCEPT !.rate_bytes = len]
  BY DEF Rate, a
<1> HIDE DEF n
<1>3. DOMAIN RateWindows(a, n) = Fields /\ \A k \in Fields \ RateFields : RateWindows(a, n)[k] = t[k]
  BY <1>1, RateWindowsKeeps
<1> QED BY <1>1, <1>2, <1>3 DEF RateFields, CountFields

\* Only a packet with data adds to the data.
LEMMA DataStatsEffect ==
  ASSUME NEW g, Shaped(g), NEW p, p.dir \in Dirs, NEW n, n = DataStats(g, p)
  PROVE  /\ Shaped(n)
         /\ \A x \in Dirs : n[x] = IF x = p.dir /\ p.len # 0
                                   THEN AddData(g[x], p.len) ELSE g[x]
         /\ Differ(n, g, RateFields \cup {"data_bytes"})
<1>1. CASE p.len = 0
  <2>1. n = g BY <1>1 DEF DataStats
  <2> QED BY <2>1, <1>1 DEF Differ
<1>2. CASE p.len # 0
  <2> DEFINE r == AddData(g[p.dir], p.len)
  <2>1. n = [g EXCEPT ![p.dir] = r] BY <1>2 DEF DataStats
  <2>2. DOMAIN r = Fields /\ \A k \in Fields \ (RateFields \cup {"data_bytes"}) : r[k] = g[p.dir][k]
    <3>1. DOMAIN g[p.dir] = Fields BY DEF Shaped
    <3>2. DOMAIN Rate(g[p.dir], p.len) = Fields /\ \A k \in Fields \ RateFields : Rate(g[p.dir], p.len)[k] = g[p.dir][k]
      BY <3>1, RateKeeps
    <3> QED BY <3>2 DEF AddData
  <2> HIDE DEF r
  <2>3. \A x \in Dirs : n[x] = IF x = p.dir THEN r ELSE g[x] BY <2>1 DEF Shaped
  <2>4. Shaped(n) BY <2>1, <2>2, <2>3 DEF Shaped
  <2>5. Differ(n, g, RateFields \cup {"data_bytes"}) BY <2>2, <2>3 DEF Differ
  <2> QED BY <2>3, <2>4, <2>5, <1>2 DEF r
<1> QED BY <1>1, <1>2

\* Closing the last windows touches the rate alone.
LEMMA LastWindowsKeeps ==
  ASSUME NEW t, DOMAIN t = Fields
  PROVE  /\ DOMAIN LastWindows(t) = Fields
         /\ \A k \in Fields \ RateFields : LastWindows(t)[k] = t[k]
<1>1. ASSUME NEW delta
      PROVE  /\ DOMAIN ShortWindow(t, delta) = Fields
             /\ \A k \in Fields \ RateFields : ShortWindow(t, delta)[k] = t[k]
  <2> DEFINE w == RateWindows(t, 1)
  <2>1. DOMAIN w = Fields /\ \A k \in Fields \ RateFields : w[k] = t[k] BY RateWindowsKeeps
  <2>2. ShortWindow(t, delta) = [w EXCEPT !.rate_sum = t.rate_sum, !.rate_short = t.rate_bytes, !.rate_span = delta]
    BY DEF ShortWindow
  <2> HIDE DEF w
  <2> QED BY <2>1, <2>2 DEF RateFields, CountFields
<1> QED BY <1>1, RateWindowsKeeps DEF LastWindows

\* So do the statistics taken when the flow ends.
LEMMA ConnStatsEffect ==
  ASSUME NEW g, Shaped(g), NEW n, n = ConnStats(g)
  PROVE  Shaped(n) /\ Differ(n, g, RateFields)
<1> DEFINE c == LastWindows(g["c2s"])
           s == LastWindows(g["s2c"])
           streak == s.rate_empty_samples - g["s2c"].rate_empty_samples
           longest == IF streak > c.rate_empty_streak THEN streak ELSE c.rate_empty_streak
           cc == [c EXCEPT !.rate_empty_streak = longest]
           ss == [s EXCEPT !.rate_empty_streak = g["s2c"].rate_empty_streak]
<1>1. \A x \in Dirs : DOMAIN g[x] = Fields BY DEF Shaped
<1>2. DOMAIN c = Fields /\ \A k \in Fields \ RateFields : c[k] = g["c2s"][k]
  BY <1>1, LastWindowsKeeps DEF Dirs
<1>3. DOMAIN s = Fields /\ \A k \in Fields \ RateFields : s[k] = g["s2c"][k]
  BY <1>1, LastWindowsKeeps DEF Dirs
<1>4. n = [c2s |-> cc, s2c |-> ss] BY DEF ConnStats
<1> HIDE DEF c, s, longest
<1>5. DOMAIN cc = Fields /\ \A k \in Fields \ RateFields : cc[k] = g["c2s"][k] BY <1>2 DEF RateFields, CountFields
<1>6. DOMAIN ss = Fields /\ \A k \in Fields \ RateFields : ss[k] = g["s2c"][k] BY <1>3 DEF RateFields, CountFields
<1> HIDE DEF cc, ss
<1>7. Shaped(n) BY <1>4, <1>5, <1>6 DEF Shaped, Dirs
<1>8. Differ(n, g, RateFields) BY <1>4, <1>5, <1>6 DEF Differ, Dirs
<1> QED BY <1>7, <1>8

\* The tcb of x after a packet has been counted.
CountedTcb(n, g, p, x) ==
  LET here == x = p.dir
      sc == IF here THEN g[x].syn_count + One(p.syn) ELSE g[x].syn_count
      fc == IF here THEN g[x].fin_count + One(p.fin) ELSE g[x].fin_count
      fs == IF here /\ p.fin THEN Seq0(p) ELSE g[x].fin_seqno
      end == Seq0(p) + p.len
  IN /\ n[x].syn_count = sc /\ n[x].fin_count = fc /\ n[x].fin_seqno = fs
     /\ n[x].closed = IF ~here /\ p.ackset /\ fc >= 1 /\ Ack0(p) >= Mod(fs + 1) THEN TRUE ELSE g[x].closed
     /\ n[x].cwnd_flag = IF here THEN g[x].cwnd_flag \/ p.len # 0 \/ Control(p)
                         ELSE g[x].cwnd_flag /\ ~p.ackset
     /\ n[x].syn = IF p.syn /\ here THEN Seq0(p) ELSE g[x].syn
     /\ n[x].ack = IF p.syn /\ ~here THEN Seq0(p) ELSE g[x].ack
     /\ n[x].fin = IF p.fin /\ here THEN Mod(end) ELSE g[x].fin
     /\ n[x].bad_behavior = IF p.syn /\ here THEN g[x].bad_behavior \/ (sc > 1 /\ g[x].syn # Seq0(p))
                            ELSE IF p.fin /\ here THEN g[x].bad_behavior \/ (fc > 1 /\ g[x].fin # end)
                            ELSE g[x].bad_behavior
     /\ n[x].min_seq = IF here /\ g[x].min_seq = 0 THEN Seq0(p) ELSE g[x].min_seq
     /\ n[x].seq = IF here /\ ~(Again(p) > 0) THEN Mod(end) ELSE g[x].seq
     /\ LET retrans == Again(p) - One(p.syn /\ sc > 1) - One(p.fin /\ fc > 1)
        IN n[x].unique_bytes = IF here /\ ~(retrans >= p.len) THEN g[x].unique_bytes + p.len - retrans
                               ELSE g[x].unique_bytes

\* The steps of a packet that are taken before its flags end the flow,
\* as one.
LEMMA CountedEffect ==
  ASSUME NEW g, Shaped(g), NEW p, p.dir \in Dirs, NEW n, n = Counted(CountFlags(g, p), p),
         p.syn => ~p.fin
  PROVE  /\ Shaped(n)
         /\ \A x \in Dirs : CountedTcb(n, g, p, x)
         /\ Differ(n, g, CountFields)
<1> DEFINE g1 == CountFlags(g, p)
           g2 == AckOfFin(g1, p)
           g3 == FlightFlags(g2, p)
           g4 == SynLimits(g3, p)
           g5 == FinLimits(g4, p)
           g6 == TakeOptions(g5, p)
           g7 == DropScales(g6, p)
           g8 == DataStats(g7, p)
           g9 == MinSeq(g8, p)
           g10 == Unique(g9, p)
<1>0. n = SeqOrRexmit(g10, p) BY Zenon DEF Counted, SeqLimits, Options
<1> HIDE DEF g10
<1>1. /\ Shaped(g1)
      /\ \A x \in Dirs :
           /\ g1[x].syn_count = IF x = p.dir THEN g[x].syn_count + One(p.syn) ELSE g[x].syn_count
           /\ g1[x].fin_count = IF x = p.dir THEN g[x].fin_count + One(p.fin) ELSE g[x].fin_count
           /\ g1[x].fin_seqno = IF x = p.dir /\ p.fin THEN Seq0(p) ELSE g[x].fin_seqno
      /\ Differ(g1, g, {"syn_count", "fin_count", "reset_count", "fin_seqno"})
  BY CountFlagsEffect
<1> HIDE DEF g1
<1>2. /\ Shaped(g2)
      /\ \A x \in Dirs :
           g2[x].closed = IF /\ x = Other(p.dir) /\ p.ackset /\ g1[x].fin_count >= 1
                             /\ Ack0(p) >= Mod(g1[x].fin_seqno + 1)
                          THEN TRUE ELSE g1[x].closed
      /\ Differ(g2, g1, {"closed"})
  BY <1>1, AckOfFinEffect
<1> HIDE DEF g2
<1>3. /\ Shaped(g3)
      /\ \A x \in Dirs :
           g3[x].cwnd_flag = IF x = p.dir THEN g2[x].cwnd_flag \/ p.len # 0 \/ Control(p)
                             ELSE g2[x].cwnd_flag /\ ~p.ackset
      /\ Differ(g3, g2, {"cwnd_flag"})
  BY <1>2, FlightFlagsEffect
<1> HIDE DEF g3
<1>4. /\ Shaped(g4)
      /\ \A x \in Dirs :
              /\ g4[x].syn = IF p.syn /\ x = p.dir THEN Seq0(p) ELSE g3[x].syn
              /\ g4[x].ack = IF p.syn /\ x # p.dir THEN Seq0(p) ELSE g3[x].ack
              /\ g4[x].bad_behavior = IF p.syn /\ x = p.dir
                                     THEN g3[x].bad_behavior \/ (g3[x].syn_count > 1 /\ g3[x].syn # Seq0(p))
                                     ELSE g3[x].bad_behavior
      /\ Differ(g4, g3, {"syn", "ack", "bad_behavior"})
  BY <1>3, SynLimitsEffect
<1> HIDE DEF g4
<1>5. /\ Shaped(g5)
      /\ \A x \in Dirs :
           /\ g5[x].bad_behavior = IF x = p.dir /\ ~(~p.fin)
                THEN (g4[p.dir].bad_behavior \/ (g4[p.dir].fin_count > 1 /\ g4[p.dir].fin # Seq0(p) + p.len))
                ELSE g4[x].bad_behavior
           /\ g5[x].fin = IF x = p.dir /\ ~(~p.fin) THEN Mod(Seq0(p) + p.len) ELSE g4[x].fin
      /\ Differ(g5, g4, {"bad_behavior", "fin"})
  BY <1>4, FinLimitsEffect
<1> HIDE DEF g5
<1>6. Shaped(g6) /\ Differ(g6, g5, {"window_scale", "f1323_ws", "mss", "f1323_ts", "fsack_req", "sacks_sent"})
  BY <1>5, TakeOptionsEffect
<1> HIDE DEF g6
<1>7. Shaped(g7) /\ Differ(g7, g6, {"window_scale"}) BY <1>6, DropScalesEffect
<1> HIDE DEF g7
<1>8. Shaped(g8) /\ Differ(g8, g7, RateFields \cup {"data_bytes"}) BY <1>7, DataStatsEffect
<1> HIDE DEF g8
<1>9. /\ Shaped(g9)
      /\ \A x \in Dirs : g9[x].min_seq = IF x = p.dir THEN (IF g8[p.dir].min_seq = 0 THEN Seq0(p) ELSE g8[p.dir].min_seq)
                                         ELSE g8[x].min_seq
      /\ Differ(g9, g8, {"min_seq"})
  BY <1>8, MinSeqEffect
<1> HIDE DEF g9
<1>10. /\ Shaped(g10)
       /\ \A x \in Dirs : g10[x].unique_bytes = IF x = p.dir /\ ~(Retrans(g9, p) >= p.len)
                            THEN g9[p.dir].unique_bytes + p.len - Retrans(g9, p) ELSE g9[x].unique_bytes
       /\ Differ(g10, g9, {"unique_bytes"})
  BY <1>9, UniqueEffect DEF g10
<1>11. /\ Shaped(n)
       /\ \A x \in Dirs : n[x].seq = IF x = p.dir THEN (IF Again(p) > 0 THEN g10[p.dir].seq ELSE Mod(Seq0(p) + p.len))
                                     ELSE g10[x].seq
       /\ Differ(n, g10, {"rexmit_bytes", "seq"})
  BY <1>0, <1>10, SeqOrRexmitEffect
<1>20. \A x \in Dirs : x = Other(p.dir) <=> x # p.dir BY OtherDir
<1>21. \A x \in Dirs : n[x].syn_count = g1[x].syn_count /\ n[x].fin_count = g1[x].fin_count /\ n[x].fin_seqno =
         g1[x].fin_seqno /\ g9[x].syn_count = g1[x].syn_count /\ g9[x].fin_count = g1[x].fin_count /\
         g3[x].syn_count = g1[x].syn_count /\ g4[x].fin_count = g1[x].fin_count
  <2>1. Differ(n, g1, RateFields \cup {"closed", "cwnd_flag", "syn", "ack", "bad_behavior", "fin",
         "window_scale", "f1323_ws", "mss", "f1323_ts", "fsack_req", "sacks_sent", "data_bytes", "min_seq",
         "unique_bytes", "rexmit_bytes", "seq"})
    BY <1>2, <1>3, <1>4, <1>5, <1>6, <1>7, <1>8, <1>9, <1>10, <1>11 DEF Differ
  <2>2. \A x \in Dirs : n[x].syn_count = g1[x].syn_count /\ n[x].fin_count = g1[x].fin_count /\ n[x].fin_seqno = g1[x].fin_seqno
    BY <2>1 DEF Differ, Fields, Tcb, RateFields, CountFields
  <2>3. Differ(g9, g1, RateFields \cup {"closed", "cwnd_flag", "syn", "ack", "bad_behavior", "fin",
         "window_scale", "f1323_ws", "mss", "f1323_ts", "fsack_req", "sacks_sent", "data_bytes", "min_seq"})
    BY <1>2, <1>3, <1>4, <1>5, <1>6, <1>7, <1>8, <1>9 DEF Differ
  <2>4. \A x \in Dirs : g9[x].syn_count = g1[x].syn_count /\ g9[x].fin_count = g1[x].fin_count
    BY <2>3 DEF Differ, Fields, Tcb, RateFields, CountFields
  <2>5. Differ(g3, g1, {"closed", "cwnd_flag"}) BY <1>2, <1>3 DEF Differ
  <2>6. \A x \in Dirs : g3[x].syn_count = g1[x].syn_count BY <2>5 DEF Differ, Fields, Tcb, RateFields, CountFields
  <2>7. Differ(g4, g1, {"closed", "cwnd_flag", "syn", "ack", "bad_behavior"}) BY <1>2, <1>3, <1>4 DEF Differ
  <2>8. \A x \in Dirs : g4[x].fin_count = g1[x].fin_count BY <2>7 DEF Differ, Fields, Tcb, RateFields, CountFields
  <2> QED BY <2>2, <2>4, <2>6, <2>8
<1>22. \A x \in Dirs : n[x].closed = g2[x].closed /\ g1[x].closed = g[x].closed /\ n[x].cwnd_flag = g3[x].cwnd_flag /\
         g2[x].cwnd_flag = g[x].cwnd_flag
  <2>1. Differ(n, g2, RateFields \cup {"cwnd_flag", "syn", "ack", "bad_behavior", "fin", "window_scale",
         "f1323_ws", "mss", "f1323_ts", "fsack_req", "sacks_sent", "data_bytes", "min_seq", "unique_bytes",
         "rexmit_bytes", "seq"})
    BY <1>3, <1>4, <1>5, <1>6, <1>7, <1>8, <1>9, <1>10, <1>11 DEF Differ
  <2>2. \A x \in Dirs : n[x].closed = g2[x].closed BY <2>1 DEF Differ, Fields, Tcb, RateFields, CountFields
  <2>3. Differ(g1, g, {"syn_count", "fin_count", "reset_count", "fin_seqno"}) BY <1>1 DEF Differ
  <2>4. \A x \in Dirs : g1[x].closed = g[x].closed BY <2>3 DEF Differ, Fields, Tcb, RateFields, CountFields
  <2>5. Differ(n, g3, RateFields \cup {"syn", "ack", "bad_behavior", "fin", "window_scale", "f1323_ws",
         "mss", "f1323_ts", "fsack_req", "sacks_sent", "data_bytes", "min_seq", "unique_bytes",
         "rexmit_bytes", "seq"})
    BY <1>4, <1>5, <1>6, <1>7, <1>8, <1>9, <1>10, <1>11 DEF Differ
  <2>6. \A x \in Dirs : n[x].cwnd_flag = g3[x].cwnd_flag BY <2>5 DEF Differ, Fields, Tcb, RateFields, CountFields
  <2>7. Differ(g2, g, {"syn_count", "fin_count", "reset_count", "fin_seqno", "closed"})
    BY <1>1, <1>2 DEF Differ
  <2>8. \A x \in Dirs : g2[x].cwnd_flag = g[x].cwnd_flag BY <2>7 DEF Differ, Fields, Tcb, RateFields, CountFields
  <2> QED BY <2>2, <2>4, <2>6, <2>8
<1>23. \A x \in Dirs : n[x].syn = g4[x].syn /\ n[x].ack = g4[x].ack /\ g3[x].syn = g[x].syn /\ g3[x].ack = g[x].ack /\
         n[x].fin = g5[x].fin /\ g4[x].fin = g[x].fin
  <2>1. Differ(n, g4, RateFields \cup {"bad_behavior", "fin", "window_scale", "f1323_ws", "mss", "f1323_ts",
         "fsack_req", "sacks_sent", "data_bytes", "min_seq", "unique_bytes", "rexmit_bytes", "seq"})
    BY <1>5, <1>6, <1>7, <1>8, <1>9, <1>10, <1>11 DEF Differ
  <2>2. \A x \in Dirs : n[x].syn = g4[x].syn /\ n[x].ack = g4[x].ack
    BY <2>1 DEF Differ, Fields, Tcb, RateFields, CountFields
  <2>3. Differ(g3, g, {"syn_count", "fin_count", "reset_count", "fin_seqno", "closed", "cwnd_flag"})
    BY <1>1, <1>2, <1>3 DEF Differ
  <2>4. \A x \in Dirs : g3[x].syn = g[x].syn /\ g3[x].ack = g[x].ack
    BY <2>3 DEF Differ, Fields, Tcb, RateFields, CountFields
  <2>5. Differ(n, g5, RateFields \cup {"window_scale", "f1323_ws", "mss", "f1323_ts", "fsack_req",
         "sacks_sent", "data_bytes", "min_seq", "unique_bytes", "rexmit_bytes", "seq"})
    BY <1>6, <1>7, <1>8, <1>9, <1>10, <1>11 DEF Differ
  <2>6. \A x \in Dirs : n[x].fin = g5[x].fin BY <2>5 DEF Differ, Fields, Tcb, RateFields, CountFields
  <2>7. Differ(g4, g, {"syn_count", "fin_count", "reset_count", "fin_seqno", "closed", "cwnd_flag", "syn",
         "ack", "bad_behavior"})
    BY <1>1, <1>2, <1>3, <1>4 DEF Differ
  <2>8. \A x \in Dirs : g4[x].fin = g[x].fin BY <2>7 DEF Differ, Fields, Tcb, RateFields, CountFields
  <2> QED BY <2>2, <2>4, <2>6, <2>8
<1>24. \A x \in Dirs : n[x].bad_behavior = g5[x].bad_behavior /\ g3[x].bad_behavior = g[x].bad_behavior /\ n[x].min_seq =
         g9[x].min_seq /\ g8[x].min_seq = g[x].min_seq
  <2>1. Differ(n, g5, RateFields \cup {"window_scale", "f1323_ws", "mss", "f1323_ts", "fsack_req",
         "sacks_sent", "data_bytes", "min_seq", "unique_bytes", "rexmit_bytes", "seq"})
    BY <1>6, <1>7, <1>8, <1>9, <1>10, <1>11 DEF Differ
  <2>2. \A x \in Dirs : n[x].bad_behavior = g5[x].bad_behavior BY <2>1 DEF Differ, Fields, Tcb, RateFields, CountFields
  <2>3. Differ(g3, g, {"syn_count", "fin_count", "reset_count", "fin_seqno", "closed", "cwnd_flag"})
    BY <1>1, <1>2, <1>3 DEF Differ
  <2>4. \A x \in Dirs : g3[x].bad_behavior = g[x].bad_behavior BY <2>3 DEF Differ, Fields, Tcb, RateFields, CountFields
  <2>5. Differ(n, g9, {"unique_bytes", "rexmit_bytes", "seq"}) BY <1>10, <1>11 DEF Differ
  <2>6. \A x \in Dirs : n[x].min_seq = g9[x].min_seq BY <2>5 DEF Differ, Fields, Tcb, RateFields, CountFields
  <2>7. Differ(g8, g, RateFields \cup {"syn_count", "fin_count", "reset_count", "fin_seqno", "closed",
         "cwnd_flag", "syn", "ack", "bad_behavior", "fin", "window_scale", "f1323_ws", "mss", "f1323_ts",
         "fsack_req", "sacks_sent", "data_bytes"})
    BY <1>1, <1>2, <1>3, <1>4, <1>5, <1>6, <1>7, <1>8 DEF Differ
  <2>8. \A x \in Dirs : g8[x].min_seq = g[x].min_seq BY <2>7 DEF Differ, Fields, Tcb, RateFields, CountFields
  <2> QED BY <2>2, <2>4, <2>6, <2>8
<1>25. \A x \in Dirs : n[x].unique_bytes = g10[x].unique_bytes /\ g9[x].unique_bytes = g[x].unique_bytes /\ g10[x].seq =
         g[x].seq
  <2>1. Differ(n, g10, {"rexmit_bytes", "seq"}) BY <1>11 DEF Differ
  <2>2. \A x \in Dirs : n[x].unique_bytes = g10[x].unique_bytes BY <2>1 DEF Differ, Fields, Tcb, RateFields, CountFields
  <2>3. Differ(g9, g, RateFields \cup {"syn_count", "fin_count", "reset_count", "fin_seqno", "closed",
         "cwnd_flag", "syn", "ack", "bad_behavior", "fin", "window_scale", "f1323_ws", "mss", "f1323_ts",
         "fsack_req", "sacks_sent", "data_bytes", "min_seq"})
    BY <1>1, <1>2, <1>3, <1>4, <1>5, <1>6, <1>7, <1>8, <1>9 DEF Differ
  <2>4. \A x \in Dirs : g9[x].unique_bytes = g[x].unique_bytes BY <2>3 DEF Differ, Fields, Tcb, RateFields, CountFields
  <2>5. Differ(g10, g, RateFields \cup {"syn_count", "fin_count", "reset_count", "fin_seqno", "closed",
         "cwnd_flag", "syn", "ack", "bad_behavior", "fin", "window_scale", "f1323_ws", "mss", "f1323_ts",
         "fsack_req", "sacks_sent", "data_bytes", "min_seq", "unique_bytes"})
    BY <1>1, <1>2, <1>3, <1>4, <1>5, <1>6, <1>7, <1>8, <1>9, <1>10 DEF Differ
  <2>6. \A x \in Dirs : g10[x].seq = g[x].seq BY <2>5 DEF Differ, Fields, Tcb, RateFields, CountFields
  <2> QED BY <2>2, <2>4, <2>6
<1>26. Differ(n, g, CountFields)
  BY <1>1, <1>2, <1>3, <1>4, <1>5, <1>6, <1>7, <1>8, <1>9, <1>10, <1>11 DEF Differ, CountFields
<1> HIDE DEF g10
<1> SUFFICES ASSUME NEW x \in Dirs PROVE CountedTcb(n, g, p, x) BY <1>11, <1>26, Zenon
<1>31. n[x].closed = IF /\ x # p.dir /\ p.ackset
                        /\ (IF x = p.dir THEN g[x].fin_count + One(p.fin) ELSE g[x].fin_count) >= 1
                        /\ Ack0(p) >= Mod((IF x = p.dir /\ p.fin THEN Seq0(p) ELSE g[x].fin_seqno) + 1)
                     THEN TRUE ELSE g[x].closed
  BY <1>1, <1>2, <1>20, <1>22, ZenonT(60)
<1>32. n[x].cwnd_flag = IF x = p.dir THEN g[x].cwnd_flag \/ p.len # 0 \/ Control(p) ELSE g[x].cwnd_flag /\ ~p.ackset
  BY <1>3, <1>22
<1>33. n[x].bad_behavior =
         IF p.syn /\ x = p.dir THEN g[x].bad_behavior \/ (g[x].syn_count + One(p.syn) > 1 /\ g[x].syn # Seq0(p))
         ELSE IF p.fin /\ x = p.dir THEN g[x].bad_behavior \/ (g[x].fin_count + One(p.fin) > 1 /\ g[x].fin # Seq0(p) + p.len)
         ELSE g[x].bad_behavior
  BY <1>1, <1>4, <1>5, <1>21, <1>23, <1>24
<1>34. n[x].unique_bytes =
         LET sc == IF x = p.dir THEN g[x].syn_count + One(p.syn) ELSE g[x].syn_count
             fc == IF x = p.dir THEN g[x].fin_count + One(p.fin) ELSE g[x].fin_count
             retrans == Again(p) - One(p.syn /\ sc > 1) - One(p.fin /\ fc > 1)
         IN IF x = p.dir /\ ~(retrans >= p.len) THEN g[x].unique_bytes + p.len - retrans ELSE g[x].unique_bytes
  BY <1>1, <1>10, <1>21, <1>25 DEF Retrans
<1> QED
  BY <1>1, <1>4, <1>5, <1>9, <1>11, <1>21, <1>23, <1>24, <1>25, <1>31, <1>32, <1>33, <1>34 DEF CountedTcb

\* The tcb of x when all has been measured.
MeasuredTcb(n, g, p, eff, x) ==
  LET here == x = p.dir
      ends == here /\ Ends(p) /\ g[x].msg_last_seq < g[x].seq
      size == MessageSize(g[x])
      cwin == Outstanding(g, p)
  IN /\ n[x].win_max = IF here /\ (p.ackset \/ p.syn) /\ eff > g[x].win_max THEN eff ELSE g[x].win_max
     /\ n[x].win_min = IF here /\ (p.ackset \/ p.syn) /\ eff > 0 /\ (g[x].win_min = 0 \/ eff < g[x].win_min)
                       THEN eff ELSE g[x].win_min
     /\ n[x].ack = IF here /\ p.ackset THEN Ack0(p) ELSE g[x].ack
     /\ n[x].cwin_max = IF here /\ Advances(g, p) /\ cwin > g[x].cwin_max THEN cwin ELSE g[x].cwin_max
     /\ n[x].cwin_min = IF here /\ Advances(g, p) /\ (g[x].cwin_min = 0 \/ cwin < g[x].cwin_min)
                        THEN cwin ELSE g[x].cwin_min
     /\ n[x].msg_size = IF ends /\ g[x].msg_count < MaxMessages /\ size > 0
                        THEN Append(g[x].msg_size, size) ELSE g[x].msg_size
     /\ n[x].msg_count = IF ends THEN g[x].msg_count + One(size > 0) ELSE g[x].msg_count
     /\ n[x].msg_last_seq = IF ends THEN g[x].seq ELSE g[x].msg_last_seq

\* The steps that are taken only while the flow goes on, as one.
LEMMA MeasuredEffect ==
  ASSUME NEW g, Shaped(g), NEW p, p.dir \in Dirs, NEW eff, NEW n, n = Measured(g, p, eff)
  PROVE  /\ Shaped(n)
         /\ \A x \in Dirs : MeasuredTcb(n, g, p, eff, x)
         /\ Differ(n, g, {"win_max", "win_min", "ack", "data_acked", "initialwin_bytes", "cwin_max", "cwin_min",
                          "msg_size", "msg_count", "msg_last_seq"})
<1> DEFINE g1 == Windows(g, p, eff)
           g2 == AckNumber(g1, p)
           g3 == DataAcked(g2, p)
           g4 == InitialWindow(g3, p)
           g5 == CongestionWindow(g4, p)
<1>0. n = Messages(g5, p) BY Zenon DEF Measured
<1> HIDE DEF g5
<1>1. /\ Shaped(g1)
      /\ \A x \in Dirs :
           /\ g1[x].win_max = IF x = p.dir /\ ~(~p.ackset /\ ~p.syn)
                              THEN (IF eff > g[p.dir].win_max THEN eff ELSE g[p.dir].win_max) ELSE g[x].win_max
           /\ g1[x].win_min = IF x = p.dir /\ ~(~p.ackset /\ ~p.syn)
                              THEN (IF eff > 0 /\ (g[p.dir].win_min = 0 \/ eff < g[p.dir].win_min) THEN eff
                                    ELSE g[p.dir].win_min)
                              ELSE g[x].win_min
      /\ Differ(g1, g, {"win_max", "win_min"})
  BY WindowsEffect
<1> HIDE DEF g1
<1>2. /\ Shaped(g2)
      /\ \A x \in Dirs : g2[x].ack = IF x = p.dir /\ ~(~p.ackset) THEN Ack0(p) ELSE g1[x].ack
      /\ Differ(g2, g1, {"ack"})
  BY <1>1, AckNumberEffect
<1> HIDE DEF g2
<1>3. Shaped(g3) /\ Differ(g3, g2, {"data_acked"}) BY <1>2, DataAckedEffect
<1> HIDE DEF g3
<1>4. Shaped(g4) /\ Differ(g4, g3, {"initialwin_bytes"}) BY <1>3, InitialWindowEffect
<1> HIDE DEF g4
<1>5. /\ Shaped(g5)
      /\ \A x \in Dirs :
           /\ g5[x].cwin_max = IF x = p.dir /\ ~(~Advances(g4, p))
                THEN (IF Outstanding(g4, p) > g4[p.dir].cwin_max THEN Outstanding(g4, p) ELSE g4[p.dir].cwin_max)
                ELSE g4[x].cwin_max
           /\ g5[x].cwin_min = IF x = p.dir /\ ~(~Advances(g4, p))
                THEN (IF g4[p.dir].cwin_min = 0 \/ Outstanding(g4, p) < g4[p.dir].cwin_min THEN Outstanding(g4, p)
                      ELSE g4[p.dir].cwin_min)
                ELSE g4[x].cwin_min
      /\ Differ(g5, g4, {"cwin_max", "cwin_min"})
  BY <1>4, CongestionWindowEffect DEF g5
<1>6. Differ(g4, g, {"win_max", "win_min", "ack", "data_acked", "initialwin_bytes"})
  BY <1>1, <1>2, <1>3, <1>4 DEF Differ
<1>7. Differ(g5, g, {"win_max", "win_min", "ack", "data_acked", "initialwin_bytes", "cwin_max", "cwin_min"})
  BY <1>6, <1>5 DEF Differ
<1>8. \A x \in Dirs : g5[x].win_max = g1[x].win_max /\ g5[x].win_min = g1[x].win_min
  <2>1. Differ(g5, g1, {"ack", "data_acked", "initialwin_bytes", "cwin_max", "cwin_min"})
    BY <1>2, <1>3, <1>4, <1>5 DEF Differ
  <2> QED BY <2>1 DEF Differ, Fields, Tcb
<1>9. \A x \in Dirs : g5[x].ack = g2[x].ack /\ g4[x].ack = g2[x].ack
  <2>1. Differ(g4, g2, {"data_acked", "initialwin_bytes"}) /\ Differ(g5, g2, {"data_acked", "initialwin_bytes", "cwin_max", "cwin_min"})
    BY <1>3, <1>4, <1>5 DEF Differ
  <2> QED BY <2>1 DEF Differ, Fields, Tcb
<1>10. \A x \in Dirs : g1[x].ack = g[x].ack BY <1>1 DEF Differ, Fields, Tcb
<1>11. \A x \in Dirs : g4[x].cwin_max = g[x].cwin_max /\ g4[x].cwin_min = g[x].cwin_min
  BY <1>6 DEF Differ, Fields, Tcb
<1>12. \A x \in Dirs : /\ g5[x].seq = g[x].seq /\ g5[x].msg_last_seq = g[x].msg_last_seq
                       /\ g5[x].msg_size = g[x].msg_size /\ g5[x].msg_count = g[x].msg_count
                       /\ g5[x].min_seq = g[x].min_seq
  BY <1>7 DEF Differ, Fields, Tcb
<1>13. \A x \in Dirs : MessageSize(g5[x]) = MessageSize(g[x]) BY <1>12 DEF MessageSize
<1>14. Outstanding(g4, p) = Outstanding(g, p) /\ (Advances(g4, p) <=> Advances(g, p))
  <2>1. g4[Other(p.dir)].ack = g[Other(p.dir)].ack BY <1>2, <1>9, <1>10, OtherDir
  <2> QED BY <2>1 DEF Advances, Outstanding
<1>15. \A x \in Dirs :
         /\ g5[x].ack = IF x = p.dir /\ p.ackset THEN Ack0(p) ELSE g[x].ack
         /\ g5[x].cwin_max = IF x = p.dir /\ Advances(g, p) /\ Outstanding(g, p) > g[x].cwin_max
                             THEN Outstanding(g, p) ELSE g[x].cwin_max
         /\ g5[x].cwin_min = IF x = p.dir /\ Advances(g, p) /\ (g[x].cwin_min = 0 \/ Outstanding(g, p) < g[x].cwin_min)
                             THEN Outstanding(g, p) ELSE g[x].cwin_min
         /\ g5[x].win_max = IF x = p.dir /\ (p.ackset \/ p.syn) /\ eff > g[x].win_max THEN eff ELSE g[x].win_max
         /\ g5[x].win_min = IF x = p.dir /\ (p.ackset \/ p.syn) /\ eff > 0 /\ (g[x].win_min = 0 \/ eff < g[x].win_min)
                            THEN eff ELSE g[x].win_min
  BY <1>1, <1>2, <1>5, <1>8, <1>9, <1>10, <1>11, <1>14
<1> DEFINE T == {"msg_size", "msg_count", "msg_last_seq"}
<1>16. CASE Ends(p) /\ g5[p.dir].msg_last_seq < g5[p.dir].seq
  <2>1. n = EndMessage(g5, p.dir) BY <1>0, <1>16 DEF Messages
  <2>2. /\ Shaped(n)
        /\ n[p.dir].msg_size = IF g5[p.dir].msg_count < MaxMessages /\ MessageSize(g5[p.dir]) > 0
                            THEN Append(g5[p.dir].msg_size, MessageSize(g5[p.dir])) ELSE g5[p.dir].msg_size
        /\ n[p.dir].msg_count = g5[p.dir].msg_count + One(MessageSize(g5[p.dir]) > 0)
        /\ n[p.dir].msg_last_seq = g5[p.dir].seq
        /\ \A x \in Dirs \ {p.dir} : n[x] = g5[x]
        /\ Differ(n, g5, {"msg_size", "msg_count", "msg_last_seq"})
    BY <2>1, <1>5, EndMessageEffect
  <2>3. \A x \in Dirs : /\ n[x].ack = g5[x].ack /\ n[x].cwin_max = g5[x].cwin_max /\ n[x].cwin_min = g5[x].cwin_min
                        /\ n[x].win_max = g5[x].win_max /\ n[x].win_min = g5[x].win_min
    BY <2>2 DEF Differ, Fields, Tcb
  <2>4. Differ(n, g, {"win_max", "win_min", "ack", "data_acked", "initialwin_bytes", "cwin_max", "cwin_min",
                      "msg_size", "msg_count", "msg_last_seq"})
    BY <2>2, <1>7 DEF Differ
  <2>5. \A x \in Dirs :
          LET ends == x = p.dir /\ Ends(p) /\ g[x].msg_last_seq < g[x].seq
              size == MessageSize(g[x])
          IN     /\ n[x].msg_size = IF ends /\ g[x].msg_count < MaxMessages /\ size > 0
                                    THEN Append(g[x].msg_size, size) ELSE g[x].msg_size
                 /\ n[x].msg_count = IF ends THEN g[x].msg_count + One(size > 0) ELSE g[x].msg_count
                 /\ n[x].msg_last_seq = IF ends THEN g[x].seq ELSE g[x].msg_last_seq
    BY <2>2, <1>12, <1>13, <1>16
  <2> QED BY <2>2, <2>3, <2>4, <2>5, <1>15 DEF MeasuredTcb
<1>17. CASE ~(Ends(p) /\ g5[p.dir].msg_last_seq < g5[p.dir].seq)
  <2>1. n = g5 BY <1>0, <1>17 DEF Messages
  <2>4. Differ(n, g, {"win_max", "win_min", "ack", "data_acked", "initialwin_bytes", "cwin_max", "cwin_min",
                      "msg_size", "msg_count", "msg_last_seq"})
    BY <2>1, <1>7 DEF Differ
  <2> QED BY <2>1, <2>4, <1>5, <1>12, <1>15, <1>17 DEF MeasuredTcb
<1> QED BY <1>16, <1>17

\* A packet ends the flow half duplex, by a reset or by the last close,
\* or is measured and the flow goes on.
LEMMA PacketEffect ==
  ASSUME Shaped(tcb), NEW p, p.dir \in Dirs, p.syn => ~p.fin, Packet(p),
         NEW b, b = Counted(CountFlags(tcb, p), p)
  PROVE  /\ Shaped(tcb')
         /\ conf' = conf /\ h' = Remember(p)
         /\ \/ ended' = "half" /\ HalfDuplex(CountFlags(tcb, p), p) /\ Differ(tcb', CountFlags(tcb, p), RateFields)
            \/ ended' = "reset" /\ p.rst /\ Differ(tcb', b, RateFields)
            \/ /\ ended' \in {"no", "complete"} /\ ~p.rst
               /\ Differ(tcb', Measured(b, p, EffWin(CountFlags(tcb, p), p)), RateFields)
               /\ ended' = "complete" <=> \A x \in Dirs : tcb'[x].closed
<1> DEFINE a == CountFlags(tcb, p)
           c == Measured(b, p, EffWin(a, p))
<1>1. Shaped(a) BY CountFlagsEffect
<1>2. Shaped(b) BY CountedEffect
<1>3. Shaped(c) BY <1>2, MeasuredEffect
<1>4. \A g : Shaped(g) => Shaped(ConnStats(g)) /\ Differ(ConnStats(g), g, RateFields) BY ConnStatsEffect
<1>5. conf' = conf /\ h' = Remember(p) /\ ended = "no" BY DEF Packet
<1>6. \/ HalfDuplex(a, p) /\ EndFlow(a, "half")
      \/ p.rst /\ EndFlow(b, "reset")
      \/ ~p.rst /\ ConnComplete(c) /\ EndFlow(c, "complete")
      \/ ~p.rst /\ ~ConnComplete(c) /\ tcb' = c /\ ended' = ended
  BY DEF Packet
<1> HIDE DEF a, c
<1>7. CASE HalfDuplex(a, p) /\ EndFlow(a, "half") BY <1>1, <1>4, <1>5, <1>7 DEF EndFlow, a
<1>8. CASE p.rst /\ EndFlow(b, "reset") BY <1>2, <1>4, <1>5, <1>8 DEF EndFlow
<1>9. CASE ~p.rst /\ ConnComplete(c) /\ EndFlow(c, "complete")
  <2>1. Shaped(tcb') /\ Differ(tcb', c, RateFields) /\ ended' = "complete" BY <1>3, <1>4, <1>9 DEF EndFlow
  <2>2. \A x \in Dirs : tcb'[x].closed = c[x].closed BY <2>1 DEF Differ, Fields, Tcb, RateFields, CountFields
  <2> QED BY <2>1, <2>2, <1>5, <1>9 DEF ConnComplete, c, a
<1>10. CASE ~p.rst /\ ~ConnComplete(c) /\ tcb' = c /\ ended' = ended
  <2>1. Differ(c, c, RateFields) BY DEF Differ
  <2> QED BY <2>1, <1>3, <1>5, <1>10 DEF ConnComplete, c, a
<1> QED BY <1>6, <1>7, <1>8, <1>9, <1>10

\* The options of x after a packet has been counted.
OptionsTcb(n, g, p, x) ==
  LET o == p.opts
      here == x = p.dir
  IN /\ n[x].f1323_ws = IF here THEN g[x].f1323_ws \/ o.ws # Absent ELSE g[x].f1323_ws
     /\ n[x].window_scale = IF ~p.syn /\ \E y \in Dirs : ~n[y].f1323_ws THEN 0
                            ELSE IF here /\ o.ws # Absent THEN o.ws ELSE g[x].window_scale
     /\ n[x].mss = IF here /\ o.mss # Absent THEN o.mss ELSE g[x].mss
     /\ n[x].f1323_ts = IF here THEN g[x].f1323_ts \/ o.ts ELSE g[x].f1323_ts
     /\ n[x].fsack_req = IF here THEN g[x].fsack_req \/ o.sack_req ELSE g[x].fsack_req

\* What counting a packet does to them.
LEMMA CountedOptions ==
  ASSUME NEW g, Shaped(g), NEW p, p.dir \in Dirs, NEW n, n = Counted(CountFlags(g, p), p)
  PROVE  \A x \in Dirs : OptionsTcb(n, g, p, x)
<1> DEFINE g1 == CountFlags(g, p)
           g2 == AckOfFin(g1, p)
           g3 == FlightFlags(g2, p)
           g4 == SynLimits(g3, p)
           g5 == FinLimits(g4, p)
           g6 == TakeOptions(g5, p)
           g7 == DropScales(g6, p)
           g8 == DataStats(g7, p)
           g9 == MinSeq(g8, p)
           g10 == Unique(g9, p)
<1>0. n = SeqOrRexmit(g10, p) BY Zenon DEF Counted, SeqLimits, Options
<1> HIDE DEF g10
<1>1. /\ Shaped(g1)
      /\ Differ(g1, g, {"syn_count", "fin_count", "reset_count", "fin_seqno"})
  BY CountFlagsEffect
<1> HIDE DEF g1
<1>2. /\ Shaped(g2)
      /\ Differ(g2, g1, {"closed"})
  BY <1>1, AckOfFinEffect
<1> HIDE DEF g2
<1>3. /\ Shaped(g3)
      /\ Differ(g3, g2, {"cwnd_flag"})
  BY <1>2, FlightFlagsEffect
<1> HIDE DEF g3
<1>4. /\ Shaped(g4)
      /\ Differ(g4, g3, {"syn", "ack", "bad_behavior"})
  BY <1>3, SynLimitsEffect
<1> HIDE DEF g4
<1>5. /\ Shaped(g5)
      /\ Differ(g5, g4, {"bad_behavior", "fin"})
  BY <1>4, FinLimitsEffect
<1> HIDE DEF g5
<1>6. /\ Shaped(g6)
      /\ \A x \in Dirs :
           /\ g6[x].window_scale = IF x = p.dir THEN (IF p.opts.ws = Absent THEN g5[p.dir].window_scale ELSE p.opts.ws)
                                   ELSE g5[x].window_scale
           /\ g6[x].f1323_ws = IF x = p.dir THEN (g5[p.dir].f1323_ws \/ p.opts.ws # Absent) ELSE g5[x].f1323_ws
           /\ g6[x].mss = IF x = p.dir THEN (IF p.opts.mss = Absent THEN g5[p.dir].mss ELSE p.opts.mss) ELSE g5[x].mss
           /\ g6[x].f1323_ts = IF x = p.dir THEN (g5[p.dir].f1323_ts \/ p.opts.ts) ELSE g5[x].f1323_ts
           /\ g6[x].fsack_req = IF x = p.dir THEN (g5[p.dir].fsack_req \/ p.opts.sack_req) ELSE g5[x].fsack_req
      /\ Differ(g6, g5, {"window_scale", "f1323_ws", "mss", "f1323_ts", "fsack_req", "sacks_sent"})
  BY <1>5, TakeOptionsEffect
<1> HIDE DEF g6
<1>7. /\ Shaped(g7)
      /\ \A x \in Dirs :
           g7[x].window_scale = IF ~p.syn /\ \E d \in Dirs : ~g6[d].f1323_ws THEN 0 ELSE g6[x].window_scale
      /\ Differ(g7, g6, {"window_scale"})
  BY <1>6, DropScalesEffect
<1> HIDE DEF g7
<1>8. Shaped(g8) /\ Differ(g8, g7, RateFields \cup {"data_bytes"}) BY <1>7, DataStatsEffect
<1> HIDE DEF g8
<1>9. /\ Shaped(g9)
      /\ Differ(g9, g8, {"min_seq"})
  BY <1>8, MinSeqEffect
<1> HIDE DEF g9
<1>10. /\ Shaped(g10)
      /\ Differ(g10, g9, {"unique_bytes"})
  BY <1>9, UniqueEffect DEF g10
<1>11. /\ Shaped(n)
      /\ Differ(n, g10, {"rexmit_bytes", "seq"})
  BY <1>0, <1>10, SeqOrRexmitEffect
<1>20. \A x \in Dirs : n[x].window_scale = g7[x].window_scale
  <2>1. Differ(n, g7, RateFields \cup {"data_bytes", "min_seq", "unique_bytes", "rexmit_bytes", "seq"})
    BY <1>8, <1>9, <1>10, <1>11 DEF Differ
  <2> QED BY <2>1 DEF Differ, Fields, Tcb, RateFields, CountFields
<1>21. \A x \in Dirs : n[x].f1323_ws = g6[x].f1323_ws /\ n[x].mss = g6[x].mss /\ n[x].f1323_ts = g6[x].f1323_ts /\
         n[x].fsack_req = g6[x].fsack_req
  <2>1. Differ(n, g6, RateFields \cup {"window_scale", "data_bytes", "min_seq", "unique_bytes",
         "rexmit_bytes", "seq"})
    BY <1>7, <1>8, <1>9, <1>10, <1>11 DEF Differ
  <2> QED BY <2>1 DEF Differ, Fields, Tcb, RateFields, CountFields
<1>22. \A x \in Dirs : g5[x].window_scale = g[x].window_scale /\ g5[x].f1323_ws = g[x].f1323_ws /\ g5[x].mss = g[x].mss /\
         g5[x].f1323_ts = g[x].f1323_ts /\ g5[x].fsack_req = g[x].fsack_req
  <2>1. Differ(g5, g, {"syn_count", "fin_count", "reset_count", "fin_seqno", "closed", "cwnd_flag", "syn",
         "ack", "bad_behavior", "fin"})
    BY <1>1, <1>2, <1>3, <1>4, <1>5 DEF Differ
  <2> QED BY <2>1 DEF Differ, Fields, Tcb
<1>23. \A x \in Dirs : n[x].window_scale = IF ~p.syn /\ \E y \in Dirs : ~n[y].f1323_ws THEN 0 ELSE g6[x].window_scale
  BY <1>7, <1>20, <1>21
<1> HIDE DEF g10
<1> QED BY <1>6, <1>21, <1>22, <1>23 DEF OptionsTcb

\* The numbers of the sequence space, and the options that a packet may
\* carry.
Positions == 0 .. SeqModulus - 1
OptionSets == [mss : Int, ws : Nat \cup {Absent}, ts : BOOLEAN, sack_req : BOOLEAN,
               sack_count : Nat \cup {Absent}, unknown : Nat]

\* A set of naturals that is not empty has a least member.
LEMMA LeastOf ==
  ASSUME NEW X \in SUBSET Nat, X # {}
  PROVE  \E i \in X : \A j \in X : i <= j
<1>0. IsWellFoundedOn(OpToRel(<, Nat), Nat) BY NatLessThanWellFounded
<1>1. \E i \in X : \A j \in X : ~ (<<j, i>> \in OpToRel(<, Nat)) BY <1>0, WFMin
<1>2. \A j, i \in Nat : <<j, i>> \in OpToRel(<, Nat) <=> j < i BY DEF OpToRel
<1>3. PICK i \in X : \A j \in X : ~ (<<j, i>> \in OpToRel(<, Nat)) BY <1>1
<1>4. \A j \in X : ~ (j < i) /\ j \in Nat /\ i \in Nat BY <1>2, <1>3
<1>5. \A j \in X : i <= j BY <1>4
<1> QED BY <1>5

\* What Max says of a set of positions.
LEMMA MaxOf ==
  ASSUME NEW N \in Nat, NEW S \in SUBSET (0 .. N), S # {}
  PROVE  /\ Max(S) \in S
         /\ \A y \in S : y <= Max(S)
<1> DEFINE U == {u \in 0 .. N : \A y \in S : y <= u}
<1>1. N \in U OBVIOUS
<1>2. U \in SUBSET Nat /\ U # {} BY <1>1
<1>3. PICK u \in U : \A v \in U : u <= v BY <1>2, LeastOf
<1>5. u \in S
  <2> SUFFICES ASSUME u \notin S PROVE FALSE OBVIOUS
  <2>1. PICK s \in S : TRUE OBVIOUS
  <2>2. \A y \in S : y \in Int /\ y <= u - 1 OBVIOUS
  <2>3. u - 1 \in U BY <2>1, <2>2
  <2> QED BY <2>3, <1>3
<1>6. \A y \in S : u >= y OBVIOUS
<1> QED BY <1>5, <1>6 DEF Max

\* The greater of two.
LEMMA MaxTwo ==
  ASSUME NEW a \in Int, NEW b \in Int
  PROVE  Max({a, b}) = IF a >= b THEN a ELSE b
<1>1. \E x \in {a, b} : \A y \in {a, b} : x >= y OBVIOUS
<1>2. Max({a, b}) \in {a, b} /\ \A y \in {a, b} : Max({a, b}) >= y BY <1>1 DEF Max
<1> QED BY <1>2

\* The position after the greatest that was seen.
LEMMA TopOf ==
  ASSUME NEW N \in Nat, NEW S \in SUBSET (0 .. N)
  PROVE  /\ Top(S) \in 0 .. N + 1
         /\ \A y \in S : y < Top(S)
         /\ Top(S) > 0 => Top(S) - 1 \in S
<1>1. CASE S = {} BY <1>1 DEF Top
<1>2. CASE S # {}
  <2>1. Max(S) \in S /\ \A y \in S : y <= Max(S) BY <1>2, MaxOf
  <2>2. Top(S) = Max(S) + 1 BY <1>2 DEF Top
  <2>3. Max(S) \in 0 .. N BY <2>1
  <2> QED BY <2>1, <2>2, <2>3
<1> QED BY <1>1, <1>2

\* A number wraps into the sequence space,
LEMMA ModRange ==
  ASSUME NEW a \in Int
  PROVE  Mod(a) \in Positions
BY TcpAnalysisAssumption DEF Mod, Positions

\* is itself within it,
LEMMA ModSmall ==
  ASSUME NEW a \in Positions
  PROVE  Mod(a) = a
BY TcpAnalysisAssumption DEF Mod, Positions

\* and wraps once when it is past it by less than its size.
LEMMA ModOnce ==
  ASSUME NEW a \in Nat, SeqModulus <= a, a < 2 * SeqModulus
  PROVE  Mod(a) = a - SeqModulus
BY TcpAnalysisAssumption DEF Mod

\* Each part of the history is kept for both directions.
HistoryShaped ==
  \A k \in {"seen", "first", "end", "acked", "finacked", "back", "late", "out", "push", "syns", "fins", "win", "data"} :
    DOMAIN h[k] = Dirs

\* The position that a packet acknowledges.
AckOf(p) == IF p.ackset THEN p.acks ELSE 0

\* The history of x after a packet.
HistoryAfter(p, x) ==
  LET here == x = p.dir
  IN /\ h'.seen[x] = IF here THEN h.seen[x] \cup Range0(p) ELSE h.seen[x]
     /\ h'.end[x] = IF here THEN Max({h.end[x], p.at + p.len}) ELSE h.end[x]
     /\ h'.acked[x] = IF here THEN h.acked[x] ELSE Max({h.acked[x], AckOf(p)})
     /\ h'.finacked[x] = IF here THEN h.finacked[x] ELSE h.finacked[x] \/ AckOf(p) = conf.total[x] + 2
     /\ h'.back[x] = IF here THEN h.back[x] \/ (p.syn /\ (h.acked[x] > 0 \/ h.win[x] # {}))
                     ELSE h.back[x] \/ (p.ackset /\ AckOf(p) < h.acked[x])
     /\ h'.late[x] = IF here THEN h.late[x] \/ OutOrder(p) \/ Again(p) > 0 ELSE h.late[x]
     /\ h'.out[x] = IF here /\ FirstSeen(p) THEN Max({h.out[x], (p.at + p.len) - h.acked[x]}) ELSE h.out[x]
     /\ h'.push[x] = IF here /\ Ends(p) THEN Max({h.push[x], p.at + p.len}) ELSE h.push[x]
     /\ h'.syns[x] = IF here /\ p.syn THEN Append(h.syns[x], p.at) ELSE h.syns[x]
     /\ h'.fins[x] = IF here /\ p.fin THEN Append(h.fins[x], [at |-> p.at, len |-> p.len]) ELSE h.fins[x]
     /\ h'.win[x] = IF here /\ ~p.rst THEN h.win[x] \cup {[win |-> p.win, syn |-> p.syn]} ELSE h.win[x]

\* What a packet adds to the history.
LEMMA RememberEffect ==
  ASSUME HistoryShaped, NEW p, p.dir \in Dirs, h' = Remember(p)
  PROVE  /\ HistoryShaped'
         /\ \A x \in Dirs : HistoryAfter(p, x)
         /\ h'.flight = IF p.ackset /\ tcb[Other(p.dir)].cwnd_flag
                        THEN h.end[Other(p.dir)] - h.acked[Other(p.dir)] ELSE h.flight
<1>1. Other(p.dir) \in Dirs /\ Other(p.dir) # p.dir /\ \A x \in Dirs : x = p.dir \/ x = Other(p.dir)
  BY OtherDir
<1>2. HistoryShaped' BY DEF HistoryShaped, Remember
<1>a. ASSUME NEW x \in Dirs PROVE h'.seen[x] = IF x = p.dir THEN h.seen[x] \cup Range0(p) ELSE h.seen[x]
  BY DEF HistoryShaped, Remember
<1>b. ASSUME NEW x \in Dirs PROVE h'.end[x] = IF x = p.dir THEN Max({h.end[x], p.at + p.len}) ELSE h.end[x]
  BY DEF HistoryShaped, Remember
<1>c. ASSUME NEW x \in Dirs PROVE h'.acked[x] = IF x = p.dir THEN h.acked[x] ELSE Max({h.acked[x], AckOf(p)})
  BY <1>1 DEF HistoryShaped, Remember, AckOf
<1>d. ASSUME NEW x \in Dirs
      PROVE  h'.finacked[x] = IF x = p.dir THEN h.finacked[x] ELSE h.finacked[x] \/ AckOf(p) = conf.total[x] + 2
  BY <1>1 DEF HistoryShaped, Remember, AckOf
<1>e. ASSUME NEW x \in Dirs
      PROVE  h'.back[x] = IF x = p.dir THEN h.back[x] \/ (p.syn /\ (h.acked[x] > 0 \/ h.win[x] # {}))
                                 ELSE h.back[x] \/ (p.ackset /\ AckOf(p) < h.acked[x])
  BY <1>1 DEF HistoryShaped, Remember, AckOf
<1>f. ASSUME NEW x \in Dirs
      PROVE  h'.late[x] = IF x = p.dir THEN h.late[x] \/ OutOrder(p) \/ Again(p) > 0 ELSE h.late[x]
  BY DEF HistoryShaped, Remember
<1>g. ASSUME NEW x \in Dirs
      PROVE  h'.out[x] = IF x = p.dir /\ FirstSeen(p) THEN Max({h.out[x], (p.at + p.len) - h.acked[x]}) ELSE h.out[x]
  BY DEF HistoryShaped, Remember
<1>h. ASSUME NEW x \in Dirs
      PROVE  h'.push[x] = IF x = p.dir /\ Ends(p) THEN Max({h.push[x], p.at + p.len}) ELSE h.push[x]
  BY DEF HistoryShaped, Remember
<1>i. ASSUME NEW x \in Dirs
      PROVE  /\ h'.syns[x] = IF x = p.dir /\ p.syn THEN Append(h.syns[x], p.at) ELSE h.syns[x]
             /\ h'.fins[x] = IF x = p.dir /\ p.fin THEN Append(h.fins[x], [at |-> p.at, len |-> p.len]) ELSE h.fins[x]
             /\ h'.win[x] = IF x = p.dir /\ ~p.rst THEN h.win[x] \cup {[win |-> p.win, syn |-> p.syn]} ELSE h.win[x]
  BY DEF HistoryShaped, Remember
<1>j. h'.flight = IF p.ackset /\ tcb[Other(p.dir)].cwnd_flag
                  THEN h.end[Other(p.dir)] - h.acked[Other(p.dir)] ELSE h.flight
  BY DEF Remember
<1> QED BY <1>2, <1>a, <1>b, <1>c, <1>d, <1>e, <1>f, <1>g, <1>h, <1>i, <1>j DEF HistoryAfter

\* A packet that the two ends of the flow can send now.
PacketTypes(p) ==
  /\ p.dir \in Dirs /\ p.at \in Nat /\ p.len \in Nat
  /\ p.syn \in BOOLEAN /\ p.fin \in BOOLEAN /\ p.rst \in BOOLEAN /\ p.psh \in BOOLEAN /\ p.ackset \in BOOLEAN
  /\ p.acks \in Nat \ {0}
  /\ p.win \in conf.wins \cup {1}

\* The most that d can acknowledge: all that it was sent.
MostAcks(d) == Max({1, Top(h.seen[Other(d)])})

\* What the packets of a real pair of hosts obey: nothing is
\* acknowledged before it is sent, a SYN opens the stream or comes
\* again, data lies within the stream and a FIN at its end.
Sensible(p) ==
  /\ p.acks <= MostAcks(p.dir)
  /\ p.opts = IF p.syn THEN SynOptions(conf, p.dir) ELSE NoOptions
  /\ p.syn => /\ p.len = 0 /\ ~p.fin /\ ~p.rst /\ ~p.psh /\ p.win = 1
              /\ p.at = 0 \/ (p.at \in conf.again /\ h.syns[p.dir] # <<>>)
              /\ p.acks = 1 /\ (p.ackset <=> p.dir = "s2c")
  /\ (~p.syn => p.ackset) /\ (p.psh => p.len > 0)
  /\ p.len > 0 \/ p.fin => p.at >= 1 /\ p.at + p.len <= conf.total[p.dir] + 1 /\ ~p.rst
  /\ p.fin => TRUE \in conf.fins /\ p.at + p.len = conf.total[p.dir] + 1
  /\ ~p.syn /\ ~p.fin /\ p.len = 0 => p.at = Top(h.seen[p.dir]) \/ p.at = Max({1, Top(h.seen[p.dir])})

\* A packet that the model sends.
Legal(p) == PacketTypes(p) /\ Sensible(p)

\* What a configuration of the flow may be.
LEMMA ConfOf ==
  ASSUME conf \in Confs
  PROVE  /\ conf.packets \in Nat /\ conf.gaps \subseteq Nat /\ conf.wins \subseteq Nat
         /\ conf.pushes \subseteq BOOLEAN /\ conf.fins \subseteq BOOLEAN
         /\ conf.again \subseteq 1 .. SeqModulus - 1
         /\ \E d \in Dirs : conf.again \subseteq 1 .. conf.total[d]
         /\ \A d \in Dirs :
              /\ conf.isn[d] \in Positions
              /\ conf.total[d] \in Nat /\ conf.total[d] + 2 < SeqModulus
              /\ conf.lens[d] \subseteq Nat \ {0}
              /\ TRUE \in conf.fins => conf.again \subseteq 1 .. conf.total[d]
              /\ SynOptions(conf, d) \in OptionSets
              /\ \A w \in conf.wins \cup {1} :
                   \A n \in {0, SynOptions(conf, d).ws} \ {Absent} : w * 2 ^ n \in Nat
<1>1. /\ conf.packets \in Nat /\ conf.gaps \subseteq Nat /\ conf.wins \subseteq Nat
      /\ conf.pushes \subseteq BOOLEAN /\ conf.fins \subseteq BOOLEAN
      /\ conf.again \subseteq 1 .. SeqModulus - 1
      /\ \E d \in Dirs : conf.again \subseteq 1 .. conf.total[d]
  BY FlowsAssumption
<1>2. ASSUME NEW d \in Dirs
      PROVE  /\ conf.isn[d] \in 0 .. SeqModulus - 1
             /\ conf.total[d] \in Nat /\ conf.total[d] + 2 < SeqModulus
             /\ conf.lens[d] \subseteq Nat \ {0}
             /\ TRUE \in conf.fins => conf.again \subseteq 1 .. conf.total[d]
             /\ SynOptions(conf, d) \in OptionSets
             /\ \A w \in conf.wins \cup {1}, n \in {0, SynOptions(conf, d).ws} \ {Absent} : w * 2 ^ n \in Nat
  BY FlowsAssumption, Zenon DEF OptionSets
<1> QED BY <1>1, <1>2 DEF Positions

\* What a packet that is no SYN may be: data or a FIN, or a bare ACK.
AptData(p) == p.len > 0 \/ p.fin => p.at >= 1 /\ p.at + p.len <= conf.total[p.dir] + 1 /\ ~p.rst
AptFin(p) == p.fin => TRUE \in conf.fins /\ p.at + p.len = conf.total[p.dir] + 1
AptAck(p) ==
  /\ p.psh => p.len > 0
  /\ ~p.fin /\ p.len = 0 => p.at = Top(h.seen[p.dir]) \/ p.at = Max({1, Top(h.seen[p.dir])})

\* Such a packet is legal if its ACK is.
LEMMA AptLegal ==
  ASSUME NEW p, PacketTypes(p), ~p.syn, p.ackset, p.opts = NoOptions, p.acks <= MostAcks(p.dir),
         AptData(p), AptFin(p), AptAck(p)
  PROVE  Legal(p)
<1>1. Sensible(p) BY DEF Sensible, AptData, AptFin, AptAck
<1> QED BY <1>1 DEF Legal

\* What is sent is legal.
LEMMA SendLegal ==
  ASSUME conf \in Confs, \A x \in Dirs : h.seen[x] \in SUBSET Positions,
         NEW d \in Dirs,
         SendSyn(d) \/ SendData(d) \/ SendAck(d) \/ SendFin(d) \/ SendReset(d)
  PROVE  \E p : Legal(p) /\ Packet(p)
<1> DEFINE o == Other(d)
<1>0. o \in Dirs BY OtherDir
<1>a. SeqModulus - 1 \in Nat BY TcpAnalysisAssumption
<1>1. Top(h.seen[d]) \in Nat /\ Top(h.seen[o]) \in Nat
  <2>1. h.seen[d] \in SUBSET (0 .. SeqModulus - 1) /\ h.seen[o] \in SUBSET (0 .. SeqModulus - 1)
    BY <1>0 DEF Positions
  <2>2. Top(h.seen[d]) \in 0 .. (SeqModulus - 1) + 1 /\ Top(h.seen[o]) \in 0 .. (SeqModulus - 1) + 1
    BY <2>1, <1>a, TopOf
  <2> QED BY <2>2
<1>2. MostAcks(d) \in Nat \ {0} /\ Max({1, Top(h.seen[d])}) \in Nat \ {0} BY <1>1, MaxTwo DEF MostAcks
<1>3. CASE SendSyn(d)
  <2>1. PICK at \in {0} \cup (IF h.syns[d] = <<>> THEN {} ELSE conf.again) :
          Packet([Blank(d) EXCEPT !.syn = TRUE, !.at = at, !.ackset = (d = "s2c"),
                               !.acks = 1, !.opts = SynOptions(conf, d)])
    BY <1>3 DEF SendSyn
  <2> DEFINE p == [Blank(d) EXCEPT !.syn = TRUE, !.at = at, !.ackset = (d = "s2c"),
                               !.acks = 1, !.opts = SynOptions(conf, d)]
  <2>2. /\ p.dir = d /\ p.at = at /\ p.len = 0 /\ p.syn = TRUE /\ p.fin = FALSE /\ p.rst = FALSE /\ p.psh = FALSE
        /\ p.ackset = (d = "s2c") /\ p.acks = 1 /\ p.win = 1 /\ p.opts = SynOptions(conf, d)
    BY DEF Blank, MostAcks
  <2> HIDE DEF p
  <2>x. /\ p.syn \in BOOLEAN /\ p.fin \in BOOLEAN /\ p.rst \in BOOLEAN /\ p.psh \in BOOLEAN /\ p.ackset \in BOOLEAN
        /\ p.syn /\ ~p.fin /\ ~p.rst /\ ~p.psh /\ (p.ackset <=> d = "s2c")
    BY <2>2
  <2>y. p.dir = d /\ p.at = at /\ p.len = 0 /\ p.acks = 1 /\ p.win = 1 /\ p.opts = SynOptions(conf, d) BY <2>2
  <2>3. at \in Nat /\ (at = 0 \/ (at \in conf.again /\ h.syns[d] # <<>>)) BY ConfOf
  <2>4. 1 <= MostAcks(p.dir) BY <1>2, <2>2
  <2>5. Legal(p)
    <3>t. PacketTypes(p) BY <2>x, <2>y, <2>3, <2>4 DEF PacketTypes
    <3>s. Sensible(p)
      <4>1. p.acks <= MostAcks(p.dir) BY <2>x, <2>y, <2>3, <2>4
      <4>2. p.opts = IF p.syn THEN SynOptions(conf, p.dir) ELSE NoOptions BY <2>x, <2>y, <2>3, <2>4
      <4>3. p.syn => /\ p.len = 0 /\ ~p.fin /\ ~p.rst /\ ~p.psh /\ p.win = 1
                     /\ p.at = 0 \/ (p.at \in conf.again /\ h.syns[p.dir] # <<>>)
                     /\ p.acks = 1 /\ (p.ackset <=> p.dir = "s2c")
        BY <2>x, <2>y, <2>3, <2>4
      <4>4. (~p.syn => p.ackset) /\ (p.psh => p.len > 0) BY <2>x, <2>y, <2>3, <2>4
      <4>5. p.len > 0 \/ p.fin => p.at >= 1 /\ p.at + p.len <= conf.total[p.dir] + 1 /\ ~p.rst
        BY <2>x, <2>y, <2>3, <2>4
      <4>6. p.fin => TRUE \in conf.fins /\ p.at + p.len = conf.total[p.dir] + 1 BY <2>x, <2>y, <2>3, <2>4
      <4>7. ~p.syn /\ ~p.fin /\ p.len = 0 => p.at = Top(h.seen[p.dir]) \/ p.at = Max({1, Top(h.seen[p.dir])})
        BY <2>x, <2>y, <2>3, <2>4
      <4> QED BY <4>1, <4>2, <4>3, <4>4, <4>5, <4>6, <4>7 DEF Sensible
    <3> QED BY <3>t, <3>s DEF Legal
  <2> QED BY <2>1, <2>5 DEF p
<1>4. CASE SendData(d)
  <2>1. PICK len \in conf.lens[d], at \in 1 .. conf.total[d], psh \in conf.pushes :
          /\ at + len <= conf.total[d] + 1
          /\ \E fin \in IF at + len = conf.total[d] + 1 THEN conf.fins ELSE {FALSE} :
               Packet([Blank(d) EXCEPT !.at = at, !.len = len, !.psh = psh, !.fin = fin])
    BY <1>4 DEF SendData
  <2>2. PICK fin \in IF at + len = conf.total[d] + 1 THEN conf.fins ELSE {FALSE} :
               Packet([Blank(d) EXCEPT !.at = at, !.len = len, !.psh = psh, !.fin = fin])
    BY <2>1
  <2> DEFINE p == [Blank(d) EXCEPT !.at = at, !.len = len, !.psh = psh, !.fin = fin]
  <2>3. /\ p.dir = d /\ p.at = at /\ p.len = len /\ p.syn = FALSE /\ p.fin = fin /\ p.rst = FALSE /\ p.psh = psh
        /\ p.ackset = TRUE /\ p.acks = MostAcks(d) /\ p.win = 1 /\ p.opts = NoOptions
    BY DEF Blank, MostAcks
  <2> HIDE DEF p
  <2>4. len \in Nat \ {0} /\ at \in Nat \ {0} /\ fin \in BOOLEAN /\ psh \in BOOLEAN /\ conf.total[d] \in Nat
    <3>1. conf.total[d] \in Nat /\ conf.lens[d] \subseteq Nat \ {0} /\ conf.fins \subseteq BOOLEAN /\ conf.pushes \subseteq BOOLEAN
      BY ConfOf
    <3>2. len \in Nat \ {0} /\ conf.total[d] \in Nat BY <3>1
    <3>3. psh \in BOOLEAN BY <3>1
    <3>4. fin \in BOOLEAN BY <3>1, <2>2
    <3>5. at \in Nat \ {0} BY <3>1
    <3> QED BY <3>2, <3>3, <3>4, <3>5
  <2>x. /\ p.syn \in BOOLEAN /\ p.fin \in BOOLEAN /\ p.rst \in BOOLEAN /\ p.psh \in BOOLEAN /\ p.ackset \in BOOLEAN
        /\ ~p.syn /\ (p.fin <=> fin) /\ ~p.rst /\ (p.psh <=> psh) /\ p.ackset
    BY <2>3, <2>4
  <2>y. p.dir = d /\ p.at = at /\ p.len = len /\ p.acks = MostAcks(d) /\ p.win = 1 /\ p.opts = NoOptions
    BY <2>3
  <2>5. fin => at + len = conf.total[d] + 1 /\ TRUE \in conf.fins BY <2>4
  <2>6. Legal(p)
    <3>1. MostAcks(p.dir) = p.acks BY <2>3
    <3>2. p.acks \in Nat \ {0} /\ p.acks <= MostAcks(p.dir) BY <3>1, <1>2, <2>3
    <3>3. PacketTypes(p) BY <2>1, <2>x, <2>y, <2>4, <2>5, <3>2 DEF PacketTypes
    <3>4. AptData(p) BY <2>1, <2>x, <2>y, <2>4, <2>5, <3>2 DEF AptData
    <3>5. AptFin(p) BY <2>1, <2>x, <2>y, <2>4, <2>5, <3>2 DEF AptFin
    <3>6. AptAck(p) BY <2>1, <2>x, <2>y, <2>4, <2>5, <3>2 DEF AptAck
    <3> QED BY <3>2, <2>x, <2>y, <3>3, <3>4, <3>5, <3>6, AptLegal
  <2> QED BY <2>2, <2>6 DEF p
<1>5. CASE SendAck(d)
  <2>1. PICK upto \in 1 .. MostAcks(d), win \in conf.wins :
          Packet([Blank(d) EXCEPT !.at = Max({1, @}), !.acks = upto, !.win = win])
    BY <1>5 DEF SendAck, MostAcks
  <2> DEFINE p == [Blank(d) EXCEPT !.at = Max({1, @}), !.acks = upto, !.win = win]
  <2>3. /\ p.dir = d /\ p.at = Max({1, Top(h.seen[d])}) /\ p.len = 0 /\ p.syn = FALSE /\ p.fin = FALSE /\ p.rst = FALSE
        /\ p.psh = FALSE /\ p.ackset = TRUE /\ p.acks = upto /\ p.win = win /\ p.opts = NoOptions
    BY DEF Blank, MostAcks
  <2> HIDE DEF p
  <2>x. /\ p.syn \in BOOLEAN /\ p.fin \in BOOLEAN /\ p.rst \in BOOLEAN /\ p.psh \in BOOLEAN /\ p.ackset \in BOOLEAN
        /\ ~p.syn /\ ~p.fin /\ ~p.rst /\ ~p.psh /\ p.ackset
    BY <2>3
  <2>y. p.dir = d /\ p.at = Max({1, Top(h.seen[d])}) /\ p.len = 0 /\ p.acks = upto /\ p.win = win /\ p.opts = NoOptions
    BY <2>3
  <2>4. upto \in Nat \ {0} /\ upto <= MostAcks(p.dir) BY <1>2, <2>3
  <2>5. Legal(p)
    <3>1. PacketTypes(p) BY <1>2, <2>x, <2>y, <2>4 DEF PacketTypes
    <3>2. AptData(p) BY <1>2, <2>x, <2>y, <2>4 DEF AptData
    <3>3. AptFin(p) BY <1>2, <2>x, <2>y, <2>4 DEF AptFin
    <3>4. AptAck(p) BY <1>2, <2>x, <2>y, <2>4 DEF AptAck
    <3> QED BY <2>4, <2>x, <2>y, <3>1, <3>2, <3>3, <3>4, AptLegal
  <2> QED BY <2>1, <2>5 DEF p
<1>6. CASE SendFin(d)
  <2>1. TRUE \in conf.fins /\ Packet([Blank(d) EXCEPT !.at = conf.total[d] + 1, !.fin = TRUE])
    BY <1>6 DEF SendFin
  <2> DEFINE p == [Blank(d) EXCEPT !.at = conf.total[d] + 1, !.fin = TRUE]
  <2>3. /\ p.dir = d /\ p.at = conf.total[d] + 1 /\ p.len = 0 /\ p.syn = FALSE /\ p.fin = TRUE /\ p.rst = FALSE
        /\ p.psh = FALSE /\ p.ackset = TRUE /\ p.acks = MostAcks(d) /\ p.win = 1 /\ p.opts = NoOptions
    BY DEF Blank, MostAcks
  <2> HIDE DEF p
  <2>x. /\ p.syn \in BOOLEAN /\ p.fin \in BOOLEAN /\ p.rst \in BOOLEAN /\ p.psh \in BOOLEAN /\ p.ackset \in BOOLEAN
        /\ ~p.syn /\ p.fin /\ ~p.rst /\ ~p.psh /\ p.ackset
    BY <2>3
  <2>y. p.dir = d /\ p.at = conf.total[d] + 1 /\ p.len = 0 /\ p.acks = MostAcks(d) /\ p.win = 1 /\ p.opts = NoOptions
    BY <2>3
  <2>4. conf.total[d] \in Nat BY ConfOf
  <2>5. Legal(p)
    <3>1. MostAcks(p.dir) = p.acks BY <2>3
    <3>2. p.acks \in Nat \ {0} /\ p.acks <= MostAcks(p.dir) BY <3>1, <1>2, <2>3
    <3>3. PacketTypes(p) BY <2>1, <2>x, <2>y, <2>4, <3>2 DEF PacketTypes
    <3>4. AptData(p) BY <2>1, <2>x, <2>y, <2>4, <3>2 DEF AptData
    <3>5. AptFin(p)
      <4>1. TRUE \in conf.fins BY <2>1
      <4>2. p.at + p.len = conf.total[p.dir] + 1 BY <2>y, <2>4
      <4> QED BY <4>1, <4>2 DEF AptFin
    <3>6. AptAck(p) BY <2>1, <2>x, <2>y, <2>4, <3>2 DEF AptAck
    <3> QED BY <3>2, <2>x, <2>y, <3>3, <3>4, <3>5, <3>6, AptLegal
  <2> QED BY <2>1, <2>5 DEF p
<1>7. CASE SendReset(d)
  <2>1. Packet([Blank(d) EXCEPT !.rst = TRUE]) BY <1>7 DEF SendReset
  <2> DEFINE p == [Blank(d) EXCEPT !.rst = TRUE]
  <2>3. /\ p.dir = d /\ p.at = Top(h.seen[d]) /\ p.len = 0 /\ p.syn = FALSE /\ p.fin = FALSE /\ p.rst = TRUE
        /\ p.psh = FALSE /\ p.ackset = TRUE /\ p.acks = MostAcks(d) /\ p.win = 1 /\ p.opts = NoOptions
    BY DEF Blank, MostAcks
  <2> HIDE DEF p
  <2>x. /\ p.syn \in BOOLEAN /\ p.fin \in BOOLEAN /\ p.rst \in BOOLEAN /\ p.psh \in BOOLEAN /\ p.ackset \in BOOLEAN
        /\ ~p.syn /\ ~p.fin /\ p.rst /\ ~p.psh /\ p.ackset
    BY <2>3
  <2>y. p.dir = d /\ p.at = Top(h.seen[d]) /\ p.len = 0 /\ p.acks = MostAcks(d) /\ p.win = 1 /\ p.opts = NoOptions
    BY <2>3
  <2>5. Legal(p)
    <3>1. MostAcks(p.dir) = p.acks BY <2>3
    <3>2. p.acks \in Nat \ {0} /\ p.acks <= MostAcks(p.dir) BY <3>1, <1>2, <2>3
    <3>3. PacketTypes(p) BY <1>1, <2>x, <2>y, <3>2 DEF PacketTypes
    <3>4. AptData(p) BY <1>1, <2>x, <2>y, <3>2 DEF AptData
    <3>5. AptFin(p) BY <1>1, <2>x, <2>y, <3>2 DEF AptFin
    <3>6. AptAck(p) BY <1>1, <2>x, <2>y, <3>2 DEF AptAck
    <3> QED BY <3>2, <2>x, <2>y, <3>3, <3>4, <3>5, <3>6, AptLegal
  <2> QED BY <2>1, <2>5 DEF p
<1> QED BY <1>3, <1>4, <1>5, <1>6, <1>7

\* A tcb of d, but for the rates and what only the log shows.
TcbTypes(t, d) ==
  /\ t.syn_count \in Nat /\ t.fin_count \in Nat
  /\ t.syn \in Positions /\ t.fin \in Positions /\ t.fin_seqno \in Positions /\ t.seq \in Positions
  /\ t.ack \in Positions /\ t.min_seq \in Positions /\ t.msg_last_seq \in Positions
  /\ t.closed \in BOOLEAN /\ t.bad_behavior \in BOOLEAN /\ t.f1323_ws \in BOOLEAN /\ t.cwnd_flag \in BOOLEAN
  /\ t.window_scale \in {0, SynOptions(conf, d).ws} \ {Absent}
  /\ t.win_max \in Nat /\ t.win_min \in 0 .. t.win_max
  /\ t.cwin_max \in 0 .. SeqModulus \div 2 /\ t.cwin_min \in 0 .. t.cwin_max
  /\ t.msg_count \in Nat /\ t.msg_size \in Seq(Int) /\ Len(t.msg_size) <= MaxMessages
  /\ Len(t.msg_size) <= t.msg_count
  /\ t.unique_bytes \in Int

\* Of both directions.
TcbsTyped(g) == Shaped(g) /\ \A d \in Dirs : TcbTypes(g[d], d)

\* The rate does not touch the types.
LEMMA TypedRates ==
  ASSUME NEW g, TcbsTyped(g), NEW n, Shaped(n), Differ(n, g, RateFields)
  PROVE  TcbsTyped(n)
<1> SUFFICES ASSUME NEW d \in Dirs PROVE TcbTypes(n[d], d) BY DEF TcbsTyped
<1>1. TcbTypes(g[d], d) BY DEF TcbsTyped
<1>2. /\ n[d].syn_count = g[d].syn_count /\ n[d].fin_count = g[d].fin_count /\ n[d].syn = g[d].syn /\ n[d].fin = g[d].fin
      /\ n[d].fin_seqno = g[d].fin_seqno /\ n[d].seq = g[d].seq /\ n[d].ack = g[d].ack /\ n[d].min_seq = g[d].min_seq
      /\ n[d].msg_last_seq = g[d].msg_last_seq /\ n[d].closed = g[d].closed /\ n[d].bad_behavior = g[d].bad_behavior
      /\ n[d].f1323_ws = g[d].f1323_ws /\ n[d].cwnd_flag = g[d].cwnd_flag /\ n[d].window_scale = g[d].window_scale
      /\ n[d].win_max = g[d].win_max /\ n[d].win_min = g[d].win_min /\ n[d].cwin_max = g[d].cwin_max
      /\ n[d].cwin_min = g[d].cwin_min /\ n[d].msg_count = g[d].msg_count /\ n[d].msg_size = g[d].msg_size
      /\ n[d].unique_bytes = g[d].unique_bytes
  BY DEF Differ, Fields, Tcb, RateFields, CountFields
<1> QED BY <1>1, <1>2 DEF TcbTypes

\* The numbers of a packet are in the sequence space.
LEMMA SeqTypes ==
  ASSUME conf \in Confs, NEW p, Legal(p)
  PROVE  /\ Seq0(p) \in Positions /\ Ack0(p) \in Positions /\ Mod(Seq0(p) + p.len) \in Positions
         /\ One(p.syn) \in Nat /\ One(p.fin) \in Nat /\ One(p.rst) \in Nat
<1>1. p.at \in Nat /\ p.len \in Nat /\ p.dir \in Dirs /\ p.acks \in Nat BY DEF Legal, PacketTypes
<1>2. conf.isn[p.dir] \in Nat /\ conf.isn[Other(p.dir)] \in Nat
  <2>1. conf.isn[p.dir] \in Positions /\ conf.isn[Other(p.dir)] \in Positions BY <1>1, ConfOf, OtherDir
  <2> QED BY <2>1 DEF Positions
<1>3. Seq0(p) \in Positions /\ Ack0(p) \in Positions BY <1>1, <1>2, ModRange DEF Seq0, Ack0
<1>4. Seq0(p) + p.len \in Int BY <1>1, <1>3 DEF Positions
<1> QED BY <1>3, <1>4, ModRange DEF One

\* The types are kept by the flags,
LEMMA TypedFlags ==
  ASSUME conf \in Confs, NEW g, TcbsTyped(g), NEW p, Legal(p)
  PROVE  TcbsTyped(CountFlags(g, p))
<1> DEFINE n == CountFlags(g, p)
<1>0. p.dir \in Dirs /\ Shaped(g) BY DEF Legal, PacketTypes, TcbsTyped
<1>1. /\ Shaped(n)
      /\ \A x \in Dirs :
              /\ n[x].syn_count = IF x = p.dir THEN g[x].syn_count + One(p.syn) ELSE g[x].syn_count
              /\ n[x].fin_count = IF x = p.dir THEN g[x].fin_count + One(p.fin) ELSE g[x].fin_count
              /\ n[x].fin_seqno = IF x = p.dir /\ p.fin THEN Seq0(p) ELSE g[x].fin_seqno
      /\ Differ(n, g, {"syn_count", "fin_count", "reset_count", "fin_seqno"})
  BY <1>0, CountFlagsEffect
<1> HIDE DEF n
<1> SUFFICES ASSUME NEW d \in Dirs PROVE TcbTypes(n[d], d) BY <1>1 DEF TcbsTyped, n
<1>2. TcbTypes(g[d], d) BY DEF TcbsTyped
<1>3. /\ n[d].syn = g[d].syn /\ n[d].fin = g[d].fin
      /\ n[d].seq = g[d].seq /\ n[d].ack = g[d].ack /\ n[d].min_seq = g[d].min_seq
      /\ n[d].msg_last_seq = g[d].msg_last_seq /\ n[d].closed = g[d].closed /\ n[d].bad_behavior = g[d].bad_behavior
      /\ n[d].f1323_ws = g[d].f1323_ws /\ n[d].cwnd_flag = g[d].cwnd_flag /\ n[d].window_scale = g[d].window_scale
      /\ n[d].win_max = g[d].win_max /\ n[d].win_min = g[d].win_min /\ n[d].cwin_max = g[d].cwin_max
      /\ n[d].cwin_min = g[d].cwin_min /\ n[d].msg_count = g[d].msg_count /\ n[d].msg_size = g[d].msg_size
      /\ n[d].unique_bytes = g[d].unique_bytes
  BY <1>1 DEF Differ, Fields, Tcb
<1>4. n[d].syn_count \in Nat /\ n[d].fin_count \in Nat /\ n[d].fin_seqno \in Positions
  <2>1. Seq0(p) \in Positions /\ One(p.syn) \in Nat /\ One(p.fin) \in Nat BY SeqTypes
  <2>2. g[d].syn_count \in Nat /\ g[d].fin_count \in Nat /\ g[d].fin_seqno \in Positions BY <1>2 DEF TcbTypes
  <2>3. n[d].syn_count \in Nat BY <1>1, <2>1, <2>2
  <2>4. n[d].fin_count \in Nat BY <1>1, <2>1, <2>2
  <2>5. n[d].fin_seqno \in Positions BY <1>1, <2>1, <2>2
  <2> QED BY <2>3, <2>4, <2>5
<1> QED BY <1>2, <1>3, <1>4 DEF TcbTypes

\* by all that is counted,
LEMMA TypedCounted ==
  ASSUME conf \in Confs, \A x \in Dirs : h.seen[x] \in SUBSET Positions,
         NEW g, TcbsTyped(g), NEW p, Legal(p), NEW n, n = Counted(CountFlags(g, p), p)
  PROVE  TcbsTyped(n)
<1>0. p.dir \in Dirs /\ Shaped(g) /\ (p.syn => ~p.fin) /\ p.len \in Nat
      /\ p.syn \in BOOLEAN /\ p.fin \in BOOLEAN /\ p.ackset \in BOOLEAN
  BY DEF Legal, PacketTypes, Sensible, TcbsTyped
<1>1. /\ Shaped(n)
      /\ \A x \in Dirs : CountedTcb(n, g, p, x)
      /\ Differ(n, g, CountFields)
  BY <1>0, CountedEffect
<1>2. \A x \in Dirs : OptionsTcb(n, g, p, x) BY <1>0, CountedOptions
<1>s. /\ Seq0(p) \in Positions /\ Ack0(p) \in Positions /\ Mod(Seq0(p) + p.len) \in Positions
      /\ One(p.syn) \in Nat /\ One(p.fin) \in Nat
  BY SeqTypes
<1>a. Again(p) \in Nat
  <2>1. h.seen[p.dir] \in SUBSET (0 .. SeqModulus - 1) BY <1>0 DEF Positions
  <2>2. IsFiniteSet(0 .. SeqModulus - 1) BY FS_Interval, TcpAnalysisAssumption
  <2>3. IsFiniteSet(Range0(p) \cap h.seen[p.dir]) BY <2>1, <2>2, FS_Subset
  <2> QED BY <2>3, FS_CardinalityType DEF Again
<1> SUFFICES ASSUME NEW d \in Dirs PROVE TcbTypes(n[d], d) BY <1>1 DEF TcbsTyped
<1>3. TcbTypes(g[d], d) BY DEF TcbsTyped
<1>4. /\ n[d].msg_last_seq = g[d].msg_last_seq
      /\ n[d].win_max = g[d].win_max /\ n[d].win_min = g[d].win_min /\ n[d].cwin_max = g[d].cwin_max
      /\ n[d].cwin_min = g[d].cwin_min /\ n[d].msg_count = g[d].msg_count /\ n[d].msg_size = g[d].msg_size
  BY <1>1 DEF Differ, Fields, Tcb, RateFields, CountFields
<1>5. n[d].syn_count \in Nat /\ n[d].fin_count \in Nat /\ n[d].fin_seqno \in Positions
  <2>1. /\ n[d].syn_count = IF d = p.dir THEN g[d].syn_count + One(p.syn) ELSE g[d].syn_count
        /\ n[d].fin_count = IF d = p.dir THEN g[d].fin_count + One(p.fin) ELSE g[d].fin_count
        /\ n[d].fin_seqno = IF d = p.dir /\ p.fin THEN Seq0(p) ELSE g[d].fin_seqno
    BY <1>1 DEF CountedTcb
  <2>2. g[d].syn_count \in Nat /\ g[d].fin_count \in Nat /\ g[d].fin_seqno \in Positions BY <1>3 DEF TcbTypes
  <2>3. n[d].syn_count \in Nat BY <2>1, <2>2, <1>s
  <2>4. n[d].fin_count \in Nat BY <2>1, <2>2, <1>s
  <2>5. n[d].fin_seqno \in Positions BY <2>1, <2>2, <1>s
  <2> QED BY <2>3, <2>4, <2>5
<1>6. n[d].syn \in Positions /\ n[d].ack \in Positions /\ n[d].fin \in Positions
  BY <1>1, <1>3, <1>s, ZenonT(60) DEF TcbTypes, CountedTcb
<1>7. n[d].min_seq \in Positions /\ n[d].seq \in Positions BY <1>1, <1>3, <1>s, ZenonT(60) DEF TcbTypes, CountedTcb
<1>8. n[d].closed \in BOOLEAN BY <1>1, <1>3 DEF TcbTypes, CountedTcb
<1>9. n[d].cwnd_flag \in BOOLEAN BY <1>1, <1>3 DEF TcbTypes, CountedTcb
<1>10. n[d].bad_behavior \in BOOLEAN BY <1>1, <1>3 DEF TcbTypes, CountedTcb
<1>11. n[d].f1323_ws \in BOOLEAN BY <1>2, <1>3 DEF TcbTypes, OptionsTcb
<1>12. n[d].window_scale \in {0, SynOptions(conf, d).ws} \ {Absent}
  <2>1. p.opts = IF p.syn THEN SynOptions(conf, p.dir) ELSE NoOptions BY DEF Legal, Sensible
  <2>2. d = p.dir /\ p.opts.ws # Absent => p.opts.ws = SynOptions(conf, d).ws BY <2>1 DEF NoOptions
  <2>3. g[d].window_scale \in {0, SynOptions(conf, d).ws} \ {Absent} BY <1>3 DEF TcbTypes
  <2> QED BY <1>2, <2>2, <2>3 DEF Absent, OptionsTcb
<1>13. n[d].unique_bytes \in Int
  <2>1. \A b \in BOOLEAN : One(b) \in Int BY DEF One
  <2>2. \A b, c \in BOOLEAN : Again(p) - One(b) - One(c) \in Int BY <2>1, <1>a
  <2>3. g[d].unique_bytes \in Int BY <1>3 DEF TcbTypes
  <2>4. PICK b \in BOOLEAN, c \in BOOLEAN :
          n[d].unique_bytes = IF d = p.dir /\ ~(Again(p) - One(b) - One(c) >= p.len)
                              THEN g[d].unique_bytes + p.len - (Again(p) - One(b) - One(c)) ELSE g[d].unique_bytes
    <3> DEFINE sc == IF d = p.dir THEN g[d].syn_count + One(p.syn) ELSE g[d].syn_count
               fc == IF d = p.dir THEN g[d].fin_count + One(p.fin) ELSE g[d].fin_count
               b == p.syn /\ sc > 1
               c == p.fin /\ fc > 1
    <3>1. n[d].unique_bytes = IF d = p.dir /\ ~(Again(p) - One(b) - One(c) >= p.len)
                              THEN g[d].unique_bytes + p.len - (Again(p) - One(b) - One(c)) ELSE g[d].unique_bytes
      BY <1>1 DEF CountedTcb
    <3>2. b \in BOOLEAN /\ c \in BOOLEAN OBVIOUS
    <3> HIDE DEF b, c
    <3> QED BY <3>1, <3>2
  <2>5. Again(p) - One(b) - One(c) \in Int BY <2>2
  <2> DEFINE r == Again(p) - One(b) - One(c)
  <2>6. r \in Int BY <2>5
  <2> HIDE DEF r
  <2>7. n[d].unique_bytes = IF d = p.dir /\ ~(r >= p.len) THEN g[d].unique_bytes + p.len - r ELSE g[d].unique_bytes
    BY <2>4 DEF r
  <2> QED BY <1>0, <2>3, <2>6, <2>7
<1> QED BY <1>3, <1>4, <1>5, <1>6, <1>7, <1>8, <1>9, <1>10, <1>11, <1>12, <1>13 DEF TcbTypes

\* and by all that is measured.
LEMMA TypedMeasured ==
  ASSUME conf \in Confs, NEW g, TcbsTyped(g), NEW p, Legal(p), NEW eff \in Nat, NEW n, n = Measured(g, p, eff)
  PROVE  TcbsTyped(n)
<1>0. p.dir \in Dirs /\ Shaped(g) /\ p.len \in Nat BY DEF Legal, PacketTypes, TcbsTyped
<1>1. /\ Shaped(n)
      /\ \A x \in Dirs : MeasuredTcb(n, g, p, eff, x)
      /\ Differ(n, g, {"win_max", "win_min", "ack", "data_acked", "initialwin_bytes", "cwin_max", "cwin_min",
                          "msg_size", "msg_count", "msg_last_seq"})
  BY <1>0, MeasuredEffect
<1>2. Ack0(p) \in Positions BY SeqTypes
<1> SUFFICES ASSUME NEW d \in Dirs PROVE TcbTypes(n[d], d) BY <1>1 DEF TcbsTyped
<1>3. TcbTypes(g[d], d) BY DEF TcbsTyped
<1>4. /\ n[d].syn_count = g[d].syn_count /\ n[d].fin_count = g[d].fin_count /\ n[d].syn = g[d].syn /\ n[d].fin = g[d].fin
      /\ n[d].fin_seqno = g[d].fin_seqno /\ n[d].seq = g[d].seq /\ n[d].min_seq = g[d].min_seq
      /\ n[d].closed = g[d].closed /\ n[d].bad_behavior = g[d].bad_behavior
      /\ n[d].f1323_ws = g[d].f1323_ws /\ n[d].cwnd_flag = g[d].cwnd_flag /\ n[d].window_scale = g[d].window_scale
      /\ n[d].unique_bytes = g[d].unique_bytes
  BY <1>1 DEF Differ, Fields, Tcb
<1>5. n[d].ack \in Positions /\ n[d].msg_last_seq \in Positions
  <2>1. g[d].ack \in Positions /\ g[d].msg_last_seq \in Positions /\ g[d].seq \in Positions
    BY <1>3 DEF TcbTypes
  <2>2. n[d].ack \in {Ack0(p), g[d].ack} /\ n[d].msg_last_seq \in {g[d].seq, g[d].msg_last_seq}
    BY <1>1 DEF MeasuredTcb
  <2> QED BY <1>2, <2>1, <2>2
<1>6. n[d].win_max \in Nat /\ n[d].win_min \in 0 .. n[d].win_max
  <2>1. g[d].win_max \in Nat /\ g[d].win_min \in 0 .. g[d].win_max BY <1>3 DEF TcbTypes
  <2>2. /\ n[d].win_max = IF d = p.dir /\ (p.ackset \/ p.syn) /\ eff > g[d].win_max THEN eff ELSE g[d].win_max
        /\ n[d].win_min = IF d = p.dir /\ (p.ackset \/ p.syn) /\ eff > 0 /\ (g[d].win_min = 0 \/ eff < g[d].win_min)
                          THEN eff ELSE g[d].win_min
    BY <1>1 DEF MeasuredTcb
  <2> QED BY <2>1, <2>2
<1>7. n[d].cwin_max \in 0 .. SeqModulus \div 2 /\ n[d].cwin_min \in 0 .. n[d].cwin_max
  <2> DEFINE cwin == Outstanding(g, p)
             half == SeqModulus \div 2
  <2>0. half \in Nat BY TcpAnalysisAssumption
  <2>1. g[d].cwin_max \in 0 .. half /\ g[d].cwin_min \in 0 .. g[d].cwin_max BY <1>3 DEF TcbTypes
  <2>2. /\ n[d].cwin_max = IF d = p.dir /\ Advances(g, p) /\ cwin > g[d].cwin_max THEN cwin ELSE g[d].cwin_max
        /\ n[d].cwin_min = IF d = p.dir /\ Advances(g, p) /\ (g[d].cwin_min = 0 \/ cwin < g[d].cwin_min)
                          THEN cwin ELSE g[d].cwin_min
    BY <1>1 DEF MeasuredTcb
  <2>3. Advances(g, p) => cwin \in 1 .. half - 1 BY DEF Advances
  <2> HIDE DEF cwin, half
  <2>4. n[d].cwin_max \in 0 .. half /\ n[d].cwin_min \in 0 .. n[d].cwin_max BY <2>0, <2>1, <2>2, <2>3
  <2> QED BY <2>4 DEF half
<1>8. n[d].msg_count \in Nat /\ n[d].msg_size \in Seq(Int) /\ Len(n[d].msg_size) <= MaxMessages
      /\ Len(n[d].msg_size) <= n[d].msg_count
  <2> DEFINE size == MessageSize(g[d])
             ends == d = p.dir /\ Ends(p) /\ g[d].msg_last_seq < g[d].seq
  <2>1. g[d].msg_count \in Nat /\ g[d].msg_size \in Seq(Int) /\ Len(g[d].msg_size) <= MaxMessages
        /\ Len(g[d].msg_size) <= g[d].msg_count
    BY <1>3 DEF TcbTypes
  <2>2. size \in Int
    <3>1. g[d].msg_last_seq \in Positions /\ g[d].seq \in Positions /\ g[d].min_seq \in Positions
      BY <1>3 DEF TcbTypes
    <3>2. g[d].seq - g[d].min_seq - 1 \in Int /\ g[d].seq - g[d].msg_last_seq \in Int BY <3>1 DEF Positions
    <3>3. Mod(g[d].seq - g[d].min_seq - 1) \in Positions /\ Mod(g[d].seq - g[d].msg_last_seq) \in Positions
      BY <3>2, ModRange
    <3> QED BY <3>3 DEF MessageSize, Positions
  <2>3. /\ n[d].msg_size = IF ends /\ g[d].msg_count < MaxMessages /\ size > 0
                           THEN Append(g[d].msg_size, size) ELSE g[d].msg_size
        /\ n[d].msg_count = IF ends THEN g[d].msg_count + One(size > 0) ELSE g[d].msg_count
    BY <1>1 DEF MeasuredTcb
  <2> HIDE DEF size, ends
  <2>4. One(size > 0) = IF size > 0 THEN 1 ELSE 0 BY DEF One
  <2>5. MaxMessages \in Nat /\ Len(g[d].msg_size) \in Nat BY <2>1, TcpAnalysisAssumption
  <2>6. CASE ends /\ g[d].msg_count < MaxMessages /\ size > 0
    <3>1. n[d].msg_size = Append(g[d].msg_size, size) /\ n[d].msg_count = g[d].msg_count + 1
      BY <2>3, <2>4, <2>6
    <3>2. n[d].msg_size \in Seq(Int) /\ Len(n[d].msg_size) = Len(g[d].msg_size) + 1 BY <3>1, <2>1, <2>2
    <3> QED BY <3>1, <3>2, <2>1, <2>5, <2>6
  <2>7. CASE ~(ends /\ g[d].msg_count < MaxMessages /\ size > 0)
    <3>1. n[d].msg_size = g[d].msg_size BY <2>3, <2>7
    <3>2. n[d].msg_count \in Nat /\ n[d].msg_count >= g[d].msg_count BY <2>1, <2>3, <2>4
    <3> QED BY <3>1, <3>2, <2>1, <2>5
  <2> QED BY <2>6, <2>7
<1> QED BY <1>3, <1>4, <1>5, <1>6, <1>7, <1>8 DEF TcbTypes

\* A window that is scaled is a natural number.
LEMMA EffectiveWindow ==
  ASSUME conf \in Confs, NEW g, TcbsTyped(g), NEW p, Legal(p)
  PROVE  EffWin(g, p) \in Nat
<1>1. p.dir \in Dirs /\ p.win \in conf.wins \cup {1} BY DEF Legal, PacketTypes
<1>2. TcbTypes(g[p.dir], p.dir) BY <1>1 DEF TcbsTyped
<1> DEFINE n == g[p.dir].window_scale
<1>3. n \in {0, SynOptions(conf, p.dir).ws} \ {Absent} BY <1>2 DEF TcbTypes
<1>4. p.win * 2 ^ n \in Nat
  <2>1. \A w \in conf.wins \cup {1} : \A m \in {0, SynOptions(conf, p.dir).ws} \ {Absent} : w * 2 ^ m \in Nat
    BY <1>1, ConfOf
  <2> HIDE DEF n
  <2> QED BY <1>1, <1>3, <2>1
<1>5. p.win \in Nat BY <1>1, ConfOf
<1> QED BY <1>4, <1>5 DEF EffWin

\* The types of the history that the closing of a flow depends on.
HistoryTypes ==
  /\ HistoryShaped
  /\ \A d \in Dirs :
       /\ h.seen[d] \in SUBSET Positions
       /\ h.acked[d] \in Nat /\ h.finacked[d] \in BOOLEAN
       /\ h.syns[d] \in Seq(Nat) /\ h.fins[d] \in Seq([at : Nat, len : Nat])

\* The types of the state.
FlowState ==
  /\ conf \in Confs /\ current_time \in Nat /\ left \in 0 .. conf.packets
  /\ ended \in {"no", "half", "reset", "complete", "idle"}
  /\ flight \in None .. SeqModulus - 1
  /\ HistoryTypes /\ TcbsTyped(tcb)

\* The positions that a packet takes.
LEMMA RangeOf ==
  ASSUME conf \in Confs, NEW p, Legal(p)
  PROVE  /\ p.syn => Range0(p) = {p.at} /\ p.at \in Positions
         /\ ~p.syn => Range0(p) = p.at .. (p.at + p.len + One(p.fin)) - 1
         /\ ~p.syn /\ Range0(p) # {} => p.at >= 1 /\ p.at + p.len + One(p.fin) <= conf.total[p.dir] + 2
         /\ Range0(p) \in SUBSET Positions
<1>0. /\ p.dir \in Dirs /\ p.at \in Nat /\ p.len \in Nat /\ p.syn \in BOOLEAN /\ p.fin \in BOOLEAN
  BY DEF Legal, PacketTypes
<1>1. conf.total[p.dir] \in Nat /\ conf.total[p.dir] + 2 < SeqModulus /\ conf.again \subseteq 1 .. SeqModulus - 1
  BY <1>0, ConfOf
<1>2. SeqModulus \in Nat \ {0} BY TcpAnalysisAssumption
<1>3. One(TRUE) = 1 /\ One(FALSE) = 0 BY DEF One
<1>4. CASE p.syn
  <2>1. p.len = 0 /\ ~p.fin /\ (p.at = 0 \/ p.at \in conf.again) BY <1>4 DEF Legal, Sensible
  <2>2. p.fin = FALSE /\ p.syn = TRUE BY <1>0, <1>4, <2>1
  <2>3. Range0(p) = p.at .. p.at
    <3>1. One(p.syn) = 1 /\ One(p.fin) = 0 BY <1>3, <2>2
    <3>2. p.at + p.len + One(p.syn) + One(p.fin) - 1 = p.at BY <1>0, <2>1, <3>1
    <3> QED BY <3>2 DEF Range0
  <2>4. p.at \in Positions BY <1>1, <1>2, <2>1 DEF Positions
  <2> QED BY <1>0, <1>4, <2>3, <2>4
<1>5. CASE ~p.syn
  <2>1. p.syn = FALSE BY <1>0, <1>5
  <2>2. One(p.fin) \in 0 .. 1 /\ (One(p.fin) = 1 <=> p.fin) BY <1>0 DEF One
  <2>3. Range0(p) = p.at .. (p.at + p.len + One(p.fin)) - 1
    <3>1. One(p.syn) = 0 BY <1>3, <2>1
    <3>2. p.at + p.len + One(p.syn) + One(p.fin) - 1 = (p.at + p.len + One(p.fin)) - 1 BY <1>0, <2>2, <3>1
    <3> QED BY <3>2 DEF Range0
  <2>4. Range0(p) # {} => p.len > 0 \/ p.fin BY <1>0, <2>2, <2>3
  <2>5. /\ p.len > 0 \/ p.fin => p.at >= 1 /\ p.at + p.len <= conf.total[p.dir] + 1
        /\ p.fin => p.at + p.len = conf.total[p.dir] + 1
    BY DEF Legal, Sensible
  <2>6. Range0(p) # {} => p.at >= 1 /\ p.at + p.len + One(p.fin) <= conf.total[p.dir] + 2
    BY <1>0, <1>1, <2>2, <2>4, <2>5
  <2>7. Range0(p) \in SUBSET Positions
    <3>1. CASE Range0(p) = {} BY <3>1
    <3>2. CASE Range0(p) # {}
      <4> DEFINE last == (p.at + p.len + One(p.fin)) - 1
      <4>1. p.at >= 1 /\ last <= conf.total[p.dir] + 1 /\ last \in Int BY <1>0, <1>1, <2>2, <2>6, <3>2
      <4>2. Range0(p) = p.at .. last BY <2>3
      <4> HIDE DEF last
      <4>3. \A x \in p.at .. last : x \in 0 .. SeqModulus - 1 BY <1>0, <1>1, <1>2, <4>1
      <4> QED BY <4>2, <4>3 DEF Positions
    <3> QED BY <3>1, <3>2
  <2> QED BY <1>5, <2>3, <2>6, <2>7
<1> QED BY <1>0, <1>4, <1>5

\* A packet keeps the types of the history.
LEMMA HistoryStep ==
  ASSUME conf \in Confs, HistoryTypes, NEW p, Legal(p), h' = Remember(p), conf' = conf
  PROVE  HistoryTypes'
<1>0. p.dir \in Dirs /\ p.at \in Nat /\ p.len \in Nat /\ p.acks \in Nat BY DEF Legal, PacketTypes
<1>1. HistoryShaped' /\ \A x \in Dirs : HistoryAfter(p, x) BY <1>0, RememberEffect DEF HistoryTypes
<1>2. AckOf(p) \in Nat BY <1>0 DEF AckOf
<1> SUFFICES ASSUME NEW d \in Dirs
             PROVE  /\ h'.seen[d] \in SUBSET Positions
                    /\ h'.acked[d] \in Nat /\ h'.finacked[d] \in BOOLEAN
                    /\ h'.syns[d] \in Seq(Nat) /\ h'.fins[d] \in Seq([at : Nat, len : Nat])
  BY <1>1 DEF HistoryTypes, Positions
<1>3. h.seen[d] \in SUBSET Positions /\ h.acked[d] \in Nat /\ h.finacked[d] \in BOOLEAN
      /\ h.syns[d] \in Seq(Nat) /\ h.fins[d] \in Seq([at : Nat, len : Nat])
  BY DEF HistoryTypes
<1>4. h'.seen[d] \in SUBSET Positions BY <1>1, <1>3, RangeOf DEF HistoryAfter
<1>5. h'.acked[d] \in Nat
  <2>1. Max({h.acked[d], AckOf(p)}) \in Nat
    <3>1. h.acked[d] \in Int /\ AckOf(p) \in Int BY <1>2, <1>3
    <3>2. Max({h.acked[d], AckOf(p)}) \in {h.acked[d], AckOf(p)} BY <3>1, MaxTwo
    <3> QED BY <1>2, <1>3, <3>2
  <2> QED BY <1>1, <1>3, <2>1 DEF HistoryAfter
<1>6. h'.finacked[d] \in BOOLEAN BY <1>1, <1>3 DEF HistoryAfter
<1>7. h'.syns[d] \in Seq(Nat)
  <2>1. h'.syns[d] = IF d = p.dir /\ p.syn THEN Append(h.syns[d], p.at) ELSE h.syns[d]
    BY <1>1 DEF HistoryAfter
  <2> QED BY <1>0, <1>3, <2>1
<1>8. h'.fins[d] \in Seq([at : Nat, len : Nat])
  <2>1. [at |-> p.at, len |-> p.len] \in [at : Nat, len : Nat] BY <1>0
  <2> DEFINE e == [at |-> p.at, len |-> p.len]  E == [at : Nat, len : Nat]
  <2>2. h'.fins[d] = IF d = p.dir /\ p.fin THEN Append(h.fins[d], e) ELSE h.fins[d] BY <1>1 DEF HistoryAfter
  <2>3. e \in E /\ h.fins[d] \in Seq(E) BY <1>3, <2>1
  <2> HIDE DEF e, E
  <2>4. h'.fins[d] \in Seq(E) BY <2>2, <2>3
  <2> QED BY <2>4 DEF E
<1> QED BY <1>4, <1>5, <1>6, <1>7, <1>8

\* What a packet does to the FIN counters and closes.
LEMMA PacketCloses ==
  ASSUME Shaped(tcb), NEW p, Legal(p), Packet(p)
  PROVE  /\ conf' = conf /\ h' = Remember(p) /\ ended = "no"
         /\ ended' \in {"no", "half", "reset", "complete"}
         /\ \A x \in Dirs :
              LET here == x = p.dir
                  fc == IF here THEN tcb[x].fin_count + One(p.fin) ELSE tcb[x].fin_count
                  fs == IF here /\ p.fin THEN Seq0(p) ELSE tcb[x].fin_seqno
              IN /\ tcb'[x].fin_count = fc /\ tcb'[x].fin_seqno = fs
                 /\ tcb'[x].closed = IF /\ ended' # "half" /\ ~here /\ p.ackset /\ fc >= 1
                                        /\ Ack0(p) >= Mod(fs + 1) THEN TRUE ELSE tcb[x].closed
         /\ ended' \in {"no", "complete"} => (ended' = "complete" <=> \A x \in Dirs : tcb'[x].closed)
<1> DEFINE a == CountFlags(tcb, p)
           b == Counted(a, p)
           c == Measured(b, p, EffWin(a, p))
<1>0. p.dir \in Dirs /\ (p.syn => ~p.fin) BY DEF Legal, PacketTypes, Sensible
<1>1. /\ Shaped(tcb')
      /\ conf' = conf /\ h' = Remember(p)
      /\ \/ ended' = "half" /\ HalfDuplex(a, p) /\ Differ(tcb', a, RateFields)
         \/ ended' = "reset" /\ p.rst /\ Differ(tcb', b, RateFields)
         \/ /\ ended' \in {"no", "complete"} /\ ~p.rst
            /\ Differ(tcb', c, RateFields)
            /\ ended' = "complete" <=> \A x \in Dirs : tcb'[x].closed
  BY <1>0, PacketEffect
<1>2. /\ Shaped(a)
      /\ \A x \in Dirs :
           /\ a[x].fin_count = IF x = p.dir THEN tcb[x].fin_count + One(p.fin) ELSE tcb[x].fin_count
           /\ a[x].fin_seqno = IF x = p.dir /\ p.fin THEN Seq0(p) ELSE tcb[x].fin_seqno
      /\ Differ(a, tcb, {"syn_count", "fin_count", "reset_count", "fin_seqno"})
  BY <1>0, CountFlagsEffect
<1>3. Shaped(b) /\ \A x \in Dirs : CountedTcb(b, tcb, p, x) BY <1>0, CountedEffect
<1>4. Differ(c, b, {"win_max", "win_min", "ack", "data_acked", "initialwin_bytes", "cwin_max", "cwin_min",
                          "msg_size", "msg_count", "msg_last_seq"})
  BY <1>0, <1>3, MeasuredEffect
<1>5. ended = "no" BY DEF Packet
<1> HIDE DEF a, b, c
<1>6. \A x \in Dirs : a[x].closed = tcb[x].closed BY <1>2 DEF Differ, Fields, Tcb
<1>7. \A x \in Dirs : c[x].closed = b[x].closed /\ c[x].fin_count = b[x].fin_count /\ c[x].fin_seqno = b[x].fin_seqno
  BY <1>4 DEF Differ, Fields, Tcb
<1>8. CASE ended' = "half" /\ HalfDuplex(a, p) /\ Differ(tcb', a, RateFields)
  <2>1. \A x \in Dirs : tcb'[x].closed = a[x].closed /\ tcb'[x].fin_count = a[x].fin_count
                        /\ tcb'[x].fin_seqno = a[x].fin_seqno
    BY <1>8 DEF Differ, Fields, Tcb, RateFields, CountFields
  <2> QED BY <1>1, <1>2, <1>5, <1>6, <1>8, <2>1
<1>9. CASE ended' = "reset" /\ p.rst /\ Differ(tcb', b, RateFields)
  <2>1. \A x \in Dirs : tcb'[x].closed = b[x].closed /\ tcb'[x].fin_count = b[x].fin_count
                        /\ tcb'[x].fin_seqno = b[x].fin_seqno
    BY <1>9 DEF Differ, Fields, Tcb, RateFields, CountFields
  <2>2. ASSUME NEW x \in Dirs
        PROVE  LET here == x = p.dir
                   fc == IF here THEN tcb[x].fin_count + One(p.fin) ELSE tcb[x].fin_count
                   fs == IF here /\ p.fin THEN Seq0(p) ELSE tcb[x].fin_seqno
               IN /\ b[x].fin_count = fc /\ b[x].fin_seqno = fs
                  /\ b[x].closed = IF ~here /\ p.ackset /\ fc >= 1
                                     /\ Ack0(p) >= Mod(fs + 1) THEN TRUE ELSE tcb[x].closed
    BY <1>3, Zenon DEF CountedTcb
  <2> QED BY <1>1, <1>3, <1>5, <1>9, <2>1, <2>2, ZenonT(60)
<1>10. CASE /\ ended' \in {"no", "complete"} /\ ~p.rst
            /\ Differ(tcb', c, RateFields)
            /\ ended' = "complete" <=> \A x \in Dirs : tcb'[x].closed
  <2>1. \A x \in Dirs : tcb'[x].closed = c[x].closed /\ tcb'[x].fin_count = c[x].fin_count
                        /\ tcb'[x].fin_seqno = c[x].fin_seqno
    BY <1>10 DEF Differ, Fields, Tcb, RateFields, CountFields
  <2>2. ASSUME NEW x \in Dirs
        PROVE  LET here == x = p.dir
                   fc == IF here THEN tcb[x].fin_count + One(p.fin) ELSE tcb[x].fin_count
                   fs == IF here /\ p.fin THEN Seq0(p) ELSE tcb[x].fin_seqno
               IN /\ b[x].fin_count = fc /\ b[x].fin_seqno = fs
                  /\ b[x].closed = IF ~here /\ p.ackset /\ fc >= 1
                                     /\ Ack0(p) >= Mod(fs + 1) THEN TRUE ELSE tcb[x].closed
    BY <1>3, Zenon DEF CountedTcb
  <2>3. ended' # "half" /\ ended' \in {"no", "half", "reset", "complete"} BY <1>10
  <2>4. ended' = "complete" <=> \A x \in Dirs : tcb'[x].closed BY <1>10
  <2>5. ASSUME NEW x \in Dirs
        PROVE  LET here == x = p.dir
                   fc == IF here THEN tcb[x].fin_count + One(p.fin) ELSE tcb[x].fin_count
                   fs == IF here /\ p.fin THEN Seq0(p) ELSE tcb[x].fin_seqno
               IN /\ tcb'[x].fin_count = fc /\ tcb'[x].fin_seqno = fs
                  /\ tcb'[x].closed = IF /\ ended' # "half" /\ ~here /\ p.ackset /\ fc >= 1
                                         /\ Ack0(p) >= Mod(fs + 1) THEN TRUE ELSE tcb[x].closed
    BY <1>7, <2>1, <2>2, <2>3, ZenonT(60)
  <2> QED BY <1>1, <1>5, <2>3, <2>4, <2>5
<1> QED BY <1>1, <1>8, <1>9, <1>10

\* A packet keeps the types of the tcbs.
LEMMA TypedPacket ==
  ASSUME conf \in Confs, HistoryTypes, TcbsTyped(tcb), NEW p, Legal(p), Packet(p)
  PROVE  TcbsTyped(tcb)'
<1> DEFINE a == CountFlags(tcb, p)
           b == Counted(a, p)
           c == Measured(b, p, EffWin(a, p))
<1>0. p.dir \in Dirs /\ (p.syn => ~p.fin) /\ Shaped(tcb) /\ \A x \in Dirs : h.seen[x] \in SUBSET Positions
  BY DEF Legal, PacketTypes, Sensible, TcbsTyped, HistoryTypes
<1>1. /\ Shaped(tcb')
      /\ conf' = conf
      /\ \/ Differ(tcb', a, RateFields)
         \/ Differ(tcb', b, RateFields)
         \/ Differ(tcb', c, RateFields)
  BY <1>0, PacketEffect
<1>2. TcbsTyped(a) BY TypedFlags
<1>3. TcbsTyped(b) BY <1>0, TypedCounted
<1>4. EffWin(a, p) \in Nat BY <1>2, EffectiveWindow
<1>5. TcbsTyped(c) BY <1>3, <1>4, TypedMeasured
<1> HIDE DEF a, b, c
<1>6. TcbsTyped(tcb') BY <1>1, <1>2, <1>3, <1>5, TypedRates
<1> QED BY <1>1, <1>6 DEF TcbsTyped, TcbTypes, Shaped, Positions

\* A packet keeps the types of the state.
LEMMA FlowStep ==
  ASSUME FlowState, NEW p, Legal(p), Packet(p)
  PROVE  FlowState'
<1> DEFINE a == CountFlags(tcb, p)
<1>0. conf \in Confs /\ HistoryTypes /\ TcbsTyped(tcb) /\ p.dir \in Dirs /\ Shaped(tcb)
      /\ current_time \in Nat /\ left \in 0 .. conf.packets /\ flight \in None .. SeqModulus - 1
  BY DEF FlowState, Legal, PacketTypes, TcbsTyped
<1>1. conf' = conf /\ h' = Remember(p) /\ ended' \in {"no", "half", "reset", "complete"} BY <1>0, PacketCloses
<1>2. HistoryTypes' BY <1>0, <1>1, HistoryStep
<1>3. TcbsTyped(tcb)' BY <1>0, TypedPacket
<1>4. current_time' \in Nat
  <2>1. PICK gap \in conf.gaps : current_time' = current_time + gap BY DEF Packet
  <2>2. gap \in Nat BY <1>0, ConfOf
  <2> QED BY <1>0, <2>1, <2>2
<1>5. left' \in 0 .. conf.packets
  <2>1. left > 0 /\ left' = left - 1 BY DEF Packet
  <2>2. conf.packets \in Nat BY <1>0, ConfOf
  <2> QED BY <1>0, <2>1, <2>2
<1>6. flight' \in None .. SeqModulus - 1
  <2>1. TcbsTyped(a) BY <1>0, TypedFlags
  <2>2. flight' \in {flight, Flight(a, p)} BY DEF Packet
  <2> HIDE DEF a
  <2>3. a[Other(p.dir)].seq \in Positions /\ a[p.dir].ack \in Positions
    BY <1>0, <2>1, OtherDir DEF TcbsTyped, TcbTypes
  <2>4. a[Other(p.dir)].seq - a[p.dir].ack \in Int BY <2>3 DEF Positions
  <2>5. Flight(a, p) \in Positions BY <2>4, ModRange DEF Flight
  <2>6. flight' = flight \/ flight' = Flight(a, p) BY <2>2
  <2>7. \A x \in Positions : x \in None .. SeqModulus - 1 BY TcpAnalysisAssumption DEF Positions, None
  <2> QED BY <1>0, <2>5, <2>6, <2>7
<1> QED BY <1>0, <1>1, <1>2, <1>3, <1>4, <1>5, <1>6 DEF FlowState, None

\* The types hold at first.
LEMMA FlowInit == AnalysisInit => FlowState
<1> SUFFICES ASSUME AnalysisInit PROVE FlowState OBVIOUS
<1>1. conf \in Confs /\ tcb = [d \in Dirs |-> Tcb] /\ h = NoHistory /\ current_time = 0 /\ left = conf.packets
      /\ ended = "no" /\ flight = None
  BY DEF AnalysisInit
<1>2. conf.packets \in Nat BY <1>1, ConfOf
<1>3. SeqModulus \in Nat \ {0} /\ MaxMessages \in Nat BY TcpAnalysisAssumption
<1>4. HistoryTypes
  <2>1. HistoryShaped BY <1>1 DEF HistoryShaped, NoHistory
  <2>2. ASSUME NEW d \in Dirs
        PROVE  h.seen[d] = {} /\ h.acked[d] = 0 /\ h.syns[d] = <<>> /\ h.fins[d] = <<>>
    BY <1>1 DEF NoHistory
  <2>b. ASSUME NEW d \in Dirs PROVE h.finacked[d] = FALSE BY <1>1 DEF NoHistory
  <2>3. <<>> \in Seq(Nat) /\ <<>> \in Seq([at : Nat, len : Nat]) OBVIOUS
  <2>4. ASSUME NEW d \in Dirs
        PROVE  /\ h.seen[d] \in SUBSET Positions
               /\ h.acked[d] \in Nat /\ h.finacked[d] \in BOOLEAN
               /\ h.syns[d] \in Seq(Nat) /\ h.fins[d] \in Seq([at : Nat, len : Nat])
    <3>1. h.syns[d] \in Seq(Nat) BY <2>2, <2>3
    <3>2. h.fins[d] \in Seq([at : Nat, len : Nat]) BY <2>2, <2>3
    <3>3. h.seen[d] \in SUBSET Positions BY <2>2
    <3>4. h.acked[d] \in Nat BY <2>2
    <3>5. h.finacked[d] \in BOOLEAN BY <2>b
    <3> QED BY <3>1, <3>2, <3>3, <3>4, <3>5
  <2> QED BY <2>1, <2>4 DEF HistoryTypes
<1>5. TcbsTyped(tcb)
  <2>1. Shaped(tcb) BY <1>1 DEF Shaped, Fields
  <2>2. ASSUME NEW d \in Dirs PROVE TcbTypes(tcb[d], d)
    <3>1. tcb[d] = Tcb BY <1>1
    <3>2. 0 \in Positions /\ 0 \in 0 .. SeqModulus \div 2 BY <1>3 DEF Positions
    <3>3. <<>> \in Seq(Int) /\ Len(<<>>) = 0 OBVIOUS
    <3>4. 0 \in {0, SynOptions(conf, d).ws} \ {Absent} BY DEF Absent
    <3> QED BY <1>3, <3>1, <3>2, <3>3, <3>4 DEF TcbTypes, Tcb
  <2> QED BY <2>1, <2>2 DEF TcbsTyped
<1>6. flight \in None .. SeqModulus - 1 /\ left \in 0 .. conf.packets /\ current_time \in Nat
  BY <1>1, <1>2, <1>3 DEF None
<1> QED BY <1>1, <1>4, <1>5, <1>6 DEF FlowState

\* A flow given up after a time idle keeps all but its rate.
LEMMA IdleStep ==
  ASSUME FlowState, Idle
  PROVE  FlowState' /\ Differ(tcb', tcb, RateFields) /\ conf' = conf /\ h' = h /\ ended' = "idle"
<1>1. conf' = conf /\ h' = h /\ left' = left /\ flight' = flight /\ ended' = "idle" /\ tcb' = ConnStats(tcb)
      /\ current_time' \in {current_time, current_time + IdleTime}
  BY DEF Idle, EndFlow
<1>2. Shaped(tcb') /\ Differ(tcb', tcb, RateFields) BY <1>1, ConnStatsEffect DEF FlowState, TcbsTyped
<1>3. TcbsTyped(tcb') BY <1>2, TypedRates DEF FlowState
<1>4. TcbsTyped(tcb)' BY <1>1, <1>3 DEF TcbsTyped, TcbTypes, Shaped, Positions
<1>5. HistoryTypes' BY <1>1 DEF FlowState, HistoryTypes, HistoryShaped
<1>6. current_time' \in Nat BY <1>1, TcpAnalysisAssumption DEF FlowState
<1> QED BY <1>1, <1>2, <1>4, <1>5, <1>6 DEF FlowState, None

\* The numbers of the SYNs of d that come again lie within its stream.
Covered(d) == conf.again \subseteq 1 .. conf.total[d]

\* A FIN of d came with data: its number is then not the last of the
\* stream.
FinWithData(d) == \E i \in DOMAIN h.fins[d] : h.fins[d][i].len > 0

\* The numbers that d was seen to send lie in its stream, whose end is
\* the FIN; fin_seqno is its number, unless the numbers wrap or the FIN
\* came with data; and a side is closed exactly when its FIN is
\* acknowledged.
Closing(d) ==
  /\ tcb[d].fin_count >= 1 => TRUE \in conf.fins
  /\ Covered(d) => h.seen[d] \in SUBSET (0 .. conf.total[d] + 1)
  /\ Covered(d) /\ conf.total[d] + 1 \in h.seen[d] => tcb[d].fin_count >= 1
  /\ tcb[d].fin_count >= 1 /\ ~Wraps(d) => tcb[d].fin_seqno <= conf.isn[d] + conf.total[d] + 1
  /\ tcb[d].fin_count >= 1 /\ ~FinWithData(d) => tcb[d].fin_seqno = Mod(conf.isn[d] + conf.total[d] + 1)
  /\ tcb[d].closed => h.finacked[d] \/ Wraps(d) \/ FinWithData(d)
  /\ Covered(d) /\ h.finacked[d] => tcb[d].fin_count >= 1
  /\ ended = "no" /\ Covered(d) /\ h.finacked[d] /\ ~Wraps(d) => tcb[d].closed

\* Of both sides; a flow goes on while one is open.
ClosingInv ==
  /\ \A d \in Dirs : Closing(d)
  /\ ended = "no" => \E d \in Dirs : ~tcb[d].closed
  /\ ended = "complete" => \A d \in Dirs : tcb[d].closed

\* What is appended comes last.
LEMMA AppendLast ==
  ASSUME NEW E, NEW s \in Seq(E), NEW e \in E
  PROVE  /\ Append(s, e) \in Seq(E) /\ Len(Append(s, e)) = Len(s) + 1
         /\ Append(s, e)[Len(s) + 1] = e
         /\ \A i \in DOMAIN s : i \in DOMAIN Append(s, e) /\ Append(s, e)[i] = s[i]
         /\ Len(s) + 1 \in DOMAIN Append(s, e)
OBVIOUS

\* What is acknowledged has been seen.
LEMMA MostAcksOf ==
  ASSUME FlowState, NEW d \in Dirs, NEW N \in Nat, h.seen[Other(d)] \in SUBSET (0 .. N)
  PROVE  /\ MostAcks(d) \in 1 .. N + 1
         /\ MostAcks(d) > 1 => MostAcks(d) - 1 \in h.seen[Other(d)]
<1> DEFINE S == h.seen[Other(d)]
<1>1. Top(S) \in 0 .. N + 1 /\ (Top(S) > 0 => Top(S) - 1 \in S) BY TopOf
<1>2. MostAcks(d) = IF 1 >= Top(S) THEN 1 ELSE Top(S) BY <1>1, MaxTwo DEF MostAcks
<1> QED BY <1>1, <1>2

\* A packet of d, seen from the tcb of d.
LEMMA ClosingHere ==
  ASSUME FlowState, FlowState', NEW p, Legal(p), Packet(p), Closing(p.dir)
  PROVE  Closing(p.dir)'
<1> DEFINE d == p.dir
           F == h.fins[d]
           E == [at : Nat, len : Nat]
           e == [at |-> p.at, len |-> p.len]
<1>0. /\ d \in Dirs /\ p.at \in Nat /\ p.len \in Nat /\ p.fin \in BOOLEAN /\ p.syn \in BOOLEAN
      /\ Shaped(tcb) /\ TcbTypes(tcb[d], d) /\ conf \in Confs /\ HistoryTypes
  BY DEF Legal, PacketTypes, FlowState, TcbsTyped
<1>1. /\ conf' = conf /\ h' = Remember(p) /\ ended = "no"
      /\ tcb'[d].fin_count = tcb[d].fin_count + One(p.fin)
      /\ tcb'[d].fin_seqno = IF p.fin THEN Seq0(p) ELSE tcb[d].fin_seqno
      /\ tcb'[d].closed = tcb[d].closed
  BY <1>0, PacketCloses
<1>2. HistoryAfter(p, d) BY <1>0, <1>1, RememberEffect DEF HistoryTypes
<1>3. /\ h'.seen[d] = h.seen[d] \cup Range0(p) /\ h'.finacked[d] = h.finacked[d]
      /\ h'.fins[d] = IF p.fin THEN Append(h.fins[d], e) ELSE h.fins[d]
  BY <1>2 DEF HistoryAfter
<1>4. /\ conf.total[d] \in Nat /\ conf.total[d] + 2 < SeqModulus /\ conf.isn[d] \in Positions
      /\ (TRUE \in conf.fins => Covered(d))
  BY <1>0, ConfOf DEF Covered
<1>5. /\ p.fin => TRUE \in conf.fins /\ p.at + p.len = conf.total[d] + 1 /\ p.at >= 1
      /\ p.syn => p.len = 0 /\ ~p.fin /\ (p.at = 0 \/ p.at \in conf.again)
  BY DEF Legal, Sensible
<1>6. tcb[d].fin_count \in Nat /\ tcb[d].fin_seqno \in Positions /\ SeqModulus \in Nat \ {0}
      /\ One(p.fin) = IF p.fin THEN 1 ELSE 0
  BY <1>0, TcpAnalysisAssumption DEF TcbTypes, One
<1>7. Covered(d)' <=> Covered(d) BY <1>1 DEF Covered
<1>8. Wraps(d)' <=> Wraps(d) BY <1>1 DEF Wraps
<1>9. FinWithData(d)' <=> FinWithData(d) \/ (p.fin /\ p.len > 0)
  <2>0. F \in Seq(E) /\ e \in E BY <1>0 DEF HistoryTypes
  <2>1. CASE p.fin
    <3>1. h'.fins[d] = Append(F, e) BY <1>3, <2>1
    <3> DEFINE G == Append(F, e)
    <3>2. /\ G \in Seq(E) /\ Len(G) = Len(F) + 1 /\ G[Len(F) + 1] = e
          /\ \A i \in DOMAIN F : i \in DOMAIN G /\ G[i] = F[i]
          /\ Len(F) + 1 \in DOMAIN G
      <4> HIDE DEF F, E, e
      <4> QED BY <2>0, AppendLast
    <3>3. \A i \in DOMAIN G : i \in DOMAIN F \/ i = Len(F) + 1
      <4>1. DOMAIN G = 1 .. Len(F) + 1 /\ DOMAIN F = 1 .. Len(F) /\ Len(F) \in Nat BY <2>0, <3>2
      <4> HIDE DEF G, F
      <4> QED BY <4>1
    <3>4. e.len = p.len OBVIOUS
    <3> HIDE DEF G, F, e
    <3>5. (\E i \in DOMAIN G : G[i].len > 0) <=> (\E i \in DOMAIN F : F[i].len > 0) \/ p.len > 0
      BY <3>2, <3>3, <3>4
    <3> QED BY <2>1, <3>1, <3>5 DEF FinWithData, G, F
  <2>2. CASE ~p.fin BY <1>3, <2>2 DEF FinWithData
  <2> QED BY <2>1, <2>2
<1> DEFINE c == Covered(d)  w == Wraps(d)  f == FinWithData(d)  T == conf.total[d]
<1>10. /\ tcb[d].fin_count >= 1 => TRUE \in conf.fins
       /\ c => h.seen[d] \in SUBSET (0 .. T + 1)
       /\ c /\ T + 1 \in h.seen[d] => tcb[d].fin_count >= 1
       /\ tcb[d].fin_count >= 1 /\ ~w => tcb[d].fin_seqno <= conf.isn[d] + T + 1
       /\ tcb[d].fin_count >= 1 /\ ~f => tcb[d].fin_seqno = Mod(conf.isn[d] + T + 1)
       /\ tcb[d].closed => h.finacked[d] \/ w \/ f
       /\ c /\ h.finacked[d] => tcb[d].fin_count >= 1
       /\ c /\ h.finacked[d] /\ ~w => tcb[d].closed
  BY <1>1 DEF Closing
<1>11. tcb'[d].fin_count >= 1 => TRUE \in conf.fins
  <2>1. CASE p.fin BY <1>5, <2>1
  <2>2. CASE ~p.fin
    <3>1. tcb'[d].fin_count = tcb[d].fin_count BY <1>1, <1>6, <2>2
    <3> QED BY <1>10, <3>1
  <2> QED BY <2>1, <2>2
<1>12. c => Range0(p) \in SUBSET (0 .. T + 1) /\ (T + 1 \in Range0(p) => p.fin)
  <2> SUFFICES ASSUME c PROVE Range0(p) \in SUBSET (0 .. T + 1) /\ (T + 1 \in Range0(p) => p.fin) OBVIOUS
  <2>1. CASE p.syn
    <3>1. Range0(p) = {p.at} BY <1>0, <2>1, RangeOf
    <3>2. p.at \in 0 .. T BY <1>4, <1>5, <2>1 DEF Covered
    <3> QED BY <3>1, <3>2, <1>4
  <2>2. CASE ~p.syn
    <3>1. /\ Range0(p) = p.at .. (p.at + p.len + One(p.fin)) - 1
          /\ Range0(p) # {} => p.at >= 1 /\ p.at + p.len + One(p.fin) <= T + 2
      BY <1>0, <2>2, RangeOf
    <3>2. p.len > 0 => p.at + p.len <= T + 1 BY DEF Legal, Sensible
    <3> DEFINE last == (p.at + p.len + One(p.fin)) - 1
    <3>a. One(p.fin) \in Nat /\ T \in Nat BY <1>4, <1>6
    <3>3. last \in Int /\ (Range0(p) # {} => p.at >= 1 /\ last <= T + 1)
      <4>1. last \in Int BY <1>0, <3>a
      <4>2. Range0(p) # {} => p.at >= 1 /\ p.at + p.len + One(p.fin) <= T + 2 BY <3>1
      <4> HIDE DEF T
      <4>3. p.at + p.len + One(p.fin) <= T + 2 => (p.at + p.len + One(p.fin)) - 1 <= T + 1 BY <1>0, <3>a
      <4> QED BY <4>1, <4>2, <4>3
    <3>4. ~p.fin /\ Range0(p) # {} => last <= T BY <1>0, <1>4, <1>6, <3>1, <3>2
    <3>5. Range0(p) = p.at .. last BY <3>1
    <3> HIDE DEF last
    <3> QED BY <1>0, <1>4, <3>3, <3>4, <3>5
  <2> QED BY <2>1, <2>2
<1>13. c => h'.seen[d] \in SUBSET (0 .. T + 1) BY <1>3, <1>10, <1>12
<1>14. c /\ T + 1 \in h'.seen[d] => tcb'[d].fin_count >= 1 BY <1>1, <1>3, <1>6, <1>10, <1>12
<1>15. p.fin /\ ~w => Seq0(p) <= conf.isn[d] + T + 1
  <2> SUFFICES ASSUME p.fin, ~w PROVE Seq0(p) <= conf.isn[d] + T + 1 OBVIOUS
  <2>1. conf.isn[d] + T + 2 < SeqModulus BY <1>4, <1>6 DEF Wraps, Positions
  <2>2. p.at <= T + 1 BY <1>0, <1>4, <1>5
  <2>3. conf.isn[d] + p.at \in Positions /\ conf.isn[d] + p.at <= conf.isn[d] + T + 1
    BY <1>0, <1>4, <1>6, <2>1, <2>2 DEF Positions
  <2> QED BY <2>3, ModSmall DEF Seq0
<1>16. tcb'[d].fin_count >= 1 /\ ~w => tcb'[d].fin_seqno <= conf.isn[d] + T + 1 BY <1>1, <1>6, <1>10, <1>15
<1>17. tcb'[d].fin_count >= 1 /\ ~FinWithData(d)' => tcb'[d].fin_seqno = Mod(conf.isn[d] + T + 1)
  <2>1. p.fin /\ ~FinWithData(d)' => p.len = 0 BY <1>0, <1>9
  <2>2. p.fin /\ p.len = 0 => p.at = T + 1 BY <1>0, <1>4, <1>5
  <2>3. p.fin /\ p.at = T + 1 => Seq0(p) = Mod(conf.isn[d] + T + 1)
    <3>1. conf.isn[d] + (T + 1) = conf.isn[d] + T + 1 BY <1>4 DEF Positions
    <3> QED BY <3>1 DEF Seq0
  <2> QED BY <1>1, <1>6, <1>9, <1>10, <2>1, <2>2, <2>3
<1> HIDE DEF d, c, w, f, T
<1>18. Closing(d)'
  <2>1. ended' = "no" /\ Covered(d)' /\ h'.finacked[d] /\ ~Wraps(d)' => tcb'[d].closed
    BY <1>1, <1>3, <1>7, <1>8, <1>10 DEF c, w
  <2>2. tcb'[d].closed => h'.finacked[d] \/ Wraps(d)' \/ FinWithData(d)'
    BY <1>1, <1>3, <1>8, <1>9, <1>10 DEF w, f
  <2>3. Covered(d)' /\ h'.finacked[d] => tcb'[d].fin_count >= 1 BY <1>1, <1>3, <1>6, <1>7, <1>10 DEF c
  <2>4. (tcb'[d].fin_count >= 1 => TRUE \in conf'.fins) /\ conf'.total[d] = T /\ conf'.isn[d] = conf.isn[d]
    BY <1>1, <1>11 DEF T
  <2> QED BY <1>7, <1>8, <1>13, <1>14, <1>16, <1>17, <2>1, <2>2, <2>3, <2>4 DEF Closing, c, w, Mod
<1> QED BY <1>18 DEF d

\* A packet of d, seen from the tcb of the other side.
LEMMA ClosingThere ==
  ASSUME FlowState, NEW p, Legal(p), Packet(p), Closing(Other(p.dir))
  PROVE  Closing(Other(p.dir))'
<1> DEFINE d == Other(p.dir)
           acked == p.ackset /\ tcb[d].fin_count >= 1 /\ Ack0(p) >= Mod(tcb[d].fin_seqno + 1)
<1>0. /\ p.dir \in Dirs /\ d \in Dirs /\ d # p.dir /\ p.acks \in Nat \ {0} /\ p.ackset \in BOOLEAN
      /\ Shaped(tcb) /\ TcbTypes(tcb[d], d) /\ conf \in Confs /\ HistoryTypes
  BY OtherDir DEF Legal, PacketTypes, FlowState, TcbsTyped
<1>1. /\ conf' = conf /\ h' = Remember(p) /\ ended = "no"
      /\ tcb'[d].fin_count = tcb[d].fin_count
      /\ tcb'[d].fin_seqno = tcb[d].fin_seqno
      /\ tcb'[d].closed = IF ended' # "half" /\ acked THEN TRUE ELSE tcb[d].closed
  <2>1. /\ conf' = conf /\ h' = Remember(p) /\ ended = "no"
        /\ LET here == d = p.dir
               fc == IF here THEN tcb[d].fin_count + One(p.fin) ELSE tcb[d].fin_count
               fs == IF here /\ p.fin THEN Seq0(p) ELSE tcb[d].fin_seqno
           IN /\ tcb'[d].fin_count = fc /\ tcb'[d].fin_seqno = fs
              /\ tcb'[d].closed = IF /\ ended' # "half" /\ ~here /\ p.ackset /\ fc >= 1
                                     /\ Ack0(p) >= Mod(fs + 1) THEN TRUE ELSE tcb[d].closed
    BY <1>0, PacketCloses
  <2> QED BY <1>0, <2>1
<1>2. HistoryAfter(p, d) BY <1>0, <1>1, RememberEffect DEF HistoryTypes
<1>3. /\ h'.seen[d] = h.seen[d] /\ h'.fins[d] = h.fins[d]
      /\ h'.finacked[d] = (h.finacked[d] \/ AckOf(p) = conf.total[d] + 2)
  BY <1>0, <1>2 DEF HistoryAfter
<1>4. /\ conf.total[d] \in Nat /\ conf.total[d] + 2 < SeqModulus /\ conf.isn[d] \in Positions
      /\ (TRUE \in conf.fins => Covered(d))
  BY <1>0, ConfOf DEF Covered
<1>6. tcb[d].fin_count \in Nat /\ tcb[d].fin_seqno \in Positions /\ SeqModulus \in Nat \ {0}
  BY <1>0, TcpAnalysisAssumption DEF TcbTypes
<1>6a. tcb[d].closed \in BOOLEAN /\ h.finacked[d] \in BOOLEAN BY <1>0 DEF TcbTypes, HistoryTypes
<1> DEFINE c == Covered(d)  w == Wraps(d)  f == FinWithData(d)  T == conf.total[d]
<1>7. (Covered(d)' <=> c) /\ (Wraps(d)' <=> w) /\ (FinWithData(d)' <=> f)
  BY <1>1, <1>3 DEF Covered, Wraps, FinWithData
<1>8. p.acks <= MostAcks(p.dir) /\ (AckOf(p) = IF p.ackset THEN p.acks ELSE 0) BY DEF Legal, Sensible, AckOf
<1>10. /\ tcb[d].fin_count >= 1 => TRUE \in conf.fins
       /\ c => h.seen[d] \in SUBSET (0 .. T + 1)
       /\ c /\ T + 1 \in h.seen[d] => tcb[d].fin_count >= 1
       /\ tcb[d].fin_count >= 1 /\ ~w => tcb[d].fin_seqno <= conf.isn[d] + T + 1
       /\ tcb[d].fin_count >= 1 /\ ~f => tcb[d].fin_seqno = Mod(conf.isn[d] + T + 1)
       /\ tcb[d].closed => h.finacked[d] \/ w \/ f
       /\ c /\ h.finacked[d] => tcb[d].fin_count >= 1
       /\ c /\ h.finacked[d] /\ ~w => tcb[d].closed
  BY <1>1 DEF Closing
<1>11. c => p.acks \in 1 .. T + 2 /\ (p.acks = T + 2 => T + 1 \in h.seen[d])
  <2>1. c => h.seen[Other(p.dir)] \in SUBSET (0 .. T + 1) BY <1>10
  <2>2. T \in Nat /\ T + 1 \in Nat BY <1>4
  <2>3. c => MostAcks(p.dir) \in 1 .. (T + 1) + 1 /\ (MostAcks(p.dir) > 1 => MostAcks(p.dir) - 1 \in h.seen[d])
    <3> HIDE DEF T
    <3> QED BY <1>0, <2>1, <2>2, MostAcksOf
  <2> DEFINE M == MostAcks(p.dir)
  <2> HIDE DEF T, c, d, M
  <2>4. c => M \in 1 .. (T + 1) + 1 /\ (M > 1 => M - 1 \in h.seen[d]) BY <2>3 DEF M
  <2>5. p.acks <= M /\ p.acks \in Nat \ {0} BY <1>0, <1>8 DEF M
  <2>6. c => p.acks \in 1 .. T + 2 BY <2>2, <2>4, <2>5
  <2>7. c /\ p.acks = T + 2 => M = T + 2 /\ M > 1 /\ M - 1 = T + 1 BY <2>2, <2>4, <2>5
  <2>8. c /\ p.acks = T + 2 => T + 1 \in h.seen[d] BY <2>4, <2>7
  <2> QED BY <2>6, <2>8
<1>12. ~w => /\ Mod(conf.isn[d] + T + 2) = conf.isn[d] + T + 2
             /\ Mod(conf.isn[d] + T + 1) = conf.isn[d] + T + 1
             /\ \A x \in 1 .. T + 2 : Mod(conf.isn[d] + x) = conf.isn[d] + x
  <2> SUFFICES ASSUME ~w
               PROVE  /\ Mod(conf.isn[d] + T + 2) = conf.isn[d] + T + 2
                      /\ Mod(conf.isn[d] + T + 1) = conf.isn[d] + T + 1
                      /\ \A x \in 1 .. T + 2 : Mod(conf.isn[d] + x) = conf.isn[d] + x
    OBVIOUS
  <2>1. conf.isn[d] + T + 2 < SeqModulus /\ conf.isn[d] \in Nat BY <1>4, <1>6 DEF Wraps, Positions
  <2>2. \A x \in 1 .. T + 2 : conf.isn[d] + x \in Positions BY <1>4, <1>6, <2>1 DEF Positions
  <2>3. conf.isn[d] + T + 2 \in Positions /\ conf.isn[d] + T + 1 \in Positions
    BY <1>4, <1>6, <2>1 DEF Positions
  <2> QED BY <2>2, <2>3, ModSmall
<1>13. Ack0(p) = Mod(conf.isn[d] + p.acks) BY DEF Ack0
<1>a. p.ackset /\ p.acks = T + 2 /\ c /\ ~w => acked
  <2> SUFFICES ASSUME p.ackset, p.acks = T + 2, c, ~w PROVE acked OBVIOUS
  <2>1. tcb[d].fin_count >= 1 /\ tcb[d].fin_seqno <= conf.isn[d] + T + 1 BY <1>10, <1>11
  <2>2. Ack0(p) = conf.isn[d] + T + 2
    <3>1. p.acks \in 1 .. T + 2 BY <1>11
    <3>2. Ack0(p) = conf.isn[d] + p.acks BY <1>12, <1>13, <3>1
    <3> QED BY <1>4, <3>2 DEF Positions
  <2>3. conf.isn[d] + T + 2 < SeqModulus /\ conf.isn[d] \in Nat BY <1>4, <1>6 DEF Wraps, Positions
  <2>4. tcb[d].fin_seqno + 1 \in Positions BY <1>4, <1>6, <2>1, <2>3 DEF Positions
  <2>5. Mod(tcb[d].fin_seqno + 1) = tcb[d].fin_seqno + 1 BY <2>4, ModSmall
  <2>6. Ack0(p) >= Mod(tcb[d].fin_seqno + 1) BY <1>4, <1>6, <2>1, <2>2, <2>3, <2>5 DEF Positions
  <2> QED BY <2>1, <2>6
<1>b. acked /\ ~w /\ ~f => AckOf(p) = T + 2
  <2> SUFFICES ASSUME acked, ~w, ~f PROVE AckOf(p) = T + 2 OBVIOUS
  <2>1. TRUE \in conf.fins /\ tcb[d].fin_seqno = Mod(conf.isn[d] + T + 1) BY <1>10
  <2>2. c /\ tcb[d].fin_seqno = conf.isn[d] + T + 1 BY <1>4, <1>12, <2>1
  <2>3. p.acks \in 1 .. T + 2 /\ Ack0(p) = conf.isn[d] + p.acks BY <1>11, <1>12, <1>13, <2>2
  <2>4. conf.isn[d] + T + 2 < SeqModulus /\ conf.isn[d] \in Nat BY <1>4, <1>6 DEF Wraps, Positions
  <2>5. tcb[d].fin_seqno + 1 \in Positions BY <1>4, <1>6, <2>2, <2>4 DEF Positions
  <2>6. Mod(tcb[d].fin_seqno + 1) = tcb[d].fin_seqno + 1 BY <2>5, ModSmall
  <2>7. conf.isn[d] + p.acks >= conf.isn[d] + T + 2 BY <1>4, <2>2, <2>3, <2>4, <2>6
  <2>8. p.acks = T + 2 BY <1>4, <2>3, <2>4, <2>7
  <2> QED BY <1>8, <2>8
<1> HIDE DEF c, w, f, T, acked
<1>20. h'.finacked[d] => h.finacked[d] \/ (p.ackset /\ p.acks = T + 2)
  <2>1. T + 2 # 0 BY <1>4 DEF T
  <2> QED BY <1>3, <1>6a, <1>8, <2>1 DEF T
<1>21. tcb'[d].closed => h'.finacked[d] \/ w \/ f BY <1>1, <1>3, <1>6a, <1>10, <1>b DEF T
<1>22. c /\ h'.finacked[d] => tcb'[d].fin_count >= 1 BY <1>1, <1>10, <1>11, <1>20
<1>23. ended' = "no" /\ c /\ h'.finacked[d] /\ ~w => tcb'[d].closed BY <1>1, <1>6a, <1>10, <1>20, <1>a
<1> HIDE DEF d
<1>24. Closing(d)' BY <1>1, <1>3, <1>7, <1>10, <1>21, <1>22, <1>23 DEF Closing, Mod, T
<1> QED BY <1>24 DEF d

\* The inductive invariant.
AnalysisInv == FlowState /\ ClosingInv

\* It holds at first,
LEMMA AnalysisInvInit == AnalysisInit => AnalysisInv
<1> SUFFICES ASSUME AnalysisInit PROVE AnalysisInv OBVIOUS
<1>1. FlowState BY FlowInit
<1>2. ASSUME NEW d \in Dirs PROVE Closing(d) /\ ~tcb[d].closed
  <2>1. tcb[d].fin_count = 0 /\ ~tcb[d].closed BY DEF AnalysisInit, Tcb
  <2>2. h.seen[d] = {} BY DEF AnalysisInit, NoHistory
  <2>3. ~h.finacked[d] BY DEF AnalysisInit, NoHistory
  <2> QED BY <2>1, <2>2, <2>3 DEF Closing
<1>3. ended = "no" /\ "c2s" \in Dirs BY DEF AnalysisInit, Dirs
<1> QED BY <1>1, <1>2, <1>3 DEF AnalysisInv, ClosingInv

\* every step keeps it,
LEMMA AnalysisInvStep == AnalysisInv /\ [AnalysisNext]_analysisVars => AnalysisInv'
<1> SUFFICES ASSUME AnalysisInv, [AnalysisNext]_analysisVars PROVE AnalysisInv' OBVIOUS
<1>0. FlowState /\ ClosingInv /\ Shaped(tcb) /\ conf \in Confs /\ \A x \in Dirs : h.seen[x] \in SUBSET Positions
  BY DEF AnalysisInv, FlowState, TcbsTyped, HistoryTypes
<1>1. ASSUME NEW d \in Dirs, SendSyn(d) \/ SendData(d) \/ SendAck(d) \/ SendFin(d) \/ SendReset(d)
      PROVE  AnalysisInv'
  <2>1. PICK p : Legal(p) /\ Packet(p) BY <1>0, <1>1, SendLegal
  <2>2. FlowState' BY <1>0, <2>1, FlowStep
  <2>3. p.dir \in Dirs /\ Other(p.dir) \in Dirs /\ \A x \in Dirs : x = p.dir \/ x = Other(p.dir)
    BY <2>1, OtherDir DEF Legal, PacketTypes
  <2>4. Closing(p.dir)' BY <1>0, <2>1, <2>2, <2>3, ClosingHere DEF ClosingInv
  <2>5. Closing(Other(p.dir))' BY <1>0, <2>1, <2>3, ClosingThere DEF ClosingInv
  <2>6. \A x \in Dirs : Closing(x)' BY <2>3, <2>4, <2>5
  <2>7. /\ ended' \in {"no", "half", "reset", "complete"}
        /\ ended' \in {"no", "complete"} => (ended' = "complete" <=> \A x \in Dirs : tcb'[x].closed)
    BY <1>0, <2>1, PacketCloses
  <2> QED BY <2>2, <2>6, <2>7 DEF AnalysisInv, ClosingInv, Dirs
<1>2. CASE Idle
  <2>1. FlowState' /\ Differ(tcb', tcb, RateFields) /\ conf' = conf /\ h' = h /\ ended' = "idle"
    BY <1>0, <1>2, IdleStep
  <2>2. \A x \in Dirs : tcb'[x].fin_count = tcb[x].fin_count /\ tcb'[x].fin_seqno = tcb[x].fin_seqno
                        /\ tcb'[x].closed = tcb[x].closed
    BY <2>1 DEF Differ, Fields, Tcb, RateFields, CountFields
  <2>3. ASSUME NEW x \in Dirs PROVE Closing(x)'
    <3>1. Closing(x) BY <1>0 DEF ClosingInv
    <3> QED BY <2>1, <2>2, <3>1 DEF Closing, Covered, Wraps, FinWithData, Mod
  <2> QED BY <2>1, <2>3 DEF AnalysisInv, ClosingInv, Dirs
<1>3. CASE UNCHANGED analysisVars
  <2>1. conf' = conf /\ tcb' = tcb /\ current_time' = current_time /\ left' = left /\ ended' = ended /\ flight' = flight
        /\ h' = h
    BY <1>3 DEF analysisVars
  <2>2. FlowState'
    BY <1>0, <2>1 DEF FlowState, HistoryTypes, HistoryShaped, TcbsTyped, TcbTypes, Shaped, Positions
  <2>3. ClosingInv' BY <1>0, <2>1 DEF ClosingInv, Closing, Covered, Wraps, FinWithData, Mod, Dirs
  <2> QED BY <2>2, <2>3 DEF AnalysisInv
<1> QED BY <1>1, <1>2, <1>3 DEF AnalysisNext

\* The types of the flow and the closing of its sides hold in every
\* state, for any streams, configuration and number of packets.
THEOREM AnalysisInvariant == AnalysisSpec => []AnalysisInv
<1> QED BY AnalysisInvInit, AnalysisInvStep, PTL DEF AnalysisSpec

\* and it gives Sound.
LEMMA InvSound == AnalysisInv => Sound
<1> SUFFICES ASSUME AnalysisInv PROVE Sound OBVIOUS
<1>0. FlowState /\ ClosingInv /\ TcbsTyped(tcb) /\ conf \in Confs /\ HistoryTypes
  BY DEF AnalysisInv, FlowState
<1>1. FlowTypes
  <2>1. DOMAIN tcb = Dirs BY <1>0 DEF TcbsTyped, Shaped
  <2>2. ASSUME NEW d \in Dirs
        PROVE  /\ DOMAIN tcb[d] = DOMAIN Tcb
               /\ {tcb[d].syn, tcb[d].fin, tcb[d].fin_seqno, tcb[d].seq, tcb[d].ack, tcb[d].min_seq,
                   tcb[d].msg_last_seq} \subseteq 0 .. SeqModulus - 1
               /\ tcb[d].cwin_max \in 0 .. SeqModulus \div 2 /\ tcb[d].cwin_min \in 0 .. tcb[d].cwin_max
               /\ tcb[d].win_min <= tcb[d].win_max /\ Len(tcb[d].msg_size) <= MaxMessages
               /\ h.seen[d] \subseteq Nat /\ h.acked[d] \in Nat
    <3>1. DOMAIN tcb[d] = DOMAIN Tcb BY <1>0 DEF TcbsTyped, Shaped, Fields
    <3>2. TcbTypes(tcb[d], d) BY <1>0 DEF TcbsTyped
    <3>3. {tcb[d].syn, tcb[d].fin, tcb[d].fin_seqno, tcb[d].seq, tcb[d].ack, tcb[d].min_seq,
                   tcb[d].msg_last_seq} \subseteq 0 .. SeqModulus - 1
      BY <3>2 DEF TcbTypes, Positions
    <3>4. /\ tcb[d].cwin_max \in 0 .. SeqModulus \div 2 /\ tcb[d].cwin_min \in 0 .. tcb[d].cwin_max
          /\ tcb[d].win_min <= tcb[d].win_max /\ Len(tcb[d].msg_size) <= MaxMessages
      BY <3>2 DEF TcbTypes
    <3>5. h.seen[d] \subseteq Nat /\ h.acked[d] \in Nat BY <1>0 DEF HistoryTypes, Positions
    <3> QED BY <3>1, <3>3, <3>4, <3>5
  <2>3. /\ conf \in Confs /\ current_time \in Nat /\ left \in 0 .. conf.packets
        /\ ended \in {"no", "half", "reset", "complete", "idle"}
        /\ flight \in None .. SeqModulus - 1
    BY <1>0 DEF FlowState
  <2> QED BY <2>1, <2>2, <2>3 DEF FlowTypes
<1>2. ended = "complete" => \A d \in Dirs : h.finacked[d] \/ Wraps(d) \/ FinWithData(d)
  BY <1>0 DEF ClosingInv, Closing
<1>3. ended = "no" /\ (\A d \in Dirs : h.finacked[d]) => \E d \in Dirs : Wraps(d)
  <2> SUFFICES ASSUME ended = "no", \A d \in Dirs : h.finacked[d], \A d \in Dirs : ~Wraps(d) PROVE FALSE
    OBVIOUS
  <2>1. PICK d \in Dirs : Covered(d) BY <1>0, ConfOf DEF Covered
  <2>2. tcb[d].fin_count >= 1 /\ TRUE \in conf.fins BY <1>0, <2>1 DEF ClosingInv, Closing
  <2>3. \A x \in Dirs : Covered(x) BY <1>0, <2>2, ConfOf DEF Covered
  <2>4. \A x \in Dirs : tcb[x].closed BY <1>0, <2>3 DEF ClosingInv, Closing
  <2> QED BY <1>0, <2>4 DEF ClosingInv
<1> QED BY <1>1, <1>2, <1>3 DEF Sound, ClosedWhenAcked, FinWithData

\* A flow is called complete when both its sides have sent a FIN that
\* was acknowledged, and goes on otherwise; the windows and counts that
\* are reported are ordered (Sound of TcpAnalysis).
THEOREM AnalysisSound == AnalysisSpec => []Sound
<1> QED BY AnalysisInvariant, InvSound, PTL

MeasureFields == {"win_max", "win_min", "ack", "data_acked", "initialwin_bytes", "cwin_max", "cwin_min",
                          "msg_size", "msg_count", "msg_last_seq"}

\* What has been counted is not changed by what is measured after it.
LEMMA PacketCounted ==
  ASSUME Shaped(tcb), NEW p, Legal(p), Packet(p), NEW b, b = Counted(CountFlags(tcb, p), p)
  PROVE  /\ Shaped(b) /\ Shaped(tcb')
         /\ \A x \in Dirs : CountedTcb(b, tcb, p, x) /\ OptionsTcb(b, tcb, p, x)
         /\ Differ(b, tcb, CountFields)
         /\ ended' # "half" => Differ(tcb', b, RateFields \cup MeasureFields)
         /\ \A x \in Dirs :
              /\ tcb'[x].syn_count = IF x = p.dir THEN tcb[x].syn_count + One(p.syn) ELSE tcb[x].syn_count
              /\ tcb'[x].fin_count = IF x = p.dir THEN tcb[x].fin_count + One(p.fin) ELSE tcb[x].fin_count
<1> DEFINE a == CountFlags(tcb, p)
           c == Measured(b, p, EffWin(a, p))
<1>0. p.dir \in Dirs /\ (p.syn => ~p.fin) BY DEF Legal, PacketTypes, Sensible
<1>1. /\ Shaped(tcb')
      /\ \/ ended' = "half" /\ Differ(tcb', a, RateFields)
         \/ ended' = "reset" /\ Differ(tcb', b, RateFields)
         \/ ended' \in {"no", "complete"} /\ Differ(tcb', c, RateFields)
  BY <1>0, PacketEffect
<1>2. /\ Shaped(a)
      /\ \A x \in Dirs :
           /\ a[x].syn_count = IF x = p.dir THEN tcb[x].syn_count + One(p.syn) ELSE tcb[x].syn_count
           /\ a[x].fin_count = IF x = p.dir THEN tcb[x].fin_count + One(p.fin) ELSE tcb[x].fin_count
  BY <1>0, CountFlagsEffect
<1>3. /\ Shaped(b)
      /\ \A x \in Dirs : CountedTcb(b, tcb, p, x)
      /\ Differ(b, tcb, CountFields)
  BY <1>0, CountedEffect
<1>3a. \A x \in Dirs : OptionsTcb(b, tcb, p, x) BY <1>0, CountedOptions
<1>4. Differ(c, b, MeasureFields) BY <1>0, <1>3, MeasuredEffect DEF MeasureFields
<1> HIDE DEF a, c
<1>5. ended' # "half" => Differ(tcb', b, RateFields \cup MeasureFields) BY <1>1, <1>4 DEF Differ
<1>6. ASSUME NEW x \in Dirs
      PROVE  /\ tcb'[x].syn_count = IF x = p.dir THEN tcb[x].syn_count + One(p.syn) ELSE tcb[x].syn_count
             /\ tcb'[x].fin_count = IF x = p.dir THEN tcb[x].fin_count + One(p.fin) ELSE tcb[x].fin_count
  <2>1. CASE Differ(tcb', a, RateFields)
    <3>1. tcb'[x].syn_count = a[x].syn_count /\ tcb'[x].fin_count = a[x].fin_count
      BY <2>1 DEF Differ, Fields, Tcb, RateFields, CountFields
    <3> QED BY <1>2, <3>1
  <2>2. CASE ended' # "half"
    <3>1. tcb'[x].syn_count = b[x].syn_count /\ tcb'[x].fin_count = b[x].fin_count
      BY <1>5, <2>2 DEF Differ, Fields, Tcb, RateFields, CountFields, MeasureFields
    <3>2. /\ b[x].syn_count = IF x = p.dir THEN tcb[x].syn_count + One(p.syn) ELSE tcb[x].syn_count
          /\ b[x].fin_count = IF x = p.dir THEN tcb[x].fin_count + One(p.fin) ELSE tcb[x].fin_count
      BY <1>3, Zenon DEF CountedTcb
    <3> QED BY <3>1, <3>2
  <2> QED BY <1>1, <2>1, <2>2
<1> QED BY <1>1, <1>3, <1>3a, <1>5, <1>6

\* A number taken into the sequence space and moved on is the sum taken
\* into it.
LEMMA ModShift ==
  ASSUME NEW a \in Nat, NEW k \in Nat, a + k < 2 * SeqModulus
  PROVE  Mod(Mod(a) + k) = Mod(a + k)
<1>0. SeqModulus \in Nat \ {0} BY TcpAnalysisAssumption
<1>1. CASE a < SeqModulus
  <2>1. a \in Positions BY <1>0, <1>1 DEF Positions
  <2> QED BY <2>1, ModSmall
<1>2. CASE SeqModulus <= a
  <2>1. Mod(a) = a - SeqModulus BY <1>0, <1>2, ModOnce
  <2>2. Mod(a + k) = (a + k) - SeqModulus BY <1>0, <1>2, ModOnce
  <2>3. (a - SeqModulus) + k \in Positions BY <1>0, <1>2 DEF Positions
  <2>4. Mod((a - SeqModulus) + k) = (a - SeqModulus) + k BY <2>3, ModSmall
  <2>5. (a - SeqModulus) + k = (a + k) - SeqModulus BY <1>0
  <2> QED BY <2>1, <2>2, <2>4, <2>5
<1> QED BY <1>0, <1>1, <1>2

\* One place of a stream has one sequence number, and two places have two.
LEMMA ModApart ==
  ASSUME NEW i \in Positions, NEW x \in Positions, NEW y \in Positions
  PROVE  Mod(i + x) = Mod(i + y) <=> x = y
<1>0. SeqModulus \in Nat \ {0} BY TcpAnalysisAssumption
<1>1. ASSUME NEW z \in Positions
      PROVE  Mod(i + z) = IF i + z < SeqModulus THEN i + z ELSE (i + z) - SeqModulus
  <2>1. i \in Nat /\ z \in Nat /\ i < SeqModulus /\ z < SeqModulus BY <1>0 DEF Positions
  <2>2. CASE i + z < SeqModulus
    <3>1. i + z \in Positions BY <1>0, <2>1, <2>2 DEF Positions
    <3> QED BY <2>2, <3>1, ModSmall
  <2>3. CASE ~(i + z < SeqModulus)
    <3>1. i + z \in Nat /\ SeqModulus <= i + z /\ i + z < 2 * SeqModulus BY <1>0, <2>1, <2>3
    <3>2. Mod(i + z) = (i + z) - SeqModulus BY <3>1, ModOnce
    <3> QED BY <2>3, <3>2
  <2> QED BY <2>2, <2>3
<1>2. x \in Nat /\ y \in Nat /\ i \in Nat /\ x < SeqModulus /\ y < SeqModulus /\ i < SeqModulus
  BY <1>0 DEF Positions
<1>3. Mod(i + x) = IF i + x < SeqModulus THEN i + x ELSE (i + x) - SeqModulus BY <1>1
<1>4. Mod(i + y) = IF i + y < SeqModulus THEN i + y ELSE (i + y) - SeqModulus BY <1>1
<1> QED BY <1>0, <1>2, <1>3, <1>4

\* How many of the bytes of a stream are new.
LEMMA NewBytes ==
  ASSUME NEW T \in Nat, NEW S \in SUBSET (0 .. T + 1), NEW at \in Nat, NEW len \in Nat,
         len > 0 => at >= 1 /\ at + len <= T + 1
  PROVE  LET D == at .. (at + len) - 1
         IN /\ Cardinality(D \cap S) \in 0 .. len
            /\ Cardinality((S \cup D) \cap 1 .. T) = Cardinality(S \cap 1 .. T) + (len - Cardinality(D \cap S))
            /\ Cardinality(S \cap 1 .. T) \in Nat
<1> DEFINE D == at .. (at + len) - 1
           I == S \cap 1 .. T
<1>1. D \subseteq 1 .. T BY DEF D
<1>2. IsFiniteSet(D) /\ Cardinality(D) = len
  <2>1. Cardinality(at .. ((at + len) - 1)) = IF at > (at + len) - 1 THEN 0 ELSE ((at + len) - 1) - at + 1
    BY FS_Interval
  <2>2. IsFiniteSet(at .. ((at + len) - 1)) BY FS_Interval
  <2>3. (IF at > (at + len) - 1 THEN 0 ELSE ((at + len) - 1) - at + 1) = len OBVIOUS
  <2> QED BY <2>1, <2>2, <2>3
<1>3. IsFiniteSet(1 .. T) BY FS_Interval
<1>4. IsFiniteSet(I) /\ IsFiniteSet(D \cap S) BY <1>1, <1>3, FS_Subset
<1>5. (S \cup D) \cap 1 .. T = I \cup D /\ I \cap D = D \cap S BY <1>1
<1> HIDE DEF D, I
<1>6. Cardinality(I \cup D) = Cardinality(I) + Cardinality(D) - Cardinality(I \cap D) BY <1>2, <1>4, FS_Union
<1>7. Cardinality(D \cap S) \in Nat /\ Cardinality(I) \in Nat BY <1>4, FS_CardinalityType
<1>8. Cardinality(D \cap S) <= len BY <1>2, FS_Subset
<1>9. Cardinality((S \cup D) \cap 1 .. T) = Cardinality(I) + (len - Cardinality(D \cap S))
  <2>1. \A a \in Nat, b \in Nat, c \in Nat : a + b - c = a + (b - c) OBVIOUS
  <2> QED BY <1>2, <1>5, <1>6, <1>7, <2>1
<1>10. Cardinality(D \cap S) \in 0 .. len BY <1>7, <1>8
<1> QED BY <1>7, <1>9, <1>10 DEF D, I

\* What the sender of a packet has sent once, until the flow is over.
LEMMA PacketUnique ==
  ASSUME FlowState, NEW p, Legal(p), Packet(p), NEW d, d = p.dir, ended' # "half"
  PROVE  /\ tcb'[d].syn = IF p.syn THEN Seq0(p) ELSE tcb[d].syn
         /\ tcb'[d].fin = IF p.fin THEN Mod(Seq0(p) + p.len) ELSE tcb[d].fin
         /\ tcb'[d].bad_behavior <=>
              \/ tcb[d].bad_behavior
              \/ p.syn /\ tcb[d].syn_count >= 1 /\ tcb[d].syn # Seq0(p)
              \/ p.fin /\ tcb[d].fin_count >= 1 /\ tcb[d].fin # Seq0(p) + p.len
         /\ LET r == Again(p) - One(p.syn /\ tcb[d].syn_count >= 1) - One(p.fin /\ tcb[d].fin_count >= 1)
            IN tcb'[d].unique_bytes = IF r >= p.len THEN tcb[d].unique_bytes
                                      ELSE tcb[d].unique_bytes + p.len - r
<1> DEFINE b == Counted(CountFlags(tcb, p), p)
           sc == tcb[d].syn_count + One(p.syn)
           fc == tcb[d].fin_count + One(p.fin)
           end == Seq0(p) + p.len
           s == Again(p) - One(p.syn /\ sc > 1) - One(p.fin /\ fc > 1)
           r == Again(p) - One(p.syn /\ tcb[d].syn_count >= 1) - One(p.fin /\ tcb[d].fin_count >= 1)
<1>0. /\ d \in Dirs /\ Shaped(tcb) /\ TcbTypes(tcb[d], d) /\ (p.syn => ~p.fin)
      /\ p.syn \in BOOLEAN /\ p.fin \in BOOLEAN
  BY DEF Legal, PacketTypes, Sensible, FlowState, TcbsTyped
<1>1. /\ \A x \in Dirs : CountedTcb(b, tcb, p, x)
      /\ Differ(tcb', b, RateFields \cup MeasureFields)
  BY <1>0, PacketCounted
<1> HIDE DEF b
<1>2. /\ tcb'[d].syn = b[d].syn /\ tcb'[d].fin = b[d].fin
      /\ tcb'[d].bad_behavior = b[d].bad_behavior /\ tcb'[d].unique_bytes = b[d].unique_bytes
  BY <1>0, <1>1 DEF Differ, Fields, Tcb, RateFields, CountFields, MeasureFields
<1>3. CountedTcb(b, tcb, p, d) BY <1>0, <1>1
<1>4. b[d].syn = IF p.syn THEN Seq0(p) ELSE tcb[d].syn BY <1>3 DEF CountedTcb
<1>5. b[d].fin = IF p.fin THEN Mod(end) ELSE tcb[d].fin BY <1>3 DEF CountedTcb
<1>6. b[d].bad_behavior = IF p.syn THEN tcb[d].bad_behavior \/ (sc > 1 /\ tcb[d].syn # Seq0(p))
                          ELSE IF p.fin THEN tcb[d].bad_behavior \/ (fc > 1 /\ tcb[d].fin # end)
                          ELSE tcb[d].bad_behavior
  BY <1>3 DEF CountedTcb
<1>7. b[d].unique_bytes = IF s >= p.len THEN tcb[d].unique_bytes ELSE tcb[d].unique_bytes + p.len - s
  BY <1>3 DEF CountedTcb
<1>8. tcb[d].syn_count \in Nat /\ tcb[d].fin_count \in Nat BY <1>0 DEF TcbTypes
<1>9. (p.syn => (sc > 1 <=> tcb[d].syn_count >= 1)) /\ (p.fin => (fc > 1 <=> tcb[d].fin_count >= 1))
  BY <1>8 DEF One
<1>10. s = r
  <2>1. One(p.syn /\ sc > 1) = One(p.syn /\ tcb[d].syn_count >= 1) BY <1>9 DEF One
  <2>2. One(p.fin /\ fc > 1) = One(p.fin /\ tcb[d].fin_count >= 1) BY <1>9 DEF One
  <2> QED BY <2>1, <2>2
<1> HIDE DEF sc, fc, end, s, r
<1>11. tcb'[d].bad_behavior <=>
         \/ tcb[d].bad_behavior
         \/ p.syn /\ tcb[d].syn_count >= 1 /\ tcb[d].syn # Seq0(p)
         \/ p.fin /\ tcb[d].fin_count >= 1 /\ tcb[d].fin # end
  BY <1>0, <1>2, <1>6, <1>9, Zenon
<1>12. tcb'[d].unique_bytes = IF r >= p.len THEN tcb[d].unique_bytes ELSE tcb[d].unique_bytes + p.len - r
  BY <1>2, <1>7, <1>10
<1> QED BY <1>2, <1>4, <1>5, <1>11, <1>12 DEF end, r

\* The other side is not touched.
LEMMA PacketUniqueThere ==
  ASSUME FlowState, NEW p, Legal(p), Packet(p), NEW x \in Dirs, x # p.dir
  PROVE  /\ ended' # "half" =>
              /\ tcb'[x].syn = tcb[x].syn /\ tcb'[x].fin = tcb[x].fin
              /\ tcb'[x].bad_behavior = tcb[x].bad_behavior
              /\ tcb'[x].unique_bytes = tcb[x].unique_bytes
<1> DEFINE b == Counted(CountFlags(tcb, p), p)
<1>0. Shaped(tcb) /\ p.dir \in Dirs BY DEF Legal, PacketTypes, Sensible, FlowState, TcbsTyped
<1> SUFFICES ASSUME ended' # "half"
             PROVE  /\ tcb'[x].syn = tcb[x].syn /\ tcb'[x].fin = tcb[x].fin
                    /\ tcb'[x].bad_behavior = tcb[x].bad_behavior
                    /\ tcb'[x].unique_bytes = tcb[x].unique_bytes
  OBVIOUS
<1>1. /\ \A y \in Dirs : CountedTcb(b, tcb, p, y)
      /\ Differ(tcb', b, RateFields \cup MeasureFields)
  BY <1>0, PacketCounted
<1> HIDE DEF b
<1>2. /\ tcb'[x].syn = b[x].syn /\ tcb'[x].fin = b[x].fin
      /\ tcb'[x].bad_behavior = b[x].bad_behavior /\ tcb'[x].unique_bytes = b[x].unique_bytes
  BY <1>1 DEF Differ, Fields, Tcb, RateFields, CountFields, MeasureFields
<1>3. CountedTcb(b, tcb, p, x) BY <1>1
<1>4. b[x].syn = tcb[x].syn BY <1>3 DEF CountedTcb
<1>5. b[x].fin = tcb[x].fin BY <1>3 DEF CountedTcb
<1>6. b[x].bad_behavior = tcb[x].bad_behavior BY <1>3 DEF CountedTcb
<1>7. b[x].unique_bytes = tcb[x].unique_bytes BY <1>3 DEF CountedTcb
<1> QED BY <1>2, <1>4, <1>5, <1>6, <1>7

\* The SYNs of d have different numbers, or a FIN that came again wraps.
Unlike(s) == \E i, j \in DOMAIN s : s[i] # s[j]
SynsDiffer(d) == Unlike(h.syns[d])
FinsWrap(d) ==
  \E i \in 2 .. Len(h.fins[d]) :
    LET q == h.fins[d][i] IN Mod(conf.isn[d] + q.at) + q.len >= SeqModulus

\* Each SYN and FIN is counted; the first SYN is at the start of the stream
\* and every FIN at its end.
FlagsCounted(d) ==
  /\ tcb[d].syn_count = Len(h.syns[d]) /\ tcb[d].fin_count = Len(h.fins[d])
  /\ \A i \in DOMAIN h.syns[d] : h.syns[d][i] \in Positions
  /\ Len(h.syns[d]) >= 1 => h.syns[d][1] = 0

\* The last SYN and FIN are kept, to compare the next ones with.
Judged(d) ==
  /\ Len(h.syns[d]) >= 1 => tcb[d].syn = Mod(conf.isn[d] + h.syns[d][Len(h.syns[d])])
  /\ Len(h.fins[d]) >= 1 => tcb[d].fin = Mod(conf.isn[d] + conf.total[d] + 1)
  /\ tcb[d].bad_behavior <=> SynsDiffer(d) \/ FinsWrap(d)

\* Of a side that behaves the positions seen are those of the SYN, the FIN
\* and the bytes that have been counted.
Gathered(d) ==
  ~tcb[d].bad_behavior =>
    /\ h.seen[d] \in SUBSET (0 .. conf.total[d] + 1)
    /\ 0 \in h.seen[d] <=> Len(h.syns[d]) >= 1
    /\ conf.total[d] + 1 \in h.seen[d] <=> Len(h.fins[d]) >= 1
    /\ tcb[d].unique_bytes = Cardinality(h.seen[d] \cap 1 .. conf.total[d])

\* The counters.
LEMMA TallyStep ==
  ASSUME FlowState, NEW p, Legal(p), Packet(p), NEW d \in Dirs, FlagsCounted(d)
  PROVE  FlagsCounted(d)'
<1> DEFINE S == h.syns[d]
           F == h.fins[d]
           e == [at |-> p.at, len |-> p.len]
<1>0. /\ p.dir \in Dirs /\ p.at \in Nat /\ p.len \in Nat /\ p.syn \in BOOLEAN /\ p.fin \in BOOLEAN
      /\ Shaped(tcb) /\ conf \in Confs /\ HistoryTypes
      /\ (p.syn => ~p.fin) /\ (p.syn => p.at = 0 \/ (p.at \in conf.again /\ h.syns[p.dir] # <<>>))
  BY DEF Legal, PacketTypes, Sensible, FlowState, TcbsTyped
<1>1. h' = Remember(p) /\ conf' = conf BY <1>0, PacketCloses
<1>2. HistoryAfter(p, d) BY <1>0, <1>1, RememberEffect DEF HistoryTypes
<1>3. /\ tcb'[d].syn_count = IF d = p.dir THEN tcb[d].syn_count + One(p.syn) ELSE tcb[d].syn_count
      /\ tcb'[d].fin_count = IF d = p.dir THEN tcb[d].fin_count + One(p.fin) ELSE tcb[d].fin_count
  BY <1>0, PacketCounted
<1>4. h'.syns[d] = IF d = p.dir /\ p.syn THEN Append(S, p.at) ELSE S BY <1>2 DEF HistoryAfter
<1>5. h'.fins[d] = IF d = p.dir /\ p.fin THEN Append(F, e) ELSE F BY <1>2 DEF HistoryAfter
<1>6. S \in Seq(Nat) /\ F \in Seq([at : Nat, len : Nat]) /\ e \in [at : Nat, len : Nat]
  BY <1>0 DEF HistoryTypes
<1>7. /\ tcb[d].syn_count = Len(S) /\ tcb[d].fin_count = Len(F)
      /\ \A i \in DOMAIN S : S[i] \in Positions
      /\ Len(S) >= 1 => S[1] = 0
  BY DEF FlagsCounted
<1>8. Len(S) \in Nat /\ Len(F) \in Nat BY <1>6
<1> HIDE DEF S, F, e
<1>9. tcb'[d].fin_count = Len(h'.fins[d])
  <2>1. CASE d = p.dir /\ p.fin
    <3>1. Len(Append(F, e)) = Len(F) + 1 BY <1>6, AppendLast
    <3> QED BY <2>1, <3>1, <1>3, <1>5, <1>7 DEF One
  <2>2. CASE ~(d = p.dir /\ p.fin) BY <2>2, <1>3, <1>5, <1>7, <1>8 DEF One
  <2> QED BY <2>1, <2>2
<1>10. /\ tcb'[d].syn_count = Len(h'.syns[d])
       /\ \A i \in DOMAIN h'.syns[d] : h'.syns[d][i] \in Positions
       /\ Len(h'.syns[d]) >= 1 => h'.syns[d][1] = 0
  <2>1. CASE d = p.dir /\ p.syn
    <3>1. /\ Append(S, p.at) \in Seq(Nat) /\ Len(Append(S, p.at)) = Len(S) + 1
          /\ Append(S, p.at)[Len(S) + 1] = p.at
          /\ \A i \in DOMAIN S : i \in DOMAIN Append(S, p.at) /\ Append(S, p.at)[i] = S[i]
      BY <1>0, <1>6, AppendLast
    <3>2. p.at \in Positions
      <4>1. 0 \in Positions /\ conf.again \subseteq Positions
        BY <1>0, ConfOf, TcpAnalysisAssumption DEF Positions
      <4> QED BY <4>1, <1>0, <2>1
    <3>3. tcb'[d].syn_count = Len(Append(S, p.at)) BY <2>1, <3>1, <1>3, <1>7 DEF One
    <3>4. ASSUME NEW i \in DOMAIN Append(S, p.at) PROVE Append(S, p.at)[i] \in Positions
      <4>1. i \in 1 .. Len(S) + 1 /\ DOMAIN S = 1 .. Len(S) BY <3>1, <1>6
      <4>2. CASE i = Len(S) + 1 BY <4>2, <3>1, <3>2
      <4>3. CASE i # Len(S) + 1
        <5>1. i \in DOMAIN S BY <4>1, <4>3, <1>8
        <5> QED BY <5>1, <3>1, <1>7
      <4> QED BY <4>2, <4>3
    <3>5. Append(S, p.at)[1] = 0
      <4>1. CASE Len(S) = 0
        <5>1. S = <<>> BY <4>1, <1>6
        <5>2. p.at = 0 BY <5>1, <1>0, <2>1 DEF S
        <5> QED BY <4>1, <5>2, <3>1
      <4>2. CASE Len(S) # 0
        <5>1. 1 \in DOMAIN S /\ Len(S) >= 1 BY <4>2, <1>6, <1>8
        <5> QED BY <5>1, <3>1, <1>7
      <4> QED BY <4>1, <4>2
    <3> QED BY <2>1, <1>4, <3>3, <3>4, <3>5
  <2>2. CASE ~(d = p.dir /\ p.syn)
    <3>1. tcb'[d].syn_count = tcb[d].syn_count BY <2>2, <1>3, <1>7, <1>8 DEF One
    <3> QED BY <2>2, <3>1, <1>4, <1>7
  <2> QED BY <2>1, <2>2
<1> QED BY <1>9, <1>10 DEF FlagsCounted

\* Something comes that differs from what came before it.
LEMMA DifferAfter ==
  ASSUME NEW E, NEW s \in Seq(E), NEW e \in E, NEW t, t = Append(s, e)
  PROVE  Unlike(t) <=> Unlike(s) \/ (Len(s) >= 1 /\ s[Len(s)] # e)
<1>1. /\ Len(t) = Len(s) + 1 /\ t[Len(s) + 1] = e /\ Len(s) \in Nat
      /\ \A i \in DOMAIN s : i \in DOMAIN t /\ t[i] = s[i]
      /\ Len(s) + 1 \in DOMAIN t
      /\ DOMAIN t = 1 .. Len(s) + 1 /\ DOMAIN s = 1 .. Len(s)
  BY AppendLast
<1>2. ASSUME NEW i \in DOMAIN s, NEW j \in DOMAIN s, s[i] # s[j]
      PROVE  \E k, l \in DOMAIN t : t[k] # t[l]
  BY <1>1, <1>2
<1>3. ASSUME Len(s) >= 1, s[Len(s)] # e
      PROVE  \E k, l \in DOMAIN t : t[k] # t[l]
  <2>1. Len(s) \in DOMAIN s BY <1>1, <1>3
  <2> QED BY <1>1, <1>3, <2>1
<1>4. ASSUME NEW i \in DOMAIN t, NEW j \in DOMAIN t, t[i] # t[j]
      PROVE  (\E k, l \in DOMAIN s : s[k] # s[l]) \/ (Len(s) >= 1 /\ s[Len(s)] # e)
  <2> SUFFICES ASSUME \A k, l \in DOMAIN s : s[k] = s[l]
               PROVE  Len(s) >= 1 /\ s[Len(s)] # e
    OBVIOUS
  <2>1. ASSUME NEW k \in DOMAIN t, k # Len(s) + 1 PROVE k \in DOMAIN s BY <1>1, <2>1
  <2>2. PICK k \in DOMAIN s : t[k] # e BY <1>1, <1>4, <2>1
  <2>3. Len(s) >= 1 /\ Len(s) \in DOMAIN s BY <1>1
  <2> QED BY <1>1, <2>2, <2>3
<1> QED BY <1>2, <1>3, <1>4 DEF Unlike

\* How a packet is judged by what was sent before it.
LEMMA JudgedStep ==
  ASSUME FlowState, FlowState', NEW p, Legal(p), Packet(p), NEW d \in Dirs, FlagsCounted(d), Judged(d),
         ended' # "half"
  PROVE  Judged(d)'
<1> DEFINE S == h.syns[d]
           F == h.fins[d]
           e == [at |-> p.at, len |-> p.len]
           T == conf.total[d]
           I == conf.isn[d]
<1>0. /\ p.dir \in Dirs /\ p.at \in Nat /\ p.len \in Nat /\ p.syn \in BOOLEAN /\ p.fin \in BOOLEAN
      /\ Shaped(tcb) /\ conf \in Confs /\ HistoryTypes /\ TcbTypes(tcb[d], d)
      /\ (p.syn => ~p.fin) /\ (p.syn => p.at = 0 \/ (p.at \in conf.again /\ h.syns[p.dir] # <<>>))
      /\ p.fin => p.at >= 1 /\ p.at + p.len = conf.total[p.dir] + 1
  BY DEF Legal, PacketTypes, Sensible, FlowState, TcbsTyped
<1>1. h' = Remember(p) /\ conf' = conf BY <1>0, PacketCloses
<1>2. HistoryAfter(p, d) BY <1>0, <1>1, RememberEffect DEF HistoryTypes
<1>4. h'.syns[d] = IF d = p.dir /\ p.syn THEN Append(S, p.at) ELSE S BY <1>2 DEF HistoryAfter
<1>5. h'.fins[d] = IF d = p.dir /\ p.fin THEN Append(F, e) ELSE F BY <1>2 DEF HistoryAfter
<1>6. /\ S \in Seq(Nat) /\ F \in Seq([at : Nat, len : Nat]) /\ e \in [at : Nat, len : Nat]
      /\ Len(S) \in Nat /\ Len(F) \in Nat /\ DOMAIN S = 1 .. Len(S) /\ DOMAIN F = 1 .. Len(F)
  BY <1>0 DEF HistoryTypes
<1>7. /\ tcb[d].syn_count = Len(S) /\ tcb[d].fin_count = Len(F)
      /\ \A i \in DOMAIN S : S[i] \in Positions
  BY DEF FlagsCounted
<1>8. /\ Len(S) >= 1 => tcb[d].syn = Mod(I + S[Len(S)])
      /\ Len(F) >= 1 => tcb[d].fin = Mod(I + T + 1)
      /\ tcb[d].bad_behavior <=> SynsDiffer(d) \/ FinsWrap(d)
  BY DEF Judged
<1>9. T \in Nat /\ I \in Positions /\ T + 2 < SeqModulus /\ SeqModulus \in Nat /\ I \in Nat /\ I < SeqModulus
  <2>1. T \in Nat /\ I \in Positions /\ T + 2 < SeqModulus BY <1>0, ConfOf
  <2> QED BY <2>1, TcpAnalysisAssumption DEF Positions
<1>10. SynsDiffer(d) <=> Unlike(S) BY DEF SynsDiffer
<1>11. FinsWrap(d) <=> \E i \in 2 .. Len(F) : Mod(I + F[i].at) + F[i].len >= SeqModulus BY DEF FinsWrap
<1>12. /\ SynsDiffer(d)' <=> Unlike(h'.syns[d])
       /\ FinsWrap(d)' <=> \E i \in 2 .. Len(h'.fins[d]) : Mod(I + h'.fins[d][i].at) + h'.fins[d][i].len >= SeqModulus
  BY <1>1 DEF SynsDiffer, FinsWrap
<1>13. Judged(d)' <=>
         /\ Len(h'.syns[d]) >= 1 => tcb'[d].syn = Mod(I + h'.syns[d][Len(h'.syns[d])])
         /\ Len(h'.fins[d]) >= 1 => tcb'[d].fin = Mod(I + T + 1)
         /\ tcb'[d].bad_behavior <=> SynsDiffer(d)' \/ FinsWrap(d)'
  BY <1>1 DEF Judged
<1> HIDE DEF S, F, e, T, I
<1>14. CASE d # p.dir
  <2>1. tcb'[d].syn = tcb[d].syn /\ tcb'[d].fin = tcb[d].fin BY <1>14, PacketUniqueThere
  <2>2. tcb'[d].bad_behavior = tcb[d].bad_behavior BY <1>14, PacketUniqueThere
  <2>3. h'.syns[d] = S /\ h'.fins[d] = F BY <1>14, <1>4, <1>5
  <2>4. (SynsDiffer(d)' <=> SynsDiffer(d)) /\ (FinsWrap(d)' <=> FinsWrap(d)) BY <2>3, <1>10, <1>11, <1>12
  <2> QED BY <1>8, <1>13, <2>1, <2>2, <2>3, <2>4
<1>15. CASE d = p.dir
  <2>1. /\ tcb'[d].syn = IF p.syn THEN Seq0(p) ELSE tcb[d].syn
        /\ tcb'[d].fin = IF p.fin THEN Mod(Seq0(p) + p.len) ELSE tcb[d].fin
        /\ tcb'[d].bad_behavior <=>
              \/ tcb[d].bad_behavior
              \/ p.syn /\ tcb[d].syn_count >= 1 /\ tcb[d].syn # Seq0(p)
              \/ p.fin /\ tcb[d].fin_count >= 1 /\ tcb[d].fin # Seq0(p) + p.len
    BY <1>15, PacketUnique
  <2>2. Seq0(p) = Mod(I + p.at) BY <1>15 DEF Seq0, I
  <2>3. CASE p.syn
    <3>1. h'.syns[d] = Append(S, p.at) /\ h'.fins[d] = F /\ ~p.fin BY <2>3, <1>15, <1>0, <1>4, <1>5
    <3>2. Len(Append(S, p.at)) = Len(S) + 1 /\ Append(S, p.at)[Len(S) + 1] = p.at BY <1>0, <1>6, AppendLast
    <3>3. tcb'[d].syn = Mod(I + h'.syns[d][Len(h'.syns[d])]) BY <2>1, <2>2, <2>3, <3>1, <3>2
    <3>4. p.at \in Positions
      <4>1. 0 \in Positions /\ conf.again \subseteq Positions
        BY <1>0, ConfOf, TcpAnalysisAssumption DEF Positions
      <4> QED BY <4>1, <1>0, <2>3
    <3>5. SynsDiffer(d)' <=> SynsDiffer(d) \/ (Len(S) >= 1 /\ S[Len(S)] # p.at)
      <4>1. Unlike(Append(S, p.at)) <=> Unlike(S) \/ (Len(S) >= 1 /\ S[Len(S)] # p.at)
        BY <1>0, <1>6, DifferAfter
      <4> QED BY <3>1, <4>1, <1>10, <1>12
    <3>6. Len(S) >= 1 => (S[Len(S)] # p.at <=> tcb[d].syn # Seq0(p))
      <4> SUFFICES ASSUME Len(S) >= 1 PROVE S[Len(S)] = p.at <=> Mod(I + S[Len(S)]) = Mod(I + p.at)
        BY <1>8, <2>2
      <4>1. S[Len(S)] \in Positions BY <1>6, <1>7
      <4> QED BY <4>1, <3>4, <1>9, ModApart
    <3>7. FinsWrap(d)' <=> FinsWrap(d) BY <3>1, <1>11, <1>12
    <3>8. tcb'[d].bad_behavior <=> SynsDiffer(d)' \/ FinsWrap(d)'
      BY <2>1, <2>3, <3>1, <3>5, <3>6, <3>7, <1>7, <1>8
    <3>9. Len(h'.fins[d]) >= 1 => tcb'[d].fin = Mod(I + T + 1) BY <2>1, <3>1, <1>8
    <3> QED BY <1>13, <3>3, <3>8, <3>9
  <2>4. CASE p.fin
    <3>1. h'.fins[d] = Append(F, e) /\ h'.syns[d] = S /\ ~p.syn BY <2>4, <1>15, <1>0, <1>4, <1>5
    <3>2. /\ Len(Append(F, e)) = Len(F) + 1 /\ Append(F, e)[Len(F) + 1] = e
          /\ \A i \in DOMAIN F : Append(F, e)[i] = F[i]
      BY <1>0, <1>6, AppendLast
    <3>3. p.at + p.len = T + 1 /\ p.at >= 1 BY <1>0, <1>15, <2>4 DEF T
    <3>4. Mod(Seq0(p) + p.len) = Mod(I + T + 1)
      <4>1. (I + p.at) + p.len = I + T + 1 /\ I + p.at \in Nat /\ (I + p.at) + p.len < 2 * SeqModulus
        BY <1>0, <1>9, <3>3
      <4>2. Mod(Mod(I + p.at) + p.len) = Mod((I + p.at) + p.len) BY <4>1, <1>0, ModShift
      <4> QED BY <4>1, <4>2, <2>2
    <3>5. tcb'[d].fin = Mod(I + T + 1) BY <2>1, <2>4, <3>4
    <3>6. Seq0(p) \in Positions BY <1>0, SeqTypes DEF Legal
    <3>7. Mod(Seq0(p) + p.len) # Seq0(p) + p.len <=> Seq0(p) + p.len >= SeqModulus
      <4>1. Seq0(p) + p.len \in Nat BY <3>6, <1>0 DEF Positions
      <4>2. CASE Seq0(p) + p.len < SeqModulus
        <5>1. Seq0(p) + p.len \in Positions BY <4>1, <4>2, <1>9 DEF Positions
        <5>2. Mod(Seq0(p) + p.len) = Seq0(p) + p.len BY <5>1, ModSmall
        <5> QED BY <4>1, <4>2, <5>2, <1>9
      <4>3. CASE ~(Seq0(p) + p.len < SeqModulus)
        <5>1. Mod(Seq0(p) + p.len) \in Positions BY <4>1, ModRange
        <5>2. Mod(Seq0(p) + p.len) < SeqModulus /\ Mod(Seq0(p) + p.len) \in Nat BY <5>1, <1>9 DEF Positions
        <5> QED BY <4>1, <4>3, <5>2, <1>9
      <4> QED BY <4>2, <4>3
    <3>8. FinsWrap(d)' <=> FinsWrap(d) \/ (Len(F) >= 1 /\ Seq0(p) + p.len >= SeqModulus)
      <4> DEFINE W(q) == Mod(I + q.at) + q.len >= SeqModulus
      <4>1. W(e) <=> Seq0(p) + p.len >= SeqModulus BY <2>2 DEF e
      <4>2. FinsWrap(d)' <=> \E i \in 2 .. Len(F) + 1 : W(Append(F, e)[i]) BY <3>1, <3>2, <1>12
      <4>3. FinsWrap(d) <=> \E i \in 2 .. Len(F) : W(F[i]) BY <1>11
      <4> HIDE DEF W
      <4>4. \A i \in 2 .. Len(F) : i \in DOMAIN F /\ i \in 2 .. Len(F) + 1 BY <1>6
      <4>5. \A i \in 2 .. Len(F) + 1 : i = Len(F) + 1 \/ i \in 2 .. Len(F) BY <1>6
      <4>6. Len(F) >= 1 <=> Len(F) + 1 \in 2 .. Len(F) + 1 BY <1>6
      <4> QED BY <4>1, <4>2, <4>3, <4>4, <4>5, <4>6, <3>2, Zenon
    <3>9. SynsDiffer(d)' <=> SynsDiffer(d) BY <3>1, <1>10, <1>12
    <3>10. Len(F) >= 1 => tcb[d].fin = Mod(Seq0(p) + p.len) BY <1>8, <3>4
    <3>11. tcb'[d].bad_behavior <=> SynsDiffer(d)' \/ FinsWrap(d)'
      BY <2>1, <2>4, <3>1, <3>7, <3>8, <3>9, <3>10, <1>7, <1>8
    <3>12. Len(h'.syns[d]) >= 1 => tcb'[d].syn = Mod(I + h'.syns[d][Len(h'.syns[d])]) BY <2>1, <3>1, <1>8
    <3> QED BY <1>13, <3>5, <3>11, <3>12
  <2>5. CASE ~p.syn /\ ~p.fin
    <3>1. h'.syns[d] = S /\ h'.fins[d] = F BY <2>5, <1>4, <1>5
    <3>2. (SynsDiffer(d)' <=> SynsDiffer(d)) /\ (FinsWrap(d)' <=> FinsWrap(d)) BY <3>1, <1>10, <1>11, <1>12
    <3>3. tcb'[d].syn = tcb[d].syn /\ tcb'[d].fin = tcb[d].fin /\ (tcb'[d].bad_behavior <=> tcb[d].bad_behavior)
      BY <2>1, <2>5
    <3> QED BY <1>8, <1>13, <3>1, <3>2, <3>3
  <2> QED BY <2>3, <2>4, <2>5
<1> QED BY <1>14, <1>15

\* Each byte is counted when it is seen for the first time.
LEMMA GatheredStep ==
  ASSUME FlowState, FlowState', NEW p, Legal(p), Packet(p), NEW d \in Dirs, FlagsCounted(d), FlagsCounted(d)',
         Judged(d)', Gathered(d), ended' # "half"
  PROVE  Gathered(d)'
<1> DEFINE S == h.syns[d]
           F == h.fins[d]
           T == conf.total[d]
           seen == h.seen[d]
           U == tcb[d].unique_bytes
           D == p.at .. (p.at + p.len) - 1
<1>0. /\ p.dir \in Dirs /\ p.at \in Nat /\ p.len \in Nat /\ p.syn \in BOOLEAN /\ p.fin \in BOOLEAN
      /\ Shaped(tcb) /\ conf \in Confs /\ HistoryTypes /\ TcbTypes(tcb[d], d)
      /\ (p.syn => ~p.fin) /\ (p.syn => p.len = 0)
      /\ p.len > 0 \/ p.fin => p.at >= 1 /\ p.at + p.len <= conf.total[p.dir] + 1
      /\ p.fin => p.at + p.len = conf.total[p.dir] + 1
  BY DEF Legal, PacketTypes, Sensible, FlowState, TcbsTyped
<1>1. h' = Remember(p) /\ conf' = conf BY <1>0, PacketCloses
<1>2. HistoryAfter(p, d) BY <1>0, <1>1, RememberEffect DEF HistoryTypes
<1>3. h'.seen[d] = IF d = p.dir THEN seen \cup Range0(p) ELSE seen BY <1>2 DEF HistoryAfter
<1>4. h'.syns[d] = IF d = p.dir /\ p.syn THEN Append(S, p.at) ELSE S BY <1>2 DEF HistoryAfter
<1>5. h'.fins[d] = IF d = p.dir /\ p.fin THEN Append(F, [at |-> p.at, len |-> p.len]) ELSE F
  BY <1>2 DEF HistoryAfter
<1>6. S \in Seq(Nat) /\ F \in Seq([at : Nat, len : Nat]) /\ Len(S) \in Nat /\ Len(F) \in Nat
  BY <1>0 DEF HistoryTypes
<1>7. tcb[d].syn_count = Len(S) /\ tcb[d].fin_count = Len(F) BY DEF FlagsCounted
<1>8. /\ \A i \in DOMAIN h'.syns[d] : h'.syns[d][i] \in Positions
      /\ Len(h'.syns[d]) >= 1 => h'.syns[d][1] = 0
  BY DEF FlagsCounted
<1>9. T \in Nat /\ T + 2 < SeqModulus /\ U \in Int BY <1>0, ConfOf DEF TcbTypes
<1>10. tcb'[d].bad_behavior <=> SynsDiffer(d)' \/ FinsWrap(d)' BY DEF Judged
<1>11. ~tcb[d].bad_behavior =>
         /\ seen \in SUBSET (0 .. T + 1)
         /\ 0 \in seen <=> Len(S) >= 1
         /\ T + 1 \in seen <=> Len(F) >= 1
         /\ U = Cardinality(seen \cap 1 .. T)
  BY DEF Gathered
<1>12. Gathered(d)' <=>
         (~tcb'[d].bad_behavior =>
           /\ h'.seen[d] \in SUBSET (0 .. T + 1)
           /\ 0 \in h'.seen[d] <=> Len(h'.syns[d]) >= 1
           /\ T + 1 \in h'.seen[d] <=> Len(h'.fins[d]) >= 1
           /\ tcb'[d].unique_bytes = Cardinality(h'.seen[d] \cap 1 .. T))
  BY <1>1 DEF Gathered
<1> HIDE DEF S, F, T, seen, U
<1>13. CASE d # p.dir
  <2>1. tcb'[d].bad_behavior = tcb[d].bad_behavior BY <1>13, PacketUniqueThere
  <2>2. tcb'[d].unique_bytes = U BY <1>13, PacketUniqueThere DEF U
  <2>3. h'.syns[d] = S /\ h'.fins[d] = F /\ h'.seen[d] = seen BY <1>13, <1>3, <1>4, <1>5
  <2> QED BY <1>11, <1>12, <2>1, <2>2, <2>3
<1>14. CASE d = p.dir
  <2> SUFFICES ASSUME ~tcb'[d].bad_behavior
               PROVE  /\ h'.seen[d] \in SUBSET (0 .. T + 1)
                      /\ 0 \in h'.seen[d] <=> Len(h'.syns[d]) >= 1
                      /\ T + 1 \in h'.seen[d] <=> Len(h'.fins[d]) >= 1
                      /\ tcb'[d].unique_bytes = Cardinality(h'.seen[d] \cap 1 .. T)
    BY <1>12
  <2> DEFINE r == Again(p) - One(p.syn /\ tcb[d].syn_count >= 1) - One(p.fin /\ tcb[d].fin_count >= 1)
  <2>1. tcb'[d].bad_behavior <=>
              \/ tcb[d].bad_behavior
              \/ p.syn /\ tcb[d].syn_count >= 1 /\ tcb[d].syn # Seq0(p)
              \/ p.fin /\ tcb[d].fin_count >= 1 /\ tcb[d].fin # Seq0(p) + p.len
    BY <1>14, PacketUnique
  <2>2. tcb'[d].unique_bytes = IF r >= p.len THEN U ELSE U + p.len - r BY <1>14, PacketUnique DEF U
  <2>3. ~tcb[d].bad_behavior BY <2>1
  <2>4. /\ seen \in SUBSET (0 .. T + 1)
        /\ 0 \in seen <=> Len(S) >= 1
        /\ T + 1 \in seen <=> Len(F) >= 1
        /\ U = Cardinality(seen \cap 1 .. T)
    BY <1>11, <2>3
  <2>5. Again(p) = Cardinality(Range0(p) \cap seen) /\ h'.seen[d] = seen \cup Range0(p)
    BY <1>3, <1>14 DEF Again, seen
  <2> HIDE DEF r
  <2>6. CASE p.syn
    <3>1. h'.syns[d] = Append(S, p.at) /\ h'.fins[d] = F /\ ~p.fin /\ p.len = 0
      BY <2>6, <1>14, <1>0, <1>4, <1>5
    <3>2. /\ Append(S, p.at) \in Seq(Nat) /\ Len(Append(S, p.at)) = Len(S) + 1
          /\ Append(S, p.at)[Len(S) + 1] = p.at /\ Len(S) + 1 \in DOMAIN Append(S, p.at)
      BY <1>0, <1>6, AppendLast
    <3>3. p.at = 0
      <4>1. 1 \in DOMAIN Append(S, p.at) BY <3>2, <1>6
      <4>2. ~Unlike(Append(S, p.at)) BY <1>10, <3>1 DEF SynsDiffer
      <4>3. Append(S, p.at)[Len(S) + 1] = Append(S, p.at)[1] BY <4>1, <4>2, <3>2 DEF Unlike
      <4>4. Append(S, p.at)[1] = 0 BY <1>8, <3>1, <3>2, <1>6
      <4> QED BY <4>3, <4>4, <3>2
    <3>4. Range0(p) = {0}
      <4>1. Range0(p) = {p.at} BY <1>0, <2>6, RangeOf
      <4> QED BY <4>1, <3>3
    <3>5. r = 0
      <4>1. CASE Len(S) >= 1
        <5>1. Range0(p) \cap seen = {0} BY <3>4, <2>4, <4>1
        <5>2. Cardinality({0}) = 1 BY FS_Singleton
        <5>3. Again(p) = 1 BY <2>5, <5>1, <5>2
        <5> QED BY <5>3, <4>1, <2>6, <3>1, <1>7 DEF r, One
      <4>2. CASE ~(Len(S) >= 1)
        <5>1. Range0(p) \cap seen = {} BY <3>4, <2>4, <4>2
        <5>2. Again(p) = 0 BY <2>5, <5>1, FS_EmptySet
        <5> QED
          <6>1. One(p.syn /\ tcb[d].syn_count >= 1) = 0 BY <4>2, <1>7 DEF One
          <6>2. One(p.fin /\ tcb[d].fin_count >= 1) = 0 BY <3>1 DEF One
          <6> QED BY <5>2, <6>1, <6>2 DEF r
      <4> QED BY <4>1, <4>2
    <3>6. tcb'[d].unique_bytes = U BY <2>2, <3>1, <3>5
    <3>7. h'.seen[d] = seen \cup {0} BY <2>5, <3>4
    <3>8. h'.seen[d] \cap 1 .. T = seen \cap 1 .. T BY <3>7
    <3>9. h'.seen[d] \in SUBSET (0 .. T + 1) /\ 0 \in h'.seen[d] /\ (T + 1 \in h'.seen[d] <=> T + 1 \in seen)
      BY <3>7, <2>4, <1>9
    <3>10. Len(h'.syns[d]) >= 1 BY <3>1, <3>2, <1>6
    <3>11. tcb'[d].unique_bytes = Cardinality(h'.seen[d] \cap 1 .. T) BY <3>6, <3>8, <2>4
    <3> QED BY <3>1, <3>9, <3>10, <3>11, <2>4
  <2>7. CASE ~p.syn
    <3>1. h'.syns[d] = S BY <2>7, <1>4
    <3>2. D \subseteq 1 .. T /\ (p.len > 0 => p.at >= 1 /\ p.at + p.len <= T + 1)
      <4>1. p.len > 0 => p.at >= 1 /\ p.at + p.len <= T + 1 BY <1>0, <1>14 DEF T
      <4> QED BY <4>1, <1>0, <1>9
    <3>3. Range0(p) = D \cup (IF p.fin THEN {T + 1} ELSE {})
      <4>1. Range0(p) = p.at .. (p.at + p.len + One(p.fin)) - 1 BY <1>0, <2>7, RangeOf
      <4>2. CASE p.fin
        <5>1. p.at + p.len = T + 1 BY <4>2, <1>0, <1>14 DEF T
        <5> QED BY <4>1, <4>2, <5>1, <1>0, <1>9 DEF One
      <4>3. CASE ~p.fin BY <4>1, <4>3, <1>0 DEF One
      <4> QED BY <4>2, <4>3
    <3>4. /\ Cardinality(D \cap seen) \in 0 .. p.len
          /\ Cardinality((seen \cup D) \cap 1 .. T) = Cardinality(seen \cap 1 .. T) + (p.len - Cardinality(D \cap seen))
          /\ Cardinality(seen \cap 1 .. T) \in Nat
      BY <1>0, <1>9, <2>4, <3>2, NewBytes
    <3>5. IsFiniteSet(D \cap seen) /\ T + 1 \notin D \cap seen
      <4>1. IsFiniteSet(1 .. T) BY <1>9, FS_Interval
      <4>2. D \cap seen \subseteq 1 .. T BY <3>2
      <4> QED BY <4>1, <4>2, <1>9, FS_Subset
    <3> HIDE DEF D
    <3>6. r = Cardinality(D \cap seen)
      <4>1. CASE p.fin /\ Len(F) >= 1
        <5>1. Range0(p) \cap seen = (D \cap seen) \cup {T + 1} BY <3>3, <2>4, <4>1
        <5>2. Cardinality((D \cap seen) \cup {T + 1}) = Cardinality(D \cap seen) + 1 BY <3>5, FS_AddElement
        <5>3. Again(p) = Cardinality(D \cap seen) + 1 BY <2>5, <5>1, <5>2
        <5> QED BY <5>3, <3>4, <4>1, <2>7, <1>7 DEF r, One
      <4>2. CASE ~(p.fin /\ Len(F) >= 1)
        <5>1. Range0(p) \cap seen = D \cap seen BY <3>3, <2>4, <4>2
        <5>2. Again(p) = Cardinality(D \cap seen) BY <2>5, <5>1
        <5> QED BY <5>2, <3>4, <4>2, <2>7, <1>7 DEF r, One
      <4> QED BY <4>1, <4>2
    <3>7. tcb'[d].unique_bytes = U + (p.len - Cardinality(D \cap seen)) BY <2>2, <3>4, <3>6, <1>0, <1>9
    <3>8. h'.seen[d] \cap 1 .. T = (seen \cup D) \cap 1 .. T BY <2>5, <3>3, <1>9
    <3>9. tcb'[d].unique_bytes = Cardinality(h'.seen[d] \cap 1 .. T) BY <3>4, <3>7, <3>8, <2>4
    <3>10. h'.seen[d] = seen \cup D \cup (IF p.fin THEN {T + 1} ELSE {}) BY <2>5, <3>3
    <3>11. /\ h'.seen[d] \in SUBSET (0 .. T + 1) /\ (0 \in h'.seen[d] <=> 0 \in seen)
           /\ T + 1 \in h'.seen[d] <=> T + 1 \in seen \/ p.fin
      <4>1. CASE p.fin
        <5>1. h'.seen[d] = seen \cup D \cup {T + 1} BY <3>10, <4>1
        <5> QED BY <4>1, <5>1, <3>2, <2>4, <1>9
      <4>2. CASE ~p.fin
        <5>1. h'.seen[d] = seen \cup D BY <3>10, <4>2
        <5> QED BY <4>2, <5>1, <3>2, <2>4, <1>9
      <4> QED BY <4>1, <4>2
    <3>12. Len(h'.fins[d]) >= 1 <=> Len(F) >= 1 \/ p.fin
      <4>1. CASE p.fin
        <5>1. Len(Append(F, [at |-> p.at, len |-> p.len])) = Len(F) + 1 BY <1>6
        <5> QED BY <4>1, <5>1, <1>5, <1>6, <1>14
      <4>2. CASE ~p.fin BY <4>2, <1>5
      <4> QED BY <4>1, <4>2
    <3> QED BY <3>1, <3>9, <3>10, <3>11, <3>12, <2>4
  <2> QED BY <2>6, <2>7
<1> QED BY <1>13, <1>14

\* What has been sent is known, and counted, until the flow is found to be
\* half duplex.
SentInv ==
  \A d \in Dirs : FlagsCounted(d) /\ (Counting => Judged(d) /\ Gathered(d))

\* Nothing has been sent at first.
LEMMA SentInvInit == AnalysisInit => SentInv
<1> SUFFICES ASSUME AnalysisInit, NEW d \in Dirs PROVE FlagsCounted(d) /\ Judged(d) /\ Gathered(d)
  BY DEF SentInv
<1>1. /\ h.syns[d] = <<>> /\ h.fins[d] = <<>> /\ h.seen[d] = {}
      /\ tcb[d].syn_count = 0 /\ tcb[d].fin_count = 0 /\ tcb[d].unique_bytes = 0
  BY DEF AnalysisInit, NoHistory, Tcb
<1>2. tcb[d].bad_behavior = FALSE BY DEF AnalysisInit, Tcb
<1>3. ~SynsDiffer(d) /\ ~FinsWrap(d) BY <1>1 DEF SynsDiffer, FinsWrap, Unlike
<1>5. Cardinality(h.seen[d] \cap 1 .. conf.total[d]) = 0 BY <1>1, FS_EmptySet
<1> QED BY <1>1, <1>2, <1>3, <1>5 DEF FlagsCounted, Judged, Gathered

\* Every step keeps it, of a flow in the states of AnalysisInv.
LEMMA SentInvStep == AnalysisInv /\ AnalysisInv' /\ SentInv /\ [AnalysisNext]_analysisVars => SentInv'
<1> SUFFICES ASSUME AnalysisInv, AnalysisInv', SentInv, [AnalysisNext]_analysisVars, NEW d \in Dirs
             PROVE  FlagsCounted(d)' /\ (Counting' => Judged(d)' /\ Gathered(d)')
  BY DEF SentInv
<1>0. /\ FlowState /\ FlowState' /\ conf \in Confs /\ \A x \in Dirs : h.seen[x] \in SUBSET Positions
      /\ FlagsCounted(d) /\ (Counting => Judged(d) /\ Gathered(d))
  BY DEF AnalysisInv, FlowState, HistoryTypes, SentInv
<1>1. ASSUME NEW e \in Dirs, SendSyn(e) \/ SendData(e) \/ SendAck(e) \/ SendFin(e) \/ SendReset(e)
      PROVE  FlagsCounted(d)' /\ (Counting' => Judged(d)' /\ Gathered(d)')
  <2>1. PICK p : Legal(p) /\ Packet(p) BY <1>0, <1>1, SendLegal
  <2>2. FlagsCounted(d)' BY <1>0, <2>1, TallyStep
  <2>3. ended = "no" BY <2>1, <1>0, PacketCloses DEF FlowState, TcbsTyped
  <2>4. Judged(d) /\ Gathered(d) BY <1>0, <2>3 DEF Counting
  <2>5. ASSUME ended' # "half" PROVE Judged(d)' BY <1>0, <2>1, <2>4, <2>5, JudgedStep
  <2>6. ASSUME ended' # "half" PROVE Gathered(d)' BY <1>0, <2>1, <2>2, <2>4, <2>5, <2>6, GatheredStep
  <2> QED BY <2>2, <2>5, <2>6 DEF Counting
<1>2. CASE Idle
  <2>1. FlowState' /\ Differ(tcb', tcb, RateFields) /\ conf' = conf /\ h' = h /\ ended = "no"
    BY <1>0, <1>2, IdleStep DEF Idle
  <2>2. /\ tcb'[d].syn_count = tcb[d].syn_count /\ tcb'[d].fin_count = tcb[d].fin_count
        /\ tcb'[d].syn = tcb[d].syn /\ tcb'[d].fin = tcb[d].fin
        /\ tcb'[d].bad_behavior = tcb[d].bad_behavior /\ tcb'[d].unique_bytes = tcb[d].unique_bytes
    BY <2>1 DEF Differ, Fields, Tcb, RateFields, CountFields
  <2>3. Judged(d) /\ Gathered(d) BY <1>0, <2>1 DEF Counting
  <2>4. FlagsCounted(d)' BY <1>0, <2>1, <2>2 DEF FlagsCounted, Positions
  <2>5. Judged(d)' BY <2>1, <2>2, <2>3 DEF Judged, SynsDiffer, FinsWrap, Unlike, Mod
  <2>6. Gathered(d)' BY <2>1, <2>2, <2>3 DEF Gathered
  <2> QED BY <2>4, <2>5, <2>6
<1>3. CASE UNCHANGED analysisVars
  <2>1. conf' = conf /\ tcb' = tcb /\ ended' = ended /\ h' = h BY <1>3 DEF analysisVars
  <2> QED
    BY <1>0, <2>1 DEF FlagsCounted, Judged, Gathered, SynsDiffer, FinsWrap, Unlike, Positions, Counting, Mod
<1> QED BY <1>1, <1>2, <1>3 DEF AnalysisNext

\* What was sent is counted in every state.
THEOREM SentInvariant == AnalysisSpec => []SentInv
<1> QED BY AnalysisInvInit, AnalysisInvStep, SentInvInit, SentInvStep, PTL DEF AnalysisSpec

\* The bytes that are logged as sent, without retransmissions, are those of
\* the stream that were seen (UniqueBytes), and a side is said to behave
\* badly when its SYNs differ or a repeated FIN wraps (BadBehaviour).
THEOREM AnalysisCounts == AnalysisSpec => [](UniqueBytes /\ BadBehaviour)
<1>1. SentInv => UniqueBytes BY DEF SentInv, UniqueBytes, Gathered
<1>2. SentInv => BadBehaviour
  <2> SUFFICES ASSUME SentInv, Counting, NEW d \in Dirs
               PROVE  tcb[d].bad_behavior <=>
                        \/ \E i, j \in DOMAIN h.syns[d] : h.syns[d][i] # h.syns[d][j]
                        \/ \E i \in 2 .. Len(h.fins[d]) :
                             LET p == h.fins[d][i]
                             IN Mod(conf.isn[d] + p.at) + p.len >= SeqModulus
    BY Zenon DEF BadBehaviour
  <2> QED BY DEF SentInv, Judged, SynsDiffer, FinsWrap, Unlike
<1> QED BY <1>1, <1>2, SentInvariant, PTL

\* The end of the last message after a packet, unless it finds the flow to
\* be half duplex: the next number expected, if the packet ends a message
\* and that number is a later one.
LEMMA PacketMessages ==
  ASSUME FlowState, NEW p, Legal(p), Packet(p), NEW x \in Dirs, ended' # "half",
         NEW s, s = IF Again(p) > 0 THEN tcb[x].seq ELSE Mod(Seq0(p) + p.len)
  PROVE  tcb'[x].msg_last_seq = IF x = p.dir /\ Ends(p) /\ tcb[x].msg_last_seq < s
                                THEN s ELSE tcb[x].msg_last_seq
<1> DEFINE b == Counted(CountFlags(tcb, p), p)
           eff == EffWin(CountFlags(tcb, p), p)
           c == Measured(b, p, eff)
<1>0. /\ Shaped(tcb) /\ p.dir \in Dirs /\ (p.syn => ~p.fin)
      /\ p.rst => ~Ends(p)
  BY DEF Legal, PacketTypes, Sensible, FlowState, TcbsTyped, Ends
<1>1. /\ Shaped(b)
      /\ \A y \in Dirs : CountedTcb(b, tcb, p, y)
      /\ Differ(b, tcb, CountFields)
  BY <1>0, PacketCounted
<1>2. \/ ended' = "reset" /\ p.rst /\ Differ(tcb', b, RateFields)
      \/ Differ(tcb', c, RateFields)
  BY <1>0, PacketEffect
<1>3. \A y \in Dirs : MeasuredTcb(c, b, p, eff, y) BY <1>0, <1>1, MeasuredEffect
<1> HIDE DEF b, c, eff
<1>4. b[x].msg_last_seq = tcb[x].msg_last_seq BY <1>1 DEF Differ, Fields, Tcb, RateFields, CountFields
<1>5. x = p.dir => b[x].seq = s
  <2> SUFFICES ASSUME x = p.dir PROVE b[x].seq = s OBVIOUS
  <2>1. CountedTcb(b, tcb, p, x) BY <1>1
  <2>2. b[x].seq = IF ~(Again(p) > 0) THEN Mod(Seq0(p) + p.len) ELSE tcb[x].seq BY <2>1 DEF CountedTcb
  <2> QED BY <2>2
<1>6. c[x].msg_last_seq = IF x = p.dir /\ Ends(p) /\ b[x].msg_last_seq < b[x].seq
                          THEN b[x].seq ELSE b[x].msg_last_seq
  <2>1. MeasuredTcb(c, b, p, eff, x) BY <1>3
  <2> QED BY <2>1 DEF MeasuredTcb
<1>7. CASE ended' = "reset" /\ p.rst /\ Differ(tcb', b, RateFields)
  <2>1. tcb'[x].msg_last_seq = b[x].msg_last_seq BY <1>7 DEF Differ, Fields, Tcb, RateFields, CountFields
  <2> QED BY <1>0, <1>4, <1>7, <2>1
<1>8. CASE Differ(tcb', c, RateFields)
  <2>1. tcb'[x].msg_last_seq = c[x].msg_last_seq BY <1>8 DEF Differ, Fields, Tcb, RateFields, CountFields
  <2> QED BY <1>4, <1>5, <1>6, <2>1
<1> QED BY <1>2, <1>7, <1>8

\* What comes for the first time, and after all else, comes behind it.
LEMMA InOrder ==
  ASSUME conf \in Confs, NEW p, Legal(p), ~p.syn, p.len > 0 \/ p.fin, Again(p) = 0, ~OutOrder(p),
         h.seen[p.dir] \in SUBSET Positions
  PROVE  \A y \in h.seen[p.dir] : y < p.at
<1> DEFINE R == Range0(p)
           seen == h.seen[p.dir]
           K == (p.at + p.len + One(p.fin)) - 1
<1>0. /\ p.dir \in Dirs /\ p.at \in Nat /\ p.len \in Nat /\ p.fin \in BOOLEAN /\ One(p.fin) \in 0 .. 1
      /\ (p.fin => One(p.fin) = 1)
  BY DEF Legal, PacketTypes, One
<1>1. R = p.at .. K /\ R \in SUBSET Positions BY <1>0, RangeOf
<1>2. SeqModulus \in Nat /\ K \in Nat /\ p.at <= K BY <1>0, TcpAnalysisAssumption
<1>3. p.at \in R BY <1>0, <1>1, <1>2
<1> HIDE DEF K
<1>4. Max(R) \in R
  <2>1. SeqModulus - 1 \in Nat /\ R \in SUBSET (0 .. SeqModulus - 1) /\ R # {}
    BY <1>1, <1>3, TcpAnalysisAssumption DEF Positions
  <2> QED BY <2>1, MaxOf
<1>5. R \cap seen = {}
  <2>1. IsFiniteSet(Positions) BY <1>2, FS_Interval DEF Positions
  <2>2. IsFiniteSet(R \cap seen) BY <1>1, <2>1, FS_Subset
  <2> QED BY <2>2, FS_EmptySet DEF Again
<1>6. \A y \in seen : ~(y > Max(R)) BY <1>3 DEF OutOrder
<1> SUFFICES ASSUME NEW y \in seen PROVE y < p.at OBVIOUS
<1>7. y \in Nat /\ y \notin R BY <1>5 DEF Positions
<1>8. Max(R) \in p.at .. K BY <1>1, <1>4
<1>9. y <= Max(R) BY <1>6, <1>7, <1>8
<1> QED BY <1>0, <1>1, <1>2, <1>7, <1>8, <1>9

\* Where the last message ends, of a stream that comes in order and does
\* not reach the end of the sequence space; its last byte, or its FIN, has
\* been seen.
Ended(d) ==
  /\ h.push[d] \in Nat
  /\ Counting /\ ~h.late[d] /\ ~Wraps(d) =>
       /\ h.push[d] = 0 => tcb[d].msg_last_seq = 0
       /\ h.push[d] > 0 => /\ tcb[d].msg_last_seq = conf.isn[d] + h.push[d]
                           /\ h.push[d] <= conf.total[d] + 1
                           /\ h.push[d] - 1 \in h.seen[d] \/ h.push[d] \in h.seen[d]

\* Where a packet leaves its last message.
LEMMA EndedStep ==
  ASSUME FlowState, FlowState', NEW p, Legal(p), Packet(p), NEW d \in Dirs, Ended(d)
  PROVE  Ended(d)'
<1> DEFINE I == conf.isn[d]
           T == conf.total[d]
           m == tcb[d].msg_last_seq
           P == h.push[d]
           seen == h.seen[d]
           s == IF Again(p) > 0 THEN tcb[d].seq ELSE Mod(Seq0(p) + p.len)
           here == d = p.dir /\ Ends(p)
           e == p.at + p.len
<1>0. /\ p.dir \in Dirs /\ p.at \in Nat /\ p.len \in Nat /\ p.syn \in BOOLEAN /\ p.fin \in BOOLEAN
      /\ Shaped(tcb) /\ conf \in Confs /\ HistoryTypes /\ TcbTypes(tcb[d], d)
      /\ (p.syn => ~p.fin /\ ~p.psh) /\ (p.psh => p.len > 0)
      /\ p.len > 0 \/ p.fin => p.at >= 1 /\ p.at + p.len <= conf.total[p.dir] + 1
  BY DEF Legal, PacketTypes, Sensible, FlowState, TcbsTyped
<1>1. h' = Remember(p) /\ conf' = conf /\ ended = "no" BY <1>0, PacketCloses
<1>2. HistoryAfter(p, d) BY <1>0, <1>1, RememberEffect DEF HistoryTypes
<1>3. h'.seen[d] = IF d = p.dir THEN seen \cup Range0(p) ELSE seen BY <1>2 DEF HistoryAfter
<1>4. h'.push[d] = IF here THEN Max({P, e}) ELSE P BY <1>2 DEF HistoryAfter
<1>5. h'.late[d] <=> h.late[d] \/ (d = p.dir /\ (OutOrder(p) \/ Again(p) > 0)) BY <1>2 DEF HistoryAfter
<1>6. /\ P \in Nat
      /\ ~h.late[d] /\ ~Wraps(d) =>
           /\ P = 0 => m = 0
           /\ P > 0 => m = I + P /\ P <= T + 1 /\ (P - 1 \in seen \/ P \in seen)
  BY <1>1 DEF Ended, Counting
<1>7. Ended(d)' <=>
        /\ h'.push[d] \in Nat
        /\ ended' # "half" /\ ~h'.late[d] /\ ~Wraps(d) =>
             /\ h'.push[d] = 0 => tcb'[d].msg_last_seq = 0
             /\ h'.push[d] > 0 => /\ tcb'[d].msg_last_seq = I + h'.push[d]
                                  /\ h'.push[d] <= T + 1
                                  /\ h'.push[d] - 1 \in h'.seen[d] \/ h'.push[d] \in h'.seen[d]
  BY <1>1 DEF Ended, Counting, Wraps
<1>8. ended' # "half" => tcb'[d].msg_last_seq = IF here /\ m < s THEN s ELSE m
  <2> SUFFICES ASSUME ended' # "half" PROVE tcb'[d].msg_last_seq = IF here /\ m < s THEN s ELSE m OBVIOUS
  <2> HIDE DEF s
  <2>1. s = IF Again(p) > 0 THEN tcb[d].seq ELSE Mod(Seq0(p) + p.len) BY DEF s
  <2>2. tcb'[d].msg_last_seq = IF d = p.dir /\ Ends(p) /\ tcb[d].msg_last_seq < s THEN s ELSE tcb[d].msg_last_seq
    BY <2>1, PacketMessages
  <2> QED BY <2>2
<1>9. T \in Nat /\ I \in Nat /\ SeqModulus \in Nat /\ seen \in SUBSET Positions
  <2>1. T \in Nat /\ I \in Positions /\ seen \in SUBSET Positions BY <1>0, ConfOf DEF HistoryTypes
  <2> QED BY <2>1, TcpAnalysisAssumption DEF Positions
<1>10. Wraps(d) <=> I + T + 2 >= SeqModulus BY DEF Wraps
<1> HIDE DEF I, T, m, P, seen, e
<1>11. CASE ~here
  <2>1. h'.push[d] = P BY <1>4, <1>11
  <2>2. seen \subseteq h'.seen[d] BY <1>3
  <2>3. ended' # "half" => tcb'[d].msg_last_seq = m BY <1>8, <1>11
  <2> QED BY <1>5, <1>6, <1>7, <2>1, <2>2, <2>3
<1>12. CASE here
  <2>0. /\ d = p.dir /\ ~p.syn /\ (p.len > 0 \/ p.fin) /\ p.at >= 1 /\ e <= T + 1 /\ e \in Nat /\ e >= 1
        /\ e = p.at + p.len
    <3>1. d = p.dir /\ ~p.syn /\ (p.len > 0 \/ p.fin) BY <1>0, <1>12 DEF Ends
    <3> QED BY <3>1, <1>0 DEF e, T
  <2>1. h'.push[d] = IF P >= e THEN P ELSE e BY <1>4, <1>6, <1>12, <2>0, MaxTwo
  <2> SUFFICES ASSUME ended' # "half", ~h'.late[d], ~Wraps(d)
               PROVE  /\ h'.push[d] = e /\ tcb'[d].msg_last_seq = I + e
                      /\ e - 1 \in h'.seen[d] \/ e \in h'.seen[d]
    BY <1>6, <1>7, <2>0, <2>1
  <2>2. ~h.late[d] /\ ~OutOrder(p) /\ ~(Again(p) > 0) BY <1>5, <2>0
  <2>3. Again(p) = 0
    <3>1. Range0(p) \in SUBSET Positions BY <1>0, RangeOf
    <3>2. IsFiniteSet(Positions) BY <1>9, FS_Interval DEF Positions
    <3>3. IsFiniteSet(Range0(p) \cap h.seen[p.dir]) BY <3>1, <3>2, FS_Subset
    <3>4. Again(p) \in Nat BY <3>3, FS_CardinalityType DEF Again
    <3> QED BY <2>2, <3>4
  <2>4. \A y \in seen : y < p.at BY <1>0, <1>9, <2>0, <2>2, <2>3, InOrder DEF seen
  <2>5. P <= e
    <3>1. CASE P = 0 BY <3>1, <2>0
    <3>2. CASE P > 0
      <4>1. P - 1 \in seen \/ P \in seen BY <3>2, <1>6, <2>2
      <4>2. P - 1 < p.at BY <4>1, <2>4, <1>6, <1>0
      <4> QED BY <4>2, <2>0, <1>0, <1>6
    <3> QED BY <3>1, <3>2, <1>6
  <2>6. s = I + e
    <3>1. Seq0(p) = Mod(I + p.at) BY <2>0 DEF Seq0, I
    <3>2. I + p.at \in Positions /\ I + e \in Positions BY <1>0, <1>9, <1>10, <2>0 DEF Positions
    <3>3. Mod(I + p.at) = I + p.at BY <3>2, ModSmall
    <3>4. (I + p.at) + p.len = I + e BY <1>0, <1>9, <2>0
    <3>5. Mod(I + e) = I + e BY <3>2, ModSmall
    <3> QED BY <2>3, <3>1, <3>3, <3>4, <3>5
  <2> HIDE DEF s
  <2>7. h'.push[d] = e BY <2>0, <2>1, <2>5, <1>6
  <2>8. tcb'[d].msg_last_seq = I + e
    <3>1. m = 0 \/ m = I + P BY <1>6, <2>2
    <3> QED BY <3>1, <1>6, <1>8, <1>9, <1>12, <2>0, <2>2, <2>5, <2>6
  <2>9. e - 1 \in h'.seen[d] \/ e \in h'.seen[d]
    <3>1. Range0(p) = p.at .. (p.at + p.len + One(p.fin)) - 1 BY <1>0, <2>0, RangeOf
    <3>2. CASE p.fin
      <4>1. e \in Range0(p) BY <3>1, <3>2, <1>0, <2>0 DEF One
      <4> QED BY <4>1, <1>3, <2>0
    <3>3. CASE ~p.fin
      <4>1. e - 1 \in Range0(p) BY <3>1, <3>3, <1>0, <2>0 DEF One
      <4> QED BY <4>1, <1>3, <2>0
    <3> QED BY <3>2, <3>3
  <2> QED BY <2>7, <2>8, <2>9
<1> QED BY <1>11, <1>12

\* Of both sides.
EndedInv == \A d \in Dirs : Ended(d)

\* Without a message there is no end of one.
LEMMA EndedInvInit == AnalysisInit => EndedInv
BY DEF AnalysisInit, NoHistory, Tcb, EndedInv, Ended

\* Every step keeps it, of a flow in the states of AnalysisInv.
LEMMA EndedInvStep == AnalysisInv /\ AnalysisInv' /\ EndedInv /\ [AnalysisNext]_analysisVars => EndedInv'
<1> SUFFICES ASSUME AnalysisInv, AnalysisInv', EndedInv, [AnalysisNext]_analysisVars, NEW d \in Dirs
             PROVE  Ended(d)'
  BY DEF EndedInv
<1>0. FlowState /\ FlowState' /\ conf \in Confs /\ (\A x \in Dirs : h.seen[x] \in SUBSET Positions) /\ Ended(d)
  BY DEF AnalysisInv, FlowState, HistoryTypes, EndedInv
<1>1. ASSUME NEW e \in Dirs, SendSyn(e) \/ SendData(e) \/ SendAck(e) \/ SendFin(e) \/ SendReset(e)
      PROVE  Ended(d)'
  <2>1. PICK p : Legal(p) /\ Packet(p) BY <1>0, <1>1, SendLegal
  <2> QED BY <1>0, <2>1, EndedStep
<1>2. CASE Idle
  <2>1. Differ(tcb', tcb, RateFields) /\ conf' = conf /\ h' = h /\ ended = "no"
    BY <1>0, <1>2, IdleStep DEF Idle
  <2>2. tcb'[d].msg_last_seq = tcb[d].msg_last_seq BY <2>1 DEF Differ, Fields, Tcb, RateFields, CountFields
  <2> QED BY <1>0, <2>1, <2>2 DEF Ended, Counting, Wraps
<1>3. CASE UNCHANGED analysisVars
  <2>1. conf' = conf /\ tcb' = tcb /\ ended' = ended /\ h' = h BY <1>3 DEF analysisVars
  <2> QED BY <1>0, <2>1 DEF Ended, Counting, Wraps
<1> QED BY <1>1, <1>2, <1>3 DEF AnalysisNext

\* A stream that comes in order, and does not reach the end of the sequence
\* space, is cut into messages up to the last PSH or FIN (MessagesFound).
THEOREM AnalysisMessagesFound == AnalysisSpec => []MessagesFound
<1>1. AnalysisInv /\ EndedInv => MessagesFound
  <2> SUFFICES ASSUME AnalysisInv, EndedInv, Counting,
                      NEW d \in Dirs, ~h.late[d], ~Wraps(d), h.push[d] > 0
               PROVE  Mod(tcb[d].msg_last_seq - conf.isn[d]) = h.push[d]
    BY DEF MessagesFound
  <2>1. /\ tcb[d].msg_last_seq = conf.isn[d] + h.push[d] /\ h.push[d] \in Nat
        /\ h.push[d] <= conf.total[d] + 1
    BY DEF EndedInv, Ended
  <2>2. /\ conf.total[d] \in Nat /\ conf.total[d] + 2 < SeqModulus /\ conf.isn[d] \in Positions
    BY ConfOf DEF AnalysisInv, FlowState
  <2>3. conf.isn[d] \in Nat /\ SeqModulus \in Nat BY <2>2, TcpAnalysisAssumption DEF Positions
  <2>4. (conf.isn[d] + h.push[d]) - conf.isn[d] = h.push[d] /\ h.push[d] \in Positions
    BY <2>1, <2>2, <2>3 DEF Positions
  <2> QED BY <2>1, <2>4, ModSmall
<1> QED BY <1>1, AnalysisInvInit, AnalysisInvStep, EndedInvInit, EndedInvStep, PTL DEF AnalysisSpec

\* A number that has wrapped once, either way.
LEMMA ModBack ==
  ASSUME NEW a \in Int, -SeqModulus <= a, a < 0
  PROVE  Mod(a) = a + SeqModulus
BY TcpAnalysisAssumption DEF Mod

\* The distance of two positions is that of their numbers.
LEMMA ModApartBy ==
  ASSUME NEW i \in Positions, NEW c \in Nat, NEW len \in Nat, NEW b \in Nat, b <= c + len, c + len < SeqModulus
  PROVE  Mod(Mod(i + c) + len - Mod(i + b)) = c + len - b
<1>0. SeqModulus \in Nat \ {0} /\ i \in Nat /\ i < SeqModulus BY TcpAnalysisAssumption DEF Positions
<1>1. ASSUME NEW z \in Nat, z < SeqModulus
      PROVE  Mod(i + z) = i + z \/ Mod(i + z) = (i + z) - SeqModulus
  <2>1. CASE i + z < SeqModulus
    <3>1. i + z \in Positions BY <1>0, <2>1 DEF Positions
    <3> QED BY <3>1, ModSmall
  <2>2. CASE ~(i + z < SeqModulus)
    <3>1. i + z \in Nat /\ SeqModulus <= i + z /\ i + z < 2 * SeqModulus BY <1>0, <1>1, <2>2
    <3> QED BY <3>1, ModOnce
  <2> QED BY <2>1, <2>2
<1> DEFINE X == c + len - b
<1>2. X \in Nat /\ X < SeqModulus BY <1>0
<1>3. Mod(i + c) = i + c \/ Mod(i + c) = (i + c) - SeqModulus BY <1>0, <1>1
<1>4. Mod(i + b) = i + b \/ Mod(i + b) = (i + b) - SeqModulus BY <1>0, <1>1
<1>5. LET y == Mod(i + c) + len - Mod(i + b) IN y = X \/ y = X + SeqModulus \/ y = X - SeqModulus
  BY <1>0, <1>3, <1>4
<1> HIDE DEF X
<1>6. Mod(X) = X
  <2>1. X \in Positions BY <1>0, <1>2 DEF Positions
  <2> QED BY <2>1, ModSmall
<1>7. Mod(X + SeqModulus) = X
  <2>1. X + SeqModulus \in Nat /\ SeqModulus <= X + SeqModulus /\ X + SeqModulus < 2 * SeqModulus
    BY <1>0, <1>2
  <2>2. Mod(X + SeqModulus) = (X + SeqModulus) - SeqModulus BY <2>1, ModOnce
  <2> QED BY <1>0, <1>2, <2>2
<1>8. Mod(X - SeqModulus) = X
  <2>1. X - SeqModulus \in Int /\ -SeqModulus <= X - SeqModulus /\ X - SeqModulus < 0 BY <1>0, <1>2
  <2>2. Mod(X - SeqModulus) = (X - SeqModulus) + SeqModulus BY <2>1, ModBack
  <2> QED BY <1>0, <1>2, <2>2
<1> QED BY <1>5, <1>6, <1>7, <1>8 DEF X

\* What a packet does to the numbers that its sender's window is measured
\* with, while the flow is not half duplex.
LEMMA PacketTracks ==
  ASSUME FlowState, NEW p, Legal(p), Packet(p), NEW x \in Dirs, ended' # "half"
  PROVE  /\ tcb'[x].seq = IF x = p.dir /\ ~(Again(p) > 0) THEN Mod(Seq0(p) + p.len) ELSE tcb[x].seq
         /\ p.rst => tcb'[x].cwin_max = tcb[x].cwin_max
         /\ ~p.rst => tcb'[x].ack = IF x = p.dir THEN IF p.ackset THEN Ack0(p) ELSE tcb[x].ack
                                    ELSE IF p.syn THEN Seq0(p) ELSE tcb[x].ack
         /\ ~p.rst => LET cwin == Mod(Seq0(p) + p.len - tcb[Other(p.dir)].ack)
                          forth == /\ ~p.syn /\ ~OutOrder(p) /\ Again(p) = 0
                                   /\ cwin \in 1 .. SeqModulus \div 2 - 1
                      IN tcb'[x].cwin_max = IF x = p.dir /\ forth /\ cwin > tcb[x].cwin_max
                                            THEN cwin ELSE tcb[x].cwin_max
<1> DEFINE b == Counted(CountFlags(tcb, p), p)
           eff == EffWin(CountFlags(tcb, p), p)
           c == Measured(b, p, eff)
           o == Other(p.dir)
<1>0. /\ Shaped(tcb) /\ p.dir \in Dirs /\ (p.syn => ~p.fin) /\ p.syn \in BOOLEAN
      /\ o \in Dirs /\ o # p.dir
  BY OtherDir DEF Legal, PacketTypes, Sensible, FlowState, TcbsTyped
<1>1. /\ Shaped(b)
      /\ \A y \in Dirs : CountedTcb(b, tcb, p, y)
      /\ Differ(b, tcb, CountFields)
  BY <1>0, PacketCounted
<1>2. \/ p.rst /\ Differ(tcb', b, RateFields)
      \/ ~p.rst /\ Differ(tcb', c, RateFields)
  BY <1>0, PacketEffect
<1>3. (\A y \in Dirs : MeasuredTcb(c, b, p, eff, y)) /\ Differ(c, b, MeasureFields)
  BY <1>0, <1>1, MeasuredEffect DEF MeasureFields
<1> HIDE DEF b, c, eff, o
<1>4. b[x].cwin_max = tcb[x].cwin_max BY <1>1 DEF Differ, Fields, Tcb, RateFields, CountFields
<1>5. CountedTcb(b, tcb, p, x) /\ CountedTcb(b, tcb, p, o) BY <1>0, <1>1
<1>6. b[x].seq = IF x = p.dir /\ ~(Again(p) > 0) THEN Mod(Seq0(p) + p.len) ELSE tcb[x].seq
  BY <1>5 DEF CountedTcb
<1>7. b[x].ack = IF p.syn /\ x # p.dir THEN Seq0(p) ELSE tcb[x].ack BY <1>5 DEF CountedTcb
<1>8. b[o].ack = IF p.syn THEN Seq0(p) ELSE tcb[o].ack
  <2>1. b[o].ack = IF p.syn /\ ~(o = p.dir) THEN Seq0(p) ELSE tcb[o].ack BY <1>5 DEF CountedTcb
  <2> QED BY <1>0, <2>1
<1>9. MeasuredTcb(c, b, p, eff, x) BY <1>3
<1>10. c[x].ack = IF x = p.dir /\ p.ackset THEN Ack0(p) ELSE b[x].ack BY <1>9 DEF MeasuredTcb
<1>11. c[x].cwin_max = IF x = p.dir /\ Advances(b, p) /\ Outstanding(b, p) > b[x].cwin_max
                       THEN Outstanding(b, p) ELSE b[x].cwin_max
  BY <1>9 DEF MeasuredTcb
<1>12. c[x].seq = b[x].seq BY <1>3 DEF Differ, Fields, Tcb, MeasureFields
<1>13. CASE p.rst /\ Differ(tcb', b, RateFields)
  <2>1. tcb'[x].seq = b[x].seq /\ tcb'[x].cwin_max = b[x].cwin_max
    BY <1>13 DEF Differ, Fields, Tcb, RateFields, CountFields
  <2> QED BY <1>4, <1>6, <1>13, <2>1
<1>14. CASE ~p.rst /\ Differ(tcb', c, RateFields)
  <2>1. tcb'[x].seq = c[x].seq /\ tcb'[x].cwin_max = c[x].cwin_max /\ tcb'[x].ack = c[x].ack
    BY <1>14 DEF Differ, Fields, Tcb, RateFields, CountFields
  <2> DEFINE cwin == Mod(Seq0(p) + p.len - tcb[o].ack)
  <2>2. ~p.syn => Outstanding(b, p) = cwin BY <1>8 DEF Outstanding, o
  <2>3. Advances(b, p) <=> ~p.syn /\ ~OutOrder(p) /\ Again(p) = 0 /\ cwin \in 1 .. SeqModulus \div 2 - 1
    BY <2>2 DEF Advances
  <2> HIDE DEF cwin
  <2>4. tcb'[x].cwin_max = IF /\ x = p.dir
                              /\ ~p.syn /\ ~OutOrder(p) /\ Again(p) = 0 /\ cwin \in 1 .. SeqModulus \div 2 - 1
                              /\ cwin > tcb[x].cwin_max
                           THEN cwin ELSE tcb[x].cwin_max
    BY <2>1, <2>2, <2>3, <1>4, <1>11
  <2>5. tcb'[x].ack = IF x = p.dir THEN IF p.ackset THEN Ack0(p) ELSE tcb[x].ack
                      ELSE IF p.syn THEN Seq0(p) ELSE tcb[x].ack
    BY <2>1, <1>7, <1>10
  <2> QED BY <1>6, <1>12, <1>14, <2>1, <2>4, <2>5 DEF cwin, o
<1> QED BY <1>2, <1>13, <1>14

\* A place in a stream of which the bytes S have been seen: not behind all
\* of them, unless nothing is.
Within(n, S) == n <= 1 \/ \E y \in S : n <= y + 1

\* How far the stream of d has come, and how far it has been acknowledged.
Placed(d) ==
  /\ h.end[d] \in Nat /\ h.out[d] \in Nat
  /\ Within(h.acked[d], h.seen[d]) /\ Within(h.end[d], h.seen[d])
  /\ Len(h.syns[d]) >= 1 => h.seen[d] # {}
  /\ Len(h.syns[d]) <= 1 => h.seen[d] \in SUBSET (0 .. conf.total[d] + 1)
  /\ ended = "no" /\ h.win[d] = {} => h.end[d] = 0 /\ h.out[d] = 0

\* The numbers of the positions that were seen.
LEMMA SeenOf ==
  ASSUME FlowState, NEW d \in Dirs
  PROVE  /\ SeqModulus - 1 \in Nat /\ h.seen[d] \in SUBSET (0 .. SeqModulus - 1)
         /\ \A y \in h.seen[d] : y \in Nat
         /\ Top(h.seen[d]) \in Nat /\ (\A y \in h.seen[d] : y < Top(h.seen[d]))
         /\ Top(h.seen[d]) > 0 => Top(h.seen[d]) - 1 \in h.seen[d]
<1> DEFINE N == SeqModulus - 1
           S == h.seen[d]
<1>1. N \in Nat /\ S \in SUBSET (0 .. N) BY TcpAnalysisAssumption DEF Positions, FlowState, HistoryTypes
<1> HIDE DEF N, S
<1>2. /\ Top(S) \in 0 .. N + 1
      /\ \A y \in S : y < Top(S)
      /\ Top(S) > 0 => Top(S) - 1 \in S
  BY <1>1, TopOf
<1>3. \A y \in S : y \in Nat BY <1>1
<1>4. Top(S) \in Nat BY <1>1, <1>2
<1> QED BY <1>1, <1>2, <1>3, <1>4 DEF N, S

\* A packet that brings nothing seen before, and nothing late, is behind
\* all that was seen.
LEMMA Behind ==
  ASSUME FlowState, NEW p, Legal(p), ~p.syn, Again(p) = 0, ~OutOrder(p)
  PROVE  \A y \in h.seen[p.dir] : y < p.at
<1>0. /\ p.dir \in Dirs /\ p.at \in Nat /\ p.len \in Nat /\ conf \in Confs /\ h.seen[p.dir] \in SUBSET Positions
      /\ ~p.fin /\ p.len = 0 => p.at = Top(h.seen[p.dir]) \/ p.at = Max({1, Top(h.seen[p.dir])})
  BY DEF Legal, PacketTypes, Sensible, FlowState, HistoryTypes
<1>1. CASE p.len > 0 \/ p.fin BY <1>0, <1>1, InOrder
<1>2. CASE ~(p.len > 0 \/ p.fin)
  <2>1. /\ Top(h.seen[p.dir]) \in Nat /\ (\A y \in h.seen[p.dir] : y < Top(h.seen[p.dir]))
        /\ \A y \in h.seen[p.dir] : y \in Nat
    BY <1>0, SeenOf
  <2>2. Max({1, Top(h.seen[p.dir])}) = IF 1 >= Top(h.seen[p.dir]) THEN 1 ELSE Top(h.seen[p.dir])
    BY <2>1, MaxTwo
  <2>3. p.at >= Top(h.seen[p.dir]) BY <1>0, <1>2, <2>1, <2>2
  <2> QED BY <1>0, <2>1, <2>3
<1> QED BY <1>1, <1>2

\* What is not behind all that was seen is not behind more.
LEMMA WithinMore ==
  ASSUME NEW n, NEW S, NEW R, S \subseteq R, Within(n, S)
  PROVE  Within(n, R)
BY DEF Within

\* Nor does it leave the stream.
LEMMA WithinBound ==
  ASSUME NEW n \in Nat, NEW T \in Nat, NEW S \in SUBSET (0 .. T + 1), Within(n, S)
  PROVE  n <= T + 2
BY DEF Within

\* The end of a packet is behind what it brings.
LEMMA EndOf ==
  ASSUME FlowState, NEW p, Legal(p)
  PROVE  p.at + p.len \in Nat /\ Within(p.at + p.len, h.seen[p.dir] \cup Range0(p))
<1> DEFINE e == p.at + p.len
           S == h.seen[p.dir]
<1>0. /\ p.dir \in Dirs /\ p.at \in Nat /\ p.len \in Nat /\ conf \in Confs
      /\ p.fin \in BOOLEAN /\ p.syn \in BOOLEAN
      /\ p.syn => p.len = 0 /\ ~p.fin
      /\ ~p.syn /\ ~p.fin /\ p.len = 0 => p.at = Top(S) \/ p.at = Max({1, Top(S)})
  BY DEF Legal, PacketTypes, Sensible, FlowState, HistoryTypes
<1>1. Top(S) \in Nat /\ (Top(S) > 0 => Top(S) - 1 \in S) BY <1>0, SeenOf
<1>2. Max({1, Top(S)}) = IF 1 >= Top(S) THEN 1 ELSE Top(S) BY <1>1, MaxTwo
<1>3. CASE p.syn
  <2>1. Range0(p) = {p.at} BY <1>0, <1>3, RangeOf
  <2> QED
    <3>1. p.at \in Range0(p) /\ p.at + p.len <= p.at + 1 /\ p.at + p.len \in Nat BY <1>0, <1>3, <2>1
    <3> QED BY <3>1 DEF Within
<1>4. CASE ~p.syn /\ (p.len > 0 \/ p.fin)
  <2>1. Range0(p) = p.at .. (p.at + p.len + One(p.fin)) - 1 BY <1>0, <1>4, RangeOf
  <2>2. CASE p.fin
    <3>1. e \in Range0(p) /\ e <= e + 1 BY <2>1, <2>2, <1>0 DEF One
    <3> QED BY <1>0, <3>1 DEF Within
  <2>3. CASE ~p.fin
    <3>1. e - 1 \in Range0(p) /\ e <= (e - 1) + 1 BY <1>4, <2>1, <2>3, <1>0 DEF One
    <3> QED BY <1>0, <3>1 DEF Within
  <2> QED BY <2>2, <2>3
<1>5. CASE ~p.syn /\ ~(p.len > 0 \/ p.fin)
  <2>1. e \in Nat /\ (e = Top(S) \/ e = 1) BY <1>0, <1>1, <1>2, <1>5
  <2>2. CASE e > 1
    <3>1. Top(S) - 1 \in S /\ e <= (Top(S) - 1) + 1 BY <1>1, <2>1, <2>2
    <3> QED BY <3>1, <2>1 DEF Within
  <2>3. CASE ~(e > 1) BY <2>1, <2>3 DEF Within
  <2> QED BY <2>2, <2>3
<1> QED BY <1>0, <1>3, <1>4, <1>5

\* Nothing is acknowledged before it was seen.
LEMMA AckWithin ==
  ASSUME FlowState, NEW p, Legal(p)
  PROVE  AckOf(p) \in Nat /\ Within(AckOf(p), h.seen[Other(p.dir)])
<1> DEFINE S == h.seen[Other(p.dir)]
<1>0. /\ p.dir \in Dirs /\ p.acks \in Nat /\ p.acks <= MostAcks(p.dir) /\ p.ackset \in BOOLEAN
  BY DEF Legal, PacketTypes, Sensible
<1>1. Other(p.dir) \in Dirs BY <1>0, OtherDir
<1>2. Top(S) \in Nat /\ (Top(S) > 0 => Top(S) - 1 \in S) BY <1>1, SeenOf
<1>3. MostAcks(p.dir) = IF 1 >= Top(S) THEN 1 ELSE Top(S) BY <1>2, MaxTwo DEF MostAcks
<1> HIDE DEF S
<1>4. Within(p.acks, S)
  <2>1. CASE p.acks <= 1 BY <2>1 DEF Within
  <2>2. CASE ~(p.acks <= 1)
    <3>1. Top(S) - 1 \in S /\ p.acks <= (Top(S) - 1) + 1 BY <1>0, <1>2, <1>3, <2>2
    <3> QED BY <3>1 DEF Within
  <2> QED BY <2>1, <2>2
<1>5. Within(0, S) BY DEF Within
<1> QED BY <1>0, <1>4, <1>5 DEF AckOf, S

\* Where a packet leaves its stream.
LEMMA PlacedStep ==
  ASSUME FlowState, NEW p, Legal(p), Packet(p), NEW d \in Dirs, Placed(d)
  PROVE  Placed(d)'
<1> DEFINE e == p.at + p.len
           T == conf.total[d]
           S == h.seen[d]
           new == h'.seen[d]
<1>0. /\ p.dir \in Dirs /\ p.at \in Nat /\ p.len \in Nat /\ p.syn \in BOOLEAN /\ p.fin \in BOOLEAN
      /\ Shaped(tcb) /\ conf \in Confs /\ HistoryShaped /\ (p.syn => ~p.fin)
      /\ (p.syn => p.at = 0 \/ h.syns[p.dir] # <<>>)
  BY DEF Legal, PacketTypes, Sensible, FlowState, TcbsTyped, HistoryTypes
<1>1. h' = Remember(p) /\ conf' = conf /\ ended = "no" BY <1>0, PacketCloses
<1>2. HistoryAfter(p, d) BY <1>0, <1>1, RememberEffect
<1>3. /\ new = IF d = p.dir THEN S \cup Range0(p) ELSE S
      /\ h'.end[d] = IF d = p.dir THEN Max({h.end[d], e}) ELSE h.end[d]
      /\ h'.acked[d] = IF d = p.dir THEN h.acked[d] ELSE Max({h.acked[d], AckOf(p)})
      /\ h'.out[d] = IF d = p.dir /\ FirstSeen(p) THEN Max({h.out[d], e - h.acked[d]}) ELSE h.out[d]
  BY <1>2 DEF HistoryAfter
<1>4. /\ h'.syns[d] = IF d = p.dir /\ p.syn THEN Append(h.syns[d], p.at) ELSE h.syns[d]
      /\ h'.win[d] = {} => (h.win[d] = {} /\ (d # p.dir \/ p.rst))
  BY <1>2 DEF HistoryAfter
<1>5. /\ h.end[d] \in Nat /\ h.out[d] \in Nat
      /\ Within(h.acked[d], S) /\ Within(h.end[d], S)
      /\ Len(h.syns[d]) >= 1 => S # {}
      /\ Len(h.syns[d]) <= 1 => S \in SUBSET (0 .. T + 1)
      /\ h.win[d] = {} => h.end[d] = 0 /\ h.out[d] = 0
  BY <1>1 DEF Placed
<1>6. h.syns[d] \in Seq(Nat) /\ h.acked[d] \in Nat BY DEF FlowState, HistoryTypes
<1>7. T \in Nat BY <1>0, ConfOf
<1>8. e \in Nat /\ (d = p.dir => Within(e, S \cup Range0(p))) BY EndOf
<1>9. d # p.dir => AckOf(p) \in Nat /\ Within(AckOf(p), S)
  <2>1. d # p.dir => d = Other(p.dir) BY <1>0, OtherDir
  <2>2. AckOf(p) \in Nat /\ Within(AckOf(p), h.seen[Other(p.dir)]) BY AckWithin
  <2> QED BY <2>1, <2>2
<1>10. ended' = "no" => ~p.rst
  <2>1. PICK b : b = Counted(CountFlags(tcb, p), p) OBVIOUS
  <2> QED BY <1>0, <2>1, PacketEffect
<1>11. Placed(d)' <=>
         /\ h'.end[d] \in Nat /\ h'.out[d] \in Nat
         /\ Within(h'.acked[d], new) /\ Within(h'.end[d], new)
         /\ Len(h'.syns[d]) >= 1 => new # {}
         /\ Len(h'.syns[d]) <= 1 => new \in SUBSET (0 .. T + 1)
         /\ ended' = "no" /\ h'.win[d] = {} => h'.end[d] = 0 /\ h'.out[d] = 0
  BY <1>1 DEF Placed, Within
<1>12. p.syn => Range0(p) = {p.at} BY <1>0, RangeOf
<1>13. ASSUME ~p.syn PROVE Range0(p) \in SUBSET (0 .. conf.total[p.dir] + 1)
  <2> DEFINE K == (p.at + p.len + One(p.fin)) - 1
             U == conf.total[p.dir]
  <2>1. /\ Range0(p) = p.at .. K
        /\ (Range0(p) # {} => p.at + p.len + One(p.fin) <= U + 2)
    BY <1>0, <1>13, RangeOf
  <2>2. One(p.fin) \in Nat /\ U \in Nat BY <1>0, ConfOf DEF One
  <2>3. Range0(p) # {} => K <= U + 1 BY <1>0, <2>1, <2>2, SMTT(30)
  <2>4. K \in Int BY <1>0, <2>2
  <2> HIDE DEF K, U
  <2>5. \A y \in p.at .. K : K <= U + 1 => y \in 0 .. U + 1 BY <1>0, <2>2, <2>4
  <2> QED BY <2>1, <2>3, <2>5 DEF U
<1> HIDE DEF e, T, S, new
<1>14. S \subseteq new BY <1>3
<1>15. Within(h'.acked[d], new)
  <2>1. Within(h.acked[d], new) BY <1>5, <1>14, WithinMore
  <2>2. CASE d = p.dir BY <1>3, <2>1, <2>2
  <2>3. CASE d # p.dir
    <3>1. Max({h.acked[d], AckOf(p)}) = IF h.acked[d] >= AckOf(p) THEN h.acked[d] ELSE AckOf(p)
      BY <1>6, <1>9, <2>3, MaxTwo
    <3>2. Within(AckOf(p), new) BY <1>9, <1>14, <2>3, WithinMore
    <3> QED BY <1>3, <2>1, <2>3, <3>1, <3>2
  <2> QED BY <2>2, <2>3
<1>16. h'.end[d] \in Nat /\ Within(h'.end[d], new)
  <2>1. Within(h.end[d], new) BY <1>5, <1>14, WithinMore
  <2>2. CASE d # p.dir BY <1>3, <1>5, <2>1, <2>2
  <2>3. CASE d = p.dir
    <3>1. Max({h.end[d], e}) = IF h.end[d] >= e THEN h.end[d] ELSE e BY <1>5, <1>8, MaxTwo
    <3>2. Within(e, new) BY <1>3, <1>8, <2>3
    <3> QED BY <1>3, <1>5, <1>8, <2>1, <2>3, <3>1, <3>2
  <2> QED BY <2>2, <2>3
<1>17. h'.out[d] \in Nat
  <2>1. e - h.acked[d] \in Int BY <1>6, <1>8
  <2>2. Max({h.out[d], e - h.acked[d]}) = IF h.out[d] >= e - h.acked[d] THEN h.out[d] ELSE e - h.acked[d]
    BY <1>5, <2>1, MaxTwo
  <2> QED BY <1>3, <1>5, <2>1, <2>2
<1>18. Len(h'.syns[d]) >= 1 => new # {}
  <2>1. CASE d = p.dir /\ p.syn BY <1>3, <1>12, <2>1
  <2>2. CASE ~(d = p.dir /\ p.syn) BY <1>4, <1>5, <1>14, <2>2
  <2> QED BY <2>1, <2>2
<1>19. Len(h'.syns[d]) <= 1 => new \in SUBSET (0 .. T + 1)
  <2>1. CASE d = p.dir /\ p.syn
    <3>1. Len(h'.syns[d]) = Len(h.syns[d]) + 1 /\ Len(h.syns[d]) \in Nat BY <1>0, <1>4, <1>6, <2>1
    <3>2. Len(h.syns[d]) = 0 => h.syns[d] = <<>> BY <1>6
    <3>3. Len(h'.syns[d]) <= 1 => p.at = 0 /\ Len(h.syns[d]) <= 1 BY <1>0, <2>1, <3>1, <3>2
    <3> QED BY <1>3, <1>5, <1>7, <1>12, <2>1, <3>3
  <2>2. CASE ~(d = p.dir /\ p.syn)
    <3>1. d = p.dir => Range0(p) \in SUBSET (0 .. T + 1) BY <1>13, <2>2 DEF T
    <3> QED BY <1>3, <1>4, <1>5, <2>2, <3>1
  <2> QED BY <2>1, <2>2
<1>20. ended' = "no" /\ h'.win[d] = {} => h'.end[d] = 0 /\ h'.out[d] = 0 BY <1>3, <1>4, <1>5, <1>10
<1> QED BY <1>11, <1>15, <1>16, <1>17, <1>18, <1>19, <1>20

\* The flag that new data is to be sampled, and the samples of the flight.
LEMMA PacketFlies ==
  ASSUME FlowState, NEW p, Legal(p), Packet(p), ended' # "half"
  PROVE  /\ \A x \in Dirs :
              tcb'[x].cwnd_flag <=> IF x = p.dir THEN tcb[x].cwnd_flag \/ p.len # 0 \/ Control(p)
                                    ELSE tcb[x].cwnd_flag /\ ~p.ackset
         /\ flight' = IF p.ackset /\ tcb[Other(p.dir)].cwnd_flag
                      THEN Mod(tcb[Other(p.dir)].seq - tcb[p.dir].ack) ELSE flight
<1> DEFINE a == CountFlags(tcb, p)
           b == Counted(a, p)
           eff == EffWin(a, p)
           c == Measured(b, p, eff)
           o == Other(p.dir)
<1>0. /\ Shaped(tcb) /\ p.dir \in Dirs /\ (p.syn => ~p.fin) /\ p.syn \in BOOLEAN
      /\ o \in Dirs /\ o # p.dir
  BY OtherDir DEF Legal, PacketTypes, Sensible, FlowState, TcbsTyped
<1>1. /\ Shaped(b)
      /\ \A y \in Dirs : CountedTcb(b, tcb, p, y)
  BY <1>0, PacketCounted
<1>2. \/ p.rst /\ Differ(tcb', b, RateFields)
      \/ ~p.rst /\ Differ(tcb', c, RateFields)
  BY <1>0, PacketEffect
<1>3. Differ(c, b, MeasureFields) BY <1>0, <1>1, MeasuredEffect DEF MeasureFields
<1>4. Differ(a, tcb, {"syn_count", "fin_count", "reset_count", "fin_seqno"}) BY <1>0, CountFlagsEffect
<1>5. flight' = IF FlightDue(a, p) THEN Flight(a, p) ELSE flight BY DEF Packet, EndFlow
<1> HIDE DEF a, b, c, eff, o
<1>6. a[o].cwnd_flag = tcb[o].cwnd_flag /\ a[o].seq = tcb[o].seq /\ a[p.dir].ack = tcb[p.dir].ack
  BY <1>0, <1>4 DEF Differ, Fields, Tcb
<1>7. flight' = IF p.ackset /\ tcb[o].cwnd_flag THEN Mod(tcb[o].seq - tcb[p.dir].ack) ELSE flight
  BY <1>5, <1>6 DEF FlightDue, Flight, o
<1>8. ASSUME NEW x \in Dirs
      PROVE  tcb'[x].cwnd_flag <=> IF x = p.dir THEN tcb[x].cwnd_flag \/ p.len # 0 \/ Control(p)
                                   ELSE tcb[x].cwnd_flag /\ ~p.ackset
  <2>1. CountedTcb(b, tcb, p, x) BY <1>1
  <2>2. b[x].cwnd_flag = IF x = p.dir THEN tcb[x].cwnd_flag \/ p.len # 0 \/ Control(p)
                         ELSE tcb[x].cwnd_flag /\ ~p.ackset
    BY <2>1 DEF CountedTcb
  <2>3. c[x].cwnd_flag = b[x].cwnd_flag BY <1>3 DEF Differ, Fields, Tcb, MeasureFields
  <2>4. tcb'[x].cwnd_flag = b[x].cwnd_flag \/ tcb'[x].cwnd_flag = c[x].cwnd_flag
    BY <1>2 DEF Differ, Fields, Tcb, RateFields, CountFields
  <2>5. tcb'[x].cwnd_flag = b[x].cwnd_flag BY <2>3, <2>4
  <2> QED BY <2>2, <2>5
<1> QED BY <1>7, <1>8 DEF o

\* A packet that has nothing seen before, in a set of positions.
LEMMA AgainCounts ==
  ASSUME FlowState, NEW p, Legal(p)
  PROVE  Again(p) \in Nat
<1>0. p.dir \in Dirs /\ conf \in Confs /\ SeqModulus - 1 \in Int
  BY TcpAnalysisAssumption DEF Legal, PacketTypes, FlowState
<1>1. Range0(p) \in SUBSET Positions BY <1>0, RangeOf
<1>2. IsFiniteSet(Positions) BY <1>0, FS_Interval DEF Positions
<1>3. IsFiniteSet(Range0(p) \cap h.seen[p.dir]) BY <1>1, <1>2, FS_Subset
<1> QED BY <1>3, FS_CardinalityType DEF Again

\* The stream of d has one SYN, sent first, and its ACKs do not go back.
Single(d) == Len(h.syns[d]) = 1 /\ ~h.back[d]

\* How far the stream of d has come, and has been acknowledged, as the
\* numbers of the two tcb say it, and the window measured from them.
Acked(d) == tcb[Other(d)].ack = Mod(conf.isn[d] + h.acked[d])
Reached(d) == tcb[d].seq = Mod(conf.isn[d] + h.end[d]) /\ (tcb[d].cwnd_flag => h.acked[d] <= h.end[d])
Tracked(d) ==
  /\ ended = "no" /\ Single(d) => Acked(d)
  /\ ended = "no" /\ Single(d) /\ ~h.late[d] => Reached(d)
  /\ ended = "no" /\ h.win[d] = {} => tcb[d].cwin_max = 0 /\ ~tcb[d].cwnd_flag
  /\ Counting /\ Single(d) /\ h.out[d] < SeqModulus \div 2 => tcb[d].cwin_max = h.out[d]

\* What the steps of a packet have in common.
LEMMA TrackedBase ==
  ASSUME FlowState, NEW p, Legal(p), Packet(p), NEW d \in Dirs, Placed(d), Tracked(d)
  PROVE  /\ p.dir \in Dirs /\ p.at \in Nat /\ p.len \in Nat /\ p.syn \in BOOLEAN /\ p.rst \in BOOLEAN
         /\ conf \in Confs /\ conf' = conf /\ ended = "no" /\ (p.syn => ~p.rst /\ p.len = 0)
         /\ ended' \in {"no", "half", "reset", "complete"}
         /\ (p.syn => p.at = 0 \/ h.syns[p.dir] # <<>>)
         /\ h.syns[d] \in Seq(Nat) /\ h.acked[d] \in Nat /\ HistoryAfter(p, d)
         /\ conf.isn[d] \in Nat /\ conf.isn[d] < SeqModulus /\ conf.isn[d] \in Positions
         /\ conf.total[d] \in Nat /\ conf.total[d] + 2 < SeqModulus
         /\ tcb[d].cwin_max \in Nat
<1>0. /\ p.dir \in Dirs /\ p.at \in Nat /\ p.len \in Nat /\ p.syn \in BOOLEAN /\ p.rst \in BOOLEAN
      /\ conf \in Confs /\ (p.syn => ~p.rst /\ p.len = 0)
      /\ (p.syn => p.at = 0 \/ h.syns[p.dir] # <<>>)
      /\ Shaped(tcb) /\ TcbTypes(tcb[d], d) /\ HistoryShaped
  BY DEF Legal, PacketTypes, Sensible, FlowState, TcbsTyped, HistoryTypes
<1>1. conf' = conf /\ h' = Remember(p) /\ ended = "no" /\ ended' \in {"no", "half", "reset", "complete"}
  BY <1>0, PacketCloses
<1>2. HistoryAfter(p, d) BY <1>0, <1>1, RememberEffect
<1>3. h.syns[d] \in Seq(Nat) /\ h.acked[d] \in Nat BY DEF FlowState, HistoryTypes
<1>4. conf.isn[d] \in Positions /\ conf.total[d] \in Nat /\ conf.total[d] + 2 < SeqModulus BY <1>0, ConfOf
<1>5. conf.isn[d] \in Nat /\ conf.isn[d] < SeqModulus BY <1>4, TcpAnalysisAssumption DEF Positions
<1>6. tcb[d].cwin_max \in Nat BY <1>0, TcpAnalysisAssumption DEF TcbTypes
<1> QED BY <1>0, <1>1, <1>2, <1>3, <1>4, <1>5, <1>6

\* The SYN that starts the stream.
LEMMA TrackedSyn ==
  ASSUME FlowState, NEW p, Legal(p), Packet(p), NEW d \in Dirs, Placed(d), Tracked(d), d = p.dir, p.syn
  PROVE  Tracked(d)'
<1> DEFINE I == conf.isn[d]
<1>0. /\ p.dir \in Dirs /\ p.at \in Nat /\ p.len = 0 /\ ~p.rst
      /\ conf \in Confs /\ conf' = conf /\ ended = "no"
      /\ (p.at = 0 \/ h.syns[d] # <<>>)
      /\ h.syns[d] \in Seq(Nat) /\ h.acked[d] \in Nat /\ HistoryAfter(p, d)
      /\ I \in Nat /\ I < SeqModulus /\ I \in Positions /\ tcb[d].cwin_max \in Nat
  BY TrackedBase
<1>1. h'.win[d] # {} BY <1>0 DEF HistoryAfter
<1>2. /\ h'.syns[d] = Append(h.syns[d], p.at)
      /\ h'.acked[d] = h.acked[d] /\ h'.out[d] = h.out[d]
      /\ h'.end[d] = Max({h.end[d], p.at + p.len})
  BY <1>0 DEF HistoryAfter, FirstSeen
<1>3. /\ ~h'.back[d] => ~(h.acked[d] > 0) /\ h.win[d] = {}
      /\ ~h'.late[d] => ~(Again(p) > 0)
  BY <1>0 DEF HistoryAfter
<1>4. Single(d)' => /\ p.at = 0 /\ h.acked[d] = 0 /\ h.end[d] = 0 /\ h.out[d] = 0
                    /\ tcb[d].cwin_max = 0
  <2> SUFFICES ASSUME Single(d)' PROVE /\ p.at = 0 /\ h.acked[d] = 0 /\ h.end[d] = 0 /\ h.out[d] = 0
                                       /\ tcb[d].cwin_max = 0
    OBVIOUS
  <2>1. Len(h'.syns[d]) = 1 /\ ~h'.back[d] BY DEF Single
  <2>2. Len(h.syns[d]) = 0 BY <1>0, <1>2, <2>1
  <2>3. h.syns[d] = <<>> BY <1>0, <2>2
  <2>4. h.win[d] = {} /\ h.acked[d] = 0 BY <1>0, <1>3, <2>1
  <2>5. h.end[d] = 0 /\ h.out[d] = 0 BY <1>0, <2>4 DEF Placed
  <2>6. tcb[d].cwin_max = 0 BY <1>0, <2>4 DEF Tracked
  <2> QED BY <1>0, <2>3, <2>4, <2>5, <2>6
<1>5. ended' # "half" => /\ tcb'[Other(d)].ack = Seq0(p) /\ tcb'[d].cwin_max = tcb[d].cwin_max
                         /\ (~(Again(p) > 0) => tcb'[d].seq = Mod(Seq0(p) + p.len))
  <2> SUFFICES ASSUME ended' # "half"
               PROVE  /\ tcb'[Other(d)].ack = Seq0(p) /\ tcb'[d].cwin_max = tcb[d].cwin_max
                      /\ (~(Again(p) > 0) => tcb'[d].seq = Mod(Seq0(p) + p.len))
    OBVIOUS
  <2>1. Other(d) \in Dirs /\ Other(d) # d BY OtherDir
  <2>2. tcb'[Other(d)].ack = Seq0(p) BY <1>0, <2>1, PacketTracks
  <2>3. tcb'[d].cwin_max = tcb[d].cwin_max BY <1>0, PacketTracks
  <2>4. ~(Again(p) > 0) => tcb'[d].seq = Mod(Seq0(p) + p.len) BY PacketTracks
  <2> QED BY <2>2, <2>3, <2>4
<1>6. p.at = 0 => Seq0(p) = I /\ Mod(Seq0(p) + p.len) = I /\ Mod(I + 0) = I
  <2>1. Mod(I) = I /\ I + 0 = I BY <1>0, ModSmall
  <2> QED BY <1>0, <2>1 DEF Seq0
<1>7. h.end[d] = 0 /\ p.at = 0 => h'.end[d] = 0
  <2>1. Max({0, 0}) = 0 BY MaxTwo
  <2> QED BY <1>0, <1>2, <2>1
<1>8. ended' = "no" /\ Single(d)' => Acked(d)'
  <2> SUFFICES ASSUME ended' = "no", Single(d)' PROVE Acked(d)' OBVIOUS
  <2>1. tcb'[Other(d)].ack = Mod(conf.isn[d] + h'.acked[d]) BY <1>2, <1>4, <1>5, <1>6
  <2> QED BY <1>0, <2>1 DEF Acked
<1>9. ended' = "no" /\ Single(d)' /\ ~h'.late[d] => Reached(d)'
  <2> SUFFICES ASSUME ended' = "no", Single(d)', ~h'.late[d] PROVE Reached(d)' OBVIOUS
  <2>1. tcb'[d].seq = Mod(conf.isn[d] + h'.end[d]) /\ h'.acked[d] <= h'.end[d]
    BY <1>2, <1>3, <1>4, <1>5, <1>6, <1>7
  <2> QED BY <1>0, <2>1 DEF Reached
<1>10. Counting' /\ Single(d)' => tcb'[d].cwin_max = h'.out[d] BY <1>2, <1>4, <1>5 DEF Counting
<1> QED BY <1>1, <1>8, <1>9, <1>10 DEF Tracked

\* What was on its way before a packet of d, and is behind its start.
LEMMA BehindPlaces ==
  ASSUME FlowState, NEW p, Legal(p), Packet(p), NEW d \in Dirs, Placed(d), d = p.dir, ~p.syn, Single(d),
         Again(p) = 0, ~OutOrder(p)
  PROVE  h.end[d] <= p.at /\ h.acked[d] <= p.at
<1>1. /\ p.at \in Nat /\ h.acked[d] \in Nat BY DEF Legal, PacketTypes, FlowState, HistoryTypes
<1>2. /\ h.end[d] \in Nat /\ Within(h.acked[d], h.seen[d]) /\ Within(h.end[d], h.seen[d])
      /\ h.seen[d] # {}
  BY DEF Placed, Single
<1>3. /\ \A y \in h.seen[d] : y < p.at
      /\ \A y \in h.seen[d] : y \in Nat
  BY Behind, SeenOf
<1>4. p.at >= 1 BY <1>1, <1>2, <1>3
<1>5. ASSUME NEW n \in Nat, Within(n, h.seen[d]) PROVE n <= p.at
  <2>1. CASE n <= 1 BY <1>1, <1>4, <2>1
  <2>2. CASE \E y \in h.seen[d] : n <= y + 1 BY <1>1, <1>3, <2>2
  <2> QED BY <1>5, <2>1, <2>2 DEF Within
<1> QED BY <1>1, <1>2, <1>5

\* The end of a packet is behind the start of the sequence space again.
LEMMA EndInSpace ==
  ASSUME FlowState, NEW p, Legal(p), Packet(p), NEW d \in Dirs, Placed(d), d = p.dir, ~p.syn, Single(d)
  PROVE  p.at + p.len < SeqModulus
<1>1. /\ conf \in Confs /\ p.at \in Nat /\ p.len \in Nat /\ Shaped(tcb) /\ HistoryShaped
  BY DEF Legal, PacketTypes, FlowState, TcbsTyped, HistoryTypes
<1>2. conf' = conf /\ h' = Remember(p) BY <1>1, PacketCloses
<1>3. HistoryAfter(p, d) BY <1>1, <1>2, RememberEffect
<1>4. h'.seen[d] = h.seen[d] \cup Range0(p) /\ h'.syns[d] = h.syns[d] BY <1>3 DEF HistoryAfter
<1>5. Placed(d)' BY PlacedStep
<1>6. h'.seen[d] \in SUBSET (0 .. conf.total[d] + 1)
  <2>0. Len(h.syns[d]) = 1 BY DEF Single
  <2>1. Len(h'.syns[d]) <= 1 BY <1>4, <2>0
  <2> QED BY <1>2, <1>5, <2>1 DEF Placed
<1>7. conf.total[d] \in Nat /\ conf.total[d] + 2 < SeqModulus BY <1>1, ConfOf
<1>8. p.at + p.len \in Nat /\ Within(p.at + p.len, h'.seen[d]) BY <1>4, EndOf
<1>9. p.at + p.len <= conf.total[d] + 2 BY <1>6, <1>7, <1>8, WithinBound
<1> QED BY <1>1, <1>7, <1>9, TcpAnalysisAssumption

\* A packet of d that is not a SYN.
LEMMA TrackedHere ==
  ASSUME FlowState, NEW p, Legal(p), Packet(p), NEW d \in Dirs, Placed(d), Tracked(d), d = p.dir, ~p.syn
  PROVE  Tracked(d)'
<1> DEFINE I == conf.isn[d]
           e == p.at + p.len
           o == Other(d)
           Half == SeqModulus \div 2
           cwin == Mod(Seq0(p) + p.len - tcb[o].ack)
<1>0. /\ p.dir \in Dirs /\ p.at \in Nat /\ p.len \in Nat /\ p.rst \in BOOLEAN
      /\ conf \in Confs /\ conf' = conf /\ ended = "no"
      /\ ended' \in {"no", "half", "reset", "complete"}
      /\ h.syns[d] \in Seq(Nat) /\ h.acked[d] \in Nat /\ HistoryAfter(p, d)
      /\ I \in Nat /\ I < SeqModulus /\ I \in Positions /\ tcb[d].cwin_max \in Nat
  BY TrackedBase
<1>0a. Half \in Nat /\ SeqModulus \in Nat BY TcpAnalysisAssumption
<1>1. /\ h'.syns[d] = h.syns[d] /\ h'.acked[d] = h.acked[d]
      /\ h'.end[d] = Max({h.end[d], e})
      /\ h'.out[d] = IF FirstSeen(p) THEN Max({h.out[d], e - h.acked[d]}) ELSE h.out[d]
  BY <1>0 DEF HistoryAfter
<1>2. /\ ~h'.back[d] => ~h.back[d]
      /\ ~h'.late[d] => ~h.late[d] /\ ~OutOrder(p) /\ ~(Again(p) > 0)
      /\ ~p.rst => h'.win[d] # {}
  BY <1>0 DEF HistoryAfter
<1>3. Single(d)' => Single(d) BY <1>1, <1>2 DEF Single
<1>4. Again(p) \in Nat BY AgainCounts
<1>5. o \in Dirs /\ o # d BY OtherDir
<1>6. ended' = "no" => ~p.rst
  <2>1. Shaped(tcb) /\ (p.syn => ~p.fin) BY DEF FlowState, TcbsTyped
  <2>2. PICK b : b = Counted(CountFlags(tcb, p), p) OBVIOUS
  <2> QED BY <1>0, <2>1, <2>2, PacketEffect
<1>7. ended' # "half" => /\ tcb'[d].seq = IF ~(Again(p) > 0) THEN Mod(Seq0(p) + p.len) ELSE tcb[d].seq
                         /\ p.rst => tcb'[d].cwin_max = tcb[d].cwin_max
                         /\ ~p.rst => tcb'[o].ack = tcb[o].ack
  <2> SUFFICES ASSUME ended' # "half"
               PROVE  /\ tcb'[d].seq = IF ~(Again(p) > 0) THEN Mod(Seq0(p) + p.len) ELSE tcb[d].seq
                      /\ p.rst => tcb'[d].cwin_max = tcb[d].cwin_max
                      /\ ~p.rst => tcb'[o].ack = tcb[o].ack
    OBVIOUS
  <2>1. /\ tcb'[d].seq = IF d = p.dir /\ ~(Again(p) > 0) THEN Mod(Seq0(p) + p.len) ELSE tcb[d].seq
        /\ p.rst => tcb'[d].cwin_max = tcb[d].cwin_max
    BY PacketTracks
  <2>2. ~p.rst => tcb'[o].ack = IF o = p.dir THEN IF p.ackset THEN Ack0(p) ELSE tcb[o].ack
                                ELSE IF p.syn THEN Seq0(p) ELSE tcb[o].ack
    BY <1>5, PacketTracks
  <2> QED BY <1>5, <2>1, <2>2
<1>8. ended' # "half" /\ ~p.rst =>
        tcb'[d].cwin_max = IF /\ ~OutOrder(p) /\ Again(p) = 0 /\ cwin \in 1 .. Half - 1 /\ cwin > tcb[d].cwin_max
                           THEN cwin ELSE tcb[d].cwin_max
  <2> SUFFICES ASSUME ended' # "half", ~p.rst
               PROVE  tcb'[d].cwin_max = IF /\ ~OutOrder(p) /\ Again(p) = 0 /\ cwin \in 1 .. Half - 1
                                            /\ cwin > tcb[d].cwin_max
                                         THEN cwin ELSE tcb[d].cwin_max
    OBVIOUS
  <2>1. tcb'[d].cwin_max = LET w == Mod(Seq0(p) + p.len - tcb[Other(p.dir)].ack)
                               forth == /\ ~p.syn /\ ~OutOrder(p) /\ Again(p) = 0
                                        /\ w \in 1 .. SeqModulus \div 2 - 1
                           IN IF d = p.dir /\ forth /\ w > tcb[d].cwin_max THEN w ELSE tcb[d].cwin_max
    BY PacketTracks
  <2> QED BY <2>1
<1> HIDE DEF cwin
<1>9. Single(d) /\ Again(p) = 0 /\ ~OutOrder(p) => h.end[d] <= p.at /\ h.acked[d] <= p.at BY BehindPlaces
<1>10. Single(d) => p.at + p.len < SeqModulus BY EndInSpace
<1>11. h.end[d] \in Nat /\ h.out[d] \in Nat BY DEF Placed
<1>12. /\ h.end[d] <= p.at => h'.end[d] = e
       /\ FirstSeen(p) => h'.out[d] = IF h.out[d] >= e - h.acked[d] THEN h.out[d] ELSE e - h.acked[d]
  <2>1. e \in Int /\ e - h.acked[d] \in Int BY <1>0
  <2>2. /\ Max({h.end[d], e}) = IF h.end[d] >= e THEN h.end[d] ELSE e
        /\ Max({h.out[d], e - h.acked[d]}) = IF h.out[d] >= e - h.acked[d] THEN h.out[d] ELSE e - h.acked[d]
    BY <1>11, <2>1, MaxTwo
  <2> QED BY <1>0, <1>1, <1>11, <2>2
<1>13. ended' = "no" /\ Single(d)' => Acked(d)'
  <2> SUFFICES ASSUME ended' = "no", Single(d)' PROVE Acked(d)' OBVIOUS
  <2>1. tcb[o].ack = Mod(I + h.acked[d]) BY <1>0, <1>3 DEF Tracked, Acked
  <2>2. tcb'[o].ack = Mod(I + h'.acked[d]) BY <1>1, <1>6, <1>7, <2>1
  <2> QED BY <1>0, <2>2 DEF Acked
<1>14. ended' = "no" /\ Single(d)' /\ ~h'.late[d] => Reached(d)'
  <2> SUFFICES ASSUME ended' = "no", Single(d)', ~h'.late[d] PROVE Reached(d)' OBVIOUS
  <2>1. Single(d) /\ ~OutOrder(p) /\ Again(p) = 0 /\ ~(Again(p) > 0) BY <1>2, <1>3, <1>4
  <2>2. h.end[d] <= p.at /\ h.acked[d] <= p.at /\ h'.end[d] = e BY <1>9, <1>12, <2>1
  <2>3. h'.acked[d] <= h'.end[d] BY <1>0, <1>1, <2>2
  <2>4. tcb'[d].seq = Mod(Seq0(p) + p.len) BY <1>7, <2>1
  <2>5. Mod(Seq0(p) + p.len) = Mod(I + e)
    <3>0. p.at + p.len < SeqModulus BY <1>10, <2>1
    <3>1. I + p.at \in Nat /\ (I + p.at) + p.len < 2 * SeqModulus /\ (I + p.at) + p.len = I + e
      <4> HIDE DEF I
      <4> QED BY <1>0, <1>0a, <3>0
    <3>2. Mod(Mod(I + p.at) + p.len) = Mod((I + p.at) + p.len) BY <1>0, <3>1, ModShift
    <3> QED BY <3>1, <3>2 DEF Seq0
  <2>6. tcb'[d].seq = Mod(conf.isn[d] + h'.end[d]) BY <2>2, <2>4, <2>5
  <2> QED BY <1>0, <2>3, <2>6 DEF Reached
<1>15. Counting' /\ Single(d)' /\ h'.out[d] < Half => tcb'[d].cwin_max = h'.out[d]
  <2> SUFFICES ASSUME ended' # "half", Single(d), h'.out[d] < Half PROVE tcb'[d].cwin_max = h'.out[d]
    BY <1>3 DEF Counting
  <2>1. CASE p.rst
    <3>1. h'.out[d] = h.out[d] BY <1>1, <2>1 DEF FirstSeen
    <3>2. tcb[d].cwin_max = h.out[d] BY <1>0, <3>1 DEF Tracked, Counting
    <3> QED BY <1>7, <2>1, <3>1, <3>2
  <2>2. CASE ~p.rst /\ ~FirstSeen(p)
    <3>1. h'.out[d] = h.out[d] BY <1>1, <2>2
    <3>2. tcb[d].cwin_max = h.out[d] BY <1>0, <3>1 DEF Tracked, Counting
    <3>3. ~(~OutOrder(p) /\ Again(p) = 0) BY <2>2 DEF FirstSeen
    <3> QED BY <1>8, <2>2, <3>1, <3>2, <3>3
  <2>3. CASE ~p.rst /\ FirstSeen(p)
    <3>1. ~OutOrder(p) /\ Again(p) = 0 BY <2>3 DEF FirstSeen
    <3>2. h.acked[d] <= p.at /\ e < SeqModulus BY <1>9, <1>10, <3>1
    <3>3. h.out[d] < Half /\ e - h.acked[d] < Half /\ e - h.acked[d] \in Nat
      BY <1>0, <1>0a, <1>11, <1>12, <2>3, <3>2, SMTT(30)
    <3>4. tcb[d].cwin_max = h.out[d] BY <1>0, <3>3 DEF Tracked, Counting
    <3>5. tcb[o].ack = Mod(I + h.acked[d]) BY <1>0 DEF Tracked, Acked
    <3>6. cwin = e - h.acked[d]
      <4>1. Mod(Mod(I + p.at) + p.len - Mod(I + h.acked[d])) = p.at + p.len - h.acked[d]
        BY <1>0, <3>2, ModApartBy, SMTT(30)
      <4> QED BY <1>0, <3>5, <4>1 DEF cwin, Seq0
    <3>7. tcb'[d].cwin_max = IF cwin \in 1 .. Half - 1 /\ cwin > tcb[d].cwin_max THEN cwin ELSE tcb[d].cwin_max
      BY <1>8, <2>3, <3>1
    <3> QED BY <1>0a, <1>11, <1>12, <2>3, <3>3, <3>4, <3>6, <3>7
  <2> QED BY <2>1, <2>2, <2>3
<1>16. ended' = "no" => h'.win[d] # {} BY <1>2, <1>6
<1> QED BY <1>13, <1>14, <1>15, <1>16 DEF Tracked

\* A packet of the other side.
LEMMA TrackedThere ==
  ASSUME FlowState, NEW p, Legal(p), Packet(p), NEW d \in Dirs, Placed(d), Tracked(d), d # p.dir
  PROVE  Tracked(d)'
<1> DEFINE I == conf.isn[d]
<1>0. /\ p.dir \in Dirs /\ p.rst \in BOOLEAN
      /\ conf \in Confs /\ conf' = conf /\ ended = "no"
      /\ h.acked[d] \in Nat /\ HistoryAfter(p, d)
  BY TrackedBase
<1>1. p.dir = Other(d) /\ Other(p.dir) = d BY <1>0, OtherDir
<1>2. /\ h'.syns[d] = h.syns[d] /\ h'.end[d] = h.end[d] /\ h'.out[d] = h.out[d] /\ h'.win[d] = h.win[d]
      /\ h'.acked[d] = Max({h.acked[d], AckOf(p)}) /\ h'.late[d] = h.late[d]
  BY <1>0 DEF HistoryAfter
<1>3. ~h'.back[d] => ~h.back[d] /\ (p.ackset => ~(AckOf(p) < h.acked[d])) BY <1>0 DEF HistoryAfter
<1>4. Single(d)' => Single(d) /\ (p.ackset => ~(AckOf(p) < h.acked[d])) BY <1>2, <1>3 DEF Single
<1>5. AckOf(p) \in Nat BY AckWithin
<1>6. Max({h.acked[d], AckOf(p)}) = IF h.acked[d] >= AckOf(p) THEN h.acked[d] ELSE AckOf(p)
  BY <1>0, <1>5, MaxTwo
<1>7. /\ p.ackset /\ ~(AckOf(p) < h.acked[d]) => h'.acked[d] = p.acks
      /\ ~p.ackset => h'.acked[d] = h.acked[d]
  <2>1. /\ p.ackset => AckOf(p) = p.acks
        /\ ~p.ackset => AckOf(p) = 0
    BY DEF AckOf
  <2> QED BY <1>0, <1>2, <1>5, <1>6, <2>1
<1>8. ended' # "half" => /\ tcb'[d].seq = tcb[d].seq /\ tcb'[d].cwin_max = tcb[d].cwin_max
                         /\ (tcb'[d].cwnd_flag => tcb[d].cwnd_flag /\ ~p.ackset)
  <2> SUFFICES ASSUME ended' # "half"
               PROVE  /\ tcb'[d].seq = tcb[d].seq /\ tcb'[d].cwin_max = tcb[d].cwin_max
                      /\ (tcb'[d].cwnd_flag => tcb[d].cwnd_flag /\ ~p.ackset)
    OBVIOUS
  <2>1. tcb'[d].seq = tcb[d].seq BY PacketTracks
  <2>2. tcb'[d].cwin_max = tcb[d].cwin_max BY <1>0, PacketTracks
  <2>3. tcb'[d].cwnd_flag <=> IF d = p.dir THEN tcb[d].cwnd_flag \/ p.len # 0 \/ Control(p)
                              ELSE tcb[d].cwnd_flag /\ ~p.ackset
    BY PacketFlies
  <2> QED BY <2>1, <2>2, <2>3
<1>9. ended' = "no" => ~p.rst
  <2>1. Shaped(tcb) /\ (p.syn => ~p.fin) BY DEF FlowState, TcbsTyped, Legal, Sensible
  <2>2. PICK b : b = Counted(CountFlags(tcb, p), p) OBVIOUS
  <2> QED BY <1>0, <2>1, <2>2, PacketEffect
<1>10. ended' = "no" => tcb'[Other(d)].ack = IF p.ackset THEN Ack0(p) ELSE tcb[Other(d)].ack
  <2> SUFFICES ASSUME ended' = "no"
               PROVE  tcb'[Other(d)].ack = IF p.ackset THEN Ack0(p) ELSE tcb[Other(d)].ack
    OBVIOUS
  <2>1. Other(d) \in Dirs /\ ended' # "half" /\ ~p.rst BY <1>9, OtherDir
  <2>2. tcb'[Other(d)].ack = IF Other(d) = p.dir THEN IF p.ackset THEN Ack0(p) ELSE tcb[Other(d)].ack
                             ELSE IF p.syn THEN Seq0(p) ELSE tcb[Other(d)].ack
    BY <2>1, PacketTracks
  <2> QED BY <1>1, <2>2
<1>11. Ack0(p) = Mod(I + p.acks) BY <1>1 DEF Ack0
<1>12. ended' = "no" /\ Single(d)' => Acked(d)'
  <2> SUFFICES ASSUME ended' = "no", Single(d)' PROVE Acked(d)' OBVIOUS
  <2>1. tcb[Other(d)].ack = Mod(I + h.acked[d]) BY <1>0, <1>4 DEF Tracked, Acked
  <2>2. tcb'[Other(d)].ack = Mod(I + h'.acked[d]) BY <1>4, <1>7, <1>10, <1>11, <2>1
  <2> QED BY <1>0, <2>2 DEF Acked
<1>13. ended' = "no" /\ Single(d)' /\ ~h'.late[d] => Reached(d)'
  <2> SUFFICES ASSUME ended' = "no", Single(d)', ~h'.late[d] PROVE Reached(d)' OBVIOUS
  <2>1. tcb[d].seq = Mod(I + h.end[d]) /\ (tcb[d].cwnd_flag => h.acked[d] <= h.end[d])
    BY <1>0, <1>2, <1>4 DEF Tracked, Reached
  <2>2. tcb'[d].seq = Mod(I + h'.end[d]) /\ (tcb'[d].cwnd_flag => h'.acked[d] <= h'.end[d])
    BY <1>2, <1>7, <1>8, <2>1
  <2> QED BY <1>0, <2>2 DEF Reached
<1>14. Counting' /\ Single(d)' /\ h'.out[d] < SeqModulus \div 2 => tcb'[d].cwin_max = h'.out[d]
  <2> SUFFICES ASSUME ended' # "half", Single(d)', h.out[d] < SeqModulus \div 2
               PROVE  tcb'[d].cwin_max = h.out[d]
    BY <1>2 DEF Counting
  <2>1. tcb[d].cwin_max = h.out[d] BY <1>0, <1>4 DEF Tracked, Counting
  <2> QED BY <1>8, <2>1
<1>15. ended' = "no" /\ h'.win[d] = {} => tcb'[d].cwin_max = 0 /\ ~tcb'[d].cwnd_flag
  <2> SUFFICES ASSUME ended' = "no", h.win[d] = {} PROVE tcb'[d].cwin_max = 0 /\ ~tcb'[d].cwnd_flag BY <1>2
  <2>1. tcb[d].cwin_max = 0 /\ ~tcb[d].cwnd_flag BY <1>0 DEF Tracked
  <2> QED BY <1>8, <2>1
<1> QED BY <1>12, <1>13, <1>14, <1>15 DEF Tracked

\* Every packet.
LEMMA TrackedStep ==
  ASSUME FlowState, NEW p, Legal(p), Packet(p), NEW d \in Dirs, Placed(d), Tracked(d)
  PROVE  Tracked(d)'
BY TrackedSyn, TrackedHere, TrackedThere DEF Legal, PacketTypes

\* The samples of the flight: none before both sides have sent a packet,
\* and true as long as both streams and their ACKs are in order.
Flown ==
  /\ ended = "no" /\ (\E d \in Dirs : h.win[d] = {}) => flight = None /\ h.flight = None
  /\ Counting /\ (\A d \in Dirs : ~h.late[d] /\ Single(d)) => flight = h.flight

\* A sample is what the stream has sent and its receiver not acknowledged.
LEMMA FlownStep ==
  ASSUME FlowState, NEW p, Legal(p), Packet(p), Flown, \A d \in Dirs : Placed(d) /\ Tracked(d)
  PROVE  Flown'
<1> DEFINE o == Other(p.dir)
           due == p.ackset /\ tcb[o].cwnd_flag
           n == h.end[o] - h.acked[o]
<1>0. p.dir \in Dirs /\ o \in Dirs /\ o # p.dir /\ (\A x \in Dirs : x = p.dir \/ x = o) /\ Other(o) = p.dir
  BY OtherDir DEF Legal, PacketTypes
<1>1. /\ conf \in Confs /\ conf' = conf /\ h' = Remember(p) /\ ended = "no" /\ HistoryShaped
      /\ ended' \in {"no", "half", "reset", "complete"}
  BY PacketCloses DEF FlowState, HistoryTypes, TcbsTyped
<1>2. HistoryAfter(p, p.dir) /\ HistoryAfter(p, o) BY <1>0, <1>1, RememberEffect
<1>3. h'.flight = IF due THEN n ELSE h.flight BY <1>0, <1>1, RememberEffect
<1>4. ended' # "half" => flight' = IF due THEN Mod(tcb[o].seq - tcb[p.dir].ack) ELSE flight BY PacketFlies
<1>5. ended' = "no" => ~p.rst
  <2>1. Shaped(tcb) /\ (p.syn => ~p.fin) BY DEF FlowState, TcbsTyped, Legal, Sensible
  <2>2. PICK b : b = Counted(CountFlags(tcb, p), p) OBVIOUS
  <2> QED BY <1>0, <2>1, <2>2, PacketEffect
<1>6. Placed(o) /\ Tracked(o) /\ Placed(p.dir) BY <1>0
<1> HIDE DEF n, due, o
<1>7. ASSUME ended' = "no", \E d \in Dirs : h'.win[d] = {}
      PROVE  flight' = None /\ h'.flight = None
  <2>1. h'.win[p.dir] # {} /\ h'.win[o] = h.win[o] BY <1>0, <1>2, <1>5, <1>7 DEF HistoryAfter
  <2>2. h.win[o] = {} BY <1>0, <1>7, <2>1
  <2>3. ~due BY <1>1, <1>6, <2>2 DEF Tracked, due
  <2>4. flight = None /\ h.flight = None BY <1>0, <1>1, <2>2 DEF Flown
  <2> QED BY <1>3, <1>4, <1>7, <2>3, <2>4
<1>8. ASSUME ended' # "half", \A d \in Dirs : ~h'.late[d] /\ Single(d)'
      PROVE  flight' = h'.flight
  <2>1. /\ ~h'.late[p.dir] /\ Len(h'.syns[p.dir]) = 1 /\ ~h'.back[p.dir]
        /\ ~h'.late[o] /\ Len(h'.syns[o]) = 1 /\ ~h'.back[o]
    BY <1>0, <1>8 DEF Single
  <2>2. /\ ~h.late[p.dir] /\ ~h.back[p.dir] /\ ~h.late[o] /\ ~h.back[o]
        /\ h'.syns[o] = h.syns[o]
        /\ ~p.syn => h'.syns[p.dir] = h.syns[p.dir]
        /\ p.syn => h.win[p.dir] = {}
    BY <1>0, <1>2, <2>1 DEF HistoryAfter
  <2>3. Single(o) BY <2>1, <2>2 DEF Single
  <2>4. flight = h.flight
    <3>1. CASE p.syn BY <1>0, <1>1, <2>2, <3>1 DEF Flown
    <3>2. CASE ~p.syn
      <4>1. Single(p.dir) BY <2>1, <2>2, <3>2 DEF Single
      <4>2. \A d \in Dirs : ~h.late[d] /\ Single(d) BY <1>0, <2>2, <2>3, <4>1
      <4> QED BY <1>1, <4>2 DEF Flown, Counting
    <3> QED BY <3>1, <3>2
  <2>5. due => Mod(tcb[o].seq - tcb[p.dir].ack) = n
    <3> SUFFICES ASSUME due PROVE Mod(tcb[o].seq - tcb[p.dir].ack) = n OBVIOUS
    <3>1. /\ tcb[o].seq = Mod(conf.isn[o] + h.end[o]) /\ h.acked[o] <= h.end[o]
          /\ tcb[p.dir].ack = Mod(conf.isn[o] + h.acked[o])
      BY <1>0, <1>1, <1>6, <2>2, <2>3 DEF Tracked, Reached, Acked, due
    <3>2. h.end[o] \in Nat /\ h.acked[o] \in Nat /\ h.end[o] < SeqModulus /\ conf.isn[o] \in Positions
      <4>1. /\ conf.total[o] \in Nat /\ conf.total[o] + 2 < SeqModulus /\ conf.isn[o] \in Positions
        BY <1>0, <1>1, ConfOf
      <4>2. h.end[o] \in Nat /\ Within(h.end[o], h.seen[o]) /\ h.seen[o] \in SUBSET (0 .. conf.total[o] + 1)
        <5>1. Len(h.syns[o]) = 1 BY <2>3 DEF Single
        <5>2. Len(h.syns[o]) <= 1 BY <5>1
        <5> QED BY <1>6, <5>2 DEF Placed
      <4>3. h.end[o] <= conf.total[o] + 2 BY <4>1, <4>2, WithinBound
      <4>4. h.acked[o] \in Nat BY <1>0 DEF FlowState, HistoryTypes
      <4> QED BY <4>1, <4>2, <4>3, <4>4, TcpAnalysisAssumption
    <3>3. Mod(Mod(conf.isn[o] + h.end[o]) + 0 - Mod(conf.isn[o] + h.acked[o])) = h.end[o] + 0 - h.acked[o]
      <4>1. 0 \in Nat /\ h.acked[o] <= h.end[o] + 0 /\ h.end[o] + 0 < SeqModulus BY <3>1, <3>2
      <4> QED BY <3>2, <4>1, ModApartBy
    <3>4. Mod(conf.isn[o] + h.end[o]) \in Int /\ Mod(conf.isn[o] + h.acked[o]) \in Int
      BY <3>2, TcpAnalysisAssumption DEF Mod, Positions
    <3>5. /\ Mod(conf.isn[o] + h.end[o]) + 0 - Mod(conf.isn[o] + h.acked[o]) = tcb[o].seq - tcb[p.dir].ack
          /\ h.end[o] + 0 - h.acked[o] = n
      <4>1. \A x, y \in Int : x + 0 - y = x - y OBVIOUS
      <4>2. h.end[o] + 0 - h.acked[o] = n BY <3>2 DEF n
      <4> QED BY <3>1, <3>4, <4>1, <4>2
    <3> QED BY <3>3, <3>5
  <2> QED BY <1>3, <1>4, <1>8, <2>4, <2>5
<1> QED BY <1>7, <1>8 DEF Flown, Counting

\* Both streams are placed and tracked, and their flights known.
FlightInv == (\A d \in Dirs : Placed(d) /\ Tracked(d)) /\ Flown

\* Nothing is on its way at first.
LEMMA FlightInvInit == AnalysisInit => FlightInv
<1> SUFFICES ASSUME AnalysisInit PROVE FlightInv OBVIOUS
<1>1. ASSUME NEW d \in Dirs
      PROVE  /\ h.end[d] = 0 /\ h.out[d] = 0 /\ h.acked[d] = 0 /\ h.seen[d] = {} /\ h.syns[d] = <<>>
             /\ tcb[d].cwin_max = 0
  BY DEF AnalysisInit, NoHistory, Tcb
<1>1a. ASSUME NEW d \in Dirs PROVE ~tcb[d].cwnd_flag BY DEF AnalysisInit, Tcb
<1>2. h.flight = None /\ flight = None BY DEF AnalysisInit, NoHistory
<1>3. ASSUME NEW d \in Dirs PROVE ~Single(d) /\ Len(h.syns[d]) = 0
  <2>1. Len(h.syns[d]) = 0
    <3>1. h.syns[d] = <<>> /\ Len(<<>>) = 0 BY <1>1
    <3> QED BY <3>1
  <2>2. ~(Len(h.syns[d]) = 1) BY <2>1
  <2> QED BY <2>1, <2>2 DEF Single
<1>4. ASSUME NEW d \in Dirs PROVE Placed(d)
  <2>1. Len(h.syns[d]) = 0 /\ ~(Len(h.syns[d]) >= 1) BY <1>3
  <2>2. h.end[d] \in Nat /\ h.out[d] \in Nat /\ Within(h.acked[d], h.seen[d]) /\ Within(h.end[d], h.seen[d])
    <3>1. Within(0, h.seen[d]) BY DEF Within
    <3> QED BY <1>1, <3>1
  <2>3. h.seen[d] \in SUBSET (0 .. conf.total[d] + 1) BY <1>1
  <2> QED BY <1>1, <2>1, <2>2, <2>3 DEF Placed
<1>5. ASSUME NEW d \in Dirs PROVE Tracked(d) BY <1>1, <1>1a, <1>3 DEF Tracked
<1> QED BY <1>2, <1>4, <1>5 DEF FlightInv, Flown

\* Every step keeps it, of a flow in the states of AnalysisInv.
LEMMA FlightInvStep == AnalysisInv /\ FlightInv /\ [AnalysisNext]_analysisVars => FlightInv'
<1> SUFFICES ASSUME AnalysisInv, FlightInv, [AnalysisNext]_analysisVars PROVE FlightInv' OBVIOUS
<1>0. FlowState /\ conf \in Confs /\ Flown /\ (\A x \in Dirs : h.seen[x] \in SUBSET Positions)
      /\ \A d \in Dirs : Placed(d) /\ Tracked(d)
  BY DEF AnalysisInv, FlowState, HistoryTypes, FlightInv
<1>1. ASSUME NEW e \in Dirs, SendSyn(e) \/ SendData(e) \/ SendAck(e) \/ SendFin(e) \/ SendReset(e)
      PROVE  FlightInv'
  <2>1. PICK p : Legal(p) /\ Packet(p) BY <1>0, <1>1, SendLegal
  <2>2. ASSUME NEW d \in Dirs PROVE Placed(d)' /\ Tracked(d)' BY <1>0, <2>1, PlacedStep, TrackedStep
  <2>3. Flown' BY <1>0, <2>1, FlownStep
  <2> QED BY <2>2, <2>3 DEF FlightInv
<1>2. CASE Idle
  <2>1. Differ(tcb', tcb, RateFields) /\ conf' = conf /\ h' = h /\ ended = "no" /\ ended' = "idle" /\ flight' = flight
    BY <1>0, <1>2, IdleStep DEF Idle
  <2>2. ASSUME NEW d \in Dirs PROVE tcb'[d].cwin_max = tcb[d].cwin_max
    BY <2>1 DEF Differ, Fields, Tcb, RateFields, CountFields
  <2>3. ASSUME NEW d \in Dirs PROVE Placed(d)'
    <3>1. Placed(d) BY <1>0
    <3> QED BY <2>1, <3>1 DEF Placed, Within
  <2>4. ASSUME NEW d \in Dirs PROVE Tracked(d)'
    <3>1. Tracked(d) /\ tcb'[d].cwin_max = tcb[d].cwin_max BY <1>0, <2>2
    <3> QED BY <2>1, <3>1 DEF Tracked, Counting, Single
  <2>5. Flown' BY <1>0, <2>1 DEF Flown, Counting, Single
  <2> QED BY <2>3, <2>4, <2>5 DEF FlightInv
<1>3. CASE UNCHANGED analysisVars
  <2>1. conf' = conf /\ tcb' = tcb /\ ended' = ended /\ h' = h /\ flight' = flight BY <1>3 DEF analysisVars
  <2> QED BY <1>0, <2>1 DEF FlightInv, Placed, Within, Tracked, Single, Acked, Reached, Counting, Flown
<1> QED BY <1>1, <1>2, <1>3 DEF AnalysisNext

\* The largest congestion window is the most that was ever on its way at a
\* new packet (CwinTrue), and the sample of the flight what is on its way
\* when an ACK comes (FlightTrue), for any order, repetition or loss of
\* packets that the two properties do not exclude.
THEOREM AnalysisFlight == AnalysisSpec => [](CwinTrue /\ FlightTrue)
<1>1. FlightInv => CwinTrue /\ FlightTrue
  <2> SUFFICES ASSUME FlightInv PROVE CwinTrue /\ FlightTrue OBVIOUS
  <2>1. CwinTrue BY DEF CwinTrue, FlightInv, Tracked, Single
  <2>2. FlightTrue BY DEF FlightTrue, FlightInv, Flown, Single
  <2> QED BY <2>1, <2>2
<1> QED BY <1>1, AnalysisInvInit, AnalysisInvStep, FlightInvInit, FlightInvStep, PTL DEF AnalysisSpec

\* The tcb of d has the options of its SYN, once that has come.
Flag(given, d, kind) == given <=> h.syns[d] # <<>> /\ kind
Agreed(d) ==
  LET o == SynOptions(conf, d)
  IN Counting => /\ Flag(tcb[d].f1323_ws, d, o.ws # Absent)
                 /\ Flag(tcb[d].f1323_ts, d, o.ts) /\ Flag(tcb[d].fsack_req, d, o.sack_req)
                 /\ tcb[d].mss = IF h.syns[d] # <<>> /\ o.mss # Absent THEN o.mss ELSE 0

\* What a packet does to the options, while the flow is not half duplex.
LEMMA PacketOptions ==
  ASSUME FlowState, NEW p, Legal(p), Packet(p), NEW x \in Dirs, ended' # "half"
  PROVE  OptionsTcb(tcb', tcb, p, x)
<1> DEFINE b == Counted(CountFlags(tcb, p), p)
<1>0. Shaped(tcb) BY DEF FlowState, TcbsTyped
<1>1. /\ \A y \in Dirs : OptionsTcb(b, tcb, p, y)
      /\ Differ(tcb', b, RateFields \cup MeasureFields)
  BY <1>0, PacketCounted
<1> HIDE DEF b
<1>2. \A y \in Dirs : /\ tcb'[y].f1323_ws = b[y].f1323_ws /\ tcb'[y].window_scale = b[y].window_scale
                      /\ tcb'[y].mss = b[y].mss /\ tcb'[y].f1323_ts = b[y].f1323_ts
                      /\ tcb'[y].fsack_req = b[y].fsack_req
  BY <1>1 DEF Differ, Fields, Tcb, RateFields, CountFields, MeasureFields
<1> QED BY <1>1, <1>2 DEF OptionsTcb

\* The options of a SYN are taken, and no others come.
LEMMA AgreedStep ==
  ASSUME FlowState, NEW p, Legal(p), Packet(p), NEW d \in Dirs, Agreed(d), ended' # "half"
  PROVE  Agreed(d)'
<1> DEFINE o == SynOptions(conf, d)
<1>0. /\ p.dir \in Dirs /\ p.at \in Nat /\ p.syn \in BOOLEAN /\ HistoryShaped /\ Shaped(tcb)
      /\ p.opts = IF p.syn THEN SynOptions(conf, p.dir) ELSE NoOptions
  BY DEF Legal, PacketTypes, Sensible, FlowState, TcbsTyped, HistoryTypes
<1>1. conf' = conf /\ h' = Remember(p) /\ ended = "no" BY <1>0, PacketCloses
<1>2. HistoryAfter(p, d) BY <1>0, <1>1, RememberEffect
<1>3. h'.syns[d] = IF d = p.dir /\ p.syn THEN Append(h.syns[d], p.at) ELSE h.syns[d] BY <1>2 DEF HistoryAfter
<1>4. OptionsTcb(tcb', tcb, p, d) BY PacketOptions
<1>5. SynOptions(conf', d) = o BY <1>1
<1> HIDE DEF o
<1>6. /\ Flag(tcb[d].f1323_ws, d, o.ws # Absent)
      /\ Flag(tcb[d].f1323_ts, d, o.ts) /\ Flag(tcb[d].fsack_req, d, o.sack_req)
      /\ tcb[d].mss = IF h.syns[d] # <<>> /\ o.mss # Absent THEN o.mss ELSE 0
  BY <1>1 DEF Agreed, Counting, o
<1>7. CASE d = p.dir /\ p.syn
  <2>1. h'.syns[d] # <<>>
    <3>1. h.syns[d] \in Seq(Nat) BY DEF FlowState, HistoryTypes
    <3> QED BY <1>0, <1>3, <1>7, <3>1
  <2>2. p.opts = o BY <1>0, <1>7 DEF o
  <2>3. /\ tcb'[d].f1323_ws = (tcb[d].f1323_ws \/ o.ws # Absent)
        /\ tcb'[d].f1323_ts = (tcb[d].f1323_ts \/ o.ts) /\ tcb'[d].fsack_req = (tcb[d].fsack_req \/ o.sack_req)
    BY <1>4, <1>7, <2>2 DEF OptionsTcb
  <2>4. tcb'[d].mss = IF o.mss # Absent THEN o.mss ELSE tcb[d].mss BY <1>4, <1>7, <2>2 DEF OptionsTcb
  <2>5. /\ tcb'[d].f1323_ws <=> o.ws # Absent
        /\ tcb'[d].f1323_ts <=> o.ts
        /\ tcb'[d].fsack_req <=> o.sack_req
    BY <1>6, <2>3 DEF Flag
  <2>6. tcb'[d].mss = IF o.mss # Absent THEN o.mss ELSE 0 BY <1>6, <2>4
  <2> QED BY <1>5, <2>1, <2>5, <2>6 DEF Agreed, Flag, Counting
<1>8. CASE ~(d = p.dir /\ p.syn)
  <2>1. d = p.dir => p.opts = NoOptions BY <1>0, <1>8
  <2>2. /\ NoOptions.ws = Absent /\ NoOptions.ts = FALSE /\ NoOptions.sack_req = FALSE /\ NoOptions.mss = Absent
    BY DEF NoOptions
  <2>3. tcb'[d].mss = tcb[d].mss BY <1>4, <2>1, <2>2 DEF OptionsTcb
  <2>4. /\ tcb'[d].f1323_ws <=> tcb[d].f1323_ws
        /\ tcb'[d].f1323_ts <=> tcb[d].f1323_ts
        /\ tcb'[d].fsack_req <=> tcb[d].fsack_req
    BY <1>4, <2>1, <2>2 DEF OptionsTcb
  <2>5. h'.syns[d] = h.syns[d] BY <1>3, <1>8
  <2> QED BY <1>5, <1>6, <2>3, <2>4, <2>5 DEF Agreed, Flag, Counting
<1> QED BY <1>7, <1>8

\* What was parsed of the SYN is what was sent in it.
LEMMA ParsedSyn ==
  ASSUME NEW c, OptionsParsed(c), NEW d \in Dirs
  PROVE  LET o == SynOptions(c, d)
             given(kind) == Sent(c.syn[d], Captured(c, d), kind) # <<>>
         IN /\ o.mss # Absent <=> given(MAXSEG)
            /\ o.mss # 0
            /\ o.ws # Absent <=> given(WS)
            /\ o.ws = Scale(c.syn[d], Captured(c, d))
            /\ o.ts <=> given(TS)
            /\ o.sack_req <=> given(SACK_PERM)
<1> DEFINE list == c.syn[d]
           n == Captured(c, d)
           o == SynOptions(c, d)
           given(kind) == Sent(list, n, kind) # <<>>
           w == ParseOptions(SubSeq(Header(list), 1, n), Len(Header(list)))
<1>1. /\ list \in Seq(Seq(0 .. 255)) /\ OptionsFound(list, n)
      /\ Sent(list, n, MAXSEG) # <<>> => SynOptions(c, d).mss \notin {0, Absent}
      /\ Sent(list, n, WS) # <<>> => Scale(list, n) # Absent
  BY DEF OptionsParsed
<1>2. SubSeq(list, 1, Len(list)) = list BY <1>1
<1>3. n = Len(Header(list)) - c.cut BY <1>2 DEF Captured, Upto
<1>4. o = w.found BY <1>3 DEF SynOptions
<1> HIDE DEF n, o, w
<1>5. /\ w.found.ws = Scale(list, n)
      /\ Sent(list, n, MAXSEG) = <<>> => w.found.mss = Absent
      /\ w.found.ts <=> Sent(list, n, TS) # <<>>
      /\ w.found.sack_req <=> Sent(list, n, SACK_PERM) # <<>>
  BY <1>1 DEF OptionsFound, w
<1>6. Sent(list, n, WS) = <<>> => Scale(list, n) = Absent BY DEF Scale
<1>7. o.mss # Absent <=> given(MAXSEG) BY <1>1, <1>4, <1>5 DEF o, n
<1>8. o.mss # 0 BY <1>1, <1>4, <1>5, <1>7 DEF Absent, o, n
<1>9. o.ws = Scale(list, n) /\ (o.ws # Absent <=> given(WS)) BY <1>1, <1>4, <1>5, <1>6 DEF n
<1>10. (o.ts <=> given(TS)) /\ (o.sack_req <=> given(SACK_PERM)) BY <1>4, <1>5
<1> QED BY <1>7, <1>8, <1>9, <1>10 DEF o, n

\* Then the flow keeps the options of its SYNs.
LEMMA AgreedKept ==
  ASSUME OptionsParsed(conf), \A d \in Dirs : Agreed(d)
  PROVE  OptionsKept
<1> SUFFICES ASSUME Counting, NEW d \in Dirs
             PROVE  LET given(kind) == h.syns[d] # <<>> /\ Sent(conf.syn[d], Captured(conf, d), kind) # <<>>
                    IN /\ tcb[d].mss # 0 <=> given(MAXSEG)
                       /\ tcb[d].f1323_ws <=> given(WS)
                       /\ tcb[d].f1323_ts <=> given(TS)
                       /\ tcb[d].fsack_req <=> given(SACK_PERM)
  BY DEF OptionsKept
<1> DEFINE o == SynOptions(conf, d)
           sent(kind) == Sent(conf.syn[d], Captured(conf, d), kind) # <<>>
<1>1. /\ o.mss # Absent <=> sent(MAXSEG)
      /\ o.mss # 0
      /\ o.ws # Absent <=> sent(WS)
      /\ o.ts <=> sent(TS)
      /\ o.sack_req <=> sent(SACK_PERM)
  BY ParsedSyn
<1>2. /\ Flag(tcb[d].f1323_ws, d, o.ws # Absent)
      /\ Flag(tcb[d].f1323_ts, d, o.ts) /\ Flag(tcb[d].fsack_req, d, o.sack_req)
      /\ tcb[d].mss = IF h.syns[d] # <<>> /\ o.mss # Absent THEN o.mss ELSE 0
  BY DEF Agreed
<1> HIDE DEF o, sent
<1>3. tcb[d].mss # 0 <=> h.syns[d] # <<>> /\ sent(MAXSEG) BY <1>1, <1>2
<1>4. /\ tcb[d].f1323_ws <=> h.syns[d] # <<>> /\ sent(WS)
      /\ tcb[d].f1323_ts <=> h.syns[d] # <<>> /\ sent(TS)
      /\ tcb[d].fsack_req <=> h.syns[d] # <<>> /\ sent(SACK_PERM)
  BY <1>1, <1>2 DEF Flag
<1> QED BY <1>3, <1>4 DEF sent

\* The scale that d asked for, and the window that was meant by one of its
\* packets.
Asked(d) == SynOptions(conf, d).ws
BothAsked == \A x \in Dirs : Asked(x) # Absent
Meaning(w, d) == IF w.syn \/ ~BothAsked THEN w.win ELSE w.win * 2 ^ Asked(d)

\* n is the greatest window in W that was meant, or nothing was.
Greatest(n, W, d) ==
  /\ \A w \in W : Meaning(w, d) \in Nat /\ Meaning(w, d) <= n
  /\ IF W = {} THEN n = 0 ELSE \E w \in W : Meaning(w, d) = n

\* One more window.
LEMMA GreatestOf ==
  ASSUME NEW n \in Nat, NEW W, NEW d, Greatest(n, W, d), NEW w, Meaning(w, d) \in Nat,
         NEW m, m = IF Meaning(w, d) > n THEN Meaning(w, d) ELSE n
  PROVE  Greatest(m, W \cup {w}, d)
<1> DEFINE e == Meaning(w, d)
<1>1. e \in Nat /\ m = IF e > n THEN e ELSE n OBVIOUS
<1>2. \A v \in W : Meaning(v, d) \in Nat /\ Meaning(v, d) <= n BY DEF Greatest
<1>3. \A v \in W \cup {w} : Meaning(v, d) \in Nat /\ Meaning(v, d) <= m
  <2> SUFFICES ASSUME NEW v \in W \cup {w} PROVE Meaning(v, d) \in Nat /\ Meaning(v, d) <= m OBVIOUS
  <2>1. CASE v \in W
    <3>1. Meaning(v, d) \in Nat /\ Meaning(v, d) <= n BY <1>2, <2>1
    <3> HIDE DEF e
    <3> QED BY <1>1, <3>1
  <2>2. CASE v = w BY <1>1, <2>2
  <2> QED BY <2>1, <2>2
<1>4. \E v \in W \cup {w} : Meaning(v, d) = m
  <2>1. CASE e > n BY <1>1, <2>1
  <2>2. CASE ~(e > n) /\ W # {} BY <1>1, <2>2 DEF Greatest
  <2>3. CASE ~(e > n) /\ W = {}
    <3>1. n = 0 BY <2>3 DEF Greatest
    <3>2. e = m BY <1>1, <2>3, <3>1
    <3> QED BY <3>2
  <2> QED BY <2>1, <2>2, <2>3
<1> QED BY <1>3, <1>4 DEF Greatest

\* The greatest is the maximum.
LEMMA GreatestMax ==
  ASSUME NEW n, NEW W, NEW d, Greatest(n, W, d), W # {}
  PROVE  n = Max({Meaning(w, d) : w \in W})
<1> DEFINE S == {Meaning(w, d) : w \in W}
<1>1. n \in S /\ n \in Nat /\ \A y \in S : y \in Nat /\ n >= y BY DEF Greatest
<1> HIDE DEF S
<1>2. Max(S) \in S /\ \A y \in S : Max(S) >= y BY <1>1 DEF Max
<1>3. n = Max(S)
  <2> DEFINE m == Max(S)
  <2>1. m \in Nat /\ n >= m /\ m >= n BY <1>1, <1>2
  <2> HIDE DEF m
  <2>2. n = m BY <1>1, <2>1
  <2> QED BY <2>2 DEF m
<1> QED BY <1>3 DEF S

\* What a packet does to the window and its scale, while the flow is not
\* half duplex.
LEMMA PacketWindows ==
  ASSUME FlowState, NEW p, Legal(p), Packet(p), NEW x \in Dirs, ended' # "half"
  PROVE  /\ LET eff == IF \A y \in Dirs : tcb[y].f1323_ws
                       THEN p.win * 2 ^ tcb[p.dir].window_scale ELSE p.win
            IN tcb'[x].win_max = IF x = p.dir /\ ~p.rst /\ eff > tcb[x].win_max THEN eff ELSE tcb[x].win_max
         /\ p.syn => tcb'[x].window_scale = IF x = p.dir /\ Asked(x) # Absent THEN Asked(x)
                                            ELSE tcb[x].window_scale
         /\ ~p.syn /\ (\A y \in Dirs : tcb[y].f1323_ws) => tcb'[x].window_scale = tcb[x].window_scale
<1> DEFINE a == CountFlags(tcb, p)
           b == Counted(a, p)
           eff == EffWin(a, p)
           c == Measured(b, p, eff)
           value == IF \A y \in Dirs : tcb[y].f1323_ws THEN p.win * 2 ^ tcb[p.dir].window_scale ELSE p.win
<1>0. /\ Shaped(tcb) /\ p.dir \in Dirs /\ (p.syn => ~p.fin) /\ (p.ackset \/ p.syn)
      /\ p.opts = IF p.syn THEN SynOptions(conf, p.dir) ELSE NoOptions
  BY DEF Legal, PacketTypes, Sensible, FlowState, TcbsTyped
<1>1. /\ Shaped(b)
      /\ Differ(b, tcb, CountFields)
  BY <1>0, PacketCounted
<1>2. \/ p.rst /\ Differ(tcb', b, RateFields)
      \/ ~p.rst /\ Differ(tcb', c, RateFields)
  BY <1>0, PacketEffect
<1>3. (\A y \in Dirs : MeasuredTcb(c, b, p, eff, y)) /\ Differ(c, b, MeasureFields)
  BY <1>0, <1>1, MeasuredEffect DEF MeasureFields
<1>4. eff = value
  <2>1. \A y \in Dirs : a[y].f1323_ws = tcb[y].f1323_ws /\ a[y].window_scale = tcb[y].window_scale
    <3>1. Differ(a, tcb, {"syn_count", "fin_count", "reset_count", "fin_seqno"}) BY <1>0, CountFlagsEffect
    <3> HIDE DEF a
    <3> QED BY <3>1 DEF Differ, Fields, Tcb
  <2> HIDE DEF a
  <2> QED BY <1>0, <2>1 DEF EffWin
<1> HIDE DEF a, b, c, eff, value
<1>5. b[x].win_max = tcb[x].win_max BY <1>1 DEF Differ, Fields, Tcb, RateFields, CountFields
<1>6. tcb'[x].win_max = IF x = p.dir /\ ~p.rst /\ value > tcb[x].win_max THEN value ELSE tcb[x].win_max
  <2>1. CASE p.rst /\ Differ(tcb', b, RateFields) BY <1>5, <2>1 DEF Differ, Fields, Tcb, RateFields, CountFields
  <2>2. CASE ~p.rst /\ Differ(tcb', c, RateFields)
    <3>1. tcb'[x].win_max = c[x].win_max BY <2>2 DEF Differ, Fields, Tcb, RateFields, CountFields
    <3>2. MeasuredTcb(c, b, p, eff, x) BY <1>3
    <3>3. c[x].win_max = IF x = p.dir /\ (p.ackset \/ p.syn) /\ eff > b[x].win_max THEN eff ELSE b[x].win_max
      BY <3>2, Zenon DEF MeasuredTcb
    <3> QED BY <1>0, <1>4, <1>5, <2>2, <3>1, <3>3
  <2> QED BY <1>2, <2>1, <2>2
<1>7. \A y \in Dirs : OptionsTcb(tcb', tcb, p, y) BY PacketOptions
<1>8. tcb'[x].window_scale = IF ~p.syn /\ \E y \in Dirs : ~tcb'[y].f1323_ws THEN 0
                             ELSE IF x = p.dir /\ p.opts.ws # Absent THEN p.opts.ws ELSE tcb[x].window_scale
  BY <1>7, Zenon DEF OptionsTcb
<1>9. p.syn => tcb'[x].window_scale = IF x = p.dir /\ Asked(x) # Absent THEN Asked(x) ELSE tcb[x].window_scale
  BY <1>0, <1>8 DEF Asked
<1>10. ~p.syn /\ (\A y \in Dirs : tcb[y].f1323_ws) => tcb'[x].window_scale = tcb[x].window_scale
  <2> SUFFICES ASSUME ~p.syn, \A y \in Dirs : tcb[y].f1323_ws
               PROVE  tcb'[x].window_scale = tcb[x].window_scale
    OBVIOUS
  <2>1. p.opts.ws = Absent BY <1>0 DEF NoOptions
  <2>2. \A y \in Dirs : tcb'[y].f1323_ws BY <1>7 DEF OptionsTcb
  <2> QED BY <1>8, <2>1, <2>2
<1> QED BY <1>6, <1>9, <1>10 DEF value

\* The flow starts with the SYN of the client, and the client is alone
\* until the server answers.
Opened ==
  /\ h.syns["c2s"] = <<>> => h.seen["c2s"] = {} /\ \A d \in Dirs : h.win[d] = {} /\ h.syns[d] = <<>>
  /\ \A d \in Dirs : h.syns[d] # <<>> => h.win[d] # {}
  /\ ended = "no" => \A d \in Dirs : h.win[d] = {} => tcb[d].win_max = 0

Begun == Len(h.syns["c2s"]) = 1 /\ h.win["s2c"] = {}
Whole == \A d \in Dirs : Single(d)

\* The scales are those of the SYNs, and the largest windows those that
\* were meant.
Scaled ==
  /\ ended = "no" /\ Begun /\ Asked("c2s") # Absent => tcb["c2s"].window_scale = Asked("c2s")
  /\ ended = "no" /\ Whole /\ BothAsked => \A d \in Dirs : tcb[d].window_scale = Asked(d)
Largest(d) == Greatest(tcb[d].win_max, h.win[d], d)
WindowsMeant ==
  /\ ended = "no" /\ Begun => Largest("c2s")
  /\ Counting /\ Whole => \A d \in Dirs : Largest(d)

WindowInv == Opened /\ Scaled /\ WindowsMeant /\ \A d \in Dirs : FlagsCounted(d) /\ (Counting => Agreed(d))

\* A window that was meant is a number.
LEMMA MeaningType ==
  ASSUME conf \in Confs, NEW d \in Dirs, NEW w, w.win \in conf.wins \cup {1}
  PROVE  Meaning(w, d) \in Nat
<1>1. w.win \in Nat BY ConfOf
<1>2. BothAsked => w.win * 2 ^ Asked(d) \in Nat
  <2> SUFFICES ASSUME BothAsked PROVE w.win * 2 ^ Asked(d) \in Nat OBVIOUS
  <2>1. \A v \in conf.wins \cup {1} :
           \A n \in {0, SynOptions(conf, d).ws} \ {Absent} : v * 2 ^ n \in Nat
    BY ConfOf
  <2>2. SynOptions(conf, d).ws \in {0, SynOptions(conf, d).ws} \ {Absent} BY DEF BothAsked, Asked
  <2>3. w.win * 2 ^ SynOptions(conf, d).ws \in Nat BY <2>1, <2>2
  <2> QED BY <2>3 DEF Asked
<1> QED BY <1>1, <1>2 DEF Meaning

\* What the steps of a packet have in common.
LEMMA WindowBase ==
  ASSUME FlowState, NEW p, Legal(p), Packet(p), WindowInv
  PROVE  /\ p.dir \in Dirs /\ p.syn \in BOOLEAN /\ p.rst \in BOOLEAN /\ p.at \in Nat
         /\ conf \in Confs /\ conf' = conf /\ ended = "no"
         /\ p.win \in conf.wins \cup {1} /\ (p.syn => ~p.rst /\ p.win = 1)
         /\ h.seen["c2s"] # {} \/ (p.dir = "c2s" /\ p.syn)
         /\ (ended' = "no" => ~p.rst)
         /\ \A x \in Dirs :
              /\ h.syns[x] \in Seq(Nat)
              /\ h'.syns[x] = IF x = p.dir /\ p.syn THEN Append(h.syns[x], p.at) ELSE h.syns[x]
              /\ h'.win[x] = IF x = p.dir /\ ~p.rst THEN h.win[x] \cup {[win |-> p.win, syn |-> p.syn]} ELSE h.win[x]
              /\ h'.back[x] = IF x = p.dir THEN h.back[x] \/ (p.syn /\ (h.acked[x] > 0 \/ h.win[x] # {}))
                              ELSE h.back[x] \/ (p.ackset /\ AckOf(p) < h.acked[x])
<1>0. /\ p.dir \in Dirs /\ p.syn \in BOOLEAN /\ p.rst \in BOOLEAN /\ p.at \in Nat
      /\ conf \in Confs /\ p.win \in conf.wins \cup {1} /\ (p.syn => ~p.rst /\ p.win = 1)
      /\ Shaped(tcb) /\ HistoryShaped /\ (p.syn => ~p.fin)
  BY DEF Legal, PacketTypes, Sensible, FlowState, TcbsTyped, HistoryTypes
<1>1. conf' = conf /\ h' = Remember(p) /\ ended = "no" BY <1>0, PacketCloses
<1>2. \A x \in Dirs : HistoryAfter(p, x) BY <1>0, <1>1, RememberEffect
<1>3. \A x \in Dirs : h.syns[x] \in Seq(Nat) BY DEF FlowState, HistoryTypes
<1>4. h.seen["c2s"] # {} \/ (p.dir = "c2s" /\ p.syn) BY DEF Packet
<1>5. ended' = "no" => ~p.rst
  <2>1. PICK b : b = Counted(CountFlags(tcb, p), p) OBVIOUS
  <2> QED BY <1>0, <2>1, PacketEffect
<1>6. \A x \in Dirs :
        /\ h'.syns[x] = IF x = p.dir /\ p.syn THEN Append(h.syns[x], p.at) ELSE h.syns[x]
        /\ h'.win[x] = IF x = p.dir /\ ~p.rst THEN h.win[x] \cup {[win |-> p.win, syn |-> p.syn]} ELSE h.win[x]
        /\ h'.back[x] = IF x = p.dir THEN h.back[x] \/ (p.syn /\ (h.acked[x] > 0 \/ h.win[x] # {}))
                        ELSE h.back[x] \/ (p.ackset /\ AckOf(p) < h.acked[x])
  BY <1>2 DEF HistoryAfter
<1> QED BY <1>0, <1>1, <1>3, <1>4, <1>5, <1>6

\* A packet that is not half duplex comes after the SYNs.
LEMMA ServerKnown ==
  ASSUME FlowState, NEW p, Legal(p), Packet(p), FlagsCounted("s2c"), ended' # "half", p.dir = "c2s", ~p.syn
  PROVE  h.syns["s2c"] # <<>>
<1>1. ~HalfDuplex(CountFlags(tcb, p), p)
  <2>1. HalfDuplex(CountFlags(tcb, p), p) => ended' = "half" BY DEF Packet, EndFlow
  <2> QED BY <2>1
<1>2. CountFlags(tcb, p)["s2c"].syn_count = tcb["s2c"].syn_count
  <2>1. p.dir \in Dirs /\ Shaped(tcb) /\ "s2c" \in Dirs BY DEF Legal, PacketTypes, FlowState, TcbsTyped, Dirs
  <2>2. \A x \in Dirs : CountFlags(tcb, p)[x].syn_count =
           IF x = p.dir THEN tcb[x].syn_count + One(p.syn) ELSE tcb[x].syn_count
    BY <2>1, CountFlagsEffect
  <2> QED BY <2>1, <2>2
<1>3. tcb["s2c"].syn_count # 0 BY <1>1, <1>2 DEF HalfDuplex
<1>4. Len(h.syns["s2c"]) # 0 BY <1>3 DEF FlagsCounted
<1> QED BY <1>4

\* A SYN makes the number of SYNs one more.
LEMMA OneSyn ==
  ASSUME NEW s \in Seq(Nat), NEW n \in Nat
  PROVE  Append(s, n) # <<>> /\ (Len(Append(s, n)) = 1 => s = <<>>)
<1>1. Len(Append(s, n)) = Len(s) + 1 /\ Len(s) \in Nat BY AppendLast
<1>2. Len(s) = 0 => s = <<>> OBVIOUS
<1> QED BY <1>1, <1>2

\* The first packet is the SYN of the client.
LEMMA OpenedStep ==
  ASSUME FlowState, NEW p, Legal(p), Packet(p), WindowInv
  PROVE  Opened'
<1>0. /\ p.dir \in Dirs /\ p.syn \in BOOLEAN /\ p.rst \in BOOLEAN /\ p.at \in Nat
      /\ ended = "no" /\ (p.syn => ~p.rst)
      /\ h.seen["c2s"] # {} \/ (p.dir = "c2s" /\ p.syn)
      /\ (ended' = "no" => ~p.rst)
      /\ \A x \in Dirs :
              /\ h.syns[x] \in Seq(Nat)
              /\ h'.syns[x] = IF x = p.dir /\ p.syn THEN Append(h.syns[x], p.at) ELSE h.syns[x]
              /\ h'.win[x] = IF x = p.dir /\ ~p.rst THEN h.win[x] \cup {[win |-> p.win, syn |-> p.syn]} ELSE h.win[x]
  BY WindowBase
<1>1. /\ h.syns["c2s"] = <<>> => h.seen["c2s"] = {}
      /\ \A d \in Dirs : h.syns[d] # <<>> => h.win[d] # {}
      /\ \A d \in Dirs : h.win[d] = {} => tcb[d].win_max = 0
  BY <1>0 DEF WindowInv, Opened
<1>2. h'.syns["c2s"] # <<>>
  <2>1. "c2s" \in Dirs BY DEF Dirs
  <2>2. CASE p.dir = "c2s" /\ p.syn
    <3>1. h'.syns["c2s"] = Append(h.syns["c2s"], p.at) /\ h.syns["c2s"] \in Seq(Nat) /\ p.at \in Nat
      BY <1>0, <2>1, <2>2
    <3> QED BY <3>1, OneSyn
  <2>3. CASE ~(p.dir = "c2s" /\ p.syn) BY <1>0, <1>1, <2>1, <2>3
  <2> QED BY <2>2, <2>3
<1>3. ASSUME NEW d \in Dirs, h'.syns[d] # <<>> PROVE h'.win[d] # {} BY <1>0, <1>1, <1>3
<1>4. ASSUME NEW d \in Dirs, ended' = "no", h'.win[d] = {} PROVE tcb'[d].win_max = 0
  <2>1. d # p.dir /\ h.win[d] = {} BY <1>0, <1>4
  <2>2. tcb'[d].win_max = tcb[d].win_max BY <1>4, <2>1, PacketWindows
  <2> QED BY <1>1, <2>1, <2>2
<1> QED BY <1>2, <1>3, <1>4 DEF Opened

\* Only the SYN of the client makes it wait for the answer,
LEMMA BegunStep ==
  ASSUME FlowState, NEW p, Legal(p), Packet(p), WindowInv
  PROVE  ended' = "no" /\ Begun' => p.dir = "c2s" /\ p.syn /\ h.syns["c2s"] = <<>>
<1>0. /\ p.dir \in Dirs /\ p.syn \in BOOLEAN /\ p.rst \in BOOLEAN /\ p.at \in Nat
      /\ ended = "no" /\ (p.syn => ~p.rst) /\ (ended' = "no" => ~p.rst)
      /\ \A x \in Dirs :
              /\ h.syns[x] \in Seq(Nat)
              /\ h'.syns[x] = IF x = p.dir /\ p.syn THEN Append(h.syns[x], p.at) ELSE h.syns[x]
              /\ h'.win[x] = IF x = p.dir /\ ~p.rst THEN h.win[x] \cup {[win |-> p.win, syn |-> p.syn]} ELSE h.win[x]
  BY WindowBase
<1> SUFFICES ASSUME ended' = "no", Begun'
             PROVE  p.dir = "c2s" /\ p.syn /\ h.syns["c2s"] = <<>>
  OBVIOUS
<1>1. "c2s" \in Dirs /\ "s2c" \in Dirs /\ Len(h'.syns["c2s"]) = 1 /\ h'.win["s2c"] = {} BY DEF Begun, Dirs
<1>2. p.dir = "c2s" /\ h.win["s2c"] = {}
  <2>1. ~p.rst BY <1>0
  <2> QED BY <1>0, <1>1, <2>1 DEF Dirs
<1>3. p.syn
  <2> SUFFICES ASSUME ~p.syn PROVE FALSE BY <1>0
  <2>1. h.syns["s2c"] # <<>> BY <1>2, ServerKnown DEF WindowInv, Dirs
  <2> QED BY <1>1, <1>2, <2>1 DEF WindowInv, Opened
<1>4. Len(Append(h.syns["c2s"], p.at)) = 1 BY <1>0, <1>1, <1>2, <1>3
<1> QED BY <1>0, <1>1, <1>2, <1>3, <1>4, OneSyn

\* and only that of the server completes the two.
LEMMA WholeStep ==
  ASSUME FlowState, NEW p, Legal(p), Packet(p), WindowInv, Whole'
  PROVE  \/ ~p.syn /\ Whole
         \/ p.syn /\ p.dir = "s2c" /\ Begun /\ h.syns["s2c"] = <<>>
<1>0. /\ p.dir \in Dirs /\ p.syn \in BOOLEAN /\ p.at \in Nat
      /\ \A x \in Dirs :
              /\ h.syns[x] \in Seq(Nat)
              /\ h'.syns[x] = IF x = p.dir /\ p.syn THEN Append(h.syns[x], p.at) ELSE h.syns[x]
              /\ h'.back[x] = IF x = p.dir THEN h.back[x] \/ (p.syn /\ (h.acked[x] > 0 \/ h.win[x] # {}))
                              ELSE h.back[x] \/ (p.ackset /\ AckOf(p) < h.acked[x])
  BY WindowBase
<1>1. "c2s" \in Dirs /\ "s2c" \in Dirs BY DEF Dirs
<1>2. \A x \in Dirs : Len(h'.syns[x]) = 1 /\ ~h'.back[x] BY DEF Whole, Single
<1>3. \A x \in Dirs : ~h.back[x] BY <1>0, <1>2
<1>4. CASE ~p.syn
  <2>1. \A x \in Dirs : Len(h.syns[x]) = 1 BY <1>0, <1>2, <1>4
  <2> QED BY <1>3, <1>4, <2>1 DEF Whole, Single
<1>5. CASE p.syn /\ p.dir = "c2s"
  <2>1. Len(Append(h.syns["c2s"], p.at)) = 1 BY <1>0, <1>1, <1>2, <1>5, ZenonT(60)
  <2>2. h.syns["c2s"] = <<>> BY <1>0, <1>1, <2>1, OneSyn
  <2>3. h.syns["s2c"] = <<>> BY <1>1, <2>2 DEF WindowInv, Opened
  <2>4. h'.syns["s2c"] = h.syns["s2c"] BY <1>0, <1>1, <1>5
  <2>5. Len(h'.syns["s2c"]) = 0 BY <2>3, <2>4
  <2> QED BY <1>1, <1>2, <2>5
<1>6. CASE p.syn /\ p.dir = "s2c"
  <2>1. h.win["s2c"] = {} BY <1>0, <1>1, <1>2, <1>6
  <2>2. h.syns["s2c"] = <<>> BY <1>1, <2>1 DEF WindowInv, Opened
  <2>3. h'.syns["c2s"] = h.syns["c2s"] BY <1>0, <1>1, <1>6
  <2>4. Len(h.syns["c2s"]) = 1 BY <1>1, <1>2, <2>3
  <2> QED BY <1>6, <2>1, <2>2, <2>4 DEF Begun
<1> QED BY <1>0, <1>4, <1>5, <1>6 DEF Dirs

\* The scale of each SYN is kept.
LEMMA ScaledStep ==
  ASSUME FlowState, NEW p, Legal(p), Packet(p), WindowInv
  PROVE  Scaled'
<1>0. /\ p.dir \in Dirs /\ conf' = conf /\ ended = "no" BY WindowBase
<1>1. \A x \in Dirs : Asked(x)' = Asked(x) BY <1>0 DEF Asked
<1>2. BothAsked' <=> BothAsked BY <1>1 DEF BothAsked
<1>3. "c2s" \in Dirs /\ "s2c" \in Dirs /\ Dirs = {"c2s", "s2c"} BY DEF Dirs
<1>4. ASSUME ended' = "no", Begun', Asked("c2s") # Absent
      PROVE  tcb'["c2s"].window_scale = Asked("c2s")
  <2>1. p.dir = "c2s" /\ p.syn BY <1>4, BegunStep
  <2> QED BY <1>3, <1>4, <2>1, PacketWindows
<1>5. ASSUME ended' = "no", Whole', BothAsked, NEW d \in Dirs
      PROVE  tcb'[d].window_scale = Asked(d)
  <2>1. Asked(d) # Absent /\ Asked("c2s") # Absent BY <1>3, <1>5 DEF BothAsked
  <2>2. CASE ~p.syn /\ Whole
    <3>1. tcb[d].window_scale = Asked(d) BY <1>0, <1>5, <2>2 DEF WindowInv, Scaled
    <3>2. \A y \in Dirs : tcb[y].f1323_ws
      <4> SUFFICES ASSUME NEW y \in Dirs PROVE tcb[y].f1323_ws OBVIOUS
      <4>1. Agreed(y) BY <1>0 DEF WindowInv, Counting
      <4>2. h.syns[y] # <<>>
        <5>1. Len(h.syns[y]) = 1 BY <2>2 DEF Whole, Single
        <5> QED BY <5>1
      <4>3. SynOptions(conf, y).ws # Absent BY <1>5 DEF BothAsked, Asked
      <4> QED BY <1>0, <4>1, <4>2, <4>3 DEF Agreed, Flag, Counting
    <3>3. tcb'[d].window_scale = tcb[d].window_scale BY <1>5, <2>2, <3>2, PacketWindows
    <3> QED BY <3>1, <3>3
  <2>3. CASE p.syn /\ p.dir = "s2c" /\ Begun
    <3>1. tcb'[d].window_scale = IF d = p.dir /\ Asked(d) # Absent THEN Asked(d) ELSE tcb[d].window_scale
      BY <1>5, <2>3, PacketWindows
    <3>2. tcb["c2s"].window_scale = Asked("c2s") BY <1>0, <2>1, <2>3 DEF WindowInv, Scaled
    <3> QED BY <1>3, <2>1, <2>3, <3>1, <3>2
  <2> QED BY <1>5, <2>2, <2>3, WholeStep
<1> QED BY <1>1, <1>2, <1>3, <1>4, <1>5 DEF Scaled

\* A window of d that does not change is still the largest.
LEMMA LargestKept ==
  ASSUME NEW d \in Dirs, Largest(d), conf' = conf, tcb'[d].win_max = tcb[d].win_max, h'.win[d] = h.win[d]
  PROVE  Largest(d)'
BY DEF Largest, Greatest, Meaning, BothAsked, Asked

\* A packet of d advertises what it means.
LEMMA LargestMore ==
  ASSUME conf \in Confs, conf' = conf, NEW d \in Dirs, Largest(d), tcb[d].win_max \in Nat,
         NEW w, w.win \in conf.wins \cup {1}, h'.win[d] = h.win[d] \cup {w},
         NEW eff, eff = Meaning(w, d), tcb'[d].win_max = IF eff > tcb[d].win_max THEN eff ELSE tcb[d].win_max
  PROVE  Largest(d)'
<1>1. Meaning(w, d) \in Nat BY MeaningType
<1>2. Greatest(tcb'[d].win_max, h.win[d] \cup {w}, d)
  <2>1. Greatest(tcb[d].win_max, h.win[d], d) BY DEF Largest
  <2>2. tcb'[d].win_max = IF Meaning(w, d) > tcb[d].win_max THEN Meaning(w, d) ELSE tcb[d].win_max OBVIOUS
  <2> QED BY <1>1, <2>1, <2>2, GreatestOf
<1>3. Greatest(tcb'[d].win_max, h'.win[d], d) BY <1>2
<1> QED BY <1>3 DEF Largest, Greatest, Meaning, BothAsked, Asked

\* The windows are known as they were meant.
LEMMA MeantStep ==
  ASSUME FlowState, NEW p, Legal(p), Packet(p), WindowInv
  PROVE  WindowsMeant'
<1> DEFINE w == [win |-> p.win, syn |-> p.syn]
<1>0. /\ p.dir \in Dirs /\ p.syn \in BOOLEAN /\ p.rst \in BOOLEAN /\ p.at \in Nat
      /\ conf \in Confs /\ conf' = conf /\ ended = "no"
      /\ p.win \in conf.wins \cup {1} /\ (p.syn => ~p.rst /\ p.win = 1)
      /\ \A x \in Dirs :
              /\ h.syns[x] \in Seq(Nat)
              /\ h'.win[x] = IF x = p.dir /\ ~p.rst THEN h.win[x] \cup {[win |-> p.win, syn |-> p.syn]} ELSE h.win[x]
  BY WindowBase
<1>1. "c2s" \in Dirs /\ "s2c" \in Dirs /\ Dirs = {"c2s", "s2c"} BY DEF Dirs
<1>2. w.win = p.win /\ w.syn = p.syn OBVIOUS
<1>3. \A x \in Dirs : tcb[x].win_max \in Nat BY DEF FlowState, TcbsTyped, TcbTypes
<1>4. \A x \in Dirs : /\ h'.win[x] = IF x = p.dir /\ ~p.rst THEN h.win[x] \cup {w} ELSE h.win[x]
                      /\ Agreed(x)
                      /\ h.win[x] = {} => tcb[x].win_max = 0 /\ h.syns[x] = <<>>
  BY <1>0 DEF WindowInv, Opened, Counting
<1> HIDE DEF w
<1>5. ASSUME NEW d \in Dirs, p.syn, d = p.dir, h.syns[d] = <<>>, h.win[d] = {}, ended' # "half"
      PROVE  Largest(d)'
  <2>1. ~tcb[d].f1323_ws BY <1>0, <1>4, <1>5 DEF Agreed, Flag, Counting
  <2>2. ~(\A y \in Dirs : tcb[y].f1323_ws) BY <2>1
  <2>3. tcb'[d].win_max = IF p.win > tcb[d].win_max THEN p.win ELSE tcb[d].win_max
    BY <1>0, <1>5, <2>2, PacketWindows
  <2>4. Meaning(w, d) = p.win BY <1>2, <1>5 DEF Meaning
  <2>5. Largest(d) BY <1>4, <1>5 DEF Largest, Greatest
  <2>6. h'.win[d] = h.win[d] \cup {w} BY <1>0, <1>4, <1>5
  <2>7. w.win \in conf.wins \cup {1} BY <1>0, <1>2
  <2> QED BY <1>0, <1>3, <2>3, <2>4, <2>5, <2>6, <2>7, LargestMore
<1>6. ASSUME ended' = "no", Begun'
      PROVE  Largest("c2s")'
  <2>1. p.dir = "c2s" /\ p.syn /\ h.syns["c2s"] = <<>> BY <1>6, BegunStep
  <2>2. h.win["c2s"] = {} BY <1>1, <2>1 DEF WindowInv, Opened
  <2> QED BY <1>1, <1>5, <1>6, <2>1, <2>2
<1>7. ASSUME ended' # "half", Whole', NEW d \in Dirs
      PROVE  Largest(d)'
  <2>1. CASE ~p.syn /\ Whole
    <3>1. Largest(d) BY <1>0, <2>1 DEF WindowInv, WindowsMeant, Counting
    <3>2. CASE d = p.dir /\ ~p.rst
      <4> DEFINE scaled == \A y \in Dirs : tcb[y].f1323_ws
                 eff == IF scaled THEN p.win * 2 ^ tcb[d].window_scale ELSE p.win
      <4>1. scaled <=> BothAsked
        <5>1. ASSUME NEW y \in Dirs PROVE tcb[y].f1323_ws <=> Asked(y) # Absent
          <6>1. Agreed(y) BY <1>4
          <6>2. h.syns[y] # <<>>
            <7>1. Len(h.syns[y]) = 1 BY <2>1 DEF Whole, Single
            <7> QED BY <7>1
          <6> QED BY <1>0, <6>1, <6>2 DEF Agreed, Flag, Counting, Asked
        <5> QED BY <5>1 DEF BothAsked
      <4>2. BothAsked => tcb[d].window_scale = Asked(d) BY <1>0, <2>1 DEF WindowInv, Scaled
      <4>3. tcb'[d].win_max = IF eff > tcb[d].win_max THEN eff ELSE tcb[d].win_max
        BY <1>7, <3>2, PacketWindows
      <4> HIDE DEF scaled
      <4>4. eff = Meaning(w, d) BY <1>2, <2>1, <4>1, <4>2 DEF Meaning
      <4> HIDE DEF eff
      <4>5. h'.win[d] = h.win[d] \cup {w} BY <1>4, <3>2
      <4>6. w.win \in conf.wins \cup {1} BY <1>0, <1>2
      <4> QED BY <1>0, <1>3, <3>1, <4>3, <4>4, <4>5, <4>6, LargestMore
    <3>3. CASE ~(d = p.dir /\ ~p.rst)
      <4>1. tcb'[d].win_max = tcb[d].win_max BY <1>7, <3>3, PacketWindows
      <4>2. h'.win[d] = h.win[d] BY <1>4, <3>3
      <4> QED BY <1>0, <3>1, <4>1, <4>2, LargestKept
    <3> QED BY <3>2, <3>3
  <2>2. CASE p.syn /\ p.dir = "s2c" /\ Begun /\ h.syns["s2c"] = <<>>
    <3>1. CASE d = "s2c"
      <4>1. h.win[d] = {} BY <2>2, <3>1 DEF Begun
      <4> QED BY <1>5, <1>7, <2>2, <3>1, <4>1
    <3>2. CASE d = "c2s"
      <4>1. Largest(d) BY <1>0, <2>2, <3>2 DEF WindowInv, WindowsMeant
      <4>2. tcb'[d].win_max = tcb[d].win_max BY <1>7, <2>2, <3>2, PacketWindows
      <4>3. h'.win[d] = h.win[d] BY <1>4, <2>2, <3>2
      <4> QED BY <1>0, <4>1, <4>2, <4>3, LargestKept
    <3> QED BY <1>1, <3>1, <3>2
  <2> QED BY <1>7, <2>1, <2>2, WholeStep
<1> QED BY <1>6, <1>7 DEF WindowsMeant, Counting

\* Nothing has been advertised at first.
LEMMA WindowInvInit == AnalysisInit => WindowInv
<1> SUFFICES ASSUME AnalysisInit PROVE WindowInv OBVIOUS
<1>1. ASSUME NEW d \in Dirs
      PROVE  /\ h.seen[d] = {} /\ h.win[d] = {} /\ h.syns[d] = <<>> /\ h.fins[d] = <<>>
             /\ tcb[d].win_max = 0 /\ tcb[d].mss = 0 /\ tcb[d].syn_count = 0 /\ tcb[d].fin_count = 0
  BY DEF AnalysisInit, NoHistory, Tcb
<1>2. ASSUME NEW d \in Dirs PROVE ~tcb[d].f1323_ws /\ ~tcb[d].f1323_ts /\ ~tcb[d].fsack_req
  BY DEF AnalysisInit, Tcb
<1>3. Len(<<>>) = 0 /\ "c2s" \in Dirs BY DEF Dirs
<1>4. ASSUME NEW d \in Dirs PROVE Len(h.syns[d]) = 0 BY <1>1, <1>3
<1>5. Opened BY <1>1, <1>3 DEF Opened
<1>6. ~Begun /\ ~Whole BY <1>3, <1>4 DEF Begun, Whole, Single
<1>7. Scaled /\ WindowsMeant BY <1>6 DEF Scaled, WindowsMeant
<1>8. ASSUME NEW d \in Dirs PROVE FlagsCounted(d) BY <1>1 DEF FlagsCounted
<1>9. ASSUME NEW d \in Dirs PROVE Agreed(d) BY <1>1, <1>2 DEF Agreed, Flag
<1> QED BY <1>5, <1>7, <1>8, <1>9 DEF WindowInv

\* Every step keeps it, of a flow in the states of AnalysisInv.
LEMMA WindowInvStep == AnalysisInv /\ WindowInv /\ [AnalysisNext]_analysisVars => WindowInv'
<1> SUFFICES ASSUME AnalysisInv, WindowInv, [AnalysisNext]_analysisVars PROVE WindowInv' OBVIOUS
<1>0. FlowState /\ conf \in Confs /\ (\A x \in Dirs : h.seen[x] \in SUBSET Positions)
      /\ Opened /\ Scaled /\ WindowsMeant /\ \A d \in Dirs : FlagsCounted(d) /\ (Counting => Agreed(d))
  BY DEF AnalysisInv, FlowState, HistoryTypes, WindowInv
<1>1. ASSUME NEW e \in Dirs, SendSyn(e) \/ SendData(e) \/ SendAck(e) \/ SendFin(e) \/ SendReset(e)
      PROVE  WindowInv'
  <2>1. PICK p : Legal(p) /\ Packet(p) BY <1>0, <1>1, SendLegal
  <2>2. ended = "no" BY <1>0, <2>1, PacketCloses DEF FlowState, TcbsTyped
  <2>3. ASSUME NEW d \in Dirs PROVE FlagsCounted(d)' /\ (Counting' => Agreed(d)')
    <3>1. FlagsCounted(d)' BY <1>0, <2>1, TallyStep
    <3>2. ASSUME ended' # "half" PROVE Agreed(d)'
      <4>1. Agreed(d) BY <1>0, <2>2 DEF Counting
      <4> QED BY <1>0, <2>1, <3>2, <4>1, AgreedStep
    <3> QED BY <3>1, <3>2 DEF Counting
  <2>4. Opened' /\ Scaled' /\ WindowsMeant' BY <1>0, <2>1, OpenedStep, ScaledStep, MeantStep
  <2> QED BY <2>3, <2>4 DEF WindowInv
<1>2. CASE Idle
  <2>1. Differ(tcb', tcb, RateFields) /\ conf' = conf /\ h' = h /\ ended = "no" /\ ended' = "idle"
    BY <1>0, <1>2, IdleStep DEF Idle
  <2>2. ASSUME NEW d \in Dirs
        PROVE  /\ tcb'[d].win_max = tcb[d].win_max /\ tcb'[d].mss = tcb[d].mss
               /\ tcb'[d].f1323_ws = tcb[d].f1323_ws /\ tcb'[d].f1323_ts = tcb[d].f1323_ts
               /\ tcb'[d].fsack_req = tcb[d].fsack_req
               /\ tcb'[d].syn_count = tcb[d].syn_count /\ tcb'[d].fin_count = tcb[d].fin_count
    BY <2>1 DEF Differ, Fields, Tcb, RateFields, CountFields
  <2>3. ASSUME NEW d \in Dirs PROVE FlagsCounted(d)' /\ (Counting' => Agreed(d)')
    <3>1. FlagsCounted(d)' BY <1>0, <2>1, <2>2 DEF FlagsCounted, Positions
    <3>2. Agreed(d) BY <1>0, <2>1 DEF Counting
    <3>3. Agreed(d)' BY <2>1, <2>2, <3>2 DEF Agreed, Flag, Counting
    <3> QED BY <3>1, <3>3
  <2>4. Opened' /\ Scaled' BY <1>0, <2>1 DEF Opened, Scaled
  <2>5. WindowsMeant'
    <3>1. Whole' <=> Whole BY <2>1 DEF Whole, Single
    <3>2. ASSUME Whole, NEW d \in Dirs PROVE Largest(d)'
      <4>1. Largest(d) BY <1>0, <2>1, <3>2 DEF WindowsMeant, Counting
      <4> QED BY <2>1, <2>2, <4>1, LargestKept
    <3> QED BY <2>1, <3>1, <3>2 DEF WindowsMeant
  <2> QED BY <2>3, <2>4, <2>5 DEF WindowInv
<1>3. CASE UNCHANGED analysisVars
  <2>1. conf' = conf /\ tcb' = tcb /\ ended' = ended /\ h' = h BY <1>3 DEF analysisVars
  <2>2. ASSUME NEW d \in Dirs PROVE FlagsCounted(d)' /\ (Counting' => Agreed(d)')
    BY <1>0, <2>1 DEF FlagsCounted, Positions, Agreed, Flag, Counting
  <2>3. Opened' BY <1>0, <2>1 DEF Opened
  <2>4. Scaled' BY <1>0, <2>1 DEF Scaled, Begun, Whole, Single, BothAsked, Asked
  <2>5. WindowsMeant'
    BY <1>0, <2>1 DEF WindowsMeant, Begun, Whole, Single, Largest, Greatest, Meaning, BothAsked, Asked, Counting
  <2> QED BY <2>2, <2>3, <2>4, <2>5 DEF WindowInv
<1> QED BY <1>1, <1>2, <1>3 DEF AnalysisNext

\* Of SYNs that can be parsed the flow keeps the options, and the largest
\* window is that of the ones that were meant.
LEMMA WindowsKnown ==
  ASSUME WindowInv, OptionsParsed(conf)
  PROVE  OptionsKept /\ WindowTrue
<1>1. OptionsKept
  <2>1. CASE Counting BY <2>1, AgreedKept DEF WindowInv
  <2>2. CASE ~Counting BY <2>2 DEF OptionsKept
  <2> QED BY <2>1, <2>2
<1>2. \A d \in Dirs : Asked(d) = ScaleOf(d) BY ParsedSyn DEF Asked, ScaleOf
<1>3. (\E x \in Dirs : ScaleOf(x) = Absent) <=> ~BothAsked BY <1>2 DEF BothAsked
<1>4. ASSUME \A d \in Dirs : Len(h.syns[d]) = 1 /\ ~h.back[d], Counting, NEW d \in Dirs
      PROVE  tcb[d].win_max = Max({IF w.syn \/ \E x \in Dirs : ScaleOf(x) = Absent
                          THEN w.win ELSE w.win * 2 ^ ScaleOf(d) : w \in h.win[d]})
  <2>1. Largest(d) BY <1>4 DEF WindowInv, WindowsMeant, Whole, Single
  <2>2. h.win[d] # {}
    <3>1. Len(h.syns[d]) = 1 BY <1>4
    <3>2. h.syns[d] # <<>> BY <3>1
    <3> QED BY <3>2 DEF WindowInv, Opened
  <2>3. tcb[d].win_max = Max({Meaning(w, d) : w \in h.win[d]}) BY <2>1, <2>2, GreatestMax DEF Largest
  <2>4. \A w \in h.win[d] : Meaning(w, d) = IF w.syn \/ \E x \in Dirs : ScaleOf(x) = Absent
                                            THEN w.win ELSE w.win * 2 ^ ScaleOf(d)
    BY <1>2, <1>3 DEF Meaning
  <2>5. {Meaning(w, d) : w \in h.win[d]} = {IF w.syn \/ \E x \in Dirs : ScaleOf(x) = Absent
                          THEN w.win ELSE w.win * 2 ^ ScaleOf(d) : w \in h.win[d]}
    BY <2>4
  <2> QED BY <2>3, <2>5
<1> QED BY <1>1, <1>4, Zenon DEF WindowTrue

\* What the rate is made of.
Rates == RateFields \cup {"data_bytes"}
SameRates(r, t) ==
  /\ r.rate_left_edge = t.rate_left_edge /\ r.rate_bytes = t.rate_bytes /\ r.rate_sum = t.rate_sum
  /\ r.rate_short = t.rate_short /\ r.rate_span = t.rate_span
  /\ r.rate_samples = t.rate_samples /\ r.rate_empty_samples = t.rate_empty_samples
  /\ r.rate_empty_streak = t.rate_empty_streak /\ r.data_bytes = t.data_bytes

\* n windows of t are over: of them, empty were empty.
WindowsCounted(r, t, n, empty) ==
  /\ r.rate_samples = t.rate_samples + n
  /\ r.rate_empty_samples = t.rate_empty_samples + empty
WindowsOver(r, t, n, empty) ==
  /\ WindowsCounted(r, t, n, empty)
  /\ r.rate_sum = t.rate_sum + t.rate_bytes

\* r is t after len bytes at cur.
RateTcb(r, t, cur, len) ==
  LET edge == IF t.rate_left_edge = None THEN cur ELSE t.rate_left_edge
      n == (cur - edge) \div Sampling
      empty == One(t.rate_bytes = 0) + n - 1
  IN /\ r.data_bytes = t.data_bytes + len
     /\ r.rate_short = t.rate_short /\ r.rate_span = t.rate_span
     /\ n = 0 => /\ r.rate_left_edge = edge /\ r.rate_bytes = t.rate_bytes + len
                 /\ r.rate_sum = t.rate_sum /\ r.rate_samples = t.rate_samples
                 /\ r.rate_empty_samples = t.rate_empty_samples /\ r.rate_empty_streak = t.rate_empty_streak
     /\ n # 0 => /\ r.rate_left_edge = edge + n * Sampling /\ r.rate_bytes = len
                 /\ WindowsOver(r, t, n, empty)
                 /\ r.rate_empty_streak = IF empty > t.rate_empty_streak THEN empty ELSE t.rate_empty_streak

\* r is what is made of t, of d, at the end of the flow.
LastTcb(r, t, cur, d) ==
  LET delta == cur - t.rate_left_edge
      m == IF delta < Sampling THEN 1 ELSE delta \div Sampling
  IN /\ r.data_bytes = t.data_bytes
     /\ t.rate_left_edge # None =>
          /\ WindowsCounted(r, t, m, One(t.rate_bytes = 0) + m - 1)
          /\ delta < Sampling =>
               r.rate_sum = t.rate_sum /\ r.rate_short = t.rate_bytes /\ r.rate_span = delta
          /\ ~(delta < Sampling) =>
               /\ r.rate_sum = t.rate_sum + t.rate_bytes
               /\ r.rate_short = t.rate_short /\ r.rate_span = t.rate_span
     /\ d = "s2c" => r.rate_empty_streak = t.rate_empty_streak

\* The two operators that count data.
LEMMA AddDataRates ==
  ASSUME NEW t, DOMAIN t = Fields, NEW len
  PROVE  RateTcb(AddData(t, len), t, current_time', len)
<1> DEFINE edge == IF t.rate_left_edge = None THEN current_time' ELSE t.rate_left_edge
           a == IF t.rate_left_edge = None THEN [t EXCEPT !.rate_left_edge = current_time'] ELSE t
           n == (current_time' - edge) \div Sampling
           r == Rate(t, len)
           f == AddData(t, len)
<1>1. /\ DOMAIN a = Fields /\ a.rate_left_edge = edge
      /\ a.rate_bytes = t.rate_bytes /\ a.rate_sum = t.rate_sum /\ a.rate_samples = t.rate_samples
      /\ a.rate_empty_samples = t.rate_empty_samples /\ a.rate_empty_streak = t.rate_empty_streak
      /\ a.data_bytes = t.data_bytes /\ a.rate_short = t.rate_short /\ a.rate_span = t.rate_span
  BY DEF Fields, Tcb
<1>2. r = IF n = 0 THEN [a EXCEPT !.rate_bytes = @ + len] ELSE [RateWindows(a, n) EXCEPT !.rate_bytes = len]
  <2>1. r = IF (current_time' - a.rate_left_edge) \div Sampling = 0 THEN [a EXCEPT !.rate_bytes = @ + len]
            ELSE [RateWindows(a, (current_time' - a.rate_left_edge) \div Sampling) EXCEPT !.rate_bytes = len]
    BY DEF Rate
  <2>2. a.rate_left_edge = edge BY <1>1
  <2> HIDE DEF a, edge, r
  <2> QED BY <2>1, <2>2
<1>3. DOMAIN r = Fields BY RateKeeps
<1>4. f = [r EXCEPT !.data_bytes = @ + len] BY DEF AddData
<1> DEFINE w == RateWindows(a, n)
           empty == One(a.rate_bytes = 0) + n - 1
<1>5. /\ DOMAIN w = Fields /\ w.rate_left_edge = edge + n * Sampling
      /\ w.rate_sum = t.rate_sum + t.rate_bytes /\ w.rate_samples = t.rate_samples + n
      /\ w.rate_empty_samples = t.rate_empty_samples + empty
      /\ w.rate_empty_streak = IF empty > t.rate_empty_streak THEN empty ELSE t.rate_empty_streak
      /\ w.data_bytes = t.data_bytes /\ w.rate_short = t.rate_short /\ w.rate_span = t.rate_span
  <2> HIDE DEF a, edge, n, empty
  <2>1. w = [a EXCEPT !.rate_sum = @ + a.rate_bytes, !.rate_samples = @ + n,
               !.rate_empty_samples = @ + empty, !.rate_left_edge = @ + n * Sampling,
               !.rate_empty_streak = IF empty > @ THEN empty ELSE @]
    BY DEF RateWindows, empty
  <2> HIDE DEF w
  <2> QED BY <1>1, <2>1 DEF Fields, Tcb
<1> HIDE DEF w, a, edge, n, r, f
<1>6. /\ f.data_bytes = r.data_bytes + len
      /\ f.rate_left_edge = r.rate_left_edge /\ f.rate_bytes = r.rate_bytes /\ f.rate_sum = r.rate_sum
      /\ f.rate_samples = r.rate_samples /\ f.rate_empty_samples = r.rate_empty_samples
      /\ f.rate_empty_streak = r.rate_empty_streak
      /\ f.rate_short = r.rate_short /\ f.rate_span = r.rate_span
  BY <1>3, <1>4 DEF Fields, Tcb
<1>7. CASE n = 0
  <2>1. r = [a EXCEPT !.rate_bytes = @ + len] BY <1>2, <1>7
  <2>2. /\ r.rate_short = t.rate_short /\ r.rate_span = t.rate_span
        /\ r.data_bytes = t.data_bytes /\ r.rate_left_edge = edge /\ r.rate_bytes = t.rate_bytes + len
        /\ r.rate_sum = t.rate_sum /\ r.rate_samples = t.rate_samples
        /\ r.rate_empty_samples = t.rate_empty_samples /\ r.rate_empty_streak = t.rate_empty_streak
    BY <1>1, <2>1 DEF Fields, Tcb
  <2> QED BY <1>6, <1>7, <2>2 DEF RateTcb, n, edge, f
<1>8. CASE n # 0
  <2>1. r = [w EXCEPT !.rate_bytes = len] BY <1>2, <1>8 DEF w
  <2>2. /\ r.rate_short = t.rate_short /\ r.rate_span = t.rate_span
        /\ r.data_bytes = t.data_bytes /\ r.rate_left_edge = edge + n * Sampling /\ r.rate_bytes = len
        /\ r.rate_sum = t.rate_sum + t.rate_bytes /\ r.rate_samples = t.rate_samples + n
        /\ r.rate_empty_samples = t.rate_empty_samples + empty
        /\ r.rate_empty_streak = IF empty > t.rate_empty_streak THEN empty ELSE t.rate_empty_streak
    BY <1>5, <2>1 DEF Fields, Tcb
  <2>3. empty = One(t.rate_bytes = 0) + n - 1 BY <1>1
  <2> HIDE DEF empty
  <2> QED BY <1>6, <1>8, <2>2, <2>3 DEF RateTcb, WindowsOver, WindowsCounted, n, edge, f
<1> QED BY <1>7, <1>8

\* The last windows.
LEMMA LastRates ==
  ASSUME NEW g, Shaped(g), NEW n, n = ConnStats(g), NEW x \in Dirs
  PROVE  LastTcb(n[x], g[x], current_time', x)
<1> DEFINE t == g[x]
           delta == current_time' - t.rate_left_edge
           m == IF delta < Sampling THEN 1 ELSE delta \div Sampling
           empty == One(t.rate_bytes = 0) + m - 1
           w == RateWindows(t, m)
           l == LastWindows(t)
<1>1. DOMAIN t = Fields BY DEF Shaped
<1>2. DOMAIN l = Fields /\ l.data_bytes = t.data_bytes
  <2>1. "data_bytes" \in Fields \ RateFields BY DEF Fields, Tcb, RateFields, CountFields
  <2> QED BY <1>1, <2>1, LastWindowsKeeps
<1>3. DOMAIN w = Fields /\ WindowsOver(w, t, m, empty) /\ w.rate_short = t.rate_short /\ w.rate_span = t.rate_span
  <2> HIDE DEF t, m, empty
  <2>1. w = [t EXCEPT !.rate_sum = @ + t.rate_bytes, !.rate_samples = @ + m,
               !.rate_empty_samples = @ + empty, !.rate_left_edge = @ + m * Sampling,
               !.rate_empty_streak = IF empty > @ THEN empty ELSE @]
    BY DEF RateWindows, empty
  <2> HIDE DEF w
  <2> QED BY <1>1, <2>1 DEF WindowsOver, WindowsCounted, Fields, Tcb
<1>4. t.rate_left_edge # None =>
        l = IF delta < Sampling
            THEN [w EXCEPT !.rate_sum = t.rate_sum, !.rate_short = t.rate_bytes, !.rate_span = delta] ELSE w
  BY DEF LastWindows, ShortWindow
<1> HIDE DEF l, m, delta, empty, w
<1>5. t.rate_left_edge # None =>
        /\ WindowsCounted(l, t, m, empty)
        /\ delta < Sampling => l.rate_sum = t.rate_sum /\ l.rate_short = t.rate_bytes /\ l.rate_span = delta
        /\ ~(delta < Sampling) => /\ l.rate_sum = t.rate_sum + t.rate_bytes
                                  /\ l.rate_short = t.rate_short /\ l.rate_span = t.rate_span
  <2> SUFFICES ASSUME t.rate_left_edge # None
               PROVE  /\ WindowsCounted(l, t, m, empty)
                      /\ delta < Sampling =>
                           l.rate_sum = t.rate_sum /\ l.rate_short = t.rate_bytes /\ l.rate_span = delta
                      /\ ~(delta < Sampling) =>
                           /\ l.rate_sum = t.rate_sum + t.rate_bytes
                           /\ l.rate_short = t.rate_short /\ l.rate_span = t.rate_span
    OBVIOUS
  <2>1. CASE delta < Sampling
    <3>1. l = [w EXCEPT !.rate_sum = t.rate_sum, !.rate_short = t.rate_bytes, !.rate_span = delta] BY <1>4, <2>1
    <3> HIDE DEF t
    <3> QED BY <1>3, <2>1, <3>1 DEF WindowsOver, WindowsCounted, Fields, Tcb
  <2>2. CASE ~(delta < Sampling) BY <1>3, <1>4, <2>2 DEF WindowsOver
  <2> QED BY <2>1, <2>2
<1>6. /\ \E s : n[x] = [l EXCEPT !.rate_empty_streak = s]
      /\ x = "s2c" => n[x] = [l EXCEPT !.rate_empty_streak = t.rate_empty_streak]
  <2>1. CASE x = "c2s" BY <2>1 DEF ConnStats, l
  <2>2. CASE x = "s2c" BY <2>2 DEF ConnStats, l
  <2> QED BY <2>1, <2>2 DEF Dirs
<1>7. /\ n[x].data_bytes = l.data_bytes /\ n[x].rate_sum = l.rate_sum /\ n[x].rate_samples = l.rate_samples
      /\ n[x].rate_empty_samples = l.rate_empty_samples
      /\ n[x].rate_short = l.rate_short /\ n[x].rate_span = l.rate_span
  BY <1>2, <1>6 DEF Fields, Tcb
<1>8. x = "s2c" => n[x].rate_empty_streak = t.rate_empty_streak BY <1>2, <1>6 DEF Fields, Tcb
<1> HIDE DEF t
<1>9. LastTcb(n[x], t, current_time', x)
  BY <1>2, <1>5, <1>7, <1>8 DEF LastTcb, WindowsCounted, delta, m, empty
<1> QED BY <1>9 DEF t

\* An operator that sets none of it keeps the rate.
LEMMA SameRatesOf ==
  ASSUME NEW n, NEW g, NEW S, Differ(n, g, S), S \cap Rates = {}
  PROVE  \A x \in Dirs : SameRates(n[x], g[x])
<1>1. Rates \subseteq Fields \ S BY DEF Rates, RateFields, CountFields, Fields, Tcb
<1>2. \A x \in Dirs : \A k \in Rates : n[x][k] = g[x][k] BY <1>1 DEF Differ
<1> QED BY <1>2 DEF SameRates, Rates, RateFields, CountFields

\* Data is added to the rate of its sender.
LEMMA CountedRates ==
  ASSUME NEW g, Shaped(g), NEW p, p.dir \in Dirs, NEW n, n = Counted(CountFlags(g, p), p), NEW x \in Dirs
  PROVE  IF x = p.dir /\ p.len # 0 THEN RateTcb(n[x], g[x], current_time', p.len) ELSE SameRates(n[x], g[x])
<1> DEFINE g1 == CountFlags(g, p)
           g2 == AckOfFin(g1, p)
           g3 == FlightFlags(g2, p)
           g4 == SynLimits(g3, p)
           g5 == FinLimits(g4, p)
           g6 == TakeOptions(g5, p)
           g7 == DropScales(g6, p)
           g8 == DataStats(g7, p)
           g9 == MinSeq(g8, p)
           g10 == Unique(g9, p)
<1>0. n = SeqOrRexmit(g10, p) BY Zenon DEF Counted, SeqLimits, Options
<1> HIDE DEF g10
<1>1. Shaped(g1) /\ Differ(g1, g, {"syn_count", "fin_count", "reset_count", "fin_seqno"}) BY CountFlagsEffect
<1> HIDE DEF g1
<1>2. Shaped(g2) /\ Differ(g2, g1, {"closed"}) BY <1>1, AckOfFinEffect
<1> HIDE DEF g2
<1>3. Shaped(g3) /\ Differ(g3, g2, {"cwnd_flag"}) BY <1>2, FlightFlagsEffect
<1> HIDE DEF g3
<1>4. Shaped(g4) /\ Differ(g4, g3, {"syn", "ack", "bad_behavior"}) BY <1>3, SynLimitsEffect
<1> HIDE DEF g4
<1>5. Shaped(g5) /\ Differ(g5, g4, {"bad_behavior", "fin"}) BY <1>4, FinLimitsEffect
<1> HIDE DEF g5
<1>6. Shaped(g6) /\ Differ(g6, g5, {"window_scale", "f1323_ws", "mss", "f1323_ts", "fsack_req", "sacks_sent"})
  BY <1>5, TakeOptionsEffect
<1> HIDE DEF g6
<1>7. Shaped(g7) /\ Differ(g7, g6, {"window_scale"}) BY <1>6, DropScalesEffect
<1> HIDE DEF g7
<1>8. Shaped(g8) /\ \A y \in Dirs : g8[y] = IF y = p.dir /\ p.len # 0 THEN AddData(g7[y], p.len) ELSE g7[y]
  BY <1>7, DataStatsEffect
<1> HIDE DEF g8
<1>9. Shaped(g9) /\ Differ(g9, g8, {"min_seq"}) BY <1>8, MinSeqEffect
<1> HIDE DEF g9
<1>10. Shaped(g10) /\ Differ(g10, g9, {"unique_bytes"}) BY <1>9, UniqueEffect DEF g10
<1>11. Differ(n, g10, {"rexmit_bytes", "seq"}) BY <1>0, <1>10, SeqOrRexmitEffect
<1>12. SameRates(g7[x], g[x])
  <2>1. Differ(g7, g, {"syn_count", "fin_count", "reset_count", "fin_seqno", "closed", "cwnd_flag", "syn",
         "ack", "bad_behavior", "fin", "window_scale", "f1323_ws", "mss", "f1323_ts", "fsack_req", "sacks_sent"})
    BY <1>1, <1>2, <1>3, <1>4, <1>5, <1>6, <1>7 DEF Differ
  <2> QED BY <2>1, SameRatesOf DEF Rates, RateFields, CountFields
<1>13. SameRates(n[x], g8[x])
  <2>1. Differ(n, g8, {"min_seq", "unique_bytes", "rexmit_bytes", "seq"}) BY <1>9, <1>10, <1>11 DEF Differ
  <2> QED BY <2>1, SameRatesOf DEF Rates, RateFields, CountFields
<1>14. CASE x = p.dir /\ p.len # 0
  <2>1. DOMAIN g7[x] = Fields BY <1>7 DEF Shaped
  <2>2. RateTcb(g8[x], g7[x], current_time', p.len) BY <1>8, <1>14, <2>1, AddDataRates
  <2> QED BY <1>12, <1>13, <1>14, <2>2 DEF RateTcb, SameRates, WindowsOver, WindowsCounted
<1>15. CASE ~(x = p.dir /\ p.len # 0)
  <2>1. g8[x] = g7[x] BY <1>8, <1>15
  <2> QED BY <1>12, <1>13, <1>15, <2>1 DEF SameRates
<1> QED BY <1>14, <1>15

\* A packet adds to the rate, and the last one completes it.
LEMMA PacketRates ==
  ASSUME FlowState, NEW p, Legal(p), Packet(p), NEW x \in Dirs, ended' # "half"
  PROVE  \E t : /\ IF x = p.dir /\ p.len # 0 THEN RateTcb(t, tcb[x], current_time', p.len) ELSE SameRates(t, tcb[x])
                /\ IF ended' = "no" THEN SameRates(tcb'[x], t) ELSE LastTcb(tcb'[x], t, current_time', x)
<1> DEFINE a == CountFlags(tcb, p)
           b == Counted(a, p)
           c == Measured(b, p, EffWin(a, p))
<1>0. p.dir \in Dirs /\ (p.syn => ~p.fin) /\ Shaped(tcb)
  BY DEF Legal, PacketTypes, Sensible, FlowState, TcbsTyped
<1>1. Shaped(b) BY <1>0, CountedEffect
<1>2. Shaped(c) /\ Differ(c, b, MeasureFields) BY <1>0, <1>1, MeasuredEffect DEF MeasureFields
<1>3. IF x = p.dir /\ p.len # 0 THEN RateTcb(b[x], tcb[x], current_time', p.len) ELSE SameRates(b[x], tcb[x])
  BY <1>0, CountedRates
<1>4. SameRates(c[x], b[x]) BY <1>2, SameRatesOf DEF Rates, RateFields, CountFields, MeasureFields
<1>5. IF x = p.dir /\ p.len # 0 THEN RateTcb(c[x], tcb[x], current_time', p.len) ELSE SameRates(c[x], tcb[x])
  BY <1>3, <1>4 DEF RateTcb, SameRates, WindowsOver, WindowsCounted
<1>6. ended = "no" BY DEF Packet
<1>7. \/ ended' = "half"
      \/ EndFlow(b, "reset")
      \/ EndFlow(c, "complete")
      \/ tcb' = c /\ ended' = ended
  BY DEF Packet, EndFlow
<1> HIDE DEF a, b, c
<1>8. CASE EndFlow(b, "reset")
  <2>1. LastTcb(tcb'[x], b[x], current_time', x) /\ ended' # "no" BY <1>1, <1>8, LastRates DEF EndFlow
  <2> QED BY <1>3, <2>1
<1>9. CASE EndFlow(c, "complete")
  <2>1. LastTcb(tcb'[x], c[x], current_time', x) /\ ended' # "no" BY <1>2, <1>9, LastRates DEF EndFlow
  <2> QED BY <1>5, <2>1
<1>10. CASE tcb' = c /\ ended' = ended
  <2>1. SameRates(tcb'[x], c[x]) /\ ended' = "no" BY <1>6, <1>10 DEF SameRates
  <2> QED BY <1>5, <2>1
<1> QED BY <1>7, <1>8, <1>9, <1>10

\* So does the end of an idle flow.
LEMMA IdleRates ==
  ASSUME FlowState, Idle, NEW x \in Dirs
  PROVE  LastTcb(tcb'[x], tcb[x], current_time', x)
<1>1. Shaped(tcb) /\ tcb' = ConnStats(tcb) BY DEF FlowState, TcbsTyped, Idle, EndFlow
<1> QED BY <1>1, LastRates

\* The times of the data.
LEMMA DataStep ==
  ASSUME FlowState, NEW p, Legal(p), Packet(p), NEW x \in Dirs
  PROVE  h'.data[x] = IF x = p.dir /\ p.len > 0 THEN h.data[x] \cup {current_time'} ELSE h.data[x]
<1>1. p.dir \in Dirs /\ DOMAIN h.data = Dirs BY DEF Legal, PacketTypes, FlowState, HistoryTypes, HistoryShaped
<1>2. h' = Remember(p) BY DEF Packet
<1>3. h'.data = [h.data EXCEPT ![p.dir] = IF p.len > 0 THEN @ \cup {current_time'} ELSE @]
  BY <1>2 DEF Remember
<1> QED BY <1>1, <1>3

\* What a quotient says.
LEMMA DivBy ==
  ASSUME NEW a \in Nat, NEW s \in Nat \ {0}
  PROVE  a \div s \in Nat /\ (a \div s) * s <= a /\ a < (a \div s) * s + s
OBVIOUS

\* There is one.
LEMMA DivIs ==
  ASSUME NEW a \in Nat, NEW s \in Nat \ {0}, NEW q \in Int, q * s <= a, a < q * s + s
  PROVE  a \div s = q
OBVIOUS

\* A quotient of what is beyond k of them.
LEMMA DivShift ==
  ASSUME NEW a \in Nat, NEW s \in Nat \ {0}, NEW k \in Nat, k * s <= a
  PROVE  /\ (a - k * s) \div s = (a \div s) - k
         /\ k <= a \div s
<1> DEFINE q == a \div s
           c == k * s
<1>1. q \in Nat /\ q * s <= a /\ a < q * s + s BY DivBy
<1>2. c \in Nat /\ c <= a OBVIOUS
<1> HIDE DEF q, c
<1>3. k <= q
  <2> SUFFICES ASSUME q + 1 <= k PROVE FALSE BY <1>1
  <2>1. (q + 1) * s <= k * s BY <1>1
  <2>2. (q + 1) * s = q * s + s BY <1>1
  <2> QED BY <1>1, <1>2, <2>1, <2>2 DEF c
<1>4. (q - k) * s = q * s - c BY <1>1 DEF c
<1>5. a - c \in Nat /\ q - k \in Int /\ (q - k) * s <= a - c /\ a - c < (q - k) * s + s BY <1>1, <1>2, <1>4
<1>6. (a - c) \div s = q - k BY <1>5, DivIs
<1> QED BY <1>3, <1>6 DEF q, c

\* The least of a set of times.
LEMMA MinOf ==
  ASSUME NEW D \in SUBSET Nat, D # {}
  PROVE  Min(D) \in D /\ \A y \in D : Min(D) <= y
<1>1. PICK i \in D : \A j \in D : i <= j BY LeastOf
<1> QED BY <1>1 DEF Min

\* A time that is not after any other one of the set is the least.
LEMMA MinIs ==
  ASSUME NEW D \in SUBSET Nat, NEW m \in D, \A y \in D : m <= y
  PROVE  Min(D) = m
<1> DEFINE n == Min(D)
<1>1. n \in D /\ \A y \in D : n <= y BY MinOf
<1> HIDE DEF n
<1>2. n = m BY <1>1
<1> QED BY <1>2 DEF n

\* k windows without data, below n.
Gap(S, n, k) == \E i \in 0 .. n - k : (i .. i + k - 1) \cap S = {}
IsLongest(l, S, n) ==
  /\ l \in 0 .. n
  /\ \A k \in 1 .. n : Gap(S, n, k) => k <= l
  /\ l # 0 => Gap(S, n, l)

\* It is what Longest finds.
LEMMA LongestIs ==
  ASSUME NEW n \in Nat, NEW S, NEW l, IsLongest(l, S, n)
  PROVE  Longest(S, n) = l
<1> DEFINE G == {0} \cup {k \in 1 .. n : \E i \in 0 .. n - k : (i .. i + k - 1) \cap S = {}}
<1>1. l \in G /\ l \in Nat /\ \A k \in G : k \in Nat /\ k <= l BY DEF IsLongest, Gap
<1> HIDE DEF G
<1> DEFINE m == Max(G)
<1>2. m \in G /\ \A y \in G : m >= y BY <1>1 DEF Max
<1> HIDE DEF m
<1>3. m = l BY <1>1, <1>2
<1> QED BY <1>3 DEF Longest, G, m

\* n windows on, of which all but the last are empty.
LEMMA LongestStep ==
  ASSUME NEW k \in Nat, NEW H \in SUBSET (0 .. k), k \in H, NEW n \in Nat \ {0}, NEW l, IsLongest(l, H, k),
         NEW l2, l2 = IF n - 1 > l THEN n - 1 ELSE l
  PROVE  IsLongest(l2, H \cup {k + n}, k + n)
<1> DEFINE T == H \cup {k + n}
           K == k + n
<1>1. l \in 0 .. k /\ (\A j \in 1 .. k : Gap(H, k, j) => j <= l) /\ (l # 0 => Gap(H, k, l)) BY DEF IsLongest
<1>2. l2 \in 0 .. K BY <1>1
<1>3. ASSUME NEW j \in 1 .. K, Gap(T, K, j) PROVE j <= l2
  <2>1. PICK i \in 0 .. K - j : (i .. i + j - 1) \cap T = {} BY <1>3 DEF Gap
  <2>2. k \notin i .. i + j - 1 BY <2>1
  <2>3. CASE i + j - 1 < k
    <3>1. j \in 1 .. k /\ i \in 0 .. k - j BY <2>3
    <3>2. (i .. i + j - 1) \cap H = {} BY <2>1
    <3>3. Gap(H, k, j) BY <3>1, <3>2 DEF Gap
    <3>4. j <= l BY <1>1, <3>1, <3>3
    <3> QED BY <1>1, <3>1, <3>4
  <2>4. CASE i > k
    <3>1. j <= n - 1 BY <2>4
    <3> QED BY <1>1, <3>1
  <2> QED BY <2>2, <2>3, <2>4
<1>4. l2 # 0 => Gap(T, K, l2)
  <2> SUFFICES ASSUME l2 # 0 PROVE Gap(T, K, l2) OBVIOUS
  <2>1. CASE n - 1 > l
    <3>1. l2 = n - 1 /\ k + 1 \in 0 .. K - l2 BY <1>1, <2>1
    <3>2. (k + 1 .. (k + 1) + l2 - 1) \cap T = {} BY <3>1
    <3> QED BY <3>1, <3>2 DEF Gap
  <2>2. CASE ~(n - 1 > l)
    <3>1. l2 = l /\ l # 0 BY <2>2
    <3>2. PICK i \in 0 .. k - l : (i .. i + l - 1) \cap H = {} BY <1>1, <3>1 DEF Gap
    <3>3. i \in 0 .. K - l BY <1>1, <3>2
    <3>4. (i .. i + l - 1) \cap T = {} BY <1>1, <3>2
    <3> QED BY <3>1, <3>3, <3>4 DEF Gap
  <2> QED BY <2>1, <2>2
<1> QED BY <1>2, <1>3, <1>4 DEF IsLongest

\* And the number of empty windows.
LEMMA EmptyStep ==
  ASSUME NEW k \in Nat, NEW H \in SUBSET (0 .. k), k \in H, NEW n \in Nat \ {0}
  PROVE  /\ Cardinality((0 .. (k + n) - 1) \ H) = Cardinality((0 .. k - 1) \ H) + (n - 1)
         /\ Cardinality((0 .. k - 1) \ H) \in Nat
<1> DEFINE A == (0 .. k - 1) \ H
           B == k + 1 .. (k + n) - 1
           C == (0 .. (k + n) - 1) \ H
<1>1. C = A \cup B /\ A \cap B = {} OBVIOUS
<1>2. IsFiniteSet(A)
  <2>1. IsFiniteSet(0 .. k - 1) BY FS_Interval
  <2> QED BY <2>1, FS_Difference
<1>3. IsFiniteSet(B) /\ Cardinality(B) = n - 1
  <2> DEFINE a == k + 1
             b == (k + n) - 1
  <2>1. a \in Int /\ b \in Int /\ (IF a > b THEN 0 ELSE b - a + 1) = n - 1 OBVIOUS
  <2> HIDE DEF a, b
  <2>2. IsFiniteSet(a .. b) /\ Cardinality(a .. b) = IF a > b THEN 0 ELSE b - a + 1 BY <2>1, FS_Interval
  <2> QED BY <2>1, <2>2 DEF a, b
<1> HIDE DEF A, B, C
<1>4. Cardinality(A) \in Nat BY <1>2, FS_CardinalityType
<1>5. Cardinality(A \cup B) = Cardinality(A) + Cardinality(B) - Cardinality(A \cap B) BY <1>2, <1>3, FS_Union
<1>6. Cardinality({}) = 0 BY FS_EmptySet
<1>7. Cardinality(C) = Cardinality(A) + (n - 1)
  <2> DEFINE c == Cardinality(C)  a == Cardinality(A)
  <2>1. C = A \cup B /\ A \cap B = {} BY <1>1
  <2>2. c = Cardinality(A \cup B) /\ Cardinality(A \cap B) = 0 BY <2>1, <1>6
  <2>3. c = a + (n - 1) - 0 BY <2>2, <1>3, <1>5
  <2>4. a \in Nat BY <1>4
  <2> HIDE DEF c, a
  <2>5. c = a + (n - 1) BY <2>3, <2>4
  <2> QED BY <2>5 DEF c, a
<1> QED BY <1>4, <1>7 DEF A, C

\* The window of time t, and those of D, when the first one starts at m.
Slot(t, m) == (t - m) \div Sampling
Slots(D, m) == {Slot(t, m) : t \in D}

\* t is the rate of data at the times D, of which m is the first, and k
\* windows are over.
RatedFrom(t, D, m, k) ==
  /\ \A y \in D : m <= y
  /\ k \in Slots(D, m) /\ Slots(D, m) \in SUBSET (0 .. k)
  /\ t.rate_left_edge = m + k * Sampling /\ t.rate_bytes \in Nat \ {0}
  /\ t.rate_sum \in Nat /\ t.data_bytes = t.rate_sum + t.rate_bytes
  /\ t.rate_short = 0 /\ t.rate_span = Sampling
  /\ t.rate_samples = k
  /\ t.rate_empty_samples = Cardinality((0 .. k - 1) \ Slots(D, m))
  /\ IsLongest(t.rate_empty_streak, Slots(D, m), k)
Unrated(t) ==
  /\ t.rate_left_edge = None /\ t.rate_bytes = 0 /\ t.rate_sum = 0 /\ t.data_bytes = 0
  /\ t.rate_short = 0 /\ t.rate_span = Sampling
  /\ t.rate_samples = 0 /\ t.rate_empty_samples = 0 /\ t.rate_empty_streak = 0
Rated(t, D) == IF D = {} THEN Unrated(t) ELSE \E m \in D, k \in Nat : RatedFrom(t, D, m, k)

\* The first data opens the first window.
LEMMA RatedFirst ==
  ASSUME NEW t, Unrated(t), NEW x \in Nat, NEW len \in Nat \ {0}, NEW r, RateTcb(r, t, x, len)
  PROVE  Rated(r, {x})
<1>1. t.rate_left_edge = None /\ t.rate_bytes = 0 /\ t.rate_sum = 0 /\ t.data_bytes = 0
      /\ t.rate_samples = 0 /\ t.rate_empty_samples = 0 /\ t.rate_empty_streak = 0
      /\ t.rate_short = 0 /\ t.rate_span = Sampling
  BY DEF Unrated
<1>2. Slot(x, x) = 0
  <2>1. x - x = 0 /\ Sampling \in Nat \ {0} /\ 0 * Sampling = 0 BY TcpAnalysisAssumption
  <2>2. 0 \div Sampling = 0 BY <2>1, DivIs
  <2> QED BY <2>1, <2>2 DEF Slot
<1>3. Slots({x}, x) = {0} BY <1>2 DEF Slots
<1>4. /\ r.rate_left_edge = x /\ r.rate_bytes = 0 + len /\ r.rate_sum = 0 /\ r.data_bytes = 0 + len
      /\ r.rate_samples = 0 /\ r.rate_empty_samples = 0 /\ r.rate_empty_streak = 0
      /\ r.rate_short = 0 /\ r.rate_span = Sampling
  BY <1>1, <1>2 DEF RateTcb, Slot
<1>5. Cardinality((0 .. 0 - 1) \ {0}) = 0
  <2>1. (0 .. 0 - 1) \ {0} = {} OBVIOUS
  <2> QED BY <2>1, FS_EmptySet
<1>6. IsLongest(0, {0}, 0) BY DEF IsLongest
<1>7. x + 0 * Sampling = x BY TcpAnalysisAssumption
<1>8. RatedFrom(r, {x}, x, 0)
  <2>1. \A y \in {x} : x <= y OBVIOUS
  <2>2. 0 \in Slots({x}, x) /\ Slots({x}, x) \in SUBSET (0 .. 0) BY <1>3
  <2>3. r.rate_bytes \in Nat \ {0} /\ r.rate_sum \in Nat /\ r.data_bytes = r.rate_sum + r.rate_bytes BY <1>4
  <2>4. r.rate_empty_samples = Cardinality((0 .. 0 - 1) \ Slots({x}, x)) BY <1>3, <1>4, <1>5
  <2>5. IsLongest(r.rate_empty_streak, Slots({x}, x), 0) BY <1>3, <1>4, <1>6
  <2>6. /\ r.rate_left_edge = x + 0 * Sampling /\ r.rate_samples = 0
        /\ r.rate_short = 0 /\ r.rate_span = Sampling
    BY <1>4, <1>7
  <2> QED BY <2>1, <2>2, <2>3, <2>4, <2>5, <2>6 DEF RatedFrom
<1> QED BY <1>8 DEF Rated

\* Later data, at x, is in the last window or opens a new one.
Since(t, x, m, k) ==
  /\ (x - t.rate_left_edge) \div Sampling = Slot(x, m) - k
  /\ Slot(x, m) \in Nat /\ k <= Slot(x, m)
  /\ t.rate_left_edge # None
  /\ x - t.rate_left_edge \in Nat /\ x - t.rate_left_edge = (x - m) - k * Sampling

\* That is so of any data after the last window's.
LEMMA RatedNext ==
  ASSUME NEW D \in SUBSET Nat, NEW x \in Nat, \A y \in D : y <= x,
         NEW m \in D, NEW k \in Nat, NEW t, RatedFrom(t, D, m, k)
  PROVE  Since(t, x, m, k)
<1> DEFINE a == x - m
           s == Sampling
<1>1. s \in Nat \ {0} /\ m \in Nat /\ a \in Nat BY TcpAnalysisAssumption DEF RatedFrom
<1>2. t.rate_left_edge = m + k * s /\ k \in Slots(D, m) BY DEF RatedFrom
<1>3. k * s <= a
  <2>1. PICK y \in D : Slot(y, m) = k BY <1>2 DEF Slots
  <2>2. y \in Nat /\ m <= y /\ y <= x BY DEF RatedFrom
  <2>3. y - m \in Nat /\ y - m <= a BY <1>1, <2>2
  <2>4. ((y - m) \div s) * s <= y - m BY <1>1, <2>3, DivBy
  <2>5. k * s <= y - m BY <2>1, <2>4 DEF Slot
  <2>6. k * s \in Nat BY <1>1
  <2> DEFINE c == k * s
             b == y - m
  <2>7. c \in Nat /\ b \in Nat /\ c <= b /\ b <= a /\ a \in Nat BY <1>1, <2>3, <2>5, <2>6
  <2> HIDE DEF c, b, a
  <2> QED BY <2>7 DEF c
<1>4. (a - k * s) \div s = (a \div s) - k /\ k <= a \div s BY <1>1, <1>3, DivShift
<1>5. a \div s \in Nat BY <1>1, DivBy
<1>6. k * s \in Nat BY <1>1
<1>7. x - t.rate_left_edge = a - k * s /\ a - k * s \in Nat /\ t.rate_left_edge \in Nat
  BY <1>1, <1>2, <1>3, <1>6
<1> QED BY <1>4, <1>5, <1>7 DEF Since, Slot, None

\* It becomes data of the last window, or of the new one.
LEMMA RatedMore ==
  ASSUME NEW D \in SUBSET Nat, NEW x \in Nat, \A y \in D : y <= x,
         NEW m \in D, NEW k \in Nat, NEW t, RatedFrom(t, D, m, k),
         NEW len \in Nat \ {0}, NEW r, RateTcb(r, t, x, len)
  PROVE  \E j \in Nat : RatedFrom(r, D \cup {x}, m, j)
<1> DEFINE H == Slots(D, m)
           K == Slot(x, m)
           n == (x - t.rate_left_edge) \div Sampling
           empty == One(t.rate_bytes = 0) + n - 1
<1>1. n = K - k /\ K \in Nat /\ k <= K /\ t.rate_left_edge # None
  <2>1. Since(t, x, m, k) BY RatedNext
  <2> QED BY <2>1 DEF Since
<1>2. /\ k \in H /\ H \in SUBSET (0 .. k) /\ t.rate_bytes \in Nat \ {0}
      /\ t.rate_left_edge = m + k * Sampling
      /\ t.rate_sum \in Nat /\ t.data_bytes = t.rate_sum + t.rate_bytes /\ t.rate_samples = k
      /\ t.rate_empty_samples = Cardinality((0 .. k - 1) \ H)
      /\ IsLongest(t.rate_empty_streak, H, k)
      /\ t.rate_short = 0 /\ t.rate_span = Sampling
  BY DEF RatedFrom
<1>3. Slots(D \cup {x}, m) = H \cup {K} BY DEF Slots
<1>4. /\ r.data_bytes = t.data_bytes + len
      /\ r.rate_short = t.rate_short /\ r.rate_span = t.rate_span
      /\ n = 0 => /\ r.rate_left_edge = t.rate_left_edge /\ r.rate_bytes = t.rate_bytes + len
                  /\ r.rate_sum = t.rate_sum /\ r.rate_samples = t.rate_samples
                  /\ r.rate_empty_samples = t.rate_empty_samples /\ r.rate_empty_streak = t.rate_empty_streak
      /\ n # 0 => /\ r.rate_left_edge = t.rate_left_edge + n * Sampling /\ r.rate_bytes = len
                  /\ WindowsOver(r, t, n, empty)
                  /\ r.rate_empty_streak = IF empty > t.rate_empty_streak THEN empty ELSE t.rate_empty_streak
  BY <1>1 DEF RateTcb
<1>5. empty = n - 1 BY <1>1, <1>2 DEF One
<1>6. \A y \in D \cup {x} : m <= y BY DEF RatedFrom
<1>7. Sampling \in Nat /\ m \in Nat BY TcpAnalysisAssumption
<1> HIDE DEF H, K, n, empty
<1>8. CASE n = 0
  <2>1. K = k BY <1>1, <1>8
  <2>2. H \cup {K} = H BY <1>2, <2>1
  <2>3. r.rate_bytes \in Nat \ {0} /\ r.data_bytes = r.rate_sum + r.rate_bytes BY <1>2, <1>4, <1>8
  <2>4. RatedFrom(r, D \cup {x}, m, k) BY <1>2, <1>3, <1>4, <1>6, <1>8, <2>2, <2>3 DEF RatedFrom
  <2> QED BY <2>4
<1>9. CASE n # 0
  <2>1. n \in Nat \ {0} /\ K = k + n BY <1>1, <1>9
  <2>2. H \cup {K} \in SUBSET (0 .. K) /\ K \in H \cup {K} BY <1>1, <1>2, <2>1
  <2>3. r.rate_left_edge = m + K * Sampling
    <3>1. r.rate_left_edge = (m + k * Sampling) + n * Sampling BY <1>2, <1>4, <1>9
    <3>2. K * Sampling = k * Sampling + n * Sampling BY <1>7, <2>1
    <3>3. k * Sampling \in Nat /\ n * Sampling \in Nat BY <1>7, <2>1
    <3> DEFINE u == k * Sampling
               v == n * Sampling
               w == K * Sampling
    <3>4. r.rate_left_edge = (m + u) + v /\ w = u + v /\ u \in Nat /\ v \in Nat /\ m \in Nat
      BY <1>7, <3>1, <3>2, <3>3
    <3> HIDE DEF u, v, w
    <3>5. r.rate_left_edge = m + w BY <3>4
    <3> QED BY <3>5 DEF w
  <2>4. /\ r.rate_bytes = len /\ r.rate_sum = t.rate_sum + t.rate_bytes /\ r.rate_samples = K
        /\ r.rate_empty_samples = t.rate_empty_samples + (n - 1)
        /\ r.rate_empty_streak = IF n - 1 > t.rate_empty_streak THEN n - 1 ELSE t.rate_empty_streak
    BY <1>2, <1>4, <1>5, <1>9, <2>1 DEF WindowsOver, WindowsCounted
  <2>5. r.rate_sum \in Nat /\ r.data_bytes = r.rate_sum + r.rate_bytes BY <1>2, <1>4, <2>4
  <2>6. IsLongest(r.rate_empty_streak, H \cup {K}, K) BY <1>2, <2>1, <2>4, LongestStep
  <2>7. r.rate_empty_samples = Cardinality((0 .. K - 1) \ (H \cup {K}))
    <3>1. Cardinality((0 .. (k + n) - 1) \ H) = Cardinality((0 .. k - 1) \ H) + (n - 1)
      BY <1>2, <2>1, EmptyStep
    <3>2. (0 .. K - 1) \ (H \cup {K}) = (0 .. (k + n) - 1) \ H BY <1>1, <2>1
    <3> QED BY <1>2, <2>4, <3>1, <3>2
  <2>8. r.rate_short = 0 /\ r.rate_span = Sampling BY <1>2, <1>4
  <2>9. RatedFrom(r, D \cup {x}, m, K) BY <1>3, <1>6, <2>2, <2>3, <2>4, <2>5, <2>6, <2>7, <2>8 DEF RatedFrom
  <2> QED BY <1>1, <2>9
<1> QED BY <1>8, <1>9

\* So the rate is kept, at every packet with data.
LEMMA RatedStep ==
  ASSUME NEW D \in SUBSET Nat, NEW x \in Nat, \A y \in D : y <= x,
         NEW t, Rated(t, D), NEW len \in Nat \ {0}, NEW r, RateTcb(r, t, x, len)
  PROVE  Rated(r, D \cup {x})
<1>1. CASE D = {}
  <2>1. Unrated(t) /\ D \cup {x} = {x} BY <1>1 DEF Rated
  <2>2. Rated(r, {x}) BY <2>1, RatedFirst
  <2> QED BY <2>1, <2>2
<1>2. CASE D # {}
  <2>1. PICK m \in D, k \in Nat : RatedFrom(t, D, m, k) BY <1>2 DEF Rated
  <2>2. \E j \in Nat : RatedFrom(r, D \cup {x}, m, j) BY <2>1, RatedMore
  <2> QED BY <1>2, <2>2 DEF Rated
<1> QED BY <1>1, <1>2

\* It is made of nothing else.
LEMMA RatedSame ==
  ASSUME NEW D, NEW t, Rated(t, D), NEW r, SameRates(r, t)
  PROVE  Rated(r, D)
BY DEF Rated, Unrated, RatedFrom, SameRates

\* The rate of d is known, and when the flow has ended it has been
\* completed.
Timely(d) ==
  LET D == h.data[d]
  IN /\ D \in SUBSET (0 .. current_time)
     /\ ended = "no" => Rated(tcb[d], D)
     /\ ended \in {"reset", "complete", "idle"} =>
          \E t : Rated(t, D) /\ LastTcb(tcb[d], t, current_time, d)

\* A packet.
LEMMA TimelyStep ==
  ASSUME FlowState, NEW p, Legal(p), Packet(p), NEW d \in Dirs, Timely(d)
  PROVE  Timely(d)'
<1> DEFINE D == h.data[d]
           cur == current_time'
           E == IF d = p.dir /\ p.len # 0 THEN D \cup {cur} ELSE D
<1>1. p.len \in Nat /\ conf \in Confs /\ current_time \in Nat BY DEF Legal, PacketTypes, FlowState
<1>2. cur \in Nat /\ current_time <= cur
  <2>1. PICK gap \in conf.gaps : cur = current_time + gap BY DEF Packet
  <2>2. gap \in Nat BY <1>1, ConfOf
  <2> QED BY <1>1, <2>1, <2>2
<1>3. h'.data[d] = E
  <2>1. h'.data[d] = IF d = p.dir /\ p.len > 0 THEN D \cup {cur} ELSE D BY DataStep
  <2> QED BY <1>1, <2>1
<1>4. ended = "no" /\ Rated(tcb[d], D) /\ D \in SUBSET (0 .. current_time) BY DEF Timely, Packet
<1>5. D \in SUBSET Nat /\ \A y \in D : y <= cur BY <1>1, <1>2, <1>4
<1>6. E \in SUBSET (0 .. cur) BY <1>1, <1>2, <1>4
<1>7. ended' # "half" => \E t : /\ Rated(t, E)
                                /\ IF ended' = "no" THEN SameRates(tcb'[d], t) ELSE LastTcb(tcb'[d], t, cur, d)
  <2> SUFFICES ASSUME ended' # "half"
               PROVE  \E t : /\ Rated(t, E)
                             /\ IF ended' = "no" THEN SameRates(tcb'[d], t) ELSE LastTcb(tcb'[d], t, cur, d)
    OBVIOUS
  <2>1. PICK t : /\ IF d = p.dir /\ p.len # 0 THEN RateTcb(t, tcb[d], cur, p.len) ELSE SameRates(t, tcb[d])
                 /\ IF ended' = "no" THEN SameRates(tcb'[d], t) ELSE LastTcb(tcb'[d], t, cur, d)
    BY PacketRates
  <2>2. Rated(t, E)
    <3>1. CASE d = p.dir /\ p.len # 0
      <4>1. RateTcb(t, tcb[d], cur, p.len) /\ p.len \in Nat \ {0} BY <1>1, <2>1, <3>1
      <4> HIDE DEF cur, D
      <4>2. Rated(t, D \cup {cur}) BY <1>2, <1>4, <1>5, <4>1, RatedStep
      <4> QED BY <3>1, <4>2
    <3>2. CASE ~(d = p.dir /\ p.len # 0)
      <4>1. SameRates(t, tcb[d]) /\ E = D BY <2>1, <3>2
      <4>2. Rated(t, D) BY <1>4, <4>1, RatedSame
      <4> QED BY <4>1, <4>2
    <3> QED BY <3>1, <3>2
  <2> QED BY <2>1, <2>2
<1>8. ended' = "no" => Rated(tcb'[d], E)
  <2> SUFFICES ASSUME ended' = "no" PROVE Rated(tcb'[d], E) OBVIOUS
  <2>1. PICK t : Rated(t, E) /\ SameRates(tcb'[d], t) BY <1>7
  <2> HIDE DEF E
  <2> QED BY <2>1, RatedSame
<1>9. ended' \in {"reset", "complete", "idle"} => \E t : Rated(t, E) /\ LastTcb(tcb'[d], t, cur, d) BY <1>7
<1> HIDE DEF E
<1> QED BY <1>3, <1>6, <1>8, <1>9 DEF Timely

\* At first there is no data.
LEMMA TimelyInit ==
  ASSUME AnalysisInit, NEW d \in Dirs
  PROVE  Timely(d)
<1>1. h.data[d] = {} /\ tcb[d] = Tcb /\ ended = "no" BY DEF AnalysisInit, NoHistory
<1>2. Unrated(Tcb) BY DEF Unrated, Tcb
<1> QED BY <1>1, <1>2 DEF Timely, Rated

\* The end of a flow that is idle.
LEMMA TimelyIdle ==
  ASSUME FlowState, Idle, NEW d \in Dirs, Timely(d)
  PROVE  Timely(d)'
<1>1. h' = h /\ ended = "no" /\ ended' = "idle" /\ current_time' \in {current_time, current_time + IdleTime}
  BY DEF Idle, EndFlow
<1>2. current_time \in Nat /\ IdleTime \in Nat BY TcpAnalysisAssumption DEF FlowState
<1>3. h.data[d] \in SUBSET (0 .. current_time')
  <2>1. h.data[d] \in SUBSET (0 .. current_time) BY DEF Timely
  <2>2. 0 .. current_time \subseteq 0 .. current_time' BY <1>1, <1>2
  <2> QED BY <2>1, <2>2
<1>4. Rated(tcb[d], h.data[d]) /\ LastTcb(tcb'[d], tcb[d], current_time', d) BY <1>1, IdleRates DEF Timely
<1>5. \E t : Rated(t, h.data[d]) /\ LastTcb(tcb'[d], t, current_time', d) BY <1>4
<1> QED BY <1>1, <1>3, <1>5 DEF Timely

\* The rates of both sides.
RateInv == \A d \in Dirs : Timely(d)

\* Every step keeps it, of a flow in the states of AnalysisInv.
LEMMA RateInvStep == AnalysisInv /\ RateInv /\ [AnalysisNext]_analysisVars => RateInv'
<1> SUFFICES ASSUME AnalysisInv, RateInv, [AnalysisNext]_analysisVars, NEW d \in Dirs
             PROVE  Timely(d)'
  BY DEF RateInv
<1>0. FlowState /\ conf \in Confs /\ (\A x \in Dirs : h.seen[x] \in SUBSET Positions) /\ Timely(d)
  BY DEF AnalysisInv, FlowState, HistoryTypes, RateInv
<1>1. ASSUME NEW e \in Dirs, SendSyn(e) \/ SendData(e) \/ SendAck(e) \/ SendFin(e) \/ SendReset(e)
      PROVE  Timely(d)'
  <2>1. PICK p : Legal(p) /\ Packet(p) BY <1>0, <1>1, SendLegal
  <2> QED BY <1>0, <2>1, TimelyStep
<1>2. CASE Idle BY <1>0, <1>2, TimelyIdle
<1>3. CASE UNCHANGED analysisVars BY <1>0, <1>3 DEF analysisVars, Timely
<1> QED BY <1>1, <1>2, <1>3 DEF AnalysisNext

\* The greatest of the windows with data is the last.
LEMMA LastSlot ==
  ASSUME NEW k \in Nat, NEW H \in SUBSET (0 .. k), k \in H
  PROVE  Max(H) = k
<1> DEFINE m == Max(H)
<1>1. m \in H /\ \A y \in H : y <= m BY MaxOf
<1> HIDE DEF m
<1>2. m = k BY <1>1
<1> QED BY <1>2 DEF m

\* What RatesCover says of d.
Covers(d) ==
  LET t == tcb[d]
      over == Max(Hit(d))
      rest == current_time - Min(h.data[d]) - over * Sampling
      n == IF ended = "no" THEN over ELSE Max({over + 1, Window(d, current_time)})
  IN /\ t.rate_samples = n /\ t.rate_empty_samples = Cardinality((0 .. n - 1) \ Hit(d))
     /\ t.rate_sum + (IF ended = "no" THEN t.rate_bytes ELSE t.rate_short) = t.data_bytes
     /\ IF ended # "no" /\ rest < Sampling THEN t.rate_short > 0 /\ t.rate_span = rest
        ELSE t.rate_short = 0 /\ t.rate_span = Sampling
     /\ ended = "no" \/ d = "s2c" => t.rate_empty_streak = Longest(Hit(d), over)

\* A rate that is known covers the data, while the flow goes on
LEMMA CoversOpen ==
  ASSUME NEW d \in Dirs, NEW m \in h.data[d], NEW k \in Nat, RatedFrom(tcb[d], h.data[d], m, k),
         h.data[d] \in SUBSET Nat, ended = "no"
  PROVE  Covers(d)
<1> DEFINE H == Slots(h.data[d], m)
           t == tcb[d]
<1>1. /\ k \in H /\ H \in SUBSET (0 .. k)
      /\ t.rate_samples = k /\ t.rate_empty_samples = Cardinality((0 .. k - 1) \ H)
      /\ t.rate_sum + t.rate_bytes = t.data_bytes /\ IsLongest(t.rate_empty_streak, H, k)
      /\ \A y \in h.data[d] : m <= y
      /\ t.rate_short = 0 /\ t.rate_span = Sampling
  BY DEF RatedFrom
<1>2. Min(h.data[d]) = m BY <1>1, MinIs
<1>3. Hit(d) = H BY <1>2 DEF Hit, Window, Slots, Slot
<1> HIDE DEF H, t
<1>4. Max(H) = k BY <1>1, LastSlot
<1>5. Longest(H, k) = t.rate_empty_streak BY <1>1, LongestIs
<1> QED BY <1>1, <1>3, <1>4, <1>5 DEF Covers, t

\* and when it has ended.
LEMMA CoversEnded ==
  ASSUME NEW d \in Dirs, NEW m \in h.data[d], NEW k \in Nat, NEW t, RatedFrom(t, h.data[d], m, k),
         current_time \in Nat, h.data[d] \in SUBSET (0 .. current_time), ended # "no",
         LastTcb(tcb[d], t, current_time, d)
  PROVE  Covers(d)
<1> DEFINE H == Slots(h.data[d], m)
           r == tcb[d]
           cur == current_time
           K == Slot(cur, m)
           delta == cur - t.rate_left_edge
           q == delta \div Sampling
           j == IF delta < Sampling THEN 1 ELSE q
           n == k + j
           empty == One(t.rate_bytes = 0) + j - 1
<1>1. /\ k \in H /\ H \in SUBSET (0 .. k) /\ t.rate_bytes \in Nat \ {0} /\ t.rate_sum \in Nat
      /\ t.rate_samples = k /\ t.rate_empty_samples = Cardinality((0 .. k - 1) \ H)
      /\ t.rate_sum + t.rate_bytes = t.data_bytes /\ IsLongest(t.rate_empty_streak, H, k)
      /\ \A y \in h.data[d] : m <= y
      /\ t.rate_short = 0 /\ t.rate_span = Sampling
  BY DEF RatedFrom
<1>2. h.data[d] \in SUBSET Nat /\ \A y \in h.data[d] : y <= cur OBVIOUS
<1>3. Min(h.data[d]) = m BY <1>1, <1>2, MinIs
<1>4. Hit(d) = H /\ Window(d, cur) = K BY <1>3 DEF Hit, Window, Slots, Slot
<1>5. /\ q = K - k /\ K \in Nat /\ k <= K /\ t.rate_left_edge # None
      /\ delta \in Nat /\ delta = (cur - m) - k * Sampling
  <2>1. Since(t, cur, m, k) BY <1>2, RatedNext
  <2> QED BY <2>1 DEF Since
<1>6. /\ r.data_bytes = t.data_bytes /\ WindowsCounted(r, t, j, empty)
      /\ delta < Sampling => r.rate_sum = t.rate_sum /\ r.rate_short = t.rate_bytes /\ r.rate_span = delta
      /\ ~(delta < Sampling) => /\ r.rate_sum = t.rate_sum + t.rate_bytes
                                /\ r.rate_short = t.rate_short /\ r.rate_span = t.rate_span
      /\ d = "s2c" => r.rate_empty_streak = t.rate_empty_streak
  BY <1>5 DEF LastTcb
<1>7. Sampling \in Nat \ {0} /\ (delta < Sampling <=> q = 0)
  <2>1. Sampling \in Nat \ {0} BY TcpAnalysisAssumption
  <2> HIDE DEF delta
  <2>2. q \in Nat /\ q * Sampling <= delta /\ delta < q * Sampling + Sampling BY <1>5, <2>1, DivBy
  <2> HIDE DEF q
  <2>3. CASE q = 0 BY <1>5, <2>1, <2>2, <2>3
  <2>4. CASE q # 0
    <3>1. Sampling <= q * Sampling
      <4>1. q - 1 \in Nat /\ q * Sampling = (q - 1) * Sampling + Sampling BY <2>1, <2>2, <2>4
      <4>2. (q - 1) * Sampling \in Nat BY <2>1, <4>1
      <4> QED BY <2>1, <4>1, <4>2
    <3> DEFINE c == q * Sampling
    <3>2. c \in Nat /\ Sampling <= c /\ c <= delta BY <2>1, <2>2, <3>1
    <3> HIDE DEF c
    <3> QED BY <1>5, <2>1, <2>4, <3>2
  <2> QED BY <2>1, <2>3, <2>4
<1>8. empty = j - 1 /\ j \in Nat \ {0} /\ n = IF k + 1 >= K THEN k + 1 ELSE K
  <2> HIDE DEF q, K, delta
  <2>1. One(t.rate_bytes = 0) = 0 BY <1>1 DEF One
  <2> QED BY <1>5, <1>7, <2>1
<1> HIDE DEF H, r, cur, K, q, empty, delta, j, n
<1>9. Max({k + 1, K}) = n
  <2>1. k + 1 \in Int /\ K \in Int BY <1>5
  <2> QED BY <1>8, <2>1, MaxTwo
<1>10. Max(H) = k BY <1>1, LastSlot
<1>11. Longest(H, k) = t.rate_empty_streak BY <1>1, LongestIs
<1>12. Cardinality((0 .. n - 1) \ H) = Cardinality((0 .. k - 1) \ H) + (j - 1)
  <2>1. Cardinality((0 .. (k + j) - 1) \ H) = Cardinality((0 .. k - 1) \ H) + (j - 1) BY <1>1, <1>8, EmptyStep
  <2> QED BY <2>1 DEF n
<1>13. r.rate_samples = n /\ r.rate_empty_samples = Cardinality((0 .. n - 1) \ H)
  <2>1. r.rate_samples = n BY <1>1, <1>6 DEF WindowsCounted, n
  <2>2. r.rate_empty_samples = Cardinality((0 .. n - 1) \ H) BY <1>1, <1>6, <1>8, <1>12 DEF WindowsCounted
  <2> QED BY <2>1, <2>2
<1>14. /\ r.rate_sum + r.rate_short = r.data_bytes
       /\ IF delta < Sampling THEN r.rate_short > 0 /\ r.rate_span = delta
          ELSE r.rate_short = 0 /\ r.rate_span = Sampling
  BY <1>1, <1>6
<1>15. delta = cur - Min(h.data[d]) - k * Sampling BY <1>3, <1>5
<1> QED BY <1>4, <1>6, <1>9, <1>10, <1>11, <1>13, <1>14, <1>15 DEF Covers, r, cur

\* So all data is covered.
LEMMA RatesKnown == AnalysisInv /\ RateInv => RatesCover
<1> SUFFICES ASSUME AnalysisInv, RateInv, NEW d \in Dirs, h.data[d] # {}, Counting
             PROVE  Covers(d)
  BY Zenon DEF RatesCover, Covers
<1>0. /\ ended \in {"no", "half", "reset", "complete", "idle"} /\ current_time \in Nat
      /\ h.data[d] \in SUBSET (0 .. current_time) /\ h.data[d] \in SUBSET Nat
  BY DEF AnalysisInv, FlowState, RateInv, Timely
<1>1. CASE ended = "no"
  <2>1. PICK m \in h.data[d], k \in Nat : RatedFrom(tcb[d], h.data[d], m, k)
    BY <1>1 DEF RateInv, Timely, Rated
  <2> QED BY <1>0, <1>1, <2>1, CoversOpen
<1>2. CASE ended # "no"
  <2>1. PICK t : Rated(t, h.data[d]) /\ LastTcb(tcb[d], t, current_time, d)
    BY <1>0, <1>2 DEF RateInv, Timely, Counting
  <2>2. PICK m \in h.data[d], k \in Nat : RatedFrom(t, h.data[d], m, k) BY <2>1 DEF Rated
  <2> QED BY <1>0, <1>2, <2>1, <2>2, CoversEnded
<1> QED BY <1>1, <1>2

\* Of flows whose SYNs can be parsed the columns of the log are true
\* (Measures): the bytes sent, who behaved badly, the windows, the options,
\* the rates and the congestion window, whatever the sniffer misses.
THEOREM AnalysisMeasures ==
  (\A c \in Confs : OptionsParsed(c)) => (AnalysisSpec => []Measures)
<1> SUFFICES ASSUME \A c \in Confs : OptionsParsed(c)
             PROVE  AnalysisSpec => []Measures
  OBVIOUS
<1>1. AnalysisInv /\ WindowInv /\ RateInv /\ UniqueBytes /\ BadBehaviour /\ CwinTrue /\ FlightTrue => Measures
  BY WindowsKnown, RatesKnown DEF Measures, AnalysisInv, FlowState
<1>2. AnalysisInit => RateInv BY TimelyInit DEF RateInv
<1>3. AnalysisSpec => [](AnalysisInv /\ WindowInv /\ RateInv)
  BY <1>2, AnalysisInvInit, AnalysisInvStep, WindowInvInit, WindowInvStep, RateInvStep, PTL DEF AnalysisSpec
<1> QED BY <1>1, <1>3, AnalysisCounts, AnalysisFlight, PTL

\* f[i] is the sum of the first i elements of s.
SumsOf(s, f) == f = [i \in 0 .. Len(s) |-> IF i = 0 THEN 0 ELSE f[i - 1] + s[i]]

\* f adds the elements of s to each other, up to n.
Adds(s, n, f) ==
  /\ f[0] = 0
  /\ \A i \in 1 .. n : f[i] = f[i - 1] + s[i]

\* s and r agree up to n.
Alike(s, r, n) == \A i \in 1 .. n : s[i] = r[i]

\* The sums of a sequence exist,
LEMMA SumsExist ==
  ASSUME NEW s \in Seq(Int), NEW n \in 0 .. Len(s)
  PROVE  \E f \in [0 .. n -> Int] : Adds(s, n, f)
<1> DEFINE X == {k \in 0 .. n : ~ \E f \in [0 .. k -> Int] : Adds(s, k, f)}
<1>0. Len(s) \in Nat /\ n \in Nat OBVIOUS
<1> SUFFICES ASSUME X # {} PROVE FALSE BY <1>0
<1>1. PICK k \in X : \A j \in X : k <= j
  <2>1. X \in SUBSET Nat BY <1>0
  <2> HIDE DEF X
  <2> QED BY <2>1, LeastOf
<1>2. k # 0
  <2> DEFINE z == [i \in 0 .. 0 |-> 0]
  <2>1. z \in [0 .. 0 -> Int] /\ z[0] = 0 OBVIOUS
  <2>2. Adds(s, 0, z) BY <2>1 DEF Adds
  <2> HIDE DEF z
  <2> QED BY <2>1, <2>2
<1>3. k - 1 \in 0 .. n /\ k - 1 \notin X /\ k \in 1 .. n /\ k \in 1 .. Len(s) BY <1>0, <1>1, <1>2
<1>4. PICK f \in [0 .. k - 1 -> Int] : Adds(s, k - 1, f) BY <1>3
<1> DEFINE g == [i \in 0 .. k |-> IF i = k THEN f[k - 1] + s[k] ELSE f[i]]
<1>5. s[k] \in Int /\ f[k - 1] \in Int BY <1>3
<1>6. g \in [0 .. k -> Int]
  <2>1. ASSUME NEW i \in 0 .. k, i # k PROVE f[i] \in Int BY <1>3, <2>1
  <2> QED BY <1>5, <2>1
<1>7. g[0] = 0 BY <1>3, <1>4 DEF Adds
<1>8. ASSUME NEW i \in 1 .. k PROVE g[i] = g[i - 1] + s[i]
  <2>1. i \in 0 .. k /\ i - 1 \in 0 .. k /\ i - 1 # k BY <1>3
  <2>2. g[i - 1] = f[i - 1] BY <2>1
  <2>3. CASE i = k BY <2>1, <2>2, <2>3
  <2>4. CASE i # k
    <3>1. i \in 1 .. k - 1 BY <1>3, <2>4
    <3>2. f[i] = f[i - 1] + s[i] BY <1>4, <3>1 DEF Adds
    <3>3. g[i] = f[i] BY <2>1, <2>4
    <3> QED BY <2>2, <3>2, <3>3
  <2> QED BY <2>3, <2>4
<1>9. Adds(s, k, g)
  <2> HIDE DEF g
  <2> QED BY <1>7, <1>8 DEF Adds
<1> HIDE DEF g
<1> QED BY <1>1, <1>6, <1>9

\* and there is one for each place.
LEMMA SumsUnique ==
  ASSUME NEW n \in Nat, NEW s, NEW f, NEW g, NEW r, Adds(s, n, f),
         Adds(r, n, g), Alike(s, r, n)
  PROVE  f[n] = g[n]
<1> DEFINE X == {k \in 0 .. n : f[k] # g[k]}
<1> SUFFICES ASSUME X # {} PROVE FALSE OBVIOUS
<1>1. PICK k \in X : \A j \in X : k <= j
  <2>1. X \in SUBSET Nat OBVIOUS
  <2> HIDE DEF X
  <2> QED BY <2>1, LeastOf
<1>2. k # 0 BY DEF Adds
<1>3. k \in 1 .. n /\ k - 1 \in 0 .. n /\ k - 1 \notin X BY <1>1, <1>2
<1>4. f[k - 1] = g[k - 1] BY <1>3
<1>5. f[k] = f[k - 1] + s[k] /\ g[k] = g[k - 1] + r[k] /\ s[k] = r[k] BY <1>3 DEF Adds, Alike
<1> QED BY <1>1, <1>4, <1>5

\* Total is the last of the sums.
LEMMA TotalSums ==
  ASSUME NEW s \in Seq(Int)
  PROVE  \E f \in [0 .. Len(s) -> Int] : Adds(s, Len(s), f) /\ Total(s) = f[Len(s)]
<1> DEFINE u == CHOOSE f : f = [i \in 0 .. Len(s) |-> IF i = 0 THEN 0 ELSE f[i - 1] + s[i]]
<1>0. Len(s) \in Nat OBVIOUS
<1>1. PICK f \in [0 .. Len(s) -> Int] : Adds(s, Len(s), f)
  <2>1. Len(s) \in 0 .. Len(s) BY <1>0
  <2> QED BY <2>1, SumsExist
<1>2. SumsOf(s, f)
  <2> DEFINE e == [i \in 0 .. Len(s) |-> IF i = 0 THEN 0 ELSE f[i - 1] + s[i]]
  <2>1. ASSUME NEW i \in 0 .. Len(s) PROVE f[i] = e[i]
    <3>1. CASE i = 0 BY <1>1, <3>1 DEF Adds
    <3>2. CASE i # 0
      <4>1. i \in 1 .. Len(s) BY <1>0, <3>2
      <4> QED BY <1>1, <3>2, <4>1 DEF Adds
    <3> QED BY <3>1, <3>2
  <2>2. f = [i \in 0 .. Len(s) |-> f[i]] /\ e = [i \in 0 .. Len(s) |-> e[i]] OBVIOUS
  <2>3. f = e
    <3> HIDE DEF e
    <3> QED BY <2>1, <2>2
  <2> QED BY <2>3 DEF SumsOf
<1>3. SumsOf(s, u)
  <2>1. \E a : a = [i \in 0 .. Len(s) |-> IF i = 0 THEN 0 ELSE a[i - 1] + s[i]] BY <1>2, Zenon DEF SumsOf
  <2> QED BY <2>1, Zenon DEF SumsOf
<1>4. Total(s) = u[Len(s)] BY DEF Total
<1> HIDE DEF u
<1>5. Adds(s, Len(s), u) /\ Alike(s, s, Len(s))
  <2>1. ASSUME NEW i \in 0 .. Len(s) PROVE u[i] = IF i = 0 THEN 0 ELSE u[i - 1] + s[i] BY <1>3 DEF SumsOf
  <2> QED BY <1>0, <2>1 DEF Adds, Alike
<1>6. f[Len(s)] = u[Len(s)] BY <1>0, <1>1, <1>5, SumsUnique
<1> QED BY <1>1, <1>4, <1>6

\* Nothing adds up to 0.
LEMMA TotalEmpty == Total(<<>>) = 0
<1>1. <<>> \in Seq(Int) /\ Len(<<>>) = 0 OBVIOUS
<1>2. PICK f \in [0 .. Len(<<>>) -> Int] : Adds(<<>>, Len(<<>>), f) /\ Total(<<>>) = f[Len(<<>>)]
  BY <1>1, TotalSums
<1> QED BY <1>1, <1>2 DEF Adds

\* One more element is added to the sum.
LEMMA TotalAppend ==
  ASSUME NEW s \in Seq(Int), NEW x \in Int
  PROVE  Total(s) \in Int /\ Total(Append(s, x)) = Total(s) + x
<1> DEFINE r == Append(s, x)
           n == Len(s)
<1>1. /\ r \in Seq(Int) /\ Len(r) = n + 1 /\ n \in Nat /\ r[n + 1] = x
      /\ \A i \in 1 .. n : s[i] = r[i]
  OBVIOUS
<1>2. PICK f \in [0 .. n -> Int] : Adds(s, n, f) /\ Total(s) = f[n] BY TotalSums
<1> HIDE DEF r
<1>3. PICK g \in [0 .. Len(r) -> Int] : Adds(r, Len(r), g) /\ Total(r) = g[Len(r)] BY <1>1, TotalSums
<1> HIDE DEF n
<1>4. g[0] = 0 /\ \A i \in 1 .. n + 1 : g[i] = g[i - 1] + r[i] BY <1>1, <1>3 DEF Adds
<1>5. Adds(r, n, g) /\ Alike(s, r, n) BY <1>1, <1>4 DEF Adds, Alike
<1>6. f[n] = g[n] BY <1>1, <1>2, <1>5, SumsUnique
<1>7. g[n + 1] = g[(n + 1) - 1] + r[n + 1] /\ (n + 1) - 1 = n BY <1>1, <1>4
<1>8. f[n] \in Int BY <1>1, <1>2
<1> QED BY <1>1, <1>2, <1>3, <1>6, <1>7, <1>8 DEF r

\* Where the messages of r are after a packet, which were at those of t:
\* s is the next number expected and lo the first one.
Cut(r, t, ends, s, lo) ==
  LET size == Mod(IF t.msg_last_seq = 0 THEN s - lo - 1 ELSE s - t.msg_last_seq)
      over == ends /\ t.msg_last_seq < s
  IN /\ r.min_seq = lo
     /\ r.msg_last_seq = IF over THEN s ELSE t.msg_last_seq
     /\ r.msg_count = IF over THEN t.msg_count + One(size > 0) ELSE t.msg_count
     /\ r.msg_size = IF over /\ t.msg_count < MaxMessages /\ size > 0
                     THEN Append(t.msg_size, size) ELSE t.msg_size

\* What a packet does to the messages of x.
LEMMA PacketCuts ==
  ASSUME FlowState, NEW p, Legal(p), Packet(p), NEW x \in Dirs, ended' # "half",
         NEW s, s = (IF Again(p) > 0 THEN tcb[x].seq ELSE Mod(Seq0(p) + p.len)),
         NEW lo, lo = IF x = p.dir /\ tcb[x].min_seq = 0 THEN Seq0(p) ELSE tcb[x].min_seq
  PROVE  Cut(tcb'[x], tcb[x], x = p.dir /\ Ends(p), s, lo)
<1> DEFINE b == Counted(CountFlags(tcb, p), p)
           eff == EffWin(CountFlags(tcb, p), p)
           c == Measured(b, p, eff)
<1>0. /\ Shaped(tcb) /\ p.dir \in Dirs /\ (p.syn => ~p.fin)
      /\ p.rst => ~Ends(p)
  BY DEF Legal, PacketTypes, Sensible, FlowState, TcbsTyped, Ends
<1>1. /\ Shaped(b)
      /\ \A y \in Dirs : CountedTcb(b, tcb, p, y)
      /\ Differ(b, tcb, CountFields)
  BY <1>0, PacketCounted
<1>2. \/ ended' = "reset" /\ p.rst /\ Differ(tcb', b, RateFields)
      \/ Differ(tcb', c, RateFields)
  BY <1>0, PacketEffect
<1>3. /\ \A y \in Dirs : MeasuredTcb(c, b, p, eff, y)
      /\ Differ(c, b, {"win_max", "win_min", "ack", "data_acked", "initialwin_bytes", "cwin_max", "cwin_min",
                          "msg_size", "msg_count", "msg_last_seq"})
  BY <1>0, <1>1, MeasuredEffect
<1> HIDE DEF b, c, eff
<1>4. /\ b[x].msg_last_seq = tcb[x].msg_last_seq
      /\ b[x].msg_count = tcb[x].msg_count
      /\ b[x].msg_size = tcb[x].msg_size
  BY <1>1 DEF Differ, Fields, Tcb, RateFields, CountFields
<1>5. b[x].min_seq = lo /\ (x = p.dir => b[x].seq = s)
  <2>1. CountedTcb(b, tcb, p, x) BY <1>1
  <2>2. b[x].min_seq = lo BY <2>1 DEF CountedTcb
  <2>3. b[x].seq = IF x = p.dir /\ ~(Again(p) > 0) THEN Mod(Seq0(p) + p.len) ELSE tcb[x].seq
    BY <2>1 DEF CountedTcb
  <2> QED BY <2>2, <2>3
<1>6. Cut(c[x], tcb[x], x = p.dir /\ Ends(p), s, lo)
  <2> DEFINE g == b[x]
             ends == x = p.dir /\ Ends(p) /\ g.msg_last_seq < g.seq
             size == MessageSize(g)
  <2>1. /\ c[x].msg_size = IF ends /\ g.msg_count < MaxMessages /\ size > 0
                           THEN Append(g.msg_size, size) ELSE g.msg_size
        /\ c[x].msg_count = IF ends THEN g.msg_count + One(size > 0) ELSE g.msg_count
        /\ c[x].msg_last_seq = IF ends THEN g.seq ELSE g.msg_last_seq
    <3>1. MeasuredTcb(c, b, p, eff, x) BY <1>3
    <3> QED BY <3>1 DEF MeasuredTcb
  <2>2. c[x].min_seq = lo BY <1>3, <1>5 DEF Differ, Fields, Tcb
  <2> DEFINE over == (x = p.dir /\ Ends(p)) /\ tcb[x].msg_last_seq < s
             all == Mod(IF tcb[x].msg_last_seq = 0 THEN s - lo - 1 ELSE s - tcb[x].msg_last_seq)
  <2>3. ends <=> over BY <1>4, <1>5
  <2>4. over => size = all /\ g.seq = s BY <1>4, <1>5 DEF MessageSize
  <2> HIDE DEF ends, size, over, all, g
  <2>5. /\ c[x].msg_last_seq = IF over THEN s ELSE g.msg_last_seq
        /\ c[x].msg_count = IF over THEN g.msg_count + One(all > 0) ELSE g.msg_count
        /\ c[x].msg_size = IF over /\ g.msg_count < MaxMessages /\ all > 0
                           THEN Append(g.msg_size, all) ELSE g.msg_size
    BY <2>1, <2>3, <2>4
  <2>6. g.msg_last_seq = tcb[x].msg_last_seq /\ g.msg_count = tcb[x].msg_count /\ g.msg_size = tcb[x].msg_size
    BY <1>4 DEF g
  <2> QED BY <2>2, <2>5, <2>6 DEF Cut, over, all
<1>7. CASE ended' = "reset" /\ p.rst /\ Differ(tcb', b, RateFields)
  <2>1. /\ tcb'[x].msg_last_seq = b[x].msg_last_seq /\ tcb'[x].msg_count = b[x].msg_count
        /\ tcb'[x].msg_size = b[x].msg_size /\ tcb'[x].min_seq = b[x].min_seq
    BY <1>7 DEF Differ, Fields, Tcb, RateFields, CountFields
  <2> QED BY <1>0, <1>4, <1>5, <1>7, <2>1 DEF Cut
<1>8. CASE Differ(tcb', c, RateFields)
  <2>1. /\ tcb'[x].msg_last_seq = c[x].msg_last_seq /\ tcb'[x].msg_count = c[x].msg_count
        /\ tcb'[x].msg_size = c[x].msg_size /\ tcb'[x].min_seq = c[x].min_seq
    BY <1>8 DEF Differ, Fields, Tcb, RateFields, CountFields
  <2> QED BY <1>6, <2>1 DEF Cut
<1> QED BY <1>2, <1>7, <1>8

\* Where the numbering of x starts after a packet.
FirstAfter(p, x) ==
  LET free == x = p.dir /\ tcb[x].msg_last_seq = 0 /\ (h.first[x] = None \/ Mod(conf.isn[x] + h.first[x]) = 0)
  IN h'.first[x] = IF free THEN p.at ELSE h.first[x]

\* That is so of every packet.
LEMMA PacketFirst ==
  ASSUME HistoryShaped, NEW p, p.dir \in Dirs, h' = Remember(p), NEW x \in Dirs
  PROVE  FirstAfter(p, x)
BY DEF HistoryShaped, Remember, FirstAfter

\* What a remainder says.
LEMMA ModBy ==
  ASSUME NEW a \in Int
  PROVE  \E q \in Int : a = q * SeqModulus + Mod(a)
<1>1. a = (a \div SeqModulus) * SeqModulus + (a % SeqModulus) /\ a \div SeqModulus \in Int
  BY TcpAnalysisAssumption
<1> QED BY <1>1 DEF Mod

\* There is one.
LEMMA ModIs ==
  ASSUME NEW a \in Int, NEW q \in Int, NEW r \in Positions, a = q * SeqModulus + r
  PROVE  Mod(a) = r
BY TcpAnalysisAssumption DEF Mod, Positions

\* What is added to a number may be taken into the sequence space first,
LEMMA ModPlus ==
  ASSUME NEW a \in Int, NEW b \in Int
  PROVE  Mod(Mod(a) + b) = Mod(a + b)
<1>0. SeqModulus \in Nat \ {0} BY TcpAnalysisAssumption
<1>1. PICK q \in Int : a = q * SeqModulus + Mod(a) BY ModBy
<1>2. Mod(a) \in Positions BY ModRange
<1> DEFINE r == Mod(a)
<1>3. r \in Int /\ a = q * SeqModulus + r BY <1>0, <1>1, <1>2 DEF Positions
<1> HIDE DEF r
<1>4. PICK k \in Int : r + b = k * SeqModulus + Mod(r + b) BY <1>3, ModBy
<1> DEFINE z == Mod(r + b)
<1>5. z \in Positions BY <1>3, ModRange
<1>6. z \in Int /\ r + b = k * SeqModulus + z BY <1>0, <1>4, <1>5 DEF Positions
<1> HIDE DEF z
<1>7. a + b = (q + k) * SeqModulus + z
  <2>1. (q + k) * SeqModulus = q * SeqModulus + k * SeqModulus BY <1>0
  <2> DEFINE x == q * SeqModulus
             y == k * SeqModulus
  <2>2. x \in Int /\ y \in Int BY <1>0
  <2>3. a = x + r /\ r + b = y + z /\ (q + k) * SeqModulus = x + y BY <1>3, <1>6, <2>1
  <2> HIDE DEF x, y
  <2> QED BY <1>3, <1>6, <2>2, <2>3
<1>8. Mod(a + b) = z BY <1>5, <1>7, ModIs
<1> QED BY <1>8 DEF z, r

\* and so may what is taken from one.
LEMMA ModMinus ==
  ASSUME NEW a \in Int, NEW b \in Int
  PROVE  Mod(b - Mod(a)) = Mod(b - a)
<1>0. SeqModulus \in Nat \ {0} BY TcpAnalysisAssumption
<1>1. PICK q \in Int : a = q * SeqModulus + Mod(a) BY ModBy
<1>2. Mod(a) \in Positions BY ModRange
<1> DEFINE r == Mod(a)
<1>3. r \in Int /\ a = q * SeqModulus + r BY <1>0, <1>1, <1>2 DEF Positions
<1> HIDE DEF r
<1>4. PICK k \in Int : b - r = k * SeqModulus + Mod(b - r) BY <1>3, ModBy
<1> DEFINE z == Mod(b - r)
<1>5. z \in Positions BY <1>3, ModRange
<1>6. z \in Int /\ b - r = k * SeqModulus + z BY <1>0, <1>4, <1>5 DEF Positions
<1> HIDE DEF z
<1>7. b - a = (k - q) * SeqModulus + z
  <2>1. (k - q) * SeqModulus = k * SeqModulus - q * SeqModulus BY <1>0
  <2>2. q * SeqModulus \in Int /\ k * SeqModulus \in Int BY <1>0
  <2> QED BY <1>3, <1>6, <2>1, <2>2
<1>8. Mod(b - a) = z BY <1>5, <1>7, ModIs
<1> QED BY <1>8 DEF z, r

\* The messages of d, of a flow that is not half duplex: before one has
\* ended, where they start; after that, how many bytes they have.
Unsplit(t, d) ==
  /\ t.msg_size = <<>> /\ t.msg_count = 0
  /\ IF h.first[d] = None THEN t.min_seq = 0
     ELSE h.first[d] \in Nat /\ t.min_seq = Mod(conf.isn[d] + h.first[d])
Sized(t, i, f) ==
  t.msg_count <= MaxMessages =>
    Mod(Total(t.msg_size)) = Mod(t.msg_last_seq - i - f - 1)
Split(t, d) ==
  /\ h.first[d] \in Nat
  /\ Sized(t, conf.isn[d], h.first[d])
Tiled(d) == Counting => IF tcb[d].msg_last_seq = 0 THEN Unsplit(tcb[d], d) ELSE Split(tcb[d], d)

\* The first message to end counts from where the numbering starts.
LEMMA FirstSplit ==
  ASSUME NEW s \in Positions, NEW I \in Nat, NEW f \in Nat, NEW lo, lo = Mod(I + f), NEW t, NEW r,
         t.msg_last_seq = 0, t.msg_size = <<>>, t.msg_count = 0, Cut(r, t, TRUE, s, lo), 0 < s
  PROVE  /\ r.msg_last_seq = s
         /\ Sized(r, I, f)
<1> DEFINE size == Mod(s - lo - 1)
<1>1. /\ r.msg_last_seq = s
      /\ r.msg_count = One(size > 0)
      /\ r.msg_size = IF 0 < MaxMessages /\ size > 0 THEN Append(<<>>, size) ELSE <<>>
  BY DEF Cut, One
<1>2. s \in Int /\ MaxMessages \in Nat /\ SeqModulus \in Nat \ {0} BY TcpAnalysisAssumption DEF Positions
<1>3. lo \in Positions /\ lo \in Int BY ModRange, <1>2 DEF Positions
<1>4. size = Mod(s - I - f - 1)
  <2>1. s - lo - 1 = (s - 1) - Mod(I + f) /\ s - 1 \in Int /\ I + f \in Int BY <1>2, <1>3
  <2>2. Mod((s - 1) - Mod(I + f)) = Mod((s - 1) - (I + f)) BY <2>1, ModMinus
  <2>3. (s - 1) - (I + f) = s - I - f - 1 BY <1>2
  <2> QED BY <2>1, <2>2, <2>3
<1>5. size \in Positions
  <2>1. s - lo - 1 \in Int BY <1>2, <1>3
  <2> QED BY <2>1, ModRange
<1>6. Mod(size) = size BY <1>5, ModSmall
<1>7. size \in Nat BY <1>2, <1>5 DEF Positions
<1> HIDE DEF size
<1> SUFFICES ASSUME r.msg_count <= MaxMessages PROVE Mod(Total(r.msg_size)) = size BY <1>1, <1>4 DEF Sized
<1>8. CASE size > 0
  <2>1. 0 < MaxMessages BY <1>1, <1>2, <1>8 DEF One
  <2>2. r.msg_size = Append(<<>>, size) /\ size \in Int /\ <<>> \in Seq(Int) BY <1>1, <1>7, <1>8, <2>1
  <2>3. Total(r.msg_size) = 0 + size BY <2>2, TotalEmpty, TotalAppend
  <2> QED BY <1>6, <1>7, <2>3
<1>9. CASE ~(size > 0)
  <2>1. size = 0 /\ r.msg_size = <<>> BY <1>1, <1>7, <1>9
  <2>2. Total(r.msg_size) = 0 BY <2>1, TotalEmpty
  <2> QED BY <1>6, <2>1, <2>2
<1> QED BY <1>8, <1>9

\* A later one counts from the end of the one before.
LEMMA NextSplit ==
  ASSUME NEW s \in Positions, NEW I \in Nat, NEW f \in Nat, NEW lo, NEW t, NEW r,
         t.msg_last_seq \in Positions, t.msg_last_seq # 0, t.msg_size \in Seq(Int), t.msg_count \in Nat,
         Cut(r, t, TRUE, s, lo), t.msg_last_seq < s,
         Sized(t, I, f)
  PROVE  /\ r.msg_last_seq = s
         /\ Sized(r, I, f)
<1> DEFINE l == t.msg_last_seq
           size == Mod(s - l)
           K == Total(t.msg_size)
<1>1. /\ r.msg_last_seq = s
      /\ r.msg_count = t.msg_count + One(size > 0)
      /\ r.msg_size = IF t.msg_count < MaxMessages /\ size > 0 THEN Append(t.msg_size, size) ELSE t.msg_size
  BY DEF Cut
<1>2. s \in Nat /\ l \in Nat /\ MaxMessages \in Nat /\ SeqModulus \in Nat \ {0}
  BY TcpAnalysisAssumption DEF Positions
<1>3. size = s - l /\ s - l \in Int /\ s - l > 0
  <2>1. s - l \in Positions /\ s - l > 0 BY <1>2 DEF Positions
  <2> QED BY <2>1, <1>2, ModSmall
<1>4. K \in Int /\ Total(Append(t.msg_size, s - l)) = K + (s - l) BY <1>3, TotalAppend
<1> HIDE DEF size, K, l
<1> SUFFICES ASSUME r.msg_count <= MaxMessages PROVE Mod(Total(r.msg_size)) = Mod(s - I - f - 1)
  BY <1>1 DEF Sized
<1>5. t.msg_count < MaxMessages BY <1>1, <1>2, <1>3 DEF One
<1>6. Total(r.msg_size) = K + (s - l) BY <1>1, <1>3, <1>4, <1>5
<1>7. Mod(K) = Mod(l - I - f - 1) BY <1>2, <1>5 DEF K, l, Sized
<1>8. Mod(K + (s - l)) = Mod(Mod(K) + (s - l)) BY <1>3, <1>4, ModPlus
<1>9. Mod(Mod(l - I - f - 1) + (s - l)) = Mod((l - I - f - 1) + (s - l))
  <2>1. l - I - f - 1 \in Int BY <1>2
  <2> QED BY <2>1, <1>3, ModPlus
<1>10. (l - I - f - 1) + (s - l) = s - I - f - 1 BY <1>2
<1> QED BY <1>6, <1>7, <1>8, <1>9, <1>10

\* What a packet leaves of the messages of d.
LEMMA TiledStep ==
  ASSUME FlowState, FlowState', NEW p, Legal(p), Packet(p), NEW d \in Dirs, Tiled(d)
  PROVE  Tiled(d)'
<1> DEFINE I == conf.isn[d]
           t == tcb[d]
           r == tcb'[d]
           F == h.first[d]
           G == h'.first[d]
           s == IF Again(p) > 0 THEN tcb[d].seq ELSE Mod(Seq0(p) + p.len)
           lo == IF d = p.dir /\ tcb[d].min_seq = 0 THEN Seq0(p) ELSE tcb[d].min_seq
           ends == d = p.dir /\ Ends(p)
<1>0. /\ p.dir \in Dirs /\ p.at \in Nat /\ p.len \in Nat
      /\ Shaped(tcb) /\ conf \in Confs /\ HistoryTypes /\ HistoryShaped /\ TcbTypes(tcb[d], d)
  BY DEF Legal, PacketTypes, FlowState, TcbsTyped, HistoryTypes
<1>1. h' = Remember(p) /\ conf' = conf /\ ended = "no" BY <1>0, PacketCloses
<1>2. G = IF d = p.dir /\ t.msg_last_seq = 0 /\ (F = None \/ Mod(I + F) = 0) THEN p.at ELSE F
  <2>1. FirstAfter(p, d) BY <1>0, <1>1, PacketFirst
  <2> QED BY <2>1 DEF FirstAfter
<1>3. I \in Nat
  <2>1. I \in Positions BY <1>0, ConfOf
  <2> QED BY <2>1, TcpAnalysisAssumption DEF Positions
<1>4. s \in Positions
  <2>1. tcb[d].seq \in Positions BY <1>0 DEF TcbTypes
  <2>2. Mod(Seq0(p) + p.len) \in Positions BY <1>0, SeqTypes
  <2> QED BY <2>1, <2>2
<1>5. /\ t.msg_last_seq \in Positions /\ t.msg_size \in Seq(Int) /\ t.msg_count \in Nat BY <1>0 DEF TcbTypes
<1>6. IF t.msg_last_seq = 0 THEN Unsplit(t, d) ELSE Split(t, d) BY <1>1 DEF Tiled, Counting
<1>7. Tiled(d)' <=> (ended' # "half" =>
        IF r.msg_last_seq = 0
        THEN /\ r.msg_size = <<>> /\ r.msg_count = 0
             /\ IF G = None THEN r.min_seq = 0 ELSE G \in Nat /\ r.min_seq = Mod(I + G)
        ELSE /\ G \in Nat
             /\ Sized(r, I, G))
  BY <1>1 DEF Tiled, Counting, Unsplit, Split, Sized
<1>8. ended' # "half" => Cut(r, t, ends, s, lo)
  <2> SUFFICES ASSUME ended' # "half" PROVE Cut(r, t, ends, s, lo) OBVIOUS
  <2> HIDE DEF s, lo
  <2>1. s = (IF Again(p) > 0 THEN tcb[d].seq ELSE Mod(Seq0(p) + p.len)) BY DEF s
  <2>2. lo = IF d = p.dir /\ tcb[d].min_seq = 0 THEN Seq0(p) ELSE tcb[d].min_seq BY DEF lo
  <2> QED BY <2>1, <2>2, PacketCuts
<1>9. d = p.dir => Seq0(p) = Mod(I + p.at) BY DEF Seq0
<1>10. lo = IF d = p.dir /\ t.min_seq = 0 THEN Seq0(p) ELSE t.min_seq OBVIOUS
<1> HIDE DEF I, t, r, F, G, s, lo, ends
<1> SUFFICES ASSUME ended' # "half"
             PROVE  IF r.msg_last_seq = 0
                    THEN /\ r.msg_size = <<>> /\ r.msg_count = 0
                         /\ IF G = None THEN r.min_seq = 0 ELSE G \in Nat /\ r.min_seq = Mod(I + G)
                    ELSE /\ G \in Nat
                         /\ Sized(r, I, G)
  BY <1>7
<1>11. Cut(r, t, ends, s, lo) BY <1>8
<1>12. CASE t.msg_last_seq = 0
  <2>1. /\ t.msg_size = <<>> /\ t.msg_count = 0
        /\ IF F = None THEN t.min_seq = 0 ELSE F \in Nat /\ t.min_seq = Mod(I + F)
    BY <1>6, <1>12 DEF Unsplit, I, F
  <2>2. IF G = None THEN lo = 0 ELSE G \in Nat /\ lo = Mod(I + G)
    <3>1. CASE d # p.dir BY <3>1, <2>1, <1>2, <1>10
    <3>2. CASE d = p.dir /\ (F = None \/ Mod(I + F) = 0)
      <4>1. t.min_seq = 0 /\ G = p.at BY <3>2, <2>1, <1>2, <1>12
      <4> QED BY <4>1, <3>2, <1>0, <1>9, <1>10 DEF None
    <3>3. CASE d = p.dir /\ ~(F = None \/ Mod(I + F) = 0)
      <4>1. F # None /\ F \in Nat /\ t.min_seq = Mod(I + F) /\ Mod(I + F) # 0 /\ G = F BY <3>3, <2>1, <1>2
      <4>2. lo = t.min_seq BY <4>1, <1>10
      <4> QED BY <4>1, <4>2
    <3> QED BY <3>1, <3>2, <3>3
  <2>3. CASE ends /\ 0 < s
    <3>1. d = p.dir BY <2>3 DEF ends
    <3>2. G # None BY <3>1, <1>0, <1>2, <1>12 DEF None
    <3>3. G \in Nat /\ lo = Mod(I + G) BY <2>2, <3>2
    <3>4. Cut(r, t, TRUE, s, lo) BY <2>3, <1>11
    <3>5. /\ r.msg_last_seq = s
          /\ Sized(r, I, G)
      BY <1>3, <1>4, <1>12, <2>1, <2>3, <3>3, <3>4, FirstSplit
    <3>6. s # 0 BY <2>3, <1>4 DEF Positions
    <3> QED BY <3>3, <3>5, <3>6
  <2>4. CASE ~(ends /\ 0 < s)
    <3>1. r.min_seq = lo /\ r.msg_last_seq = 0 /\ r.msg_count = t.msg_count /\ r.msg_size = t.msg_size
      BY <1>11, <1>12, <2>4 DEF Cut
    <3> QED BY <3>1, <2>1, <2>2
  <2> QED BY <2>3, <2>4
<1>13. CASE t.msg_last_seq # 0
  <2>1. /\ F \in Nat
        /\ Sized(t, I, F)
    BY <1>6, <1>13 DEF Split, I, F
  <2>2. G = F BY <1>2, <1>13
  <2>3. CASE ends /\ t.msg_last_seq < s
    <3>1. Cut(r, t, TRUE, s, lo) BY <2>3, <1>11
    <3>2. /\ r.msg_last_seq = s
          /\ Sized(r, I, F)
      BY <1>3, <1>4, <1>5, <1>13, <2>1, <2>3, <3>1, NextSplit
    <3>3. s # 0 BY <2>3, <1>4, <1>5, TcpAnalysisAssumption DEF Positions
    <3> QED BY <2>1, <2>2, <3>2, <3>3
  <2>4. CASE ~(ends /\ t.msg_last_seq < s)
    <3>1. r.msg_last_seq = t.msg_last_seq /\ r.msg_count = t.msg_count /\ r.msg_size = t.msg_size
      BY <1>11, <2>4 DEF Cut
    <3> QED BY <3>1, <2>1, <2>2, <1>13 DEF Sized
  <2> QED BY <2>3, <2>4
<1> QED BY <1>12, <1>13

\* Of both sides.
TiledInv == \A d \in Dirs : Tiled(d)

\* No message has ended at the start.
LEMMA TiledInvInit == AnalysisInit => TiledInv
BY DEF AnalysisInit, NoHistory, Tcb, TiledInv, Tiled, Unsplit

\* Every step keeps it, of a flow in the states of AnalysisInv.
LEMMA TiledInvStep == AnalysisInv /\ AnalysisInv' /\ TiledInv /\ [AnalysisNext]_analysisVars => TiledInv'
<1> SUFFICES ASSUME AnalysisInv, AnalysisInv', TiledInv, [AnalysisNext]_analysisVars, NEW d \in Dirs
             PROVE  Tiled(d)'
  BY DEF TiledInv
<1>0. FlowState /\ FlowState' /\ conf \in Confs /\ (\A x \in Dirs : h.seen[x] \in SUBSET Positions) /\ Tiled(d)
  BY DEF AnalysisInv, FlowState, HistoryTypes, TiledInv
<1>1. ASSUME NEW e \in Dirs, SendSyn(e) \/ SendData(e) \/ SendAck(e) \/ SendFin(e) \/ SendReset(e)
      PROVE  Tiled(d)'
  <2>1. PICK p : Legal(p) /\ Packet(p) BY <1>0, <1>1, SendLegal
  <2> QED BY <1>0, <2>1, TiledStep
<1>2. CASE Idle
  <2>1. Differ(tcb', tcb, RateFields) /\ conf' = conf /\ h' = h /\ ended = "no"
    BY <1>0, <1>2, IdleStep DEF Idle
  <2>2. /\ tcb'[d].msg_last_seq = tcb[d].msg_last_seq /\ tcb'[d].msg_count = tcb[d].msg_count
        /\ tcb'[d].msg_size = tcb[d].msg_size /\ tcb'[d].min_seq = tcb[d].min_seq
    BY <2>1 DEF Differ, Fields, Tcb, RateFields, CountFields
  <2> QED BY <1>0, <2>1, <2>2 DEF Tiled, Counting, Unsplit, Split, Sized
<1>3. CASE UNCHANGED analysisVars
  <2>1. conf' = conf /\ tcb' = tcb /\ ended' = ended /\ h' = h BY <1>3 DEF analysisVars
  <2> QED BY <1>0, <2>1 DEF Tiled, Counting, Unsplit, Split, Sized
<1> QED BY <1>1, <1>2, <1>3 DEF AnalysisNext

\* The messages of a stream are the stream: their sizes add up to what
\* lies between where its numbering starts and the end of the last one
\* (MessagesTile), whatever comes late or again; and of a stream that
\* comes in order the last PSH or FIN ends one (MessagesFound).
THEOREM AnalysisMessages == AnalysisSpec => []MessagesSplit
<1>1. AnalysisInv /\ TiledInv => MessagesTile
  <2> SUFFICES ASSUME AnalysisInv, TiledInv, Counting, NEW d \in Dirs, tcb[d].msg_count <= MaxMessages
               PROVE  Mod(Total(tcb[d].msg_size)) =
                        IF tcb[d].msg_last_seq = 0 THEN 0
                        ELSE Mod(tcb[d].msg_last_seq - conf.isn[d] - h.first[d] - 1)
    BY DEF MessagesTile
  <2>1. Tiled(d) BY DEF TiledInv
  <2>2. CASE tcb[d].msg_last_seq = 0
    <3>1. tcb[d].msg_size = <<>> BY <2>1, <2>2 DEF Tiled, Unsplit
    <3>2. 0 \in Positions BY TcpAnalysisAssumption DEF Positions
    <3>3. Mod(0) = 0 BY <3>2, ModSmall
    <3> QED BY <2>2, <3>1, <3>3, TotalEmpty
  <2>3. CASE tcb[d].msg_last_seq # 0 BY <2>1, <2>3 DEF Tiled, Split, Sized
  <2> QED BY <2>2, <2>3
<1>2. AnalysisSpec => []MessagesTile
  BY <1>1, AnalysisInvariant, TiledInvInit, TiledInvStep, PTL DEF AnalysisSpec
<1> QED BY <1>2, AnalysisMessagesFound, PTL DEF MessagesSplit

==============================
