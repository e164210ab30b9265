-------------------------- MODULE SlotSearchProofs --------------------------
(***************************************************************************)
(* What the circular slot search of NewTTP_2 and NewUTP guarantees for     *)
(* every table size and every LIST_SEARCH_DEPT, in the closed form of      *)
(* SlotSearch; and that the loop computes the closed form.                 *)
(***************************************************************************)
EXTENDS SlotLoop, FiniteSets, FiniteSetTheorems, TLAPS

\* A set of naturals that is not empty has a least member.
LEMMA Least ==
  ASSUME NEW X \in SUBSET Nat, X # {}
  PROVE  \E i \in X : \A j \in X : i <= j
<1>1. \E i \in X : \A j \in X : ~ (<<j, i>> \in OpToRel(<, Nat)) BY NatLessThanWellFounded, WFMin
<1>2. \A j, i \in Nat : <<j, i>> \in OpToRel(<, Nat) <=> j < i BY DEF OpToRel
<1>3. PICK i \in X : \A j \in X : ~ (<<j, i>> \in OpToRel(<, Nat)) BY <1>1
<1>4. \A j \in X : ~ (j < i) /\ j \in Nat /\ i \in Nat BY <1>2, <1>3
<1>5. \A j \in X : i <= j BY <1>4
<1> QED BY <1>5

\* The loop examines at least one slot and at most the whole table.
LEMMA MaxStepType == MaxStep \in 0 .. Pairs - 1
  BY SlotAssumption DEF MaxStep

\* Every slot the search examines is a slot of the table.
LEMMA ProbeType ==
  ASSUME NEW cur \in Slots \cup {-1}, NEW k \in 0 .. MaxStep
  PROVE  Probe(cur, k) \in Slots
  <1>1. cur + 1 + k \in Int BY SlotAssumption, MaxStepType DEF Slots
  <1>2. \A x \in Int : x % Pairs \in 0 .. Pairs - 1 BY SlotAssumption
  <1>3. QED BY <1>1, <1>2 DEF Probe, Slots

\* The remainder by the table size, over the range the search uses.
LEMMA SmallMod ==
  ASSUME NEW x \in Int
  PROVE  /\ x \in 0 .. Pairs - 1 => x % Pairs = x
         /\ x \in Pairs .. 2 * Pairs - 1 => x % Pairs = x - Pairs
         /\ x \in -Pairs .. -1 => x % Pairs = x + Pairs
  BY SlotAssumption, Z3

\* A step of the search undone from where the search ended.
LEMMA ProbeBack ==
  ASSUME NEW cur \in Slots \cup {-1}, NEW m \in 0 .. MaxStep, NEW k \in 0 .. m
  PROVE  (Probe(cur, m) - k) % Pairs = Probe(cur, m - k)
  <1> DEFINE s == cur + 1 + m
             r == s - k
  <1>1. /\ s \in 0 .. 2 * Pairs - 1
        /\ r \in 0 .. s
        /\ k \in 0 .. Pairs - 1
        /\ Pairs \in Nat \ {0}
        /\ Probe(cur, m) = s % Pairs
        /\ Probe(cur, m - k) = r % Pairs
    <2>1. /\ cur \in -1 .. Pairs - 1 /\ m \in 0 .. Pairs - 1 /\ k \in 0 .. m
          /\ Pairs \in Nat \ {0}
      BY SlotAssumption, MaxStepType DEF Slots
    <2>2. cur + 1 + (m - k) = r BY <2>1
    <2>3. QED BY <2>1, <2>2 DEF Probe
  <1> HIDE DEF s, r
  <1>2. r = s - k BY DEF r
  <1>3. CASE s < Pairs
    <2>1. s % Pairs = s BY <1>1, <1>3, SmallMod
    <2>2. QED BY <1>1, <1>2, <2>1
  <1>4. CASE s >= Pairs
    <2>1. s % Pairs = s - Pairs BY <1>1, <1>4, SmallMod
    <2>2. CASE r >= Pairs
      <3>1. r % Pairs = r - Pairs BY <1>1, <2>2, SmallMod
      <3>2. (r - Pairs) % Pairs = r - Pairs BY <1>1, <2>2, SmallMod
      <3>3. s - Pairs - k = r - Pairs BY <1>1, <1>2
      <3>4. QED BY <1>1, <2>1, <3>1, <3>2, <3>3
    <2>3. CASE r < Pairs
      <3>1. r % Pairs = r BY <1>1, <2>3, SmallMod
      <3>2. (r - Pairs) % Pairs = (r - Pairs) + Pairs BY <1>1, <2>3, SmallMod
      <3>3. s - Pairs - k = r - Pairs BY <1>1, <1>2
      <3>4. QED BY <1>1, <2>1, <3>1, <3>2, <3>3
    <2>4. QED BY <1>1, <2>2, <2>3
  <1>5. QED BY <1>1, <1>3, <1>4

\* The least step of the walk that meets a free slot exists when any does.
LEMMA FirstFree ==
  ASSUME NEW cur, NEW taken,
         {k \in 0 .. MaxStep : Probe(cur, k) \notin taken} # {}
  PROVE  \E k \in 0 .. MaxStep :
            Probe(cur, k) \notin taken /\ Landing(cur, taken) = Probe(cur, k)
  <1> DEFINE free == {k \in 0 .. MaxStep : Probe(cur, k) \notin taken}
  <1>1. PICK n \in free : TRUE OBVIOUS
  <1>2. free \subseteq Nat BY MaxStepType, SlotAssumption
  <1>3. free # {} BY <1>1
  <1> HIDE DEF free
  <1>4. \E k \in free : \A j \in free : k <= j BY <1>2, <1>3, Least
  <1>5. QED BY <1>4 DEF Landing, free

\* The index the search stops at is a slot of the table: ttp[] and utp[]
\* are never read or written outside their bounds (tcp.c:352-365).
THEOREM LandingType ==
  ASSUME NEW cur \in Slots \cup {-1}, NEW taken
  PROVE  Landing(cur, taken) \in Slots
  <1>1. CASE {k \in 0 .. MaxStep : Probe(cur, k) \notin taken} = {}
    <2>1. MaxStep \in 0 .. MaxStep BY MaxStepType, SlotAssumption
    <2>2. QED BY <1>1, <2>1, ProbeType DEF Landing
  <1>2. CASE {k \in 0 .. MaxStep : Probe(cur, k) \notin taken} # {} BY <1>2, FirstFree, ProbeType
  <1>3. QED BY <1>1, <1>2

\* A search that finds nothing has seen only taken slots, the MaxStep + 1
\* slots that end where it stopped (tcp.c:367-379).
THEOREM FailedSearch ==
  ASSUME NEW cur \in Slots \cup {-1}, NEW taken, ~ Found(cur, taken)
  PROVE  Behind(Landing(cur, taken)) \subseteq taken
  <1>1. {k \in 0 .. MaxStep : Probe(cur, k) \notin taken} = {} BY FirstFree DEF Found
  <1>2. Landing(cur, taken) = Probe(cur, MaxStep) BY <1>1 DEF Landing
  <1>3. ASSUME NEW k \in 0 .. MaxStep
        PROVE  (Probe(cur, MaxStep) - k) % Pairs \in taken
    <2>1. MaxStep \in 0 .. MaxStep /\ MaxStep - k \in 0 .. MaxStep BY MaxStepType, SlotAssumption
    <2>2. (Probe(cur, MaxStep) - k) % Pairs = Probe(cur, MaxStep - k) BY <2>1, ProbeBack
    <2>3. QED BY <1>1, <2>1, <2>2
  <1>4. QED BY <1>2, <1>3 DEF Behind

\* The slots the search examines are different ones.
LEMMA ProbesDiffer ==
  ASSUME NEW cur \in Slots \cup {-1}, NEW i \in 0 .. MaxStep, NEW k \in 0 .. MaxStep,
         Probe(cur, i) = Probe(cur, k)
  PROVE  i = k
<1> DEFINE x == cur + 1 + i
           y == cur + 1 + k
<1>1. /\ x \in 0 .. 2 * Pairs - 1 /\ y \in 0 .. 2 * Pairs - 1 /\ x - y = i - k
      /\ i \in 0 .. Pairs - 1 /\ k \in 0 .. Pairs - 1 /\ Pairs \in Nat \ {0}
  BY SlotAssumption, MaxStepType DEF Slots
<1>2. x % Pairs = y % Pairs BY DEF Probe
<1> HIDE DEF x, y
<1>3. /\ x % Pairs = IF x < Pairs THEN x ELSE x - Pairs
      /\ y % Pairs = IF y < Pairs THEN y ELSE y - Pairs
  BY <1>1, SmallMod
<1> QED BY <1>1, <1>2, <1>3

\* A flow is turned away, with slots free or not, only while more flows are
\* open than LIST_SEARCH_DEPT steps pass by, or while the table is full: 201
\* of them with the depth of param.h, of 175023 or 350003 slots.
THEOREM RefusalNeedsCrowd ==
  ASSUME NEW cur \in Slots \cup {-1}, NEW taken \in SUBSET Slots, ~ Found(cur, taken)
  PROVE  /\ Cardinality(taken) >= MaxStep + 1
         /\ Cardinality(taken) > SearchDept \/ taken = Slots
<1> DEFINE f == [k \in 0 .. MaxStep |-> Probe(cur, k)]
<1>1. Pairs \in Nat \ {0} /\ SearchDept \in Nat /\ MaxStep \in 0 .. Pairs - 1 BY MaxStepType, SlotAssumption
<1>2. IsFiniteSet(Slots) /\ Cardinality(Slots) = Pairs
  <2>1. 0 \in Int /\ Pairs - 1 \in Int /\ ~ (0 > Pairs - 1) /\ (Pairs - 1) - 0 + 1 = Pairs BY <1>1
  <2> QED BY <2>1, FS_Interval DEF Slots
<1>3. IsFiniteSet(taken) /\ Cardinality(taken) \in Nat BY <1>2, FS_Subset, FS_CardinalityType
<1>4. Cardinality(0 .. MaxStep) = MaxStep + 1 BY <1>1, FS_Interval
<1>5. \A k \in 0 .. MaxStep : Probe(cur, k) \in taken
  <2>1. {k \in 0 .. MaxStep : Probe(cur, k) \notin taken} = {} BY FirstFree DEF Found
  <2> QED BY <2>1
<1>6. f \in Injection(0 .. MaxStep, taken)
  <2>1. f \in [0 .. MaxStep -> taken] BY <1>5
  <2>2. \A i, k \in 0 .. MaxStep : f[i] = f[k] => i = k BY ProbesDiffer
  <2> HIDE DEF f
  <2> QED BY <2>1, <2>2 DEF Injection, IsInjective
<1> HIDE DEF f
<1>7. Cardinality(taken) >= MaxStep + 1 BY <1>1, <1>3, <1>4, <1>6, FS_Injection
<1>8. CASE SearchDept < Pairs - 1 BY <1>1, <1>3, <1>7, <1>8 DEF MaxStep
<1>9. CASE ~ (SearchDept < Pairs - 1)
  <2>1. Cardinality(taken) >= Pairs BY <1>1, <1>3, <1>7, <1>9 DEF MaxStep
  <2>2. Cardinality(taken) <= Pairs BY <1>2, FS_Subset
  <2>3. Cardinality(taken) = Cardinality(Slots) BY <1>1, <1>2, <1>3, <2>1, <2>2
  <2> QED BY <1>2, <1>7, <2>3, FS_Subset
<1> QED BY <1>7, <1>8, <1>9

------------------------------
\* The loop has seen taken slots only, and is at the step it counts.  A
\* table that was never searched is empty.
LoopInv ==
  /\ TypeOK
  /\ steps \in 0 .. MaxStep
  /\ old = -1 /\ pc = "loop" => occ = {}
  /\ num = Probe(old, steps)
  /\ pc = "loop" => \A k \in 0 .. steps - 1 : Probe(old, k) \in occ

\* The walk is back where it began after a whole turn, and not before.
LEMMA Turn ==
  ASSUME NEW cur \in Slots, NEW k \in 0 .. MaxStep
  PROVE  Probe(cur, k) = cur <=> k = Pairs - 1
  <1>1. /\ Pairs \in Nat \ {0} /\ k \in 0 .. Pairs - 1
        /\ cur \in 0 .. Pairs - 1 /\ cur + 1 + k \in 0 .. 2 * Pairs - 1
    BY SlotAssumption, MaxStepType DEF Slots
  <1>2. CASE cur + 1 + k < Pairs
    <2>1. Probe(cur, k) = cur + 1 + k BY <1>1, <1>2, SmallMod DEF Probe
    <2>2. QED BY <1>1, <1>2, <2>1
  <1>3. CASE cur + 1 + k >= Pairs
    <2>1. Probe(cur, k) = cur + 1 + k - Pairs BY <1>1, <1>3, SmallMod DEF Probe
    <2>2. QED BY <1>1, <2>1
  <1>4. QED BY <1>1, <1>2, <1>3

\* One more iteration examines the next slot of the walk.
LEMMA NextProbe ==
  ASSUME NEW cur \in Slots \cup {-1}, NEW k \in 0 .. MaxStep
  PROVE  (Probe(cur, k) + 1) % Pairs = Probe(cur, k + 1)
  <1>1. /\ Pairs \in Nat \ {0} /\ k \in 0 .. Pairs - 1
        /\ cur \in -1 .. Pairs - 1 /\ cur + 1 + k \in 0 .. 2 * Pairs - 1
    BY SlotAssumption, MaxStepType DEF Slots
  <1> DEFINE x == cur + 1 + k
  <1>2. x \in 0 .. 2 * Pairs - 1 /\ cur + 1 + (k + 1) = x + 1 BY <1>1
  <1>3. Probe(cur, k) = x % Pairs /\ Probe(cur, k + 1) = (x + 1) % Pairs BY <1>2 DEF Probe
  <1> HIDE DEF x
  <1>4. CASE x < Pairs
    <2>1. x % Pairs = x BY <1>1, <1>2, <1>4, SmallMod
    <2>2. QED BY <1>3, <2>1
  <1>5. CASE x >= Pairs
    <2>1. x % Pairs = x - Pairs BY <1>1, <1>2, <1>5, SmallMod
    <2>2. CASE x + 1 < 2 * Pairs
      <3>1. (x + 1) % Pairs = x + 1 - Pairs BY <1>1, <1>2, <1>5, <2>2, SmallMod
      <3>2. (x - Pairs + 1) % Pairs = x - Pairs + 1 BY <1>1, <1>2, <1>5, <2>2, SmallMod
      <3>3. QED BY <1>1, <1>2, <1>3, <2>1, <3>1, <3>2
    <2>3. CASE x + 1 = 2 * Pairs
      <3>1. (2 * Pairs) % Pairs = 0 /\ Pairs % Pairs = 0 BY <1>1, Z3
      <3>2. x - Pairs + 1 = Pairs BY <1>1, <1>2, <2>3
      <3>3. QED BY <1>3, <2>1, <2>3, <3>1, <3>2
    <2>4. QED BY <1>1, <1>2, <2>2, <2>3
  <1>6. QED BY <1>1, <1>2, <1>4, <1>5

\* The search starts at the slot after the one used last.
LEMMA LoopInit == Init => LoopInv
  <1> SUFFICES ASSUME Init PROVE LoopInv OBVIOUS
  <1>1. /\ Pairs \in Nat \ {0} /\ SearchDept \in Nat /\ 0 \in 0 .. MaxStep
        /\ old \in Slots \cup {-1}
    BY SlotAssumption, MaxStepType DEF Init
  <1>2. old = -1 => occ = {} BY <1>1 DEF Init, Slots
  <1>3. num = Probe(old, 0)
    <2>1. old + 1 + 0 = old + 1 BY <1>1 DEF Slots
    <2>2. QED BY <2>1 DEF Init, Probe
  <1>4. TypeOK BY <1>1, <1>3, ProbeType DEF Init, TypeOK
  <1>5. QED BY <1>1, <1>2, <1>3, <1>4 DEF LoopInv, Init

\* A search that goes on has a slot left to examine.
LEMMA LoopNext == LoopInv /\ [Next]_vars => LoopInv'
  <1> SUFFICES ASSUME LoopInv, [Next]_vars PROVE LoopInv' OBVIOUS
  <1>1. /\ Pairs \in Nat \ {0} /\ SearchDept \in Nat /\ MaxStep \in 0 .. Pairs - 1
        /\ old \in Slots \cup {-1} /\ steps \in 0 .. MaxStep
        /\ num \in Slots /\ occ \subseteq Slots
    BY SlotAssumption, MaxStepType DEF LoopInv, TypeOK
  <1>2. CASE Walk
    <2>1. pc = "loop" /\ num # old /\ num \in occ /\ steps < SearchDept BY <1>2 DEF Walk, GoOn
    <2>2. old \in Slots BY <1>1, <2>1 DEF LoopInv
    <2>3. steps # MaxStep
      <3>1. steps # Pairs - 1 BY <1>1, <2>1, <2>2, Turn DEF LoopInv
      <3>2. QED BY <1>1, <2>1, <3>1 DEF MaxStep
    <2>4. steps + 1 \in 0 .. MaxStep /\ steps + 1 \in 0 .. SearchDept BY <1>1, <2>1, <2>3
    <2>5. num' = Probe(old, steps + 1) BY <1>1, <1>2, NextProbe DEF Walk, LoopInv
    <2>6. num' \in Slots BY <1>1, <2>4, <2>5, ProbeType
    <2>7. TypeOK' BY <1>2, <2>4, <2>6 DEF Walk, TypeOK, LoopInv
    <2>8. \A k \in 0 .. steps : Probe(old, k) \in occ
      <3>1. \A k \in 0 .. steps : k \in 0 .. steps - 1 \/ k = steps BY <1>1
      <3>2. QED BY <2>1, <3>1 DEF LoopInv
    <2>9. steps' = steps + 1 /\ steps' - 1 = steps /\ UNCHANGED <<old, occ, pc>> BY <1>1, <1>2 DEF Walk
    <2>10. QED BY <2>2, <2>4, <2>5, <2>7, <2>8, <2>9 DEF LoopInv, Slots
  <1>3. CASE Stop
    <2>1. /\ occ' = occ \cup {num} /\ UNCHANGED <<old, num, steps>>
          /\ pc' \in {"found", "null"}
      BY <1>3 DEF Stop
    <2>2. TypeOK' BY <1>1, <2>1 DEF LoopInv, TypeOK
    <2>3. QED BY <2>1, <2>2 DEF LoopInv
  <1>4. CASE UNCHANGED vars BY <1>4 DEF LoopInv, TypeOK, vars
  <1>5. QED BY <1>2, <1>3, <1>4 DEF Next

\* Where the loop ends, the closed form ends.
LEMMA LoopExit == LoopInv => LoopComputesLanding
  <1> SUFFICES ASSUME LoopInv, pc = "loop", ~ GoOn
               PROVE  num = Landing(old, occ) /\ (num \notin occ <=> Found(old, occ))
    BY DEF LoopComputesLanding
  <1>1. /\ Pairs \in Nat \ {0} /\ SearchDept \in Nat /\ MaxStep \in 0 .. Pairs - 1
        /\ old \in Slots \cup {-1} /\ steps \in 0 .. MaxStep /\ num = Probe(old, steps)
        /\ num \in Slots /\ steps \in 0 .. SearchDept
    BY SlotAssumption, MaxStepType DEF LoopInv, TypeOK
  <1> DEFINE free == {k \in 0 .. MaxStep : Probe(old, k) \notin occ}
  <1>2. \A k \in 0 .. steps - 1 : k \notin free BY DEF LoopInv
  <1>3. CASE num \notin occ
    <2>1. steps \in free /\ \A j \in free : steps <= j BY <1>1, <1>2, <1>3
    <2>2. \A k \in free : (\A j \in free : k <= j) => k = steps BY <1>1, <2>1
    <2>3. (CHOOSE k \in free : \A j \in free : k <= j) = steps BY <2>1, <2>2
    <2>4. num = Landing(old, occ) BY <1>1, <2>1, <2>3 DEF Landing
    <2>5. QED BY <1>3, <2>4 DEF Found
  <1>4. CASE num \in occ
    <2>1. steps = MaxStep
      <3>1. CASE num = old
        <4>1. old \in Slots /\ Probe(old, steps) = old BY <1>1, <3>1
        <4>2. steps = Pairs - 1 BY <1>1, <4>1, Turn
        <4>3. QED BY <1>1, <4>2
      <3>2. CASE steps >= SearchDept BY <1>1, <3>2 DEF MaxStep
      <3>3. QED BY <1>1, <1>4, <3>1, <3>2 DEF GoOn
    <2>2. free = {}
      <3>1. \A k \in 0 .. MaxStep : k \in 0 .. steps - 1 \/ k = steps BY <1>1, <2>1
      <3>2. QED BY <1>1, <1>2, <1>4, <3>1
    <2>3. num = Landing(old, occ) BY <1>1, <2>1, <2>2 DEF Landing
    <2>4. QED BY <1>4, <2>3 DEF Found
  <1>5. QED BY <1>3, <1>4

\* The loop of tcp.c:349-365 and udp.c:83-98 stops at the slot the closed
\* form gives, and finds a free one exactly when the closed form does.
THEOREM LoopCorrect == Spec => []LoopComputesLanding
  <1>1. Init => LoopInv BY LoopInit
  <1>2. LoopInv /\ [Next]_vars => LoopInv' BY LoopNext
  <1>3. LoopInv => LoopComputesLanding BY LoopExit
  <1>4. QED BY <1>1, <1>2, <1>3, PTL DEF Spec
==============================
