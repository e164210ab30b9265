--------------------------- MODULE EngineProofs -------------------------------
(***************************************************************************)
(* Proofs about the threaded engine (FlowClose), for tables and searches   *)
(* of any size and any traffic: types, the ownership of the four mutexes,  *)
(* and with it the exclusive use of the flow tables, the handshake that    *)
(* starts the cleaner, and what a ttp_lock_mutex left locked implies; and  *)
(* about the packet loop (Engine), for any command line, configuration,    *)
(* number of files and of edits: where its output goes (RunInv).           *)
(***************************************************************************)
EXTENDS FlowClose, Engine, TLAPS

\* The variables of SlotLoop play no part in what is used here.
TP == INSTANCE SlotSearchProofs WITH Pairs <- MaxTcpPairs, SearchDept <- ListSearchDept, occ <- {}, old <- 0, num <- 0,
                                     steps <- 0, pc <- "loop"
UP == INSTANCE SlotSearchProofs WITH Pairs <- MaxUdpPairs, SearchDept <- ListSearchDept, occ <- {}, old <- 0, num <- 0,
                                     steps <- 0, pc <- "loop"

\* The searches in ttp[] and utp[] stay inside their tables.
LEMMA TcpLanding ==
  ASSUME NEW cur \in T!Slots, NEW occ
  PROVE  T!Landing(cur, occ) \in T!Slots
  <1>1. TP!SlotAssumption BY FlowCloseAssumption DEF TP!SlotAssumption
  <1>2. TP!Landing(cur, occ) \in TP!Slots BY <1>1, TP!LandingType DEF TP!Slots, T!Slots
  <1>3. QED BY <1>2 DEF TP!Landing, T!Landing, TP!Slots, T!Slots, TP!Probe, T!Probe, TP!MaxStep, T!MaxStep

LEMMA UdpLanding ==
  ASSUME NEW cur \in U!Slots \cup {-1}, NEW occ
  PROVE  U!Landing(cur, occ) \in U!Slots
  <1>1. UP!SlotAssumption BY FlowCloseAssumption DEF UP!SlotAssumption
  <1>2. UP!Landing(cur, occ) \in UP!Slots BY <1>1, UP!LandingType DEF UP!Slots, U!Slots
  <1>3. QED BY <1>2 DEF UP!Landing, U!Landing, UP!Slots, U!Slots, UP!Probe, U!Probe, UP!MaxStep, U!MaxStep

\* A flow that found no slot has seen taken slots only.
LEMMA TcpFailed ==
  ASSUME NEW cur \in T!Slots, NEW occ, ~ T!Found(cur, occ)
  PROVE  T!Behind(T!Landing(cur, occ)) \subseteq occ
  <1>1. TP!SlotAssumption BY FlowCloseAssumption DEF TP!SlotAssumption
  <1>2. TP!Landing(cur, occ) = T!Landing(cur, occ)
    BY DEF TP!Landing, T!Landing, TP!Probe, T!Probe, TP!MaxStep, T!MaxStep
  <1>3. TP!Behind(TP!Landing(cur, occ)) \subseteq occ
    BY <1>1, <1>2, TP!FailedSearch DEF TP!Slots, T!Slots, TP!Found, T!Found
  <1>4. QED BY <1>2, <1>3 DEF TP!Behind, T!Behind, TP!MaxStep, T!MaxStep

\* The inductive invariant.
ThreadsInv == ThreadsTypeOK /\ Ownership /\ Started /\ Carried

\* Every step keeps the types and the ownership of the mutexes in line with
\* the control points of the threads; the cleaner never goes back to its
\* start; a mutex carried over from a failed search keeps the slots it saw
\* taken.
LEMMA ThreadsStep ==
  ASSUME ThreadsInv, [ThreadsNext]_threadVars
  PROVE  ThreadsInv'
  <1> USE DEF ThreadsInv, ThreadsTypeOK, Ownership, Started, Carried, Main, Cleaner, locks, tables, MainPC,
              CleanerPC, Fire, UdpFire, Cleaning, Owner, MainInTcp, MainInUdp, CleanerInTcp, CleanerInUdp,
              CanLockTtp, AfterUnlockTtp
  <1>1. CASE RecvSyn
    <2>1. due' \in BOOLEAN BY <1>1, Zenon DEF RecvSyn, NextPacket
    <2>2. QED BY <1>1, <2>1 DEF RecvSyn, NextPacket
  <1>2. CASE RecvClosing
    <2>1. due' \in BOOLEAN BY <1>2, Zenon DEF RecvClosing, NextPacket
    <2>2. QED BY <1>2, <2>1 DEF RecvClosing, NextPacket
  <1>3. CASE RecvSegment
    <2>1. due' \in BOOLEAN BY <1>3, Zenon DEF RecvSegment, NextPacket
    <2>2. QED BY <1>3, <2>1 DEF RecvSegment, NextPacket
  <1>4. CASE RecvDatagram
    <2>1. due' \in BOOLEAN BY <1>4, Zenon DEF RecvDatagram, NextPacket
    <2>2. QED BY <1>4, <2>1 DEF RecvDatagram, NextPacket
  <1>5. CASE StartSleep BY <1>5 DEF StartSleep
  <1>6. CASE FireDropTtp BY <1>6 DEF FireDropTtp
  <1>7. CASE FireUnlockStarted BY <1>7 DEF FireUnlockStarted
  <1>8. CASE FireRelockTtp
    <2>1. due' \in BOOLEAN BY <1>8, Zenon DEF FireRelockTtp
    <2>2. QED BY <1>8, <2>1 DEF FireRelockTtp
  <1>9. CASE NewLockTtp BY <1>9 DEF NewLockTtp
  <1>10. CASE NewTTP BY <1>10, TcpLanding, TcpFailed DEF NewTTP
  <1>11. CASE NewUnlockTtp BY <1>11 DEF NewUnlockTtp
  <1>12. CASE CloseLock BY <1>12 DEF CloseLock
  <1>13. CASE CloseFree BY <1>13 DEF CloseFree
  <1>14. CASE CloseUnlock BY <1>14 DEF CloseUnlock
  <1>15. CASE SegLock BY <1>15 DEF SegLock
  <1>16. CASE SegUnlock BY <1>16 DEF SegUnlock
  <1>17. CASE UdpFireDone
    <2>1. due' \in BOOLEAN BY <1>17, Zenon DEF UdpFireDone
    <2>2. QED BY <1>17, <2>1 DEF UdpFireDone
  <1>18. CASE UdpLock BY <1>18 DEF UdpLock
  <1>19. CASE NewUTP BY <1>19, UdpLanding DEF NewUTP
  <1>20. CASE UdpUnlock BY <1>20 DEF UdpUnlock
  <1>21. CASE BootLockStarted BY <1>21 DEF BootLockStarted
  <1>22. CASE BootLockCond BY <1>22 DEF BootLockCond
  <1>23. CASE CondWait BY <1>23 DEF CondWait
  <1>24. CASE CondReturn BY <1>24 DEF CondReturn
  <1>25. CASE UnlockStarted BY <1>25 DEF UnlockStarted
  <1>26. CASE Nap BY <1>26 DEF Nap
  <1>27. CASE LockStarted BY <1>27 DEF LockStarted
  <1>28. CASE ScanSkip BY <1>28, FlowCloseAssumption DEF ScanSkip, LastIx, T!Slots, U!Slots
  <1>29. CASE ScanIdleTcp BY <1>29 DEF ScanIdleTcp
  <1>30. CASE ScanIdleUdp BY <1>30, FlowCloseAssumption DEF ScanIdleUdp, LastIx
  <1>31. CASE ScanDone BY <1>31, FlowCloseAssumption DEF ScanDone, LastIx, T!Slots, U!Slots
  <1>32. CASE CleanLockTtp BY <1>32 DEF CleanLockTtp
  <1>33. CASE CleanTcp BY <1>33 DEF CleanTcp
  <1>34. CASE CleanUnlockTtp BY <1>34, FlowCloseAssumption DEF CleanUnlockTtp, LastIx, T!Slots, U!Slots
  <1>35. CASE CleanLockUtp BY <1>35 DEF CleanLockUtp
  <1>36. CASE CleanUdp BY <1>36 DEF CleanUdp
  <1>37. CASE CleanUnlockUtp BY <1>37, FlowCloseAssumption DEF CleanUnlockUtp, LastIx, T!Slots, U!Slots
  <1>38. CASE SpuriousWake BY <1>38 DEF SpuriousWake
  <1>39. CASE FireLockCond("tFireCond", "tSignal") BY <1>39 DEF FireLockCond
  <1>40. CASE FireSignal("tSignal", "tFireUncond") BY <1>40 DEF FireSignal
  <1>41. CASE FireUnlockCond("tFireUncond", "tStarted") BY <1>41 DEF FireUnlockCond
  <1>42. CASE FireLockStarted("tStarted", "tUnstarted") BY <1>42 DEF FireLockStarted
  <1>43. CASE FireLockCond("uFireCond", "uSignal") BY <1>43 DEF FireLockCond
  <1>44. CASE FireSignal("uSignal", "uFireUncond") BY <1>44 DEF FireSignal
  <1>45. CASE FireUnlockCond("uFireUncond", "uStarted") BY <1>45 DEF FireUnlockCond
  <1>46. CASE FireLockStarted("uStarted", "uUnstarted") BY <1>46 DEF FireLockStarted
  <1>47. CASE UNCHANGED threadVars BY <1>47 DEF threadVars
  <1>48. QED BY <1>1, <1>2, <1>3, <1>4, <1>5, <1>6, <1>7, <1>8, <1>9, <1>10,
       <1>11, <1>12, <1>13, <1>14, <1>15, <1>16, <1>17, <1>18, <1>19,
       <1>20, <1>21, <1>22, <1>23, <1>24, <1>25, <1>26, <1>27, <1>28,
       <1>29, <1>30, <1>31, <1>32, <1>33, <1>34, <1>35, <1>36, <1>37,
       <1>38, <1>39, <1>40, <1>41, <1>42, <1>43, <1>44, <1>45, <1>46,
       <1>47
    DEF ThreadsNext, Receive, MainStep, FireStep, UdpStep, TcpStep, CleanerStep, HandshakeStep, ScanStep

THEOREM ThreadsInvariance == ThreadsSpec => []ThreadsInv
  <1>1. ThreadsInit => ThreadsInv
    <2>1. ThreadsInit => ThreadsTypeOK
      <3>1. ThreadsInit => due \in BOOLEAN BY Zenon DEF ThreadsInit
      <3>2. ThreadsInit => tcp \subseteq T!Slots /\ udp \subseteq U!Slots BY DEF ThreadsInit
      <3>3. ThreadsInit => /\ tcpCur \in T!Slots /\ udpCur \in U!Slots \cup {-1}
                    /\ hit \in T!Slots \cup {NoSlot}
                    /\ ix \in 0 .. MaxTcpPairs + MaxUdpPairs
        BY FlowCloseAssumption DEF ThreadsInit, T!Slots
      <3>4. QED BY <3>1, <3>2, <3>3 DEF ThreadsInit, ThreadsTypeOK, MainPC, CleanerPC, Owner
    <2>2. ThreadsInit => Ownership /\ Started /\ Carried
      BY DEF ThreadsInit, Ownership, Started, Carried, Fire, UdpFire, Cleaning,
             MainInTcp, MainInUdp, CleanerInTcp, CleanerInUdp
    <2>3. QED BY <2>1, <2>2 DEF ThreadsInv
  <1>2. ThreadsInv /\ [ThreadsNext]_threadVars => ThreadsInv' BY ThreadsStep
  <1>3. QED BY <1>1, <1>2, PTL DEF ThreadsSpec

\* Variables keep their types, and the indices of the two threads stay
\* inside ttp[] and utp[].
THEOREM ThreadsTypeCorrect == ThreadsSpec => []ThreadsTypeOK
  <1>1. ThreadsInv => ThreadsTypeOK BY DEF ThreadsInv
  <1>2. QED BY <1>1, ThreadsInvariance, PTL

\* The packet thread and the cleaner never work on the TCP table at once,
\* nor on the UDP table, whatever the traffic and even while the packet
\* thread sits on a ttp_lock_mutex it did not release (tcp.c:594-668).
THEOREM Exclusion == ThreadsSpec => []TableExclusion
  <1>1. ThreadsInv => TableExclusion
    BY DEF ThreadsInv, Ownership, TableExclusion, MainInTcp, MainInUdp, CleanerInTcp, CleanerInUdp
  <1>2. QED BY <1>1, ThreadsInvariance, PTL

\* With sleeps that suffice, no signal of the packet thread is lost
\* (tcp.c:595-600, udp.c:265-271).
THEOREM NoLostSignal ==
  ASSUME SleepsSuffice
  PROVE  ThreadsSpec => []SignalFindsWaiter
  <1>1. ThreadsInv => SignalFindsWaiter
    BY SleepsSuffice DEF ThreadsInv, ThreadsTypeOK, Ownership, Started, SignalFindsWaiter, CleanerPC, Cleaning
  <1>2. QED BY <1>1, ThreadsInvariance, PTL

\* With sleeps that suffice, the packet thread leaves the handshake only
\* while the cleaner is cleaning (tcp.c:602-603).
THEOREM HandshakeCompletes ==
  ASSUME SleepsSuffice
  PROVE  ThreadsSpec => []HandshakeComplete
  <1>1. ThreadsInv => HandshakeComplete
    BY SleepsSuffice DEF ThreadsInv, ThreadsTypeOK, Ownership, Started, HandshakeComplete, CleanerPC, Cleaning
  <1>2. QED BY <1>1, ThreadsInvariance, PTL

\* A ttp_lock_mutex left locked between two packets means that the slots
\* the last failed search saw are all still taken (tcp.c:630-648).
THEOREM LeakOnlyWhenFull == ThreadsSpec => []IdleOwnerOnlyWhenFull
  <1>1. ThreadsInv => IdleOwnerOnlyWhenFull BY DEF ThreadsInv, Carried, IdleOwnerOnlyWhenFull
  <1>2. QED BY <1>1, ThreadsInvariance, PTL

\* Every mutex is held at the points of its owner that need it and at no
\* other; ttp_lock_mutex at least there (tcp.c:429-455, 594-668).
THEOREM LocksOwned == ThreadsSpec => []Ownership
  <1>1. ThreadsInv => Ownership BY DEF ThreadsInv
  <1>2. QED BY <1>1, ThreadsInvariance, PTL

\* What the run of this module checks of every state, together: with
\* sleeps that suffice the two threads keep to their sides of the tables
\* and of the handshake (tcp.c:594-668 against tcp.c:429-455).
THEOREM EngineSafe ==
  ASSUME SleepsSuffice
  PROVE  ThreadsSpec => []Safe
  <1>1. ThreadsTypeOK /\ Ownership /\ TableExclusion /\ SignalFindsWaiter
          /\ HandshakeComplete /\ IdleOwnerOnlyWhenFull => Safe
    BY DEF Safe
  <1>2. ThreadsSpec => []ThreadsTypeOK /\ []Ownership /\ []TableExclusion /\ []IdleOwnerOnlyWhenFull
    BY ThreadsTypeCorrect, LocksOwned, Exclusion, LeakOnlyWhenFull
  <1>3. ThreadsSpec => []SignalFindsWaiter /\ []HandshakeComplete
    BY SleepsSuffice, NoLostSignal, HandshakeCompletes
  <1>4. QED BY <1>1, <1>2, <1>3, PTL

------------------------------
\* The packet loop (Engine).  What w is: the directory in use, the log
\* files, the dump engine.
Paths == [dir : Nat \X Nat, proto : Protos, seq : Int]
Times == {None} \cup 0 .. conf.minutes
Outputs ==
  [base : [name : Int \X Int, gen : Nat, logs : BOOLEAN],
   made : SUBSET [name : Int \X Int, gen : Nat],
   gen : Nat, step : Nat, last : Int, log_engine : BOOLEAN, fp_logc : Nat, fp_qd : Nat,
   astray : BOOLEAN, engine : BOOLEAN, enabled : SUBSET Protos, slice_win : Nat,
   fp : [Protos -> Paths], win_start : [Protos -> Times], seq_num : [Protos -> Nat],
   outdir : Nat \X Nat, log_basedir : Int \X Int, dir_counter : Nat,
   traces : SUBSET (Nat \X Nat), opened : SUBSET Paths, failed : BOOLEAN]

\* The directory in use is the last that was made, and the dumps that were
\* made are in directories made for them.
Rooted(o) ==
  /\ o.base = NoBase => o.gen = 0 /\ o.made = {} /\ o.traces = {} /\ o.log_basedir = NoBase.name
  /\ o.base # NoBase => /\ o.base.gen = o.gen /\ o.gen > 0 /\ o.base.name[2] >= 0
                        /\ [name |-> o.base.name, gen |-> o.gen] \in o.made
  /\ \A t \in o.traces : t[1] <= o.gen
  /\ \A q \in o.opened : q.dir \in o.traces

EngineOn(o) == o.engine <=> o.enabled # {}

\* A dump that is open is in the directory in use.
Opens(o) ==
  \A p \in Protos : o.fp[p] # Closed =>
    p \in o.enabled /\ o.base # NoBase /\ o.fp[p].dir[1] = o.base.gen

AllClosed(o) == \A p \in Protos : o.fp[p] = Closed

\* The logs are in the directory in use if that was made with logs.
Lined(o) == o.base.logs => o.fp_qd = o.base.gen /\ o.fp_logc = o.base.gen

\* The next trace directory of the directory in use is a new one.
Counted(o) ==
  \A t \in o.traces : t[1] = o.base.gen =>
    o.log_basedir = o.base.name /\ t[2] < o.dir_counter

\* The engine dumps to a trace directory of the directory in use, and no
\* file of it twice.
Dumps(o) ==
  /\ o.engine /\ o.base # NoBase =>
       o.outdir \in o.traces /\ o.outdir[1] = o.base.gen /\ o.log_basedir = o.base.name
  /\ \A q \in o.opened : q.proto \in o.enabled /\ q.dir = o.outdir =>
       /\ o.win_start[q.proto] # None
       /\ o.slice_win > 0 => q.seq <= o.seq_num[q.proto]

Ready(o) == Rooted(o) /\ EngineOn(o) /\ Opens(o) /\ Lined(o) /\ Counted(o)
Fit(o) == Ready(o) /\ Dumps(o)

\* What the dump of a packet leaves as it is.
SameDir(o, n) ==
  /\ n.base = o.base /\ n.made = o.made /\ n.gen = o.gen /\ n.step = o.step /\ n.last \in {o.last, now}
  /\ n.log_engine = o.log_engine /\ n.fp_logc = o.fp_logc /\ n.fp_qd = o.fp_qd
  /\ n.engine = o.engine /\ n.enabled = o.enabled /\ n.slice_win = o.slice_win
  /\ n.outdir = o.outdir /\ n.log_basedir = o.log_basedir
  /\ n.dir_counter = o.dir_counter /\ n.traces = o.traces

\* A file that is opened is one that never was.
NewFiles(o, n) ==
  /\ o.opened \subseteq n.opened
  /\ \A p \in Protos : n.fp[p] \notin o.opened \cup {Closed} \/ n.fp[p] \in {o.fp[p], Closed}

Here(o) == \A p \in Protos : o.fp[p] # Closed => o.fp[p].dir = o.outdir

\* The two entries of proto2dump that are modelled, and no other.
LEMMA ProtosAre == Protos = {IpComplete, FlowDump} /\ IpComplete # FlowDump
  BY EngineAssumption DEF Protos

\* new_dump_file changes the file, and notes that it was opened.
FileGoes(o, n, p) ==
  /\ n \in Outputs /\ SameDir(o, n) /\ n.astray = o.astray
  /\ n.win_start = o.win_start /\ n.seq_num = o.seq_num
  /\ \/ /\ n.failed /\ n.fp = o.fp /\ n.opened = o.opened
        /\ o.outdir[1] \notin {d.gen : d \in o.made}
     \/ \E q \in Paths :
          /\ q.dir = o.outdir /\ q.proto = p
          /\ q.seq = IF o.slice_win = 0 THEN None ELSE o.seq_num[p]
          /\ n.failed = o.failed /\ n.fp = [o.fp EXCEPT ![p] = q] /\ n.opened = o.opened \cup {q}
          /\ o.outdir[1] \in {d.gen : d \in o.made}

\* new_dump_file opens the file that is due, or finds no directory for it.
LEMMA NewFileGoes ==
  ASSUME NEW o \in Outputs, NEW p \in Protos
  PROVE  FileGoes(o, NewDumpFile(o, p), p)
<1> DEFINE q == [dir |-> o.outdir, proto |-> p,
                 seq |-> IF o.slice_win = 0 THEN None ELSE o.seq_num[p]]
<1>1. q \in Paths
  <2>1. o.outdir \in Nat \X Nat /\ o.slice_win \in Nat /\ o.seq_num[p] \in Nat BY DEF Outputs
  <2> QED BY <2>1 DEF Paths, None
<1>2. q.dir = o.outdir /\ q.proto = p /\ q.seq = IF o.slice_win = 0 THEN None ELSE o.seq_num[p] OBVIOUS
<1>3. CASE o.outdir[1] \notin {d.gen : d \in o.made}
  <2>1. NewDumpFile(o, p) = [o EXCEPT !.failed = TRUE] BY <1>3 DEF NewDumpFile
  <2> DEFINE n == [o EXCEPT !.failed = TRUE]
  <2>2. n \in Outputs BY ZenonT(60) DEF Outputs
  <2>3. /\ SameDir(o, n) /\ n.astray = o.astray /\ n.win_start = o.win_start /\ n.seq_num = o.seq_num
        /\ n.fp = o.fp /\ n.opened = o.opened /\ n.failed
    BY DEF SameDir, Outputs
  <2> HIDE DEF n
  <2> QED BY <1>3, <2>1, <2>2, <2>3 DEF FileGoes, n
<1>4. CASE o.outdir[1] \in {d.gen : d \in o.made}
  <2>1. NewDumpFile(o, p) = [o EXCEPT !.fp[p] = q, !.opened = @ \cup {q}] BY <1>4 DEF NewDumpFile
  <2> HIDE DEF q
  <2> DEFINE n == [o EXCEPT !.fp[p] = q, !.opened = @ \cup {q}]
  <2>2. o.fp \in [Protos -> Paths] /\ o.opened \in SUBSET Paths BY DEF Outputs
  <2>3. [o.fp EXCEPT ![p] = q] \in [Protos -> Paths] /\ o.opened \cup {q} \in SUBSET Paths BY <1>1, <2>2
  <2>4. n = [o EXCEPT !.fp = [o.fp EXCEPT ![p] = q], !.opened = o.opened \cup {q}] BY DEF Outputs
  <2>5. n \in Outputs BY <2>3, <2>4, ZenonT(60) DEF Outputs
  <2>6. /\ SameDir(o, n) /\ n.astray = o.astray /\ n.win_start = o.win_start /\ n.seq_num = o.seq_num
        /\ n.failed = o.failed /\ n.fp = [o.fp EXCEPT ![p] = q] /\ n.opened = o.opened \cup {q}
    BY <2>4 DEF SameDir, Outputs
  <2> HIDE DEF n
  <2> QED BY <1>1, <1>2, <1>4, <2>1, <2>5, <2>6 DEF FileGoes, n
<1> QED BY <1>3, <1>4

\* With the file it opens the engine is as it should be.
LEMMA OpenedFits ==
  ASSUME NEW o \in Outputs, Fit(o), NEW p \in Protos, p \in o.enabled,
         NEW n \in Outputs, SameDir(o, n),
         \A r \in Protos \ {p} : n.win_start[r] = o.win_start[r] /\ n.seq_num[r] = o.seq_num[r],
         NEW q \in Paths, q.dir = o.outdir, q.proto = p, o.slice_win > 0 => q.seq = n.seq_num[p],
         \A y \in o.opened : y.proto = p /\ y.dir = o.outdir =>
           y.seq # q.seq /\ (o.slice_win > 0 => y.seq <= n.seq_num[p]),
         n.win_start[p] # None, n.fp = [o.fp EXCEPT ![p] = q], n.opened = o.opened \cup {q},
         o.outdir[1] \in {d.gen : d \in o.made}
  PROVE  Fit(n) /\ NewFiles(o, n) /\ (Here(o) => Here(n))
<1>1. o.fp \in [Protos -> Paths] /\ o.opened \in SUBSET Paths /\ o.enabled \in SUBSET Protos BY DEF Outputs
<1>2. o.base # NoBase /\ o.engine BY DEF Fit, Ready, Rooted, EngineOn
<1>3. o.outdir \in o.traces /\ o.outdir[1] = o.base.gen /\ o.base.gen = o.gen /\ o.gen > 0
  BY <1>2 DEF Fit, Ready, Rooted, Dumps
<1>4. \A y \in o.opened : y.proto \in o.enabled /\ y.dir = o.outdir =>
        o.win_start[y.proto] # None /\ (o.slice_win > 0 => y.seq <= o.seq_num[y.proto])
  BY DEF Fit, Dumps
<1>5. q \notin o.opened OBVIOUS
<1>6. q # Closed BY <1>3 DEF Closed, NoDir
<1>7. Opens(n) BY <1>1, <1>2, <1>3 DEF Fit, Ready, Opens, SameDir
<1>8. Rooted(n) BY <1>3 DEF Fit, Ready, Rooted, SameDir
<1>9. EngineOn(n) /\ Lined(n) /\ Counted(n) BY DEF Fit, Ready, EngineOn, Lined, Counted, SameDir
<1>10. Dumps(n)
  <2>1. ASSUME NEW y \in n.opened, y.proto \in n.enabled, y.dir = n.outdir
        PROVE  n.win_start[y.proto] # None /\ (n.slice_win > 0 => y.seq <= n.seq_num[y.proto])
    <3>1. y.proto \in o.enabled /\ y.dir = o.outdir /\ n.slice_win = o.slice_win /\ y.proto \in Protos
      BY <1>1, <2>1 DEF SameDir
    <3>2. CASE y = q
      <4>1. q.seq \in Int /\ y.proto = p BY <3>2 DEF Paths
      <4> QED BY <3>1, <3>2, <4>1
    <3>3. CASE y # q /\ y.proto = p BY <2>1, <3>1, <3>3
    <3>4. CASE y # q /\ y.proto # p BY <1>4, <2>1, <3>1, <3>4
    <3> QED BY <3>2, <3>3, <3>4
  <2>2. n.outdir \in n.traces /\ n.outdir[1] = n.base.gen /\ n.log_basedir = n.base.name
    BY <1>2, <1>3 DEF Fit, Dumps, SameDir
  <2> QED BY <2>1, <2>2 DEF Dumps
<1>11. NewFiles(o, n) BY <1>1, <1>5, <1>6 DEF NewFiles
<1>12. Here(o) => Here(n) BY <1>1 DEF Here, SameDir
<1> QED BY <1>7, <1>8, <1>9, <1>10, <1>11, <1>12 DEF Fit, Ready

\* The dump of a packet fails without a directory only.
DumpGoes(o, n, p) ==
  /\ n \in Outputs /\ SameDir(o, n) /\ n.astray = o.astray
  /\ o.failed => n = o
  /\ n.failed /\ ~o.failed => o.base = NoBase /\ n.fp = o.fp /\ n.opened = o.opened
  /\ ~n.failed => Fit(n) /\ (Here(o) => Here(n))
  /\ NewFiles(o, n)
  /\ \A r \in Protos \ {p} : n.fp[r] = o.fp[r]
  /\ n.opened \subseteq o.opened \cup {q \in Paths : q.proto = p}

\* The directory is missing only if none has been made.
LEMMA Unfound ==
  ASSUME NEW o \in Outputs, Fit(o), o.enabled # {}, o.outdir[1] \notin {d.gen : d \in o.made}
  PROVE  o.base = NoBase
<1>1. SUFFICES ASSUME o.base # NoBase PROVE FALSE OBVIOUS
<1>2. o.engine /\ o.outdir[1] = o.base.gen /\ o.base.gen = o.gen
  BY <1>1 DEF Fit, Ready, EngineOn, Rooted, Dumps
<1>3. [name |-> o.base.name, gen |-> o.gen] \in o.made BY <1>1 DEF Fit, Ready, Rooted
<1> QED BY <1>2, <1>3

\* The window of a slice starts at or before the packet.
LEMMA SliceStarts ==
  ASSUME NEW t \in Nat, NEW s \in Int, NEW k \in Nat, k > 0, t - s >= k, s \in Nat
  PROVE  s + ((t - s) \div k) * k \in 0 .. t
<1> DEFINE d == t - s
           m == d \div k
<1>1. d \in Nat OBVIOUS
<1>2. m \in Nat /\ d = k * m + (d % k) /\ d % k \in 0 .. k - 1 BY <1>1
<1>3. m * k = k * m /\ k * m \in Nat BY <1>2
<1> QED BY <1>1, <1>2, <1>3

\* dump_to_file: a packet is dumped to a file that is there, or opens one.
LEMMA DumpFits ==
  ASSUME NEW o \in Outputs, o.failed \/ Fit(o), NEW p \in Protos, conf.minutes \in Nat,
         now \in 0 .. conf.minutes
  PROVE  DumpGoes(o, DumpToFile(o, p), p)
<1>1. CASE DumpToFile(o, p) = o BY <1>1 DEF DumpGoes, SameDir, NewFiles
<1>2. CASE ~o.failed /\ p \in o.enabled /\ o.win_start[p] = None
  <2> DEFINE f == NewDumpFile(o, p)
             n == [f EXCEPT !.win_start[p] = now]
  <2>1. DumpToFile(o, p) = n BY <1>2 DEF DumpToFile
  <2>2. FileGoes(o, f, p) BY NewFileGoes
  <2> HIDE DEF f
  <2>3. f \in Outputs /\ f.win_start \in [Protos -> Times] /\ now \in Times
    BY <2>2 DEF FileGoes, Outputs, Times
  <2>4. n = [f EXCEPT !.win_start = [f.win_start EXCEPT ![p] = now]] BY <2>3 DEF Outputs
  <2>5. [f.win_start EXCEPT ![p] = now] \in [Protos -> Times] BY <2>3
  <2>6. n \in Outputs BY <2>3, <2>4, <2>5, ZenonT(60) DEF Outputs
  <2>7. /\ SameDir(f, n) /\ n.astray = f.astray /\ n.failed = f.failed /\ n.fp = f.fp
        /\ n.opened = f.opened /\ n.seq_num = f.seq_num
        /\ n.win_start = [f.win_start EXCEPT ![p] = now]
    BY <2>3, <2>4 DEF SameDir, Outputs
  <2> HIDE DEF n
  <2>8. SameDir(o, n) /\ n.astray = o.astray /\ n.seq_num = o.seq_num BY <2>2, <2>7 DEF FileGoes, SameDir
  <2>9. n.win_start[p] # None /\ \A r \in Protos \ {p} : n.win_start[r] = o.win_start[r]
    BY <2>2, <2>3, <2>7 DEF FileGoes, None
  <2>10. CASE f.failed /\ f.fp = o.fp /\ f.opened = o.opened /\ o.outdir[1] \notin {d.gen : d \in o.made}
    <3>1. o.base = NoBase BY <1>2, <2>10, Unfound
    <3> QED BY <1>2, <2>1, <2>6, <2>7, <2>8, <2>10, <3>1 DEF DumpGoes, NewFiles
  <2>11. ASSUME NEW q \in Paths, q.dir = o.outdir, q.proto = p,
                q.seq = IF o.slice_win = 0 THEN None ELSE o.seq_num[p],
                f.failed = o.failed, f.fp = [o.fp EXCEPT ![p] = q], f.opened = o.opened \cup {q},
                o.outdir[1] \in {d.gen : d \in o.made}
         PROVE  DumpGoes(o, DumpToFile(o, p), p)
    <3>1. \A y \in o.opened : ~(y.proto = p /\ y.dir = o.outdir) BY <1>2 DEF Fit, Dumps
    <3>2. o.slice_win > 0 => q.seq = n.seq_num[p] BY <2>8, <2>11
    <3>5. n.fp = [o.fp EXCEPT ![p] = q] /\ n.opened = o.opened \cup {q} BY <2>7, <2>11
    <3>6. /\ \A r \in Protos \ {p} : n.win_start[r] = o.win_start[r] /\ n.seq_num[r] = o.seq_num[r]
          /\ \A y \in o.opened : y.proto = p /\ y.dir = o.outdir =>
                y.seq # q.seq /\ (o.slice_win > 0 => y.seq <= n.seq_num[p])
      BY <2>8, <2>9, <3>1
    <3>3. Fit(n) /\ NewFiles(o, n) /\ (Here(o) => Here(n))
      BY <1>2, <2>6, <2>8, <2>9, <2>11, <3>2, <3>5, <3>6, OpenedFits
    <3>4. \A r \in Protos \ {p} : n.fp[r] = o.fp[r] BY <2>7, <2>11 DEF Outputs
    <3> QED BY <1>2, <2>1, <2>6, <2>7, <2>8, <2>11, <3>3, <3>4 DEF DumpGoes
  <2> QED BY <2>2, <2>10, <2>11 DEF FileGoes
<1>3. CASE /\ ~o.failed /\ p \in o.enabled /\ o.win_start[p] # None /\ o.slice_win > 0
           /\ now - o.win_start[p] >= o.slice_win
  <2> DEFINE t == o.win_start[p] + ((now - o.win_start[p]) \div o.slice_win) * o.slice_win
             a == [o EXCEPT !.seq_num[p] = @ + 1,
                            !.win_start[p] = @ + ((now - o.win_start[p]) \div o.slice_win) * o.slice_win]
             n == NewDumpFile(a, p)
  <2>1. DumpToFile(o, p) = n BY <1>3 DEF DumpToFile
  <2>2. o.seq_num \in [Protos -> Nat] /\ o.win_start \in [Protos -> Times] /\ o.slice_win \in Nat
    BY DEF Outputs
  <2>3. t \in Times /\ t # None
    <3>1. o.win_start[p] \in Nat BY <1>3, <2>2 DEF Times
    <3>2. t \in 0 .. now BY <1>3, <2>2, <3>1, SliceStarts
    <3> QED BY <3>2 DEF Times, None
  <2>4. a = [o EXCEPT !.seq_num = [o.seq_num EXCEPT ![p] = o.seq_num[p] + 1],
                      !.win_start = [o.win_start EXCEPT ![p] = t]]
    BY DEF Outputs
  <2> HIDE DEF t
  <2>5. /\ [o.seq_num EXCEPT ![p] = o.seq_num[p] + 1] \in [Protos -> Nat]
        /\ [o.win_start EXCEPT ![p] = t] \in [Protos -> Times]
    BY <2>2, <2>3
  <2>6. a \in Outputs BY <2>4, <2>5, ZenonT(60) DEF Outputs
  <2>7. /\ SameDir(o, a) /\ a.astray = o.astray /\ a.failed = o.failed /\ a.fp = o.fp
        /\ a.opened = o.opened /\ a.seq_num = [o.seq_num EXCEPT ![p] = o.seq_num[p] + 1]
        /\ a.win_start = [o.win_start EXCEPT ![p] = t]
    BY <2>4 DEF SameDir, Outputs
  <2> HIDE DEF a
  <2>8. FileGoes(a, n, p) BY <2>6, NewFileGoes
  <2> HIDE DEF n
  <2>9. /\ n \in Outputs /\ SameDir(o, n) /\ n.astray = o.astray
        /\ n.seq_num = a.seq_num /\ n.win_start = a.win_start
    BY <2>7, <2>8 DEF FileGoes, SameDir
  <2>10. /\ n.win_start[p] # None /\ n.seq_num[p] = o.seq_num[p] + 1
         /\ \A r \in Protos \ {p} : n.win_start[r] = o.win_start[r] /\ n.seq_num[r] = o.seq_num[r]
    BY <2>2, <2>3, <2>7, <2>9
  <2>11. CASE n.failed /\ n.fp = a.fp /\ n.opened = a.opened /\ a.outdir[1] \notin {d.gen : d \in a.made}
    <3>1. o.base = NoBase BY <1>3, <2>7, <2>11, Unfound DEF SameDir
    <3> QED BY <1>3, <2>1, <2>7, <2>9, <2>11, <3>1 DEF DumpGoes, NewFiles
  <2>12. ASSUME NEW q \in Paths, q.dir = a.outdir, q.proto = p,
                q.seq = IF a.slice_win = 0 THEN None ELSE a.seq_num[p],
                n.failed = a.failed, n.fp = [a.fp EXCEPT ![p] = q], n.opened = a.opened \cup {q},
                a.outdir[1] \in {d.gen : d \in a.made}
         PROVE  DumpGoes(o, DumpToFile(o, p), p)
    <3>1. q.seq = o.seq_num[p] + 1 /\ q.dir = o.outdir /\ o.slice_win > 0
      BY <1>3, <2>7, <2>9, <2>10, <2>12 DEF SameDir
    <3>2. \A y \in o.opened : y.proto = p /\ y.dir = o.outdir =>
             y.seq # q.seq /\ (o.slice_win > 0 => y.seq <= n.seq_num[p])
      <4>1. ASSUME NEW y \in o.opened, y.proto = p, y.dir = o.outdir
            PROVE  y.seq # q.seq /\ y.seq <= n.seq_num[p]
        <5>1. y.seq <= o.seq_num[p] BY <1>3, <4>1 DEF Fit, Dumps
        <5>2. y.seq \in Int /\ o.seq_num[p] \in Nat BY <2>2, <4>1 DEF Outputs, Paths
        <5> QED BY <2>10, <3>1, <5>1, <5>2
      <4> QED BY <4>1
    <3>3. o.outdir[1] \in {d.gen : d \in o.made} /\ n.fp = [o.fp EXCEPT ![p] = q]
          /\ n.opened = o.opened \cup {q}
      BY <2>7, <2>12 DEF SameDir
    <3>4. o.slice_win > 0 => q.seq = n.seq_num[p] BY <2>10, <3>1
    <3>5. Fit(n) /\ NewFiles(o, n) /\ (Here(o) => Here(n))
      BY <1>3, <2>9, <2>10, <2>12, <3>1, <3>2, <3>3, <3>4, OpenedFits
    <3>6. \A r \in Protos \ {p} : n.fp[r] = o.fp[r] BY <3>3 DEF Outputs
    <3> QED BY <1>3, <2>1, <2>7, <2>9, <2>12, <3>3, <3>5, <3>6 DEF DumpGoes
  <2> QED BY <2>8, <2>11, <2>12 DEF FileGoes
<1> QED BY <1>1, <1>2, <1>3 DEF DumpToFile

\* A line that is written changes no directory and no dump.
Written(o, n) ==
  /\ n \in Outputs /\ SameDir(o, n) /\ n.win_start = o.win_start /\ n.seq_num = o.seq_num
  /\ n.fp = o.fp /\ n.opened = o.opened

\* A line leaves the engine as it should be.
LEMMA WrittenFits ==
  ASSUME NEW o, NEW n, Written(o, n)
  PROVE  (Fit(o) => Fit(n)) /\ (Here(o) => Here(n)) /\ NewFiles(o, n)
<1>1. Rooted(o) /\ EngineOn(o) /\ Opens(o) => Rooted(n) /\ EngineOn(n) /\ Opens(n)
  BY DEF Written, SameDir, Rooted, EngineOn, Opens
<1>2. Lined(o) /\ Counted(o) /\ Dumps(o) => Lined(n) /\ Counted(n) /\ Dumps(n)
  BY DEF Written, SameDir, Lined, Counted, Dumps
<1> QED BY <1>1, <1>2 DEF Fit, Ready, Here, NewFiles, Written, SameDir

\* make_conn_stats: no line is lost while the files are those in use.
LEMMA ConnLineGoes ==
  ASSUME NEW o \in Outputs
  PROVE  /\ Written(o, ConnLine(o)) /\ ConnLine(o).failed = o.failed
         /\ Fit(o) => ConnLine(o).astray = o.astray
<1>1. CASE o.failed \/ ~o.log_engine BY <1>1 DEF ConnLine, Written, SameDir
<1>2. CASE ~o.failed /\ o.log_engine
  <2> DEFINE b == o.astray \/ (o.base.logs /\ o.fp_logc # o.base.gen)
             n == [o EXCEPT !.astray = b]
  <2>1. ConnLine(o) = n BY <1>2 DEF ConnLine
  <2>2. b \in BOOLEAN OBVIOUS
  <2>3. Fit(o) => b = o.astray BY Zenon DEF Fit, Ready, Lined, Outputs
  <2> HIDE DEF b
  <2>4. n \in Outputs /\ n.astray = b /\ n.failed = o.failed BY <2>2 DEF Outputs
  <2>5. /\ SameDir(o, n) /\ n.win_start = o.win_start /\ n.seq_num = o.seq_num
        /\ n.fp = o.fp /\ n.opened = o.opened
    BY DEF SameDir, Outputs
  <2> HIDE DEF n
  <2> QED BY <2>1, <2>3, <2>4, <2>5 DEF Written
<1> QED BY <1>1, <1>2

\* print_queueing_dly_sample: it fails in a directory without logs only.
LEMMA SampleLineGoes ==
  ASSUME NEW o \in Outputs
  PROVE  /\ Written(o, SampleLine(o)) /\ (o.failed => SampleLine(o) = o)
         /\ Fit(o) => /\ SampleLine(o).astray = o.astray
                      /\ SampleLine(o).failed /\ ~o.failed => ~o.base.logs
<1>1. CASE o.failed BY <1>1 DEF SampleLine, Written, SameDir
<1>2. CASE ~o.failed
  <2> DEFINE b == o.astray \/ (o.base.logs /\ o.fp_qd # o.base.gen)
             c == o.fp_qd = 0
             n == [o EXCEPT !.astray = b, !.failed = c]
  <2>1. SampleLine(o) = n BY <1>2 DEF SampleLine
  <2>2. b \in BOOLEAN /\ c \in BOOLEAN OBVIOUS
  <2>3. Fit(o) => (b = o.astray) BY Zenon DEF Fit, Ready, Lined, Outputs
  <2>4. Fit(o) /\ c => ~o.base.logs
    <3> SUFFICES ASSUME Fit(o), o.fp_qd = 0, o.base.logs PROVE FALSE OBVIOUS
    <3>1. o.base # NoBase BY DEF NoBase
    <3> QED BY <3>1 DEF Fit, Ready, Lined, Rooted, Outputs
  <2> HIDE DEF b, c
  <2>5. n \in Outputs
    <3> DEFINE k == [o EXCEPT !.astray = b]
    <3>1. k \in Outputs BY <2>2, ZenonT(60) DEF Outputs
    <3>2. n = [k EXCEPT !.failed = c] OBVIOUS
    <3> HIDE DEF k
    <3> QED BY <2>2, <3>1, <3>2, ZenonT(180) DEF Outputs
  <2>7. (n.astray = b) /\ (n.failed = c) BY Zenon DEF Outputs
  <2>6. /\ SameDir(o, n) /\ n.win_start = o.win_start /\ n.seq_num = o.seq_num
        /\ n.fp = o.fp /\ n.opened = o.opened
    BY DEF SameDir, Outputs
  <2> HIDE DEF n
  <2> QED BY <1>2, <2>1, <2>3, <2>4, <2>5, <2>6, <2>7 DEF Written
<1> QED BY <1>1, <1>2

------------------------------
\* What the directories of the dumps leave as it is.
SameOut(o, n) ==
  /\ n.base = o.base /\ n.made = o.made /\ n.gen = o.gen /\ n.step = o.step /\ n.last = o.last
  /\ n.log_engine = o.log_engine /\ n.fp_logc = o.fp_logc /\ n.fp_qd = o.fp_qd
  /\ n.astray = o.astray /\ n.opened = o.opened

\* dump_flush closes what is open.
FlushGoes(o, n, completed) ==
  /\ n \in Outputs /\ SameOut(o, n) /\ n.failed = o.failed
  /\ n.engine = o.engine /\ n.enabled = o.enabled /\ n.slice_win = o.slice_win
  /\ n.seq_num = o.seq_num /\ n.outdir = o.outdir /\ n.log_basedir = o.log_basedir
  /\ n.traces = o.traces /\ (n.dir_counter = o.dir_counter \/ completed)
  /\ \A p \in Protos : n.fp[p] \in {o.fp[p], Closed}
  /\ EngineOn(o) /\ Opens(o) => AllClosed(n)

\* What stands for a closed dump is one.
LEMMA ClosedIs == Closed \in Paths
  BY ProtosAre DEF Closed, NoDir, Paths

\* dump_flush leaves no dump open.
LEMMA DumpFlushGoes ==
  ASSUME NEW o \in Outputs, NEW completed \in BOOLEAN
  PROVE  FlushGoes(o, DumpFlush(o, completed), completed)
<1>1. CASE ~o.engine BY <1>1 DEF DumpFlush, FlushGoes, SameOut, EngineOn, Opens, AllClosed
<1>2. CASE o.engine
  <2> DEFINE c == IF completed /\ ~conf.con_cat THEN 0 ELSE o.dir_counter
             f == [p \in Protos |-> IF p \in o.enabled THEN Closed ELSE o.fp[p]]
             s == [p \in Protos |-> IF p \in o.enabled THEN None ELSE o.win_start[p]]
             n == [o EXCEPT !.dir_counter = c, !.fp = f, !.win_start = s]
  <2>1. DumpFlush(o, completed) = n BY <1>2 DEF DumpFlush
  <2>2. f \in [Protos -> Paths] /\ s \in [Protos -> Times] /\ c \in Nat BY ClosedIs DEF Outputs, Times
  <2>3. \A p \in Protos : f[p] \in {o.fp[p], Closed} OBVIOUS
  <2>4. Opens(o) => \A p \in Protos : f[p] = Closed BY DEF Opens
  <2>5. c = o.dir_counter \/ completed OBVIOUS
  <2> HIDE DEF f, s, c
  <2>6. n \in Outputs BY <2>2, ZenonT(60) DEF Outputs
  <2>7. /\ n.engine = o.engine /\ n.enabled = o.enabled /\ n.slice_win = o.slice_win
        /\ n.seq_num = o.seq_num /\ n.outdir = o.outdir /\ n.log_basedir = o.log_basedir
        /\ n.traces = o.traces /\ n.dir_counter = c /\ n.fp = f /\ n.failed = o.failed
        /\ SameOut(o, n)
    BY DEF Outputs, SameOut
  <2> HIDE DEF n
  <2> QED BY <2>1, <2>3, <2>4, <2>5, <2>6, <2>7 DEF FlushGoes, AllClosed
<1> QED BY <1>1, <1>2 DEF Outputs

\* dump_create_outdir: a new trace directory, and no dump is left open in
\* that of another output directory.
OutdirGoes(o, n) ==
  /\ n \in Outputs /\ SameOut(o, n)
  /\ n.engine = o.engine /\ n.enabled = o.enabled /\ n.slice_win = o.slice_win
  /\ \A p \in Protos : n.fp[p] \in {o.fp[p], Closed}
  /\ o.base = NoBase => n.failed \/ n = o
  /\ o.base # NoBase => n.failed = o.failed /\ Rooted(n) /\ Counted(n) /\ Dumps(n)
  /\ o.engine /\ o.log_basedir \notin {NoBase.name, o.base.name} => AllClosed(n)

\* dump_create_outdir finds a name that is free.
LEMMA CreateOutdirGoes ==
  ASSUME NEW o \in Outputs, Rooted(o), EngineOn(o), Counted(o),
         \A p \in Protos : o.fp[p] # Closed => p \in o.enabled
  PROVE  OutdirGoes(o, DumpCreateOutdir(o))
<1>1. CASE ~o.engine
  <2>1. DumpCreateOutdir(o) = o /\ o.enabled = {} BY <1>1 DEF DumpCreateOutdir, EngineOn
  <2> QED BY <1>1, <2>1 DEF OutdirGoes, SameOut, Dumps
<1>2. CASE o.engine
  <2> DEFINE moved == o.log_basedir # NoBase.name /\ o.log_basedir # o.base.name
             a == IF moved THEN [DumpFlush(o, TRUE) EXCEPT !.dir_counter = 0] ELSE o
             dir == <<o.base.gen, a.dir_counter>>
             n == [a EXCEPT !.log_basedir = o.base.name, !.outdir = dir,
                            !.traces = @ \cup {dir}, !.dir_counter = @ + 1,
                            !.failed = @ \/ o.base = NoBase \/ dir \in o.traces]
  <2>1. DumpCreateOutdir(o) = n BY <1>2 DEF DumpCreateOutdir
  <2>2. /\ a \in Outputs /\ SameOut(o, a) /\ a.failed = o.failed
        /\ a.engine = o.engine /\ a.enabled = o.enabled /\ a.slice_win = o.slice_win
        /\ a.traces = o.traces /\ (moved \/ a.dir_counter = o.dir_counter)
        /\ \A p \in Protos : a.fp[p] \in {o.fp[p], Closed}
        /\ moved => AllClosed(a)
    <3>1. CASE ~moved BY <3>1 DEF SameOut
    <3>2. CASE moved
      <4> DEFINE f == DumpFlush(o, TRUE)
      <4>1. FlushGoes(o, f, TRUE) BY DumpFlushGoes
      <4>2. \A p \in Protos : f.fp[p] = Closed
        <5>1. CASE o.base = NoBase BY <3>2, <5>1 DEF Rooted
        <5>2. DumpFlush(o, TRUE).fp = [p \in Protos |-> IF p \in o.enabled THEN Closed ELSE o.fp[p]]
          BY <1>2 DEF DumpFlush, Outputs
        <5> QED BY <5>2
      <4> HIDE DEF f
      <4>3. a = [f EXCEPT !.dir_counter = 0] BY <3>2 DEF f
      <4>4. f \in Outputs BY <4>1 DEF FlushGoes
      <4>6. a \in Outputs BY <4>3, <4>4, ZenonT(180) DEF Outputs
      <4>7. SameOut(f, a) BY <4>3, <4>4 DEF Outputs, SameOut
      <4>8. /\ a.failed = f.failed /\ a.engine = f.engine /\ a.enabled = f.enabled
            /\ a.slice_win = f.slice_win /\ a.traces = f.traces /\ a.fp = f.fp
        BY <4>3, <4>4 DEF Outputs
      <4> HIDE DEF a
      <4> QED BY <3>2, <4>1, <4>2, <4>6, <4>7, <4>8 DEF FlushGoes, SameOut, AllClosed
    <3> QED BY <3>1, <3>2
  <2> HIDE DEF a
  <2>3. dir \in Nat \X Nat /\ dir[1] = o.base.gen /\ dir[2] = a.dir_counter /\ a.dir_counter \in Nat
    BY <2>2 DEF Outputs
  <2> HIDE DEF dir
  <2> DEFINE bad == a.failed \/ o.base = NoBase \/ dir \in o.traces
             m == [a EXCEPT !.log_basedir = o.base.name, !.outdir = dir,
                            !.traces = a.traces \cup {dir}, !.dir_counter = a.dir_counter + 1,
                            !.failed = bad]
  <2>4. n = m BY <2>2 DEF Outputs
  <2>5. /\ bad \in BOOLEAN /\ a.traces \cup {dir} \in SUBSET (Nat \X Nat)
        /\ a.dir_counter + 1 \in Nat /\ o.base.name \in Int \X Int
    BY <2>2, <2>3 DEF Outputs
  <2> HIDE DEF bad
  <2>6. m \in Outputs
    <3> DEFINE k == [a EXCEPT !.log_basedir = o.base.name, !.outdir = dir,
                              !.traces = a.traces \cup {dir}, !.dir_counter = a.dir_counter + 1]
    <3>1. k \in Outputs BY <2>2, <2>3, <2>5, ZenonT(60) DEF Outputs
    <3>2. m = [k EXCEPT !.failed = bad] OBVIOUS
    <3> HIDE DEF k
    <3> QED BY <2>5, <3>1, <3>2, ZenonT(180) DEF Outputs
  <2>7. /\ SameOut(a, m) /\ m.engine = a.engine /\ m.enabled = a.enabled /\ m.fp = a.fp
        /\ m.slice_win = a.slice_win
        /\ m.log_basedir = o.base.name /\ m.outdir = dir /\ m.traces = a.traces \cup {dir}
        /\ m.dir_counter = a.dir_counter + 1 /\ m.failed = bad
    BY <2>2 DEF Outputs, SameOut
  <2> HIDE DEF m, n
  <2>8. SameOut(o, m) BY <2>2, <2>7 DEF SameOut
  <2>9. CASE o.base = NoBase
    <3>1. m.failed BY <2>7, <2>9 DEF bad
    <3> QED BY <1>2, <2>1, <2>2, <2>4, <2>6, <2>7, <2>8, <2>9, <3>1 DEF OutdirGoes, AllClosed
  <2>10. CASE o.base # NoBase
    <3>1. \A t \in o.traces : t[1] = o.base.gen => ~moved /\ t[2] < a.dir_counter BY <2>2 DEF Counted
    <3>2. dir \notin o.traces
      <4> SUFFICES ASSUME dir \in o.traces PROVE FALSE OBVIOUS
      <4>1. dir[2] < a.dir_counter BY <2>3, <3>1
      <4> QED BY <2>3, <4>1
    <3>3. m.failed = o.failed BY <2>2, <2>7, <2>10, <3>2 DEF bad, Outputs
    <3>4. /\ o.base.gen = o.gen /\ o.gen > 0 /\ o.base.name[2] >= 0
          /\ [name |-> o.base.name, gen |-> o.gen] \in o.made
          /\ \A t \in o.traces : t[1] <= o.gen
          /\ \A q \in o.opened : q.dir \in o.traces
      BY <2>10 DEF Rooted
    <3>5. o.gen \in Nat /\ dir[1] = o.gen BY <2>3, <3>4 DEF Outputs
    <3>6. m.traces = o.traces \cup {dir} /\ m.opened = o.opened /\ m.base = o.base /\ m.gen = o.gen
          /\ m.made = o.made
      BY <2>2, <2>7, <2>8 DEF SameOut
    <3>7. Rooted(m) BY <2>10, <3>4, <3>5, <3>6 DEF Rooted
    <3>8. Counted(m)
      <4>1. ASSUME NEW t \in m.traces, t[1] = m.base.gen
            PROVE  m.log_basedir = m.base.name /\ t[2] < m.dir_counter
        <5>1. CASE t = dir BY <2>3, <2>7, <3>6, <5>1
        <5>2. CASE t \in o.traces
          <6>1. t[2] < a.dir_counter /\ t[2] \in Nat BY <3>1, <3>6, <4>1, <5>2 DEF Outputs
          <6> QED BY <2>3, <2>7, <3>6, <6>1
        <5> QED BY <3>6, <5>1, <5>2
      <4> QED BY <4>1 DEF Counted
    <3>9. Dumps(m) BY <2>3, <2>7, <3>2, <3>4, <3>6 DEF Dumps
    <3>10. o.engine /\ o.log_basedir \notin {NoBase.name, o.base.name} => AllClosed(m)
      BY <2>2, <2>7 DEF AllClosed
    <3> QED BY <2>1, <2>2, <2>4, <2>6, <2>7, <2>8, <2>10, <3>3, <3>7, <3>8, <3>9, <3>10 DEF OutdirGoes
  <2> QED BY <2>9, <2>10
<1> QED BY <1>1, <1>2 DEF Outputs

\* create_new_outfiles: a new output directory in place of one of its name,
\* all files in it, and no dump left open in the one before.
OutfilesGoes(o, n, name) ==
  /\ n \in Outputs /\ Fit(n) /\ AllClosed(n) /\ n.failed = o.failed
  /\ n.base = [name |-> name, gen |-> o.gen + 1, logs |-> o.log_engine]
  /\ n.made = {d \in o.made : d.name # name} \cup {[name |-> name, gen |-> o.gen + 1]}
  /\ n.step = o.step /\ n.last = o.last /\ n.log_engine = o.log_engine
  /\ n.astray = o.astray /\ n.opened = o.opened /\ n.enabled = o.enabled

\* create_new_outfiles leaves everything in the new directory.
LEMMA OutfilesFit ==
  ASSUME NEW o \in Outputs, Rooted(o), EngineOn(o), Opens(o),
         NEW name \in Int \X Int, name[2] >= 0,
         AllClosed(o) \/ (Dumps(o) /\ name # o.base.name)
  PROVE  OutfilesGoes(o, CreateNewOutfiles(o, name), name)
<1> DEFINE g == o.gen + 1
           base == [name |-> name, gen |-> g, logs |-> o.log_engine]
           made == {d \in o.made : d.name # name} \cup {[name |-> name, gen |-> g]}
           lc == IF o.log_engine THEN g ELSE o.fp_logc
           qd == IF o.log_engine THEN g ELSE o.fp_qd
           a == [o EXCEPT !.gen = g, !.base = base, !.made = made, !.fp_logc = lc, !.fp_qd = qd]
           n == DumpCreateOutdir(a)
<1>1. CreateNewOutfiles(o, name) = n BY DEF CreateNewOutfiles
<1>2. o.gen \in Nat /\ o.log_engine \in BOOLEAN /\ o.made \in SUBSET [name : Int \X Int, gen : Nat]
      /\ o.fp_logc \in Nat /\ o.fp_qd \in Nat /\ g \in Nat /\ g > o.gen
  BY DEF Outputs
<1>3. /\ base \in [name : Int \X Int, gen : Nat, logs : BOOLEAN]
      /\ made \in SUBSET [name : Int \X Int, gen : Nat] /\ lc \in Nat /\ qd \in Nat
      /\ base.name = name /\ base.gen = g /\ base.logs = o.log_engine
      /\ [name |-> name, gen |-> g] \in made
      /\ base.logs => qd = g /\ lc = g
  BY <1>2
<1>4. base # NoBase BY <1>2, <1>3 DEF NoBase
<1> HIDE DEF g, base, made, lc, qd
<1>5. a \in Outputs BY <1>2, <1>3, ZenonT(60) DEF Outputs
<1>6. /\ a.gen = g /\ a.base = base /\ a.made = made /\ a.fp_logc = lc /\ a.fp_qd = qd
      /\ a.step = o.step /\ a.last = o.last /\ a.log_engine = o.log_engine
      /\ a.astray = o.astray /\ a.opened = o.opened /\ a.enabled = o.enabled
      /\ a.engine = o.engine /\ a.fp = o.fp /\ a.log_basedir = o.log_basedir
      /\ a.traces = o.traces /\ a.failed = o.failed
  BY DEF Outputs
<1> HIDE DEF a
<1>7. \A t \in a.traces : t[1] <= o.gen /\ t[1] \in Nat BY <1>5, <1>6 DEF Rooted, Outputs
<1>8. Rooted(a) /\ EngineOn(a) /\ Counted(a) BY <1>2, <1>3, <1>4, <1>6, <1>7 DEF Rooted, EngineOn, Counted
<1>9. \A p \in Protos : a.fp[p] # Closed => p \in a.enabled BY <1>6 DEF Opens
<1>10. OutdirGoes(a, n) BY <1>5, <1>8, <1>9, CreateOutdirGoes
<1> HIDE DEF n
<1>11. AllClosed(n)
  <2>1. CASE AllClosed(o) BY <1>6, <1>10, <2>1 DEF AllClosed, OutdirGoes
  <2>2. ASSUME NEW p \in Protos, o.fp[p] # Closed, Dumps(o), name # o.base.name
        PROVE  AllClosed(n)
    <3>1. o.engine /\ o.base # NoBase /\ o.log_basedir = o.base.name BY <2>2 DEF Opens, EngineOn, Dumps
    <3>2. o.base.name # NoBase.name BY <3>1 DEF Rooted, NoBase, None
    <3> QED BY <1>3, <1>6, <1>10, <2>2, <3>1, <3>2 DEF OutdirGoes
  <2> QED BY <2>1, <2>2 DEF AllClosed
<1>12. n.failed = a.failed /\ Rooted(n) /\ Counted(n) /\ Dumps(n) /\ SameOut(a, n)
       /\ n.engine = a.engine /\ n.enabled = a.enabled /\ n \in Outputs
  BY <1>4, <1>6, <1>10 DEF OutdirGoes
<1>13. EngineOn(n) /\ Opens(n) /\ Lined(n)
  BY <1>3, <1>6, <1>8, <1>11, <1>12 DEF EngineOn, Opens, AllClosed, Lined, SameOut
<1>14. Fit(n) BY <1>12, <1>13 DEF Fit, Ready
<1> QED BY <1>1, <1>6, <1>11, <1>12, <1>14 DEF OutfilesGoes, SameOut, g, base, made

\* stat_dumping_old_style: the steps go on, or a new output directory is
\* made beside those there are.
PageGoes(o, n) ==
  /\ n \in Outputs /\ Fit(n) /\ n.failed = o.failed /\ n.astray = o.astray
  /\ n.opened = o.opened /\ n.log_engine = o.log_engine /\ n.enabled = o.enabled
  /\ \A p \in Protos : n.fp[p] \in {o.fp[p], Closed}
  /\ Here(o) => Here(n)
  /\ \/ n.base = o.base /\ n.made = o.made /\ n.step = o.step + 1 /\ n.gen = o.gen
     \/ /\ conf.live /\ o.step + 1 >= Dirs /\ n.step = 0
        /\ n.base = [name |-> Name, gen |-> o.gen + 1, logs |-> o.log_engine]
        /\ n.made = o.made \cup {[name |-> Name, gen |-> o.gen + 1]}

\* A number that changes leaves the rest as it was.
Stepped(o, n) ==
  /\ n \in Outputs /\ n.base = o.base /\ n.made = o.made /\ n.gen = o.gen
  /\ n.log_engine = o.log_engine /\ n.fp_logc = o.fp_logc /\ n.fp_qd = o.fp_qd
  /\ n.astray = o.astray /\ n.engine = o.engine /\ n.enabled = o.enabled
  /\ n.slice_win = o.slice_win /\ n.fp = o.fp /\ n.win_start = o.win_start
  /\ n.seq_num = o.seq_num /\ n.outdir = o.outdir /\ n.log_basedir = o.log_basedir
  /\ n.dir_counter = o.dir_counter /\ n.traces = o.traces /\ n.opened = o.opened
  /\ n.failed = o.failed

\* A number that counts pages plays no part in the dumps and logs.
LEMMA SteppedFits ==
  ASSUME NEW o, NEW n, Stepped(o, n)
  PROVE  (Fit(o) => Fit(n)) /\ (Here(o) => Here(n)) /\ (AllClosed(o) => AllClosed(n))
<1>1. Rooted(o) /\ EngineOn(o) /\ Opens(o) => Rooted(n) /\ EngineOn(n) /\ Opens(n)
  BY DEF Stepped, Rooted, EngineOn, Opens
<1>2. Lined(o) /\ Counted(o) /\ Dumps(o) => Lined(n) /\ Counted(n) /\ Dumps(n)
  BY DEF Stepped, Lined, Counted, Dumps
<1> QED BY <1>1, <1>2 DEF Fit, Ready, Here, AllClosed, Stepped

\* The count of the steps is one.
LEMMA StepGoes ==
  ASSUME NEW o \in Outputs, NEW k \in Nat
  PROVE  /\ Stepped(o, [o EXCEPT !.step = k]) /\ [o EXCEPT !.step = k].step = k
         /\ [o EXCEPT !.step = k].last = o.last
  BY DEF Stepped, Outputs

\* The time of the last page is another.
LEMMA LastGoes ==
  ASSUME NEW o \in Outputs, NEW k \in Int
  PROVE  /\ Stepped(o, [o EXCEPT !.last = k]) /\ [o EXCEPT !.last = k].last = k
         /\ [o EXCEPT !.last = k].step = o.step
  BY DEF Stepped, Outputs

\* A page goes to the directory in use or to a new one.
LEMMA PageFits ==
  ASSUME NEW o \in Outputs, Fit(o), Name \in Int \X Int, Name[2] >= 0,
         (conf.live /\ o.step + 1 >= Dirs) => \A d \in o.made : d.name # Name
  PROVE  PageGoes(o, StatDumping(o)) /\ StatDumping(o).last = o.last
<1>1. CASE o.step + 1 >= Dirs /\ conf.live
  <2> DEFINE c == CreateNewOutfiles(o, Name)
             n == [c EXCEPT !.step = 0]
  <2>1. StatDumping(o) = n BY <1>1 DEF StatDumping
  <2>2. Rooted(o) /\ EngineOn(o) /\ Opens(o) /\ Dumps(o) BY DEF Fit, Ready
  <2>3. Name # o.base.name
    <3>1. CASE o.base = NoBase BY <3>1 DEF NoBase, None
    <3>2. CASE o.base # NoBase
      <4>1. [name |-> o.base.name, gen |-> o.gen] \in o.made BY <2>2, <3>2 DEF Rooted
      <4> QED BY <1>1, <4>1
    <3> QED BY <3>1, <3>2
  <2>4. OutfilesGoes(o, c, Name) BY <2>2, <2>3, OutfilesFit
  <2> HIDE DEF c
  <2>5. Stepped(c, n) /\ n.step = 0 /\ n.last = c.last BY <2>4, StepGoes DEF OutfilesGoes
  <2> HIDE DEF n
  <2>6. Fit(n) /\ AllClosed(n) BY <2>4, <2>5, SteppedFits DEF OutfilesGoes
  <2>7. {d \in o.made : d.name # Name} = o.made BY <1>1
  <2> QED BY <1>1, <2>1, <2>4, <2>5, <2>6, <2>7 DEF PageGoes, OutfilesGoes, Stepped, AllClosed, Here
<1>2. CASE ~(o.step + 1 >= Dirs /\ conf.live)
  <2> DEFINE n == [o EXCEPT !.step = o.step + 1]
  <2>1. StatDumping(o) = n BY <1>2 DEF StatDumping
  <2>2. o.step + 1 \in Nat BY DEF Outputs
  <2>3. Stepped(o, n) /\ n.step = o.step + 1 /\ n.last = o.last BY <2>2, StepGoes
  <2> HIDE DEF n
  <2>4. Fit(n) /\ (Here(o) => Here(n)) BY <2>3, SteppedFits
  <2> QED BY <2>1, <2>3, <2>4 DEF PageGoes, Stepped
<1> QED BY <1>1, <1>2

\* flush_histo_engine.
LEMMA HistoFits ==
  ASSUME NEW o \in Outputs, ~o.failed, Fit(o), Name \in Int \X Int, Name[2] >= 0, now \in Int,
         (conf.live /\ o.step + 1 >= Dirs) => \A d \in o.made : d.name # Name
  PROVE  PageGoes(o, FlushHisto(o)) /\ FlushHisto(o).last = now
<1> DEFINE s == StatDumping(o)
           n == [s EXCEPT !.last = now]
<1>1. FlushHisto(o) = n BY DEF FlushHisto
<1>2. PageGoes(o, s) BY PageFits
<1> HIDE DEF s
<1>3. Stepped(s, n) /\ n.last = now /\ n.step = s.step BY <1>2, LastGoes DEF PageGoes
<1> HIDE DEF n
<1>4. Fit(n) /\ (Here(s) => Here(n)) BY <1>2, <1>3, SteppedFits DEF PageGoes
<1> QED BY <1>1, <1>2, <1>3, <1>4 DEF PageGoes, Stepped


\* close_all_logfiles and the end of the flows: no dump stays open.
FinishGoes(o, n) ==
  /\ n \in Outputs /\ Rooted(n) /\ EngineOn(n) /\ Opens(n) /\ AllClosed(n)
  /\ n.failed = o.failed /\ n.astray = o.astray /\ n.step = 0 /\ n.base = o.base /\ n.made = o.made
  /\ n.opened = o.opened

\* close_all_logfiles touches no dump.
LEMMA CloseLogsGoes ==
  ASSUME NEW o \in Outputs, Rooted(o), EngineOn(o), AllClosed(o), o.step = 0
  PROVE  FinishGoes(o, CloseLogs(o))
<1>1. CASE ~o.log_engine BY <1>1 DEF CloseLogs, FinishGoes, Opens, AllClosed
<1>2. CASE o.log_engine
  <2> DEFINE n == [o EXCEPT !.fp_logc = 0]
  <2>1. CloseLogs(o) = n BY <1>2 DEF CloseLogs
  <2>2. /\ n \in Outputs /\ n.base = o.base /\ n.made = o.made /\ n.gen = o.gen /\ n.fp = o.fp
        /\ n.traces = o.traces /\ n.log_basedir = o.log_basedir /\ n.opened = o.opened
    BY DEF Outputs
  <2>3. n.engine = o.engine /\ n.enabled = o.enabled /\ n.failed = o.failed /\ n.astray = o.astray
        /\ n.step = o.step
    BY DEF Outputs
  <2> HIDE DEF n
  <2>4. Rooted(n) /\ EngineOn(n) /\ Opens(n) /\ AllClosed(n)
    BY <2>2, <2>3 DEF Rooted, EngineOn, Opens, AllClosed
  <2> QED BY <2>1, <2>2, <2>3, <2>4 DEF FinishGoes
<1> QED BY <1>1, <1>2

\* At the end of a file every dump is closed.
LEMMA FinishFits ==
  ASSUME w \in Outputs, Fit(w), NEW line \in BOOLEAN
  PROVE  FinishGoes(w, Finish(line))
<1> DEFINE c == IF line THEN ConnLine(w) ELSE w
           s == [c EXCEPT !.step = 0]
           f == DumpFlush(s, TRUE)
<1>1. Finish(line) = CloseLogs(f) BY DEF Finish
<1>2. Written(w, c) /\ c.failed = w.failed /\ c.astray = w.astray BY ConnLineGoes DEF Written, SameDir
<1> HIDE DEF c
<1>3. c \in Outputs /\ Fit(c) BY <1>2, WrittenFits DEF Written
<1>4. Stepped(c, s) /\ s.step = 0 BY <1>3, StepGoes
<1> HIDE DEF s
<1>5. Fit(s) /\ s \in Outputs BY <1>3, <1>4, SteppedFits DEF Stepped
<1>6. FlushGoes(s, f, TRUE) BY <1>5, DumpFlushGoes
<1> HIDE DEF f
<1>7. AllClosed(f) /\ f \in Outputs /\ SameOut(s, f) BY <1>5, <1>6 DEF FlushGoes, Fit, Ready
<1>8. Rooted(f) /\ EngineOn(f) /\ f.step = 0
  BY <1>4, <1>5, <1>6, <1>7 DEF FlushGoes, SameOut, Fit, Ready, Rooted, EngineOn
<1>9. FinishGoes(f, CloseLogs(f)) BY <1>7, <1>8, CloseLogsGoes
<1> QED
  BY <1>1, <1>2, <1>4, <1>6, <1>7, <1>9
  DEF FinishGoes, FlushGoes, SameOut, Stepped, Written, SameDir

------------------------------
\* What a step of the histograms does to the directory in use: nothing, a
\* page, or a new one in its place.
Turn(o, n) ==
  \/ n.base = o.base /\ n.made = o.made /\ n.step = o.step /\ n.last = o.last
  \/ n.base = o.base /\ n.made = o.made /\ n.step = o.step + 1 /\ n.last = now
  \/ /\ conf.live /\ n.step = 0 /\ n.last = now
     /\ n.base = [name |-> Name, gen |-> o.gen + 1, logs |-> o.log_engine]
     /\ n.made = o.made \cup {[name |-> Name, gen |-> o.gen + 1]}

Paged(o) ==
  /\ Name \in Int \X Int /\ Name[2] >= 0 /\ now \in Int
  /\ (conf.live /\ o.step + 1 >= Dirs) => \A d \in o.made : d.name # Name

\* The configuration is read: where it has [dump], nothing stays open.
IniGoes(o, n, c, started) ==
  /\ n \in Outputs /\ Ready(n) /\ n.failed = o.failed /\ n.astray = o.astray
  /\ n.opened = o.opened /\ (c.dump => AllClosed(n)) /\ Turn(o, n)
  /\ \A p \in Protos : n.fp[p] \in {o.fp[p], Closed}
  /\ ~started => n.base = o.base /\ n.step = o.step

\* The section [log] may write a page, and switches the logs.
LogGoes(o, n, started) ==
  /\ n \in Outputs /\ Ready(n) /\ n.failed = o.failed /\ n.astray = o.astray
  /\ n.opened = o.opened /\ Turn(o, n)
  /\ \A p \in Protos : n.fp[p] \in {o.fp[p], Closed}
  /\ ~started => n.base = o.base /\ n.made = o.made /\ n.step = o.step /\ n.last = o.last

\* The section [log] and, without histograms, its page.
LEMMA LogSectionGoes ==
  ASSUME NEW o \in Outputs, ~o.failed, Fit(o), NEW c \in Inis, NEW started \in BOOLEAN,
         started => Paged(o)
  PROVE  LogGoes(o, LogSection(o, c, started), started)
<1> DEFINE a == IF ~c.histo /\ started THEN FlushHisto(o) ELSE o
           n == [a EXCEPT !.log_engine = c.log]
<1>1. LogSection(o, c, started) = n BY DEF LogSection
<1>2. /\ a \in Outputs /\ Fit(a) /\ a.failed = o.failed /\ a.astray = o.astray
      /\ a.opened = o.opened /\ Turn(o, a)
      /\ \A p \in Protos : a.fp[p] \in {o.fp[p], Closed}
      /\ ~started => a.base = o.base /\ a.made = o.made /\ a.step = o.step /\ a.last = o.last
  <2>1. CASE ~(~c.histo /\ started) BY <2>1 DEF Turn
  <2>2. CASE ~c.histo /\ started
    <3>1. PageGoes(o, FlushHisto(o)) /\ FlushHisto(o).last = now BY <2>2, HistoFits DEF Paged
    <3> QED BY <2>2, <3>1 DEF PageGoes, Turn
  <2> QED BY <2>1, <2>2
<1> HIDE DEF a
<1>3. c.log \in BOOLEAN BY EngineAssumption
<1>4. n \in Outputs BY <1>2, <1>3, ZenonT(60) DEF Outputs
<1>5. /\ n.base = a.base /\ n.made = a.made /\ n.gen = a.gen /\ n.step = a.step /\ n.last = a.last
      /\ n.fp_logc = a.fp_logc /\ n.fp_qd = a.fp_qd /\ n.engine = a.engine
      /\ n.enabled = a.enabled /\ n.fp = a.fp /\ n.log_basedir = a.log_basedir
      /\ n.dir_counter = a.dir_counter /\ n.traces = a.traces /\ n.opened = a.opened
  BY <1>2 DEF Outputs
<1>6. n.failed = a.failed /\ n.astray = a.astray BY <1>2 DEF Outputs
<1> HIDE DEF n
<1>7. Rooted(n) /\ EngineOn(n) /\ Opens(n) BY <1>2, <1>5 DEF Fit, Ready, Rooted, EngineOn, Opens
<1>8. Lined(n) /\ Counted(n) BY <1>2, <1>5 DEF Fit, Ready, Lined, Counted
<1> QED BY <1>1, <1>2, <1>4, <1>5, <1>6, <1>7, <1>8 DEF LogGoes, Turn, Ready

\* ini_process_dump: the dumps start anew.
LEMMA DumpSectionGoes ==
  ASSUME NEW o \in Outputs, Ready(o), NEW c \in Inis, NEW started \in BOOLEAN
  PROVE  /\ LogGoes(o, DumpSection(o, c, started), FALSE)
         /\ c.dump => AllClosed(DumpSection(o, c, started))
<1>1. CASE ~c.dump BY <1>1 DEF DumpSection, LogGoes, Turn
<1>2. CASE c.dump
  <2> DEFINE f == IF started THEN DumpFlush(o, FALSE) ELSE o
             e == c.protos # {}
             fp == [p \in Protos |-> Closed]
             s == [p \in Protos |-> None]
             q == [p \in Protos |-> 0]
             n == [f EXCEPT !.engine = e, !.enabled = c.protos, !.slice_win = c.slice,
                            !.fp = fp, !.win_start = s, !.seq_num = q]
  <2>1. DumpSection(o, c, started) = n BY <1>2 DEF DumpSection
  <2>2. /\ f \in Outputs /\ SameOut(o, f) /\ f.failed = o.failed /\ f.log_basedir = o.log_basedir
        /\ f.traces = o.traces /\ f.dir_counter = o.dir_counter
    BY DumpFlushGoes DEF FlushGoes, SameOut
  <2> HIDE DEF f
  <2>3. /\ fp \in [Protos -> Paths] /\ s \in [Protos -> Times] /\ q \in [Protos -> Nat]
        /\ \A p \in Protos : fp[p] = Closed
    BY ClosedIs DEF Times
  <2>4. e \in BOOLEAN /\ c.protos \in SUBSET Protos /\ c.slice \in Nat /\ (e <=> c.protos # {})
    BY EngineAssumption DEF Protos
  <2> HIDE DEF fp, s, q, e
  <2>5. n \in Outputs
    <3> DEFINE k == [f EXCEPT !.engine = e, !.enabled = c.protos, !.slice_win = c.slice]
    <3>1. k \in Outputs BY <2>2, <2>4, ZenonT(60) DEF Outputs
    <3>2. n = [k EXCEPT !.fp = fp, !.win_start = s, !.seq_num = q] OBVIOUS
    <3> HIDE DEF k
    <3> QED BY <2>3, <3>1, <3>2, ZenonT(180) DEF Outputs
  <2>6. /\ SameOut(f, n) /\ n.log_basedir = f.log_basedir /\ n.enabled = c.protos /\ n.fp = fp
        /\ n.traces = f.traces /\ n.dir_counter = f.dir_counter
    BY <2>2 DEF Outputs, SameOut
  <2>7. (n.failed = f.failed) /\ (n.engine = e) BY <2>2, Zenon DEF Outputs
  <2> HIDE DEF n
  <2>8. Rooted(n) /\ Lined(n) /\ Counted(n) BY <2>2, <2>6 DEF Ready, Rooted, Lined, Counted, SameOut
  <2>9. EngineOn(n) /\ Opens(n) /\ AllClosed(n) BY <2>3, <2>4, <2>6, <2>7 DEF EngineOn, Opens, AllClosed
  <2> QED BY <2>1, <2>2, <2>3, <2>5, <2>6, <2>7, <2>8, <2>9 DEF LogGoes, Turn, Ready, SameOut
<1> QED BY <1>1, <1>2

\* The two sections, one after the other.
LEMMA IniReadGoes ==
  ASSUME NEW o \in Outputs, ~o.failed, Fit(o), NEW c \in Inis, NEW started \in BOOLEAN,
         started => Paged(o)
  PROVE  IniGoes(o, IniRead(o, c, started), c, started)
<1> DEFINE a == LogSection(o, c, started)
           n == DumpSection(a, c, started)
<1>1. LogGoes(o, a, started) BY LogSectionGoes
<1> HIDE DEF a
<1>2. LogGoes(a, n, FALSE) /\ (c.dump => AllClosed(n)) BY <1>1, DumpSectionGoes DEF LogGoes
<1>3. IniRead(o, c, started) = n BY DEF IniRead, a
<1> HIDE DEF n
<1> QED BY <1>1, <1>2, <1>3 DEF IniGoes, LogGoes, Turn

\* A reload ends the program only where no directory has been made yet.
ReloadGoes(o, n, c) ==
  /\ n \in Outputs /\ EngineOn(n) /\ n.astray = o.astray /\ n.opened = o.opened /\ Turn(o, n)
  /\ c.dump => AllClosed(n)
  /\ \A p \in Protos : n.fp[p] \in {o.fp[p], Closed}
  /\ ~n.failed => Fit(n)
  /\ n.failed => n.base = NoBase /\ AllClosed(n)

\* A reload leaves the output fit, or ends a program without a directory.
LEMMA ReloadFits ==
  ASSUME w \in Outputs, ~w.failed, Fit(w), Paged(w), ini.content \in Inis
  PROVE  ReloadGoes(w, Reload(w), ini.content)
<1> DEFINE a == IniRead(w, ini.content, TRUE)
           n == DumpCreateOutdir(a)
<1>1. Reload(w) = n BY DEF Reload
<1>2. IniGoes(w, a, ini.content, TRUE) BY IniReadGoes
<1> HIDE DEF a
<1>3. a \in Outputs /\ Rooted(a) /\ EngineOn(a) /\ Opens(a) /\ Lined(a) /\ Counted(a)
  BY <1>2 DEF IniGoes, Ready
<1>4. OutdirGoes(a, n) BY <1>3, CreateOutdirGoes DEF Opens
<1> HIDE DEF n
<1>5. /\ n \in Outputs /\ SameOut(a, n) /\ n.engine = a.engine /\ n.enabled = a.enabled
      /\ \A p \in Protos : n.fp[p] \in {a.fp[p], Closed}
  BY <1>4 DEF OutdirGoes
<1>6. EngineOn(n) /\ Lined(n) /\ Opens(n) BY <1>3, <1>5 DEF EngineOn, Lined, Opens, SameOut
<1>7. Turn(w, n) /\ n.astray = w.astray /\ n.opened = w.opened BY <1>2, <1>5 DEF IniGoes, SameOut, Turn
<1>8. ini.content.dump => AllClosed(n) BY <1>2, <1>5 DEF IniGoes, AllClosed
<1>9. \A p \in Protos : n.fp[p] \in {w.fp[p], Closed} BY <1>2, <1>5 DEF IniGoes
<1>10. CASE a.base = NoBase
  <2>1. AllClosed(n) /\ n.base = NoBase BY <1>5, <1>6, <1>10 DEF Opens, AllClosed, SameOut
  <2>2. n.failed \/ n = a BY <1>4, <1>10 DEF OutdirGoes
  <2>3. ~n.failed => Fit(n)
    <3>1. ASSUME n = a PROVE Dumps(n) BY <1>3, <1>10, <3>1 DEF Dumps, Rooted
    <3> QED BY <1>3, <2>2, <3>1 DEF Fit, Ready
  <2> QED BY <1>1, <1>5, <1>6, <1>7, <1>8, <1>9, <2>1, <2>3 DEF ReloadGoes
<1>11. CASE a.base # NoBase
  <2>1. n.failed = a.failed /\ Rooted(n) /\ Counted(n) /\ Dumps(n) BY <1>4, <1>11 DEF OutdirGoes
  <2>2. ~n.failed /\ Fit(n) BY <1>2, <1>6, <2>1 DEF IniGoes, Fit, Ready
  <2> QED BY <1>1, <1>5, <1>6, <1>7, <1>8, <1>9, <2>2 DEF ReloadGoes
<1> QED BY <1>10, <1>11

\* Before the first directory.
LEMMA FreshFits ==
  ASSUME conf.minutes \in Nat
  PROVE  /\ Fresh \in Outputs /\ Fit(Fresh) /\ AllClosed(Fresh) /\ Fresh.base = NoBase
         /\ ~Fresh.failed /\ ~Fresh.astray /\ Fresh.step = 0 /\ Fresh.opened = {}
<1> DEFINE l == None
           fp == [p \in Protos |-> Closed]
           s == [p \in Protos |-> None]
           q == [p \in Protos |-> 0]
<1>1. l \in Int BY DEF None
<1>2. /\ fp \in [Protos -> Paths] /\ s \in [Protos -> Times] /\ q \in [Protos -> Nat]
      /\ \A p \in Protos : fp[p] = Closed
  BY ClosedIs DEF Times
<1>3. NoBase \in [name : Int \X Int, gen : Nat, logs : BOOLEAN] /\ NoDir \in Nat \X Nat
      /\ NoBase.name \in Int \X Int
  BY DEF NoBase, NoDir, None
<1> HIDE DEF l, fp, s, q
<1>4. Fresh = [base |-> NoBase, made |-> {}, gen |-> 0, step |-> 0, last |-> l,
               log_engine |-> TRUE, fp_logc |-> 0, fp_qd |-> 0, astray |-> FALSE,
               engine |-> FALSE, enabled |-> {}, slice_win |-> 0, fp |-> fp,
               win_start |-> s, seq_num |-> q,
               outdir |-> NoDir, log_basedir |-> NoBase.name, dir_counter |-> 0, traces |-> {},
               opened |-> {}, failed |-> FALSE]
  BY DEF Fresh, l, fp, s, q
<1>5. Fresh \in Outputs BY <1>1, <1>2, <1>3, <1>4, ZenonT(60) DEF Outputs
<1>6. AllClosed(Fresh) /\ Opens(Fresh) BY <1>2, <1>4 DEF AllClosed, Opens
<1>7. Rooted(Fresh) /\ EngineOn(Fresh) BY <1>4 DEF Rooted, EngineOn
<1>8. Lined(Fresh) /\ Counted(Fresh) /\ Dumps(Fresh) BY <1>4 DEF Lined, Counted, Dumps, NoBase
<1> QED BY <1>4, <1>5, <1>6, <1>7, <1>8 DEF Fit, Ready

------------------------------
\* A dump that is open is in the directory in use, and that is there.
Placed(o) ==
  \A p \in Protos : o.fp[p] # Closed =>
    o.fp[p].dir[1] = o.base.gen /\ \E d \in o.made : d.gen = o.base.gen

\* Closed dumps, and those in the directory in use, are in no other.
LEMMA Places ==
  ASSUME NEW o, AllClosed(o) \/ (Rooted(o) /\ Opens(o))
  PROVE  Placed(o)
<1>1. CASE AllClosed(o) BY <1>1 DEF AllClosed, Placed
<1>2. ASSUME Rooted(o), Opens(o), NEW p \in Protos, o.fp[p] # Closed
      PROVE  o.fp[p].dir[1] = o.base.gen /\ \E d \in o.made : d.gen = o.base.gen
  <2>1. o.base # NoBase /\ o.fp[p].dir[1] = o.base.gen BY <1>2 DEF Opens
  <2>2. [name |-> o.base.name, gen |-> o.gen] \in o.made /\ o.base.gen = o.gen BY <1>2, <2>1 DEF Rooted
  <2>3. [name |-> o.base.name, gen |-> o.gen].gen = o.gen OBVIOUS
  <2> QED BY <2>1, <2>2, <2>3
<1> QED BY <1>1, <1>2 DEF Placed

\* A packet: it is dumped, and may have a line written.
HandledGoes(o, n) ==
  /\ n \in Outputs /\ SameDir(o, n) /\ n.astray = o.astray /\ NewFiles(o, n)
  /\ ~n.failed => Fit(n)
  /\ n.failed => n.base = NoBase \/ ~n.base.logs
  /\ (Here(o) => Here(n)) /\ Placed(n)

\* One dump of a packet is such a step.
LEMMA DumpHandled ==
  ASSUME NEW o \in Outputs, ~o.failed, Fit(o), NEW p \in Protos, conf.minutes \in Nat,
         now \in 0 .. conf.minutes
  PROVE  HandledGoes(o, DumpToFile(o, p))
<1> DEFINE n == DumpToFile(o, p)
<1>1. DumpGoes(o, n, p) BY DumpFits
<1> HIDE DEF n
<1>2. CASE n.failed
  <2>1. AllClosed(n) /\ n.base = NoBase BY <1>1, <1>2 DEF DumpGoes, SameDir, Fit, Ready, Opens, AllClosed
  <2>2. Here(n) /\ Placed(n) BY <2>1, Places DEF AllClosed, Here
  <2> QED BY <1>1, <1>2, <2>1, <2>2 DEF HandledGoes, DumpGoes, n
<1>3. CASE ~n.failed
  <2>1. Fit(n) /\ Placed(n) BY <1>1, <1>3, Places DEF DumpGoes, Fit, Ready
  <2> QED BY <1>1, <1>3, <2>1 DEF HandledGoes, DumpGoes, n
<1> QED BY <1>2, <1>3

\* The first packet of all: only the time of the last page is set.
LEMMA FirstGoes ==
  ASSUME NEW o \in Outputs, ~o.failed, Fit(o), conf.minutes \in Nat, now \in 0 .. conf.minutes
  PROVE  /\ FirstPacket(o) \in Outputs /\ ~FirstPacket(o).failed /\ Fit(FirstPacket(o))
         /\ \A n : HandledGoes(FirstPacket(o), n) => HandledGoes(o, n)
<1> DEFINE v == FirstPacket(o)
<1>1. /\ v \in Outputs /\ Stepped(o, v) /\ v.last \in {o.last, now} /\ v.step = o.step
  <2>1. now \in Int OBVIOUS
  <2>2. CASE o.last = None
    <3>1. v = [o EXCEPT !.last = now] BY <2>2 DEF FirstPacket
    <3> QED BY <2>1, <3>1, LastGoes DEF Stepped
  <2>3. CASE o.last # None
    <3>1. v = o BY <2>3 DEF FirstPacket
    <3> QED BY <3>1 DEF Stepped
  <2> QED BY <2>2, <2>3
<1> HIDE DEF v
<1>2. ASSUME NEW n, HandledGoes(v, n)
      PROVE  HandledGoes(o, n)
  <2>1. SameDir(o, n) BY <1>1, <1>2 DEF HandledGoes, SameDir, Stepped
  <2>2. NewFiles(o, n) /\ (Here(o) => Here(v)) BY <1>1, <1>2 DEF HandledGoes, NewFiles, Here, Stepped
  <2> QED BY <1>1, <1>2, <2>1, <2>2 DEF HandledGoes, Stepped
<1>3. ~v.failed /\ Fit(v) BY <1>1, SteppedFits DEF Stepped
<1> QED BY <1>1, <1>2, <1>3 DEF v

\* A packet of a flow: dumped by both entries, with a line between.
LEMMA HandledFits ==
  ASSUME w \in Outputs, ~w.failed, Fit(w), conf.minutes \in Nat, now \in 0 .. conf.minutes,
         NEW line \in {"none", "flow", "delay"}
  PROVE  HandledGoes(w, Handled(line))
<1> DEFINE v == FirstPacket(w)
           ip == DumpToFile(v, IpComplete)
           m == CASE line = "flow" -> ConnLine(ip)
                  [] line = "delay" -> SampleLine(ip)
                  [] OTHER -> ip
           n == DumpToFile(m, FlowDump)
<1>1. Handled(line) = n BY DEF Handled
<1>0. v \in Outputs /\ ~v.failed /\ Fit(v) /\ (HandledGoes(v, n) => HandledGoes(w, n))
  BY FirstGoes
<1> HIDE DEF v
<1>2. DumpGoes(v, ip, IpComplete) /\ HandledGoes(v, ip) BY <1>0, ProtosAre, DumpFits, DumpHandled
<1> HIDE DEF ip
<1>3. ip \in Outputs BY <1>2 DEF DumpGoes
<1>4. Written(ip, m) /\ (ip.failed => m.failed) /\ (Fit(ip) => m.astray = ip.astray)
      /\ (Fit(ip) /\ m.failed /\ ~ip.failed => ~ip.base.logs)
      /\ (ip.failed => m.astray = ip.astray)
  <2>1. CASE line = "flow"
    <3>1. ip.failed => ConnLine(ip) = ip BY DEF ConnLine
    <3> QED BY <1>3, <2>1, <3>1, ConnLineGoes
  <2>2. CASE line = "delay"
    <3>1. m = SampleLine(ip) BY <2>2
    <3> QED BY <1>3, <3>1, SampleLineGoes
  <2>3. CASE line = "none"
    <3>1. m = ip BY <2>3
    <3> QED BY <1>3, <3>1 DEF Written, SameDir
  <2> QED BY <2>1, <2>2, <2>3
<1> HIDE DEF m
<1>5. m \in Outputs /\ m.astray = v.astray /\ SameDir(v, m) /\ m.fp = ip.fp /\ m.opened = ip.opened
  BY <1>2, <1>4 DEF Written, DumpGoes, SameDir
<1>6. ASSUME m.failed PROVE HandledGoes(v, n)
  <2>1. n = m BY <1>6 DEF DumpToFile
  <2>2. m.base = NoBase \/ ~m.base.logs BY <1>2, <1>4, <1>5, <1>6 DEF HandledGoes, DumpGoes, SameDir
  <2>3. (Here(v) => Here(m)) /\ Placed(m) BY <1>2, <1>4, <1>5 DEF HandledGoes, Here, Placed, Written, SameDir
  <2>4. NewFiles(v, m) BY <1>2, <1>5 DEF HandledGoes, NewFiles
  <2> QED BY <1>1, <1>5, <1>6, <2>1, <2>2, <2>3, <2>4 DEF HandledGoes
<1>7. ASSUME ~m.failed PROVE HandledGoes(v, n)
  <2>1. ~ip.failed /\ Fit(ip) BY <1>2, <1>4, <1>7 DEF DumpGoes
  <2>2. Fit(m) /\ (Here(ip) => Here(m)) BY <1>4, <2>1, WrittenFits
  <2>3. DumpGoes(m, n, FlowDump) /\ HandledGoes(m, n) BY <1>5, <1>7, <2>2, ProtosAre, DumpFits, DumpHandled
  <2> HIDE DEF n
  <2>4. SameDir(v, n) /\ n.astray = v.astray BY <1>5, <2>3 DEF HandledGoes, SameDir
  <2>5. Here(v) => Here(n) BY <1>2, <2>2, <2>3 DEF HandledGoes
  <2>6. NewFiles(v, n)
    <3>1. v.opened \subseteq n.opened BY <1>2, <1>5, <2>3 DEF HandledGoes, NewFiles
    <3>2. ASSUME NEW p \in Protos, n.fp[p] \in v.opened \cup {Closed}
          PROVE  n.fp[p] \in {v.fp[p], Closed}
      <4>1. CASE p = IpComplete
        <5>1. n.fp[p] = ip.fp[p] BY <1>5, <2>3, <4>1, ProtosAre DEF DumpGoes
        <5> QED BY <1>2, <3>2, <5>1 DEF HandledGoes, NewFiles
      <4>2. CASE p = FlowDump
        <5>1. m.fp[p] = v.fp[p] /\ v.opened \subseteq m.opened
          BY <1>2, <1>5, <4>2, ProtosAre DEF DumpGoes, HandledGoes, NewFiles
        <5> QED BY <2>3, <3>2, <5>1 DEF HandledGoes, NewFiles
      <4> QED BY <4>1, <4>2, ProtosAre
    <3> QED BY <3>1, <3>2 DEF NewFiles
  <2> QED BY <1>1, <2>3, <2>4, <2>5, <2>6 DEF HandledGoes, n
<1> QED BY <1>0, <1>1, <1>6, <1>7

------------------------------
\* The invariant of the packet loop, in parts.  The type.
Stages == {"open", "first", "reading", "check", "reload", "flush", "done", "stopped"}
Running == stage \in {"first", "reading", "check", "reload", "flush"}
IniFiles == [there : BOOLEAN, mtime : Nat, content : Inis]

Typed ==
  /\ conf \in Confs /\ stage \in Stages
  /\ file \in 0 .. conf.files /\ file_count \in 0 .. file /\ now \in 0 .. conf.minutes
  /\ lastCheck \in 0 .. conf.minutes /\ skipped \subseteq 1 .. conf.files /\ pending \in BOOLEAN
  /\ w \in Outputs /\ EngineOn(w)
  /\ ini \in IniFiles /\ ini.mtime <= conf.edits
  /\ poll \in [last : Nat, stable : -1 .. StableCount, errs : (0 .. FirstErrors) \cup (0 .. Errors),
               loaded : IniFiles]
  /\ poll.loaded.mtime <= ini.mtime

\* Nothing is opened any more: without -c after every file.
Ended == \/ stage \in {"done", "stopped"}
         \/ stage = "open" /\ (conf.con_cat => file = conf.files)

\* The output is fit for the next packet, or closed.
Whole ==
  /\ w.failed => stage = "stopped" /\ (w.base = NoBase \/ ~w.base.logs)
  /\ ~w.failed /\ ~Ended => Fit(w)
  /\ stage = "open" => Rooted(w) /\ Opens(w)
  /\ stage = "open" /\ ~conf.con_cat => AllClosed(w)
  /\ Placed(w) /\ ~w.astray
  /\ poll.loaded.content.dump => Here(w)

\* In the minute in which a capture got its directory it writes one page
\* and checks its configuration once, so that it does not get another.
Pages == w.step + (IF w.last = now THEN 0 ELSE 1)
                + (IF lastCheck = now /\ stage # "reload" THEN 0 ELSE 1)
OnTime ==
  conf.live =>
    /\ stage = "reload" => lastCheck = now
    /\ ~w.failed /\ w.base # NoBase =>
         /\ \A d \in w.made : d.name[2] <= w.base.name[2]
         /\ w.base.name[2] <= now
         /\ w.base.name[2] = now /\ Running => Pages <= 1

\* When there is no directory, and when flows are left.
Begun ==
  /\ ~conf.live => file_count = file
  /\ stage # "open" => file > 0
  /\ file = 0 => w.base = NoBase /\ w.step = 0 /\ lastCheck = 0
  /\ w.base = NoBase /\ Running => conf.con_cat /\ (conf.live \/ 1 \in skipped)
  /\ w.base = NoBase /\ ~conf.live /\ conf.con_cat /\ file > 0 => 1 \in skipped
  /\ stage = "open" /\ pending => conf.con_cat /\ (file < conf.files \/ file \in skipped)
  /\ stage = "done" /\ pending => conf.con_cat /\ conf.files \in skipped

RunInv == Typed /\ Whole /\ OnTime /\ Begun

\* What is assumed of a command line.
LEMMA ConfIs ==
  ASSUME conf \in Confs
  PROVE  /\ {conf.con_cat, conf.live, conf.shared} \subseteq BOOLEAN
         /\ conf.files \in Nat \ {0} /\ conf.minutes \in Nat /\ conf.edits \in Nat
         /\ conf.live => conf.files = 1
  BY EngineAssumption

\* main, before the first file.
LEMMA RunInit == Init => RunInv
<1> SUFFICES ASSUME Init PROVE RunInv OBVIOUS
<1>1. /\ conf \in Confs /\ conf.files \in Nat \ {0} /\ conf.minutes \in Nat /\ conf.edits \in Nat
      /\ stage = "open" /\ file = 0 /\ file_count = 0 /\ now = 0 /\ lastCheck = 0
      /\ poll = [last |-> 0, stable |-> -1, errs |-> FirstErrors, loaded |-> ini] /\ skipped = {}
  BY ConfIs DEF Init
<1>11. ~pending /\ pending \in BOOLEAN BY Zenon DEF Init
<1>2. PICK c \in Inis : ini = [there |-> TRUE, mtime |-> 0, content |-> c]
                        /\ w = IniRead(Fresh, c, FALSE)
  BY DEF Init
<1>3. /\ Fresh \in Outputs /\ Fit(Fresh) /\ AllClosed(Fresh) /\ Fresh.base = NoBase
      /\ ~Fresh.failed /\ ~Fresh.astray /\ Fresh.step = 0
  BY <1>1, FreshFits
<1>4. IniGoes(Fresh, w, c, FALSE) BY <1>2, <1>3, IniReadGoes
<1>5. /\ w \in Outputs /\ Ready(w) /\ ~w.failed /\ ~w.astray /\ AllClosed(w)
      /\ w.base = NoBase /\ w.step = 0
  BY <1>3, <1>4 DEF IniGoes, AllClosed
<1>6. Dumps(w) BY <1>5 DEF Ready, Rooted, Dumps
<1>7. Typed
  <2>1. ini \in IniFiles /\ ini.mtime = 0 BY <1>2 DEF IniFiles
  <2>2. poll \in [last : Nat, stable : -1 .. StableCount,
                  errs : (0 .. FirstErrors) \cup (0 .. Errors), loaded : IniFiles]
        /\ poll.loaded.mtime <= ini.mtime
    BY <1>1, <2>1, EngineAssumption
  <2>3. stage \in Stages /\ skipped \subseteq 1 .. conf.files BY <1>1 DEF Stages
  <2>4. /\ file \in 0 .. conf.files /\ file_count \in 0 .. file /\ now \in 0 .. conf.minutes
        /\ lastCheck \in 0 .. conf.minutes
    BY <1>1
  <2> QED BY <1>1, <1>5, <1>11, <2>1, <2>2, <2>3, <2>4 DEF Typed, Ready
<1>8. Whole BY <1>1, <1>5, <1>6, Places DEF Whole, Fit, Ready, Here, AllClosed
<1>9. OnTime BY <1>1, <1>5 DEF OnTime
<1>10. Begun BY <1>1, <1>5, <1>11 DEF Begun, Running
<1> QED BY <1>7, <1>8, <1>9, <1>10 DEF RunInv

\* The type of the output depends on the command line only.
LEMMA OutputsKept ==
  ASSUME conf' = conf
  PROVE  Outputs' = Outputs
  BY DEF Outputs, Times, Paths

\* A page, or a reload, is due only when no directory of this minute is
\* there (of a capture).
LEMMA PageDue ==
  ASSUME RunInv, stage = "reload" \/ (stage = "flush" /\ now - w.last > TimeStep)
  PROVE  Paged(w)
<1>1. now \in Nat /\ file \in Nat /\ w \in Outputs /\ ~w.failed /\ Fit(w) /\ Running
  <2>1. conf.minutes \in Nat /\ conf.files \in Nat BY ConfIs DEF RunInv, Typed
  <2> QED BY <2>1 DEF RunInv, Typed, Whole, Ended, Running
<1>2. Name \in Int \X Int /\ Name[2] = now BY <1>1 DEF Name
<1>3. ASSUME conf.live, w.step + 1 >= Dirs, NEW d \in w.made
      PROVE  d.name # Name
  <2>1. w.base # NoBase BY <1>1, <1>3 DEF Fit, Ready, Rooted
  <2>2. d.name[2] <= w.base.name[2] /\ w.base.name[2] <= now
        /\ (w.base.name[2] = now => Pages <= 1)
    BY <1>1, <1>3, <2>1 DEF RunInv, OnTime
  <2>3. d.name[2] \in Int /\ w.base.name[2] \in Int /\ w.step \in Nat /\ w.last \in Int
    BY <1>1, <1>3 DEF Outputs
  <2>4. CASE w.base.name[2] = now
    <3>1. Pages <= 1 /\ w.step >= 1 BY <1>3, <2>2, <2>3, <2>4, EngineAssumption
    <3>2. w.last = now /\ stage # "reload" BY <2>3, <3>1 DEF Pages
    <3> QED BY <1>1, <3>2, EngineAssumption
  <2>5. CASE w.base.name[2] # now
    <3>1. d.name[2] # now BY <1>1, <2>2, <2>3, <2>5
    <3> QED BY <1>2, <3>1
  <2> QED BY <2>4, <2>5
<1> QED BY <1>1, <1>2, <1>3 DEF Paged

\* The steps that leave the output alone: the time, the test of the
\* configuration, its edits, and the end.
LEMMA LaterStep ==
  ASSUME RunInv, Later
  PROVE  RunInv' /\ Kept
<1>1. Typed' BY ConfIs, OutputsKept DEF RunInv, Typed, Later, Stages
<1>2. Whole' BY DEF RunInv, Whole, Ended, Later
<1>3. OnTime'
  <2>1. ASSUME conf.live, ~w.failed, w.base # NoBase
        PROVE  w.base.name[2] <= now /\ w.base.name[2] \in Int /\ now \in Nat
    BY <2>1, ConfIs DEF RunInv, Typed, OnTime, Outputs
  <2> QED BY <2>1 DEF RunInv, OnTime, Later
<1>4. Begun' BY DEF RunInv, Begun, Running, Later
<1>5. Kept BY DEF Kept, Later
<1> QED BY <1>1, <1>2, <1>3, <1>4, <1>5 DEF RunInv

\* The counters of the test of the file keep their ranges.
LEMMA PollIs ==
  ASSUME RunInv, ini.there \/ poll.errs > 0
  PROVE  /\ Poll \in [last : Nat, stable : -1 .. StableCount,
                      errs : (0 .. FirstErrors) \cup (0 .. Errors), loaded : IniFiles]
         /\ Poll.loaded = poll.loaded
<1>1. /\ poll \in [last : Nat, stable : -1 .. StableCount,
                   errs : (0 .. FirstErrors) \cup (0 .. Errors), loaded : IniFiles]
      /\ ini.mtime \in Nat
  BY DEF RunInv, Typed, IniFiles
<1>2. StableCount \in Nat \ {0} /\ FirstErrors \in Nat \ {0} /\ Errors \in Nat \ {0} BY EngineAssumption
<1>3. CASE ~ini.there
  <2>1. Poll = [poll EXCEPT !.errs = poll.errs - 1] BY <1>1, <1>3 DEF Poll
  <2>2. poll.errs - 1 \in (0 .. FirstErrors) \cup (0 .. Errors) BY <1>1, <1>2, <1>3
  <2> QED BY <1>1, <2>1, <2>2
<1>4. CASE ini.there /\ ini.mtime # poll.last
  <2>1. Poll = [poll EXCEPT !.errs = Errors, !.stable = StableCount, !.last = ini.mtime] BY <1>4 DEF Poll
  <2>2. Errors \in (0 .. FirstErrors) \cup (0 .. Errors) /\ StableCount \in -1 .. StableCount BY <1>2
  <2> QED BY <1>1, <2>1, <2>2
<1>5. CASE ini.there /\ ini.mtime = poll.last
  <2> DEFINE s == IF poll.stable >= 0 THEN poll.stable - 1 ELSE poll.stable
  <2>1. Poll = [poll EXCEPT !.errs = Errors, !.stable = s] BY <1>1, <1>5 DEF Poll
  <2>2. s \in -1 .. StableCount /\ Errors \in (0 .. FirstErrors) \cup (0 .. Errors) BY <1>1, <1>2
  <2> QED BY <1>1, <2>1, <2>2
<1> QED BY <1>3, <1>4, <1>5

\* ProcessPacket looks at the configuration file.
LEMMA CheckStep ==
  ASSUME RunInv, Check
  PROVE  RunInv' /\ Kept
<1>1. /\ poll' \in [last : Nat, stable : -1 .. StableCount,
                    errs : (0 .. FirstErrors) \cup (0 .. Errors), loaded : IniFiles]
      /\ poll'.loaded = poll.loaded
  BY PollIs DEF Check
<1>2. /\ stage = "check" /\ stage' \in {"reload", "flush"} /\ Due /\ conf' = conf /\ file' = file
      /\ file_count' = file_count /\ now' = now /\ w' = w /\ ini' = ini /\ skipped' = skipped
      /\ lastCheck' = IF conf.live THEN now ELSE lastCheck
  BY DEF Check
<1>3. pending' = pending BY DEF Check
<1>4. Typed' BY <1>1, <1>2, <1>3, OutputsKept DEF RunInv, Typed, Stages
<1>5. Whole' BY <1>1, <1>2 DEF RunInv, Whole, Ended
<1>6. OnTime'
  <2>1. ASSUME conf.live, Pages <= 1
        PROVE  w.step + (IF w.last = now THEN 0 ELSE 1) + (IF stage' # "reload" THEN 0 ELSE 1) <= 1
    <3>1. w.step \in Nat /\ ~(lastCheck = now) BY <1>2, <2>1 DEF RunInv, Typed, Outputs, Due
    <3> QED BY <2>1, <3>1 DEF Pages
  <2> QED BY <1>2, <2>1 DEF RunInv, OnTime, Running, Pages
<1>7. Begun' BY <1>2, <1>3 DEF RunInv, Begun, Running, Typed
<1>8. Kept BY <1>2 DEF Kept
<1> QED BY <1>4, <1>5, <1>6, <1>7, <1>8 DEF RunInv

\* It does not.
LEMMA NoCheckStep ==
  ASSUME RunInv, NoCheck
  PROVE  RunInv' /\ Kept
<1>1. Typed' BY OutputsKept DEF RunInv, Typed, NoCheck, Stages
<1>2. Whole' BY DEF RunInv, Whole, Ended, NoCheck
<1>3. OnTime' BY DEF RunInv, OnTime, Running, Pages, NoCheck
<1>4. Begun' /\ Kept BY DEF RunInv, Begun, Running, Kept, NoCheck
<1> QED BY <1>1, <1>2, <1>3, <1>4 DEF RunInv

\* The file is missing: the program ends.
LEMMA NoSuchFileStep ==
  ASSUME RunInv, NoSuchFile
  PROVE  RunInv' /\ Kept
<1>1. Typed' BY OutputsKept DEF RunInv, Typed, NoSuchFile, Stages
<1>2. Whole' BY DEF RunInv, Whole, Ended, NoSuchFile
<1>3. OnTime' BY DEF RunInv, OnTime, Running, NoSuchFile
<1>4. Begun' /\ Kept BY DEF RunInv, Begun, Running, Kept, NoSuchFile
<1> QED BY <1>1, <1>2, <1>3, <1>4 DEF RunInv

\* After the last file.
LEMMA EndStep ==
  ASSUME RunInv, End
  PROVE  RunInv' /\ Kept
<1>1. Typed' /\ conf.files > 0 BY ConfIs, OutputsKept DEF RunInv, Typed, End, Stages
<1>2. Whole' BY DEF RunInv, Whole, Ended, End
<1>3. OnTime' BY DEF RunInv, OnTime, Running, End
<1>4. Begun' /\ Kept BY <1>1, ConfIs DEF RunInv, Typed, Begun, Running, Kept, End
<1> QED BY <1>1, <1>2, <1>3, <1>4 DEF RunInv

\* Somebody edits or removes the configuration file.
LEMMA EditStep ==
  ASSUME RunInv, Edit \/ Remove
  PROVE  RunInv' /\ Kept
<1>1. UNCHANGED <<conf, stage, file, file_count, now, lastCheck, w, poll, skipped, pending>>
  BY DEF Edit, Remove
<1>2. ini' \in IniFiles /\ ini'.mtime <= conf.edits /\ ini.mtime <= ini'.mtime
  <2>1. ini \in IniFiles /\ conf.edits \in Nat /\ ini.mtime <= conf.edits BY ConfIs DEF RunInv, Typed
  <2>2. CASE Edit
    <3>1. PICK c \in Inis : ini' = [there |-> TRUE, mtime |-> ini.mtime + 1, content |-> c] BY <2>2 DEF Edit
    <3>2. ini.mtime < conf.edits /\ ini.mtime \in Nat BY <2>1, <2>2 DEF Edit, IniFiles
    <3> QED BY <2>1, <3>1, <3>2 DEF IniFiles
  <2>3. CASE Remove
    <3> DEFINE there == FALSE
    <3>1. ini' = [ini EXCEPT !.there = there] /\ there \in BOOLEAN BY <2>3 DEF Remove
    <3> HIDE DEF there
    <3>2. ini' \in IniFiles /\ ini'.mtime = ini.mtime BY <2>1, <3>1 DEF IniFiles
    <3> QED BY <2>1, <3>2 DEF IniFiles
  <2> QED BY <2>2, <2>3
<1>3. Typed'
  <2>1. poll'.loaded.mtime <= ini'.mtime
    <3>1. poll.loaded.mtime \in Nat /\ ini.mtime \in Nat /\ ini'.mtime \in Nat
      BY <1>2 DEF RunInv, Typed, IniFiles
    <3> QED BY <1>1, <1>2, <3>1 DEF RunInv, Typed
  <2> QED BY <1>1, <1>2, <2>1, OutputsKept DEF RunInv, Typed, Stages
<1>4. Whole' BY <1>1 DEF RunInv, Whole, Ended
<1>5. OnTime' BY <1>1 DEF RunInv, OnTime, Running, Pages
<1>6. Begun' /\ Kept BY <1>1 DEF RunInv, Begun, Running, Kept
<1> QED BY <1>3, <1>4, <1>5, <1>6 DEF RunInv

\* ProcessFile up to the first packet.
LEMMA SkipStep ==
  ASSUME RunInv, OpenFile(TRUE)
  PROVE  RunInv' /\ Kept
<1>1. /\ stage = "open" /\ file < conf.files /\ ~conf.live /\ file' = file + 1
      /\ file_count' = file_count + 1 /\ skipped' = skipped \cup {file'}
      /\ stage' = stage /\ now' = now /\ w' = w /\ conf' = conf /\ lastCheck' = lastCheck
      /\ ini' = ini /\ poll' = poll
  BY DEF OpenFile
<1>2. pending' = pending /\ conf.files \in Nat /\ file \in Nat /\ file_count = file
  BY <1>1, ConfIs DEF OpenFile, RunInv, Typed, Begun
<1>3. Typed'
  <2>1. file' \in 0 .. conf.files /\ file_count' \in 0 .. file' /\ skipped' \subseteq 1 .. conf.files
    BY <1>1, <1>2 DEF RunInv, Typed
  <2> QED BY <1>1, <1>2, <2>1, OutputsKept DEF RunInv, Typed, Stages
<1>4. Whole' BY <1>1, <1>2 DEF RunInv, Whole, Ended
<1>5. OnTime' BY <1>1 DEF RunInv, OnTime
<1>6. Begun' BY <1>1, <1>2 DEF RunInv, Begun, Running
<1>7. Kept BY <1>1 DEF Kept
<1> QED BY <1>3, <1>4, <1>5, <1>6, <1>7 DEF RunInv

\* The first packet of a file.
LEMMA OpenStep ==
  ASSUME RunInv, OpenFile(FALSE)
  PROVE  RunInv' /\ Kept
<1> DEFINE name == <<IF conf.shared THEN 0 ELSE file', now'>>
<1>1. /\ stage = "open" /\ file < conf.files /\ file' = file + 1
      /\ file_count' = (IF conf.live THEN file_count ELSE file_count + 1) /\ skipped' = skipped
      /\ stage' = "first" /\ conf' = conf /\ lastCheck' = lastCheck /\ ini' = ini /\ poll' = poll
      /\ now' \in (IF conf.live THEN {0} ELSE 0 .. conf.minutes)
      /\ w' = IF ~conf.con_cat \/ file_count' = 1 THEN CreateNewOutfiles(w, name) ELSE w
  BY DEF OpenFile
<1>2. pending' = pending /\ conf.files \in Nat /\ conf.minutes \in Nat /\ file \in Nat
      /\ file_count \in 0 .. file /\ now' \in Nat /\ w \in Outputs /\ EngineOn(w)
      /\ (conf.live => file = 0)
  BY <1>1, ConfIs DEF OpenFile, RunInv, Typed
<1>3. Rooted(w) /\ Opens(w) /\ ~w.failed BY <1>1 DEF RunInv, Whole
<1>4. CASE ~conf.con_cat \/ file_count' = 1
  <2>1. file = 0 \/ ~conf.con_cat BY <1>1, <1>2, <1>4 DEF RunInv, Begun
  <2>2. AllClosed(w)
    <3>1. file = 0 => w.base = NoBase BY DEF RunInv, Begun
    <3> QED BY <1>1, <1>3, <2>1, <3>1 DEF RunInv, Whole, Opens, AllClosed
  <2>3. OutfilesGoes(w, w', name) /\ name[2] = now' BY <1>1, <1>2, <1>3, <1>4, <2>2, OutfilesFit
  <2>4. w'.base # NoBase BY <1>2, <2>3 DEF OutfilesGoes, NoBase, Outputs
  <2>5. file = 0 => w.made = {} /\ w.step = 0 /\ lastCheck = 0 BY <1>3 DEF RunInv, Begun, Rooted
  <2>6. Typed'
    <3>1. file' \in 0 .. conf.files /\ file_count' \in 0 .. file' /\ now' \in 0 .. conf.minutes BY <1>1, <1>2
    <3>2. w' \in Outputs /\ EngineOn(w') BY <2>3 DEF OutfilesGoes, Fit, Ready
    <3> QED BY <1>1, <1>2, <3>1, <3>2, OutputsKept DEF RunInv, Typed, Stages
  <2>7. Whole'
    <3>1. Fit(w') /\ AllClosed(w') /\ ~w'.failed /\ (w'.astray = w.astray) BY <1>3, <2>3 DEF OutfilesGoes
    <3>2. Placed(w') /\ Here(w') BY <3>1, Places DEF AllClosed, Here
    <3> QED BY <1>1, <3>1, <3>2 DEF RunInv, Whole
  <2>8. OnTime'
    <3>1. CASE conf.live
      <4>1. file = 0 /\ now' = 0 /\ w'.base.name = name /\ w'.step = 0 /\ lastCheck' = 0
        BY <1>1, <1>2, <2>3, <2>5, <3>1 DEF OutfilesGoes
      <4>2. \A d \in w'.made : d.name = name BY <2>3, <2>5, <4>1 DEF OutfilesGoes
      <4> QED BY <1>1, <2>3, <4>1, <4>2 DEF OnTime, Pages
    <3>2. CASE ~conf.live BY <1>1, <3>2 DEF OnTime
    <3> QED BY <3>1, <3>2
  <2>9. Begun' BY <1>1, <1>2, <2>4 DEF RunInv, Begun
  <2>10. Kept
    <3>1. ASSUME NEW d \in w.made \ w'.made
          PROVE  d.name = w'.base.name /\ ~conf.con_cat /\ ~conf.live
      <4>1. d.name = name /\ w'.base.name = name /\ file # 0 BY <2>3, <2>5, <3>1 DEF OutfilesGoes
      <4> QED BY <1>2, <2>1, <4>1
    <3>2. \A p \in Protos : w'.fp[p] = Closed BY <2>3 DEF OutfilesGoes, AllClosed
    <3> QED BY <1>1, <3>1, <3>2 DEF Kept
  <2> QED BY <2>6, <2>7, <2>8, <2>9, <2>10 DEF RunInv
<1>5. CASE conf.con_cat /\ file_count' # 1
  <2>1. w' = w BY <1>1, <1>5
  <2>2. Typed'
    <3>1. file' \in 0 .. conf.files /\ file_count' \in 0 .. file' /\ now' \in 0 .. conf.minutes BY <1>1, <1>2
    <3> QED BY <1>1, <1>2, <2>1, <3>1, OutputsKept DEF RunInv, Typed, Stages
  <2>3. Whole' BY <1>1, <1>2, <1>5, <2>1 DEF RunInv, Whole, Ended
  <2>4. OnTime'
    <3>1. conf.live => w.base = NoBase BY <1>2 DEF RunInv, Begun
    <3> QED BY <1>1, <2>1, <3>1 DEF OnTime
  <2>5. Begun'
    <3>1. ~conf.live => file_count = file /\ file > 0 BY <1>1, <1>2, <1>5 DEF RunInv, Begun
    <3> QED BY <1>1, <1>2, <1>5, <2>1, <3>1 DEF RunInv, Begun
  <2>6. Kept BY <2>1 DEF Kept
  <2> QED BY <2>2, <2>3, <2>4, <2>5, <2>6 DEF RunInv
<1> QED BY <1>4, <1>5

\* ProcessPacket: a packet changes the dumps, and no directory.
LEMMA PacketStep ==
  ASSUME RunInv, Running, HandledGoes(w, w'), ~w.failed,
         UNCHANGED <<conf, file, file_count, now, lastCheck, ini, poll, skipped>>,
         stage' = "stopped" \/ (~w'.failed /\ stage' \in {"reading", "check"}), stage # "reload",
         pending' \in BOOLEAN
  PROVE  RunInv' /\ Kept
<1>1. w' \in Outputs /\ SameDir(w, w') /\ (w'.astray = w.astray) /\ NewFiles(w, w') /\ Placed(w')
      /\ (~w'.failed => Fit(w')) /\ (w'.failed => w'.base = NoBase \/ ~w'.base.logs)
      /\ (Here(w) => Here(w'))
  BY DEF HandledGoes
<1>2. Typed'
  <2>1. EngineOn(w') BY <1>1 DEF RunInv, Typed, EngineOn, SameDir
  <2> QED BY <1>1, <2>1, OutputsKept DEF RunInv, Typed, Stages
<1>3. Whole' BY <1>1 DEF RunInv, Whole, Ended
<1>4. OnTime'
  <2>1. w.step \in Nat /\ w'.step = w.step /\ w'.base = w.base /\ w'.made = w.made
        /\ w'.last \in {w.last, now} /\ now' = now /\ lastCheck' = lastCheck /\ conf' = conf
        /\ stage' # "reload"
    BY <1>1 DEF RunInv, Typed, Outputs, SameDir
  <2>2. w'.last = w.last => Pages' = Pages BY <2>1 DEF Pages
  <2>3. w'.last = now => Pages' <= Pages BY <2>1 DEF Pages
  <2>4. Pages' <= Pages /\ Pages \in Int /\ Pages' \in Int BY <2>1, <2>2, <2>3 DEF Pages
  <2>5. Pages <= 1 => Pages' <= 1 BY <2>4
  <2>6. OnTime BY DEF RunInv
  <2> HIDE DEF Pages
  <2> QED BY <2>1, <2>5, <2>6 DEF OnTime
<1>5. Begun' BY <1>1 DEF RunInv, Begun, Running, SameDir
<1>6. Kept BY <1>1 DEF Kept, NewFiles, SameDir
<1> QED BY <1>2, <1>3, <1>4, <1>5, <1>6 DEF RunInv

\* ProcessPacket, of both kinds of packets.
LEMMA PacketSteps ==
  ASSUME RunInv, OtherPacket \/ \E line \in {"none", "flow", "delay"} : FlowPacket(line)
  PROVE  RunInv' /\ Kept
<1>1. stage \in {"first", "reading", "check"} /\ stage \in {"first", "reading"} BY DEF OtherPacket, FlowPacket
<1>2. w \in Outputs /\ ~w.failed /\ Fit(w) /\ Running /\ conf.minutes \in Nat /\ now \in 0 .. conf.minutes
  BY <1>1, ConfIs DEF RunInv, Typed, Whole, Ended, Running
<1>3. CASE OtherPacket
  <2>1. HandledGoes(w, w') BY <1>2, <1>3, FirstGoes, DumpHandled, ProtosAre DEF OtherPacket
  <2>2. pending' \in BOOLEAN BY <1>3 DEF OtherPacket, RunInv, Typed
  <2>3. UNCHANGED <<conf, file, file_count, now, lastCheck, ini, poll, skipped>> BY <1>3 DEF OtherPacket
  <2>4. stage' = "stopped" \/ (~w'.failed /\ stage' \in {"reading", "check"}) BY <1>3 DEF OtherPacket
  <2> QED BY <1>1, <1>2, <2>1, <2>2, <2>3, <2>4, PacketStep
<1>4. ASSUME NEW line \in {"none", "flow", "delay"}, FlowPacket(line)
      PROVE  RunInv' /\ Kept
  <2>1. HandledGoes(w, w') BY <1>2, <1>4, HandledFits DEF FlowPacket
  <2>2. pending' \in BOOLEAN BY <1>4 DEF FlowPacket
  <2>3. UNCHANGED <<conf, file, file_count, now, lastCheck, ini, poll, skipped>> BY <1>4 DEF FlowPacket
  <2>4. stage' = "stopped" \/ (~w'.failed /\ stage' \in {"reading", "check"}) BY <1>4 DEF FlowPacket
  <2> QED BY <1>1, <1>2, <2>1, <2>2, <2>3, <2>4, PacketStep
<1> QED BY <1>3, <1>4

\* The reload and the test of the time: the directory in use may change.
LEMMA TurnOnTime ==
  ASSUME RunInv, Turn(w, w'), w' \in Outputs, ~w.failed, conf' = conf, now' = now,
         lastCheck' = lastCheck, stage' # "reload",
         stage = "reload" \/ (stage = "flush" /\ w.last # now)
  PROVE  OnTime'
<1>1. SUFFICES ASSUME conf.live, w'.base # NoBase, ~w'.failed
               PROVE  /\ \A d \in w'.made : d.name[2] <= w'.base.name[2]
                      /\ w'.base.name[2] <= now
                      /\ w'.base.name[2] = now =>
                           w'.step + (IF w'.last = now THEN 0 ELSE 1)
                                   + (IF lastCheck = now THEN 0 ELSE 1) <= 1
  BY DEF OnTime, Pages
<1>2. now \in Nat /\ w \in Outputs /\ Running /\ w.step \in Nat /\ w.last \in Int
  <2>1. conf.minutes \in Nat BY ConfIs DEF RunInv, Typed
  <2> QED BY <2>1 DEF RunInv, Typed, Running, Outputs
<1>3. w.base # NoBase =>
        /\ \A d \in w.made : d.name[2] <= w.base.name[2]
        /\ w.base.name[2] <= now
        /\ w.base.name[2] = now => Pages <= 1
  BY <1>1, <1>2 DEF RunInv, OnTime
<1>4. stage = "reload" => lastCheck = now BY <1>1 DEF RunInv, OnTime
<1>5. CASE w'.base = w.base /\ w'.made = w.made /\ w'.step = w.step /\ w'.last = w.last
  <2>1. w.base.name[2] = now => w.step + (IF w.last = now THEN 0 ELSE 1)
                                       + (IF lastCheck = now THEN 0 ELSE 1) <= 1
    BY <1>1, <1>2, <1>3, <1>5 DEF Pages
  <2> QED BY <1>1, <1>3, <1>5, <2>1
<1>6. CASE w'.base = w.base /\ w'.made = w.made /\ w'.step = w.step + 1 /\ w'.last = now
  <2>1. w.base.name[2] = now => w.step + 1 + (IF lastCheck = now THEN 0 ELSE 1) <= 1
    BY <1>1, <1>2, <1>3, <1>4, <1>6 DEF Pages
  <2>2. w'.base.name[2] = now =>
          w'.step + (IF w'.last = now THEN 0 ELSE 1) + (IF lastCheck = now THEN 0 ELSE 1) <= 1
    <3>1. w'.step + 0 = w.step + 1 BY <1>2, <1>6
    <3> QED BY <1>2, <1>6, <2>1, <3>1
  <2>3. \A d \in w'.made : d.name[2] <= w'.base.name[2] BY <1>1, <1>3, <1>6
  <2> QED BY <1>1, <1>3, <1>6, <2>2, <2>3
<1>7. CASE /\ w'.step = 0 /\ w'.last = now
           /\ w'.base = [name |-> Name, gen |-> w.gen + 1, logs |-> w.log_engine]
           /\ w'.made = w.made \cup {[name |-> Name, gen |-> w.gen + 1]}
  <2>1. w'.base.name = Name /\ Name[2] = now BY <1>7 DEF Name
  <2>2. w.base = NoBase => w.made = {}
    <3>1. Fit(w) BY DEF RunInv, Whole, Ended
    <3> QED BY <3>1 DEF Fit, Ready, Rooted
  <2>3. ASSUME NEW d \in w'.made
        PROVE  d.name[2] <= now
    <3>1. CASE d \in w.made
      <4>1. d.name[2] <= w.base.name[2] /\ w.base.name[2] <= now BY <1>3, <2>2, <3>1
      <4>2. d.name[2] \in Int /\ w.base.name[2] \in Int BY <1>2, <3>1 DEF Outputs
      <4> QED BY <1>2, <4>1, <4>2
    <3>2. CASE d = [name |-> Name, gen |-> w.gen + 1] BY <1>2, <2>1, <3>2
    <3> QED BY <1>7, <3>1, <3>2
  <2> QED BY <1>2, <1>7, <2>1, <2>3
<1> QED BY <1>1, <1>5, <1>6, <1>7 DEF Turn

\* It removes no directory and opens no dump.
LEMMA TurnKeeps ==
  ASSUME Turn(w, w'), \A p \in Protos : w'.fp[p] \in {w.fp[p], Closed}
  PROVE  Kept
<1>1. w.made \ w'.made = {} BY DEF Turn
<1> QED BY <1>1 DEF Kept

\* It makes no directory disappear.
LEMMA TurnBegun ==
  ASSUME RunInv, Turn(w, w'), Running, UNCHANGED <<conf, file, file_count, lastCheck, skipped>>,
         stage' \in {"flush", "reading", "stopped"}, w \in Outputs
  PROVE  Begun'
<1>1. w'.base = w.base \/ w'.base # NoBase BY DEF Turn, Outputs, NoBase
<1>2. file > 0 /\ file' > 0 /\ file \in Nat BY DEF RunInv, Begun, Running, Typed
<1> QED BY <1>1, <1>2 DEF RunInv, Begun, Running

\* The configuration is read again.
LEMMA ReloadStep ==
  ASSUME RunInv, ReloadIni
  PROVE  RunInv' /\ Kept
<1>1. /\ stage = "reload" /\ w' = Reload(w) /\ stage' = (IF w'.failed THEN "stopped" ELSE "flush")
      /\ UNCHANGED <<conf, file, file_count, now, lastCheck, ini, skipped>>
      /\ poll' = [poll EXCEPT !.loaded = ini]
  BY DEF ReloadIni
<1>2. pending' = pending BY DEF ReloadIni
<1>3. w \in Outputs /\ ~w.failed /\ Fit(w) /\ Running /\ ini \in IniFiles /\ ini.content \in Inis
  BY <1>1 DEF RunInv, Typed, Whole, Ended, Running, IniFiles
<1>4. ReloadGoes(w, w', ini.content) BY <1>1, <1>3, PageDue, ReloadFits
<1>5. Typed'
  <2>1. /\ poll' \in [last : Nat, stable : -1 .. StableCount,
                      errs : (0 .. FirstErrors) \cup (0 .. Errors), loaded : IniFiles]
        /\ poll'.loaded = ini
    BY <1>1, <1>3 DEF RunInv, Typed
  <2>2. ini.mtime <= ini.mtime BY <1>3 DEF IniFiles
  <2> QED BY <1>1, <1>2, <1>4, <2>1, <2>2, OutputsKept DEF RunInv, Typed, Stages, ReloadGoes
<1>6. Whole'
  <2>1. Placed(w') /\ (w'.astray = w.astray) BY <1>4, Places DEF ReloadGoes, Fit, Ready
  <2>2. ini.content.dump => Here(w') BY <1>4 DEF ReloadGoes, AllClosed, Here
  <2>3. poll'.loaded = ini BY <1>1, <1>3 DEF RunInv, Typed
  <2> QED BY <1>1, <1>4, <2>1, <2>2, <2>3 DEF RunInv, Whole, Ended, ReloadGoes
<1>7. OnTime' BY <1>1, <1>3, <1>4, TurnOnTime DEF ReloadGoes
<1>8. Begun' /\ Kept BY <1>1, <1>3, <1>4, TurnBegun, TurnKeeps DEF ReloadGoes
<1> QED BY <1>5, <1>6, <1>7, <1>8 DEF RunInv

\* A page is due, or not.
LEMMA FlushStep ==
  ASSUME RunInv, Flush
  PROVE  RunInv' /\ Kept
<1>1. /\ stage = "flush" /\ w' = (IF now - w.last > TimeStep THEN FlushHisto(w) ELSE w)
      /\ stage' = (IF w'.failed THEN "stopped" ELSE "reading")
      /\ UNCHANGED <<conf, file, file_count, now, lastCheck, ini, poll, skipped>>
  BY DEF Flush
<1>2. pending' = pending BY DEF Flush
<1>3. w \in Outputs /\ ~w.failed /\ Fit(w) /\ Running BY <1>1 DEF RunInv, Typed, Whole, Ended, Running
<1>4. CASE now - w.last > TimeStep
  <2>1. PageGoes(w, w') /\ w'.last = now BY <1>1, <1>3, <1>4, PageDue, HistoFits DEF Paged
  <2>2. Turn(w, w') /\ w' \in Outputs /\ (\A p \in Protos : w'.fp[p] \in {w.fp[p], Closed})
    BY <2>1 DEF PageGoes, Turn
  <2>3. w.last # now
    <3>1. now \in Int /\ w.last \in Int BY <1>3, ConfIs DEF RunInv, Typed, Outputs
    <3> QED BY <1>4, <3>1, EngineAssumption
  <2>4. Typed'
    <3>1. EngineOn(w') BY <2>1 DEF PageGoes, Fit, Ready
    <3> QED BY <1>1, <1>2, <2>2, <3>1, OutputsKept DEF RunInv, Typed, Stages
  <2>5. Whole'
    <3>1. Fit(w') /\ ~w'.failed /\ (w'.astray = w.astray) /\ (Here(w) => Here(w')) BY <1>3, <2>1 DEF PageGoes
    <3>2. Placed(w') BY <3>1, Places DEF Fit, Ready
    <3> QED BY <1>1, <3>1, <3>2 DEF RunInv, Whole, Ended
  <2>6. OnTime' BY <1>1, <1>3, <2>2, <2>3, TurnOnTime
  <2>7. Begun' /\ Kept BY <1>1, <1>3, <2>2, TurnBegun, TurnKeeps
  <2> QED BY <2>4, <2>5, <2>6, <2>7 DEF RunInv
<1>5. CASE ~(now - w.last > TimeStep)
  <2>1. w' = w BY <1>1, <1>5
  <2>2. Typed' BY <1>1, <1>2, <2>1, OutputsKept DEF RunInv, Typed, Stages
  <2>3. Whole' BY <1>1, <1>3, <2>1 DEF RunInv, Whole, Ended
  <2>4. OnTime' BY <1>1, <1>3, <2>1 DEF RunInv, OnTime, Running, Pages
  <2>5. Begun' /\ Kept BY <1>1, <1>2, <1>3, <2>1 DEF RunInv, Begun, Running, Kept
  <2> QED BY <2>2, <2>3, <2>4, <2>5 DEF RunInv
<1> QED BY <1>4, <1>5

\* ProcessFileCompleted and QuitSig.
LEMMA FinishStep ==
  ASSUME RunInv, stage = "reading", NEW line \in BOOLEAN, w' = Finish(line), ~pending',
         pending' \in BOOLEAN,
         UNCHANGED <<conf, file, file_count, now, lastCheck, ini, poll, skipped>>,
         \/ stage' = "open" /\ (conf.con_cat => file = conf.files)
         \/ stage' = "done"
         \/ stage' = "stopped"
  PROVE  RunInv' /\ Kept
<1>1. w \in Outputs /\ ~w.failed /\ Fit(w) BY DEF RunInv, Typed, Whole, Ended
<1>2. FinishGoes(w, w') BY <1>1, FinishFits
<1>3. Typed' BY <1>2, OutputsKept DEF RunInv, Typed, Stages, FinishGoes
<1>4. Whole'
  <2>1. Placed(w') /\ Here(w') /\ ~w'.failed /\ (w'.astray = w.astray)
    BY <1>1, <1>2, Places DEF FinishGoes, Here, AllClosed
  <2> QED BY <1>2, <2>1 DEF RunInv, Whole, Ended, FinishGoes
<1>5. OnTime' BY <1>1, <1>2 DEF RunInv, OnTime, Running, FinishGoes
<1>6. Begun' BY <1>2 DEF RunInv, Begun, Running, FinishGoes
<1>7. Kept BY <1>2 DEF Kept, FinishGoes, AllClosed
<1> QED BY <1>3, <1>4, <1>5, <1>6, <1>7 DEF RunInv

\* The end of a file.
LEMMA EndOfFileStep ==
  ASSUME RunInv, NEW line \in BOOLEAN, EndOfFile(line)
  PROVE  RunInv' /\ Kept
<1>1. /\ stage = "reading" /\ stage' = (IF w'.failed THEN "stopped" ELSE "open")
      /\ UNCHANGED <<conf, file, file_count, now, lastCheck, ini, poll, skipped>>
  BY DEF EndOfFile
<1>2. w \in Outputs /\ ~w.failed /\ Fit(w) BY <1>1 DEF RunInv, Typed, Whole, Ended
<1>3. conf.files \in Nat /\ file \in Nat /\ file > 0 /\ file <= conf.files /\ conf.minutes \in Nat
      /\ now \in Nat /\ (conf.live => conf.files = 1)
  BY <1>1, ConfIs DEF RunInv, Typed, Begun
<1>4. CASE conf.con_cat /\ file < conf.files
  <2>1. w' = FlushHisto(StatDumping(w)) /\ ~conf.live BY <1>3, <1>4 DEF EndOfFile
  <2>2. pending' = pending BY <1>4 DEF EndOfFile
  <2> DEFINE s == StatDumping(w)
  <2>3. Name \in Int \X Int /\ Name[2] >= 0 BY <1>3 DEF Name
  <2>4. PageGoes(w, s) BY <1>2, <2>1, <2>3, PageFits
  <2> HIDE DEF s
  <2>5. s \in Outputs /\ Fit(s) /\ ~s.failed /\ (s.astray = w.astray) /\ s.base = w.base
        /\ s.made = w.made /\ (Here(w) => Here(s))
        /\ \A p \in Protos : s.fp[p] \in {w.fp[p], Closed}
    BY <1>2, <2>1, <2>4 DEF PageGoes
  <2>6. PageGoes(s, w')
    <3>1. w' = FlushHisto(s) BY <2>1 DEF s
    <3> QED BY <1>3, <2>1, <2>3, <2>5, <3>1, HistoFits
  <2>7. w' \in Outputs /\ Fit(w') /\ ~w'.failed /\ (w'.astray = w.astray) /\ w'.base = w.base
        /\ w'.made = w.made /\ (Here(w) => Here(w'))
        /\ \A p \in Protos : w'.fp[p] \in {w.fp[p], Closed}
    BY <2>1, <2>5, <2>6 DEF PageGoes
  <2>8. Typed' BY <1>1, <2>2, <2>7, OutputsKept DEF RunInv, Typed, Stages, Fit, Ready
  <2>9. Whole'
    <3>1. Placed(w') /\ Rooted(w') /\ Opens(w') BY <2>7, Places DEF Fit, Ready
    <3> QED BY <1>1, <1>4, <2>7, <3>1 DEF RunInv, Whole, Ended
  <2>10. OnTime' BY <1>1, <2>1 DEF OnTime
  <2>11. Begun' BY <1>1, <1>3, <1>4, <2>1, <2>7 DEF RunInv, Begun, Running
  <2>12. Kept BY <2>7 DEF Kept
  <2> QED BY <2>8, <2>9, <2>10, <2>11, <2>12 DEF RunInv
<1>5. CASE ~(conf.con_cat /\ file < conf.files)
  <2>1. w' = Finish(line) BY <1>5 DEF EndOfFile
  <2>2. ~pending' /\ pending' \in BOOLEAN BY <1>5 DEF EndOfFile
  <2>3. \/ stage' = "open" /\ (conf.con_cat => file = conf.files)
        \/ stage' = "stopped"
    BY <1>1, <1>3, <1>5
  <2> QED BY <1>1, <2>1, <2>2, <2>3, FinishStep
<1> QED BY <1>4, <1>5

\* The end of the program between two packets.
LEMMA QuitStep ==
  ASSUME RunInv, NEW line \in BOOLEAN, Quit(line)
  PROVE  RunInv' /\ Kept
<1>1. /\ stage = "reading" /\ (stage' = "stopped" \/ stage' = "done") /\ w' = Finish(line)
      /\ UNCHANGED <<conf, file, file_count, now, lastCheck, ini, poll, skipped>>
  BY DEF Quit
<1>2. ~pending' /\ pending' \in BOOLEAN BY DEF Quit
<1> QED BY <1>1, <1>2, FinishStep

\* Every step keeps the invariant and what is on the disk.
LEMMA RunStep == RunInv /\ [Next]_vars => RunInv' /\ Kept
<1> SUFFICES ASSUME RunInv, [Next]_vars PROVE RunInv' /\ Kept OBVIOUS
<1>1. ASSUME NEW empty \in BOOLEAN, OpenFile(empty) PROVE RunInv' /\ Kept BY <1>1, SkipStep, OpenStep
<1>2. CASE Later BY <1>2, LaterStep
<1>3. CASE OtherPacket \/ \E line \in {"none", "flow", "delay"} : FlowPacket(line) BY <1>3, PacketSteps
<1>4. ASSUME NEW line \in BOOLEAN, EndOfFile(line) \/ Quit(line) PROVE RunInv' /\ Kept
  BY <1>4, EndOfFileStep, QuitStep
<1>5. CASE Check \/ NoCheck \/ NoSuchFile BY <1>5, CheckStep, NoCheckStep, NoSuchFileStep
<1>6. CASE ReloadIni \/ Flush BY <1>6, ReloadStep, FlushStep
<1>7. CASE End \/ Edit \/ Remove BY <1>7, EndStep, EditStep
<1>8. CASE UNCHANGED vars
  <2>1. UNCHANGED <<conf, stage, file, file_count, now, lastCheck, w, ini, poll, skipped>>
        /\ pending' = pending
    BY <1>8 DEF vars
  <2>2. Typed' BY <2>1, OutputsKept DEF RunInv, Typed, Stages
  <2>3. Whole' /\ OnTime' /\ Begun' BY <2>1 DEF RunInv, Whole, Ended, OnTime, Running, Pages, Begun
  <2>4. Kept BY <2>1 DEF Kept
  <2> QED BY <2>2, <2>3, <2>4 DEF RunInv
<1> QED BY <1>1, <1>2, <1>3, <1>4, <1>5, <1>6, <1>7, <1>8 DEF Next

\* The invariant of the packet loop: for every command line, every
\* configuration and every sequence of packets, edits, reloads and files.
THEOREM RunInvariant == Spec => []RunInv
<1>1. RunInv /\ [Next]_vars => RunInv' BY RunStep
<1> QED BY RunInit, <1>1, PTL DEF Spec

\* The invariant has the types.
LEMMA RunTyped == RunInv => TypeOK
<1> SUFFICES ASSUME RunInv PROVE TypeOK OBVIOUS
<1>1. Typed BY DEF RunInv
<1>2. DOMAIN w = {"base", "made", "gen", "step", "last", "log_engine", "fp_logc", "fp_qd", "astray",
                 "engine", "enabled", "slice_win", "fp", "win_start", "seq_num", "outdir",
                 "log_basedir", "dir_counter", "traces", "opened", "failed"}
  BY <1>1 DEF Typed, Outputs
<1>3. w.enabled \subseteq Protos /\ w.seq_num \in [Protos -> Nat] /\ w.step \in Nat
      /\ w.win_start \in [Protos -> {None} \cup 0 .. conf.minutes]
  BY <1>1 DEF Typed, Outputs, Times
<1>4. w.engine = (w.enabled # {})
  <2>1. w.engine \in BOOLEAN /\ (w.engine <=> w.enabled # {}) BY <1>1 DEF Typed, Outputs, EngineOn
  <2> QED BY <2>1
<1>5. w.astray \in BOOLEAN BY <1>1 DEF Typed, Outputs
<1>6. poll.stable \in -1 .. StableCount /\ poll.errs \in (0 .. FirstErrors) \cup (0 .. Errors)
      /\ ini.content \in Inis
  BY <1>1 DEF Typed, IniFiles
<1> QED BY <1>1, <1>2, <1>3, <1>4, <1>5, <1>6 DEF Typed, Stages, TypeOK

\* What the program wrote is where it should be and was not left behind:
\* no line is lost or in another directory, it stops for the known reasons
\* only, no packet is dumped to a directory that is gone or not in use,
\* and every flow is closed before the end.
THEOREM OutputIsSound == Spec => []OutputSound
<1>1. RunInv => OutputSound
  <2> SUFFICES ASSUME RunInv PROVE OutputSound OBVIOUS
  <2>1. TypeOK BY RunTyped
  <2>2. LinesLand BY DEF RunInv, Whole, LinesLand
  <2>3. StopsExplained BY DEF RunInv, Whole, Begun, Running, StopsExplained
  <2>4. DumpedHere BY DEF RunInv, Whole, Placed, Here, DumpedHere
  <2>5. FlowsClosed BY DEF RunInv, Begun, FlowsClosed
  <2> QED BY <2>1, <2>2, <2>3, <2>4, <2>5 DEF OutputSound
<1> QED BY <1>1, RunInvariant, PTL

\* What was written stays: no packet dump is created over another, and a
\* directory is removed only for another file of the same minute.
THEOREM OutputStays == Spec => OutputKept
<1>1. RunInv /\ [Next]_vars => [Kept]_vars BY RunStep
<1> QED BY <1>1, RunInvariant, PTL DEF Spec, OutputKept
==============================
