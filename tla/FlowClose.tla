------------------------------ MODULE FlowClose ------------------------------
(***************************************************************************)
(* The threaded engine of Tstat (option -p): the packet thread, which owns *)
(* the flow tables and creates and closes flows, and the thread            *)
(* time_out_flow_closing(), which runs trace_done_periodic() over the same *)
(* tables whenever the packet thread fires it.  The module models every    *)
(* use of the four mutexes and of the condition variable, with the tables  *)
(* reduced to the sets of occupied slots.                                  *)
(***************************************************************************)
EXTENDS Integers, FiniteSets

CONSTANTS
  MaxTcpPairs,     \* MAX_TCP_PAIRS
  MaxUdpPairs,     \* MAX_UDP_PAIRS
  ListSearchDept,  \* LIST_SEARCH_DEPT
  MaxTcpFlows,     \* bound on the TCP flows the traffic has open at once
  DoUdp,           \* do_udp: UDP flows are traced too
  SleepsSuffice,   \* both usleep(200) outlast the steps they leave time for
  Spurious         \* pthread_cond_wait may wake without a signal

ASSUME FlowCloseAssumption ==
  /\ MaxTcpPairs \in Nat \ {0}
  /\ MaxUdpPairs \in Nat \ {0}
  /\ ListSearchDept \in Nat
  /\ MaxTcpFlows \in Nat
  /\ DoUdp \in BOOLEAN
  /\ SleepsSuffice \in BOOLEAN
  /\ Spurious \in BOOLEAN

VARIABLES
  mpc,        \* where the packet thread is
  cpc,        \* where the cleaning thread is
  ttpLock,    \* owner of ttp_lock_mutex, an ERRORCHECK mutex
  utpLock,    \* owner of utp_lock_mutex
  condLock,   \* owner of flow_close_cond_mutex
  startedLock,\* owner of flow_close_started_mutex
  due,        \* elapsed(last_cleaned, current_time) passed the threshold
  tcp,        \* occupied slots of ttp[]
  udp,        \* occupied slots of utp[]
  tcpCur,     \* num_tcp_pairs
  udpCur,     \* num_udp_pairs
  hit,        \* slot of the flow whose packet is being handled
  ix          \* loop index of trace_done_periodic, TCP slots then UDP slots

locks == <<ttpLock, utpLock, condLock, startedLock>>
tables == <<tcp, udp, tcpCur, udpCur>>
threadVars == <<mpc, cpc, locks, due, tables, hit, ix>>

T == INSTANCE SlotSearch WITH Pairs <- MaxTcpPairs, SearchDept <- ListSearchDept
U == INSTANCE SlotSearch WITH Pairs <- MaxUdpPairs, SearchDept <- ListSearchDept

Owner == {"none", "main", "cleaner"}
NoSlot == -1

(* Control points of the packet thread.                                    *)
Fire == {"tFireCond", "tSignal", "tFireUncond", "tStarted", "tUnstarted", "tRelock"}
UdpFire == {"uFireCond", "uSignal", "uFireUncond", "uStarted", "uUnstarted"}
MainPC == {"start", "idle", "tDrop", "tLock", "tNew", "tUnlock", "xLock", "xFree", "xUnlock",
           "sLock", "sUnlock", "uLock", "uNew", "uUnlock"} \cup Fire \cup UdpFire
Cleaning == {"nap", "scan", "lockTtp", "recheckTtp", "unlockTtp",
             "lockUtp", "recheckUtp", "unlockUtp", "restart"}
CleanerPC == {"boot", "bootCond", "sleep", "wait", "woken", "release"} \cup Cleaning

ThreadsTypeOK ==
  /\ mpc \in MainPC
  /\ cpc \in CleanerPC
  /\ ttpLock \in Owner /\ utpLock \in Owner /\ condLock \in Owner /\ startedLock \in Owner
  /\ due \in BOOLEAN
  /\ tcp \subseteq T!Slots
  /\ udp \subseteq U!Slots
  /\ tcpCur \in T!Slots
  /\ udpCur \in U!Slots \cup {-1}
  /\ hit \in T!Slots \cup {NoSlot}
  /\ ix \in 0 .. MaxTcpPairs + MaxUdpPairs
  /\ cpc \in {"lockTtp", "recheckTtp", "unlockTtp"} => ix < MaxTcpPairs
  /\ cpc \in {"lockUtp", "recheckUtp", "unlockUtp"} =>
       MaxTcpPairs <= ix /\ ix < MaxTcpPairs + MaxUdpPairs

------------------------------
(* Mutexes.  Locking an ERRORCHECK mutex one already owns fails with       *)
(* EDEADLK and changes nothing, unlocking one that one does not own fails  *)
(* with EPERM and changes nothing; the code ignores both results.          *)
CanLockTtp(t) == ttpLock \in {"none", t}
AfterUnlockTtp(t) == IF ttpLock = t THEN "none" ELSE ttpLock

Main(from, to) == mpc = from /\ mpc' = to /\ UNCHANGED <<cpc, ix>>
Cleaner(from, to) == cpc = from /\ cpc' = to /\ UNCHANGED <<mpc, due, hit>>

------------------------------
(* main(), after pthread_create: "allow the thread to start...".           *)
StartSleep ==
  /\ Main("start", "idle")
  /\ SleepsSuffice => cpc = "wait"
  /\ UNCHANGED <<locks, due, tables, hit>>

(* The packet thread takes the next packet: it may be far enough from the  *)
(* last cleaning for the next unknown flow to fire a new one.              *)
NextPacket(to) ==
  /\ Main("idle", to)
  /\ due' \in {due, TRUE}
  /\ UNCHANGED <<locks, tables>>

(* tcp.c, FindTTP: the first SYN of an unknown flow.                       *)
RecvSyn ==
  /\ Cardinality(tcp) < MaxTcpFlows
  /\ \E to \in {"tDrop", "tLock"} : NextPacket(to) /\ (to = "tDrop" <=> due')
  /\ hit' = NoSlot

(* A packet of a known flow that ends it (half duplex, RST, or both FINs   *)
(* acknowledged), and one whose segment is recorded by rexmit.             *)
RecvClosing ==
  /\ \E s \in tcp : hit' = s
  /\ NextPacket("xLock")

RecvSegment ==
  /\ tcp # {}
  /\ NextPacket("sLock")
  /\ hit' = NoSlot

(* udp.c, FindUTP: a datagram of an unknown flow.                          *)
RecvDatagram ==
  /\ DoUdp
  /\ \E to \in {"uFireCond", "uLock"} : NextPacket(to) /\ (to = "uFireCond" <=> due')
  /\ hit' = NoSlot

------------------------------
(* Firing the cleaner from FindTTP: ttp_lock_mutex is dropped first and    *)
(* taken again last.                                                       *)
FireDropTtp ==
  /\ Main("tDrop", "tFireCond")
  /\ ttpLock' = AfterUnlockTtp("main")
  /\ UNCHANGED <<utpLock, condLock, startedLock, due, tables, hit>>

FireLockCond(from, to) ==
  /\ Main(from, to)
  /\ condLock = "none"
  /\ condLock' = "main"
  /\ UNCHANGED <<ttpLock, utpLock, startedLock, due, tables, hit>>

(* Mutant: the flow is fired, but the condition is never signalled.        *)
FireSignal_Forgotten(from, to) ==
  /\ mpc = from /\ mpc' = to
  /\ UNCHANGED <<cpc, locks, due, tables, hit, ix>>

(* pthread_cond_signal: a waiter, if there is one, will try to get the     *)
(* mutex back; without one the signal is lost.                             *)
FireSignal(from, to) ==
  /\ mpc = from /\ mpc' = to
  /\ cpc' = IF cpc = "wait" THEN "woken" ELSE cpc
  /\ UNCHANGED <<locks, due, tables, hit, ix>>

FireUnlockCond(from, to) ==
  /\ Main(from, to)
  /\ condLock' = "none"
  /\ UNCHANGED <<ttpLock, utpLock, startedLock, due, tables, hit>>

(* Mutant: the packet thread does not wait for the cleaner to start.       *)
FireLockStarted_NoWait(from, to) ==
  /\ Main(from, to)
  /\ startedLock' = "main"
  /\ UNCHANGED <<ttpLock, utpLock, condLock, due, tables, hit>>

(* Waiting for the cleaner to have started: it holds the mutex until then. *)
FireLockStarted(from, to) ==
  /\ Main(from, to)
  /\ startedLock = "none"
  /\ startedLock' = "main"
  /\ UNCHANGED <<ttpLock, utpLock, condLock, due, tables, hit>>

FireUnlockStarted ==
  /\ Main("tUnstarted", "tRelock")
  /\ startedLock' = "none"
  /\ UNCHANGED <<ttpLock, utpLock, condLock, due, tables, hit>>

FireRelockTtp ==
  /\ Main("tRelock", "tLock")
  /\ CanLockTtp("main")
  /\ ttpLock' = "main"
  /\ due' = FALSE
  /\ UNCHANGED <<utpLock, condLock, startedLock, tables, hit>>

(* Creating the TCP flow.  When NewTTP_2 finds no slot FindTTP returns     *)
(* NULL at once, without the unlock at its end.                            *)
NewLockTtp ==
  /\ Main("tLock", "tNew")
  /\ CanLockTtp("main")
  /\ ttpLock' = "main"
  /\ UNCHANGED <<utpLock, condLock, startedLock, due, tables, hit>>

NewTTP ==
  /\ tcpCur' = T!Landing(tcpCur, tcp)
  /\ \/ /\ T!Found(tcpCur, tcp)
        /\ Main("tNew", "tUnlock")
        /\ tcp' = tcp \cup {tcpCur'}
     \/ /\ ~ T!Found(tcpCur, tcp)
        /\ Main("tNew", "idle")
        /\ tcp' = tcp
  /\ UNCHANGED <<locks, due, udp, udpCur, hit>>

NewUnlockTtp ==
  /\ Main("tUnlock", "idle")
  /\ ttpLock' = AfterUnlockTtp("main")
  /\ UNCHANGED <<utpLock, condLock, startedLock, due, tables, hit>>

(* The three places of tcp_flow_stat that end a flow share one shape.      *)
CloseLock ==
  /\ Main("xLock", "xFree")
  /\ CanLockTtp("main")
  /\ ttpLock' = "main"
  /\ UNCHANGED <<utpLock, condLock, startedLock, due, tables, hit>>

CloseFree ==
  /\ Main("xFree", "xUnlock")
  /\ tcp' = tcp \ {hit}
  /\ hit' = NoSlot
  /\ UNCHANGED <<locks, due, udp, tcpCur, udpCur>>

CloseUnlock ==
  /\ Main("xUnlock", "idle")
  /\ ttpLock' = AfterUnlockTtp("main")
  /\ UNCHANGED <<utpLock, condLock, startedLock, due, tables, hit>>

(* rexmit.c: create_seg and create_quadrant guard the free lists with the  *)
(* same mutex.                                                             *)
SegLock ==
  /\ Main("sLock", "sUnlock")
  /\ CanLockTtp("main")
  /\ ttpLock' = "main"
  /\ UNCHANGED <<utpLock, condLock, startedLock, due, tables, hit>>

SegUnlock ==
  /\ Main("sUnlock", "idle")
  /\ ttpLock' = AfterUnlockTtp("main")
  /\ UNCHANGED <<utpLock, condLock, startedLock, due, tables, hit>>

(* udp.c: FindUTP fires without dropping ttp_lock_mutex.                   *)
UdpFireDone ==
  /\ Main("uUnstarted", "uLock")
  /\ startedLock' = "none"
  /\ due' = FALSE
  /\ UNCHANGED <<ttpLock, utpLock, condLock, tables, hit>>

UdpLock ==
  /\ Main("uLock", "uNew")
  /\ utpLock = "none"
  /\ utpLock' = "main"
  /\ UNCHANGED <<ttpLock, condLock, startedLock, due, tables, hit>>

NewUTP ==
  /\ Main("uNew", "uUnlock")
  /\ udpCur' = U!Landing(udpCur, udp)
  /\ udp' = udp \cup {udpCur'}
  /\ UNCHANGED <<locks, due, tcp, tcpCur, hit>>

UdpUnlock ==
  /\ Main("uUnlock", "idle")
  /\ utpLock' = "none"
  /\ UNCHANGED <<ttpLock, condLock, startedLock, due, tables, hit>>

FireStep ==
  \/ FireDropTtp
  \/ FireLockCond("tFireCond", "tSignal")
  \/ FireSignal("tSignal", "tFireUncond")
  \/ FireUnlockCond("tFireUncond", "tStarted")
  \/ FireLockStarted("tStarted", "tUnstarted")
  \/ FireUnlockStarted
  \/ FireRelockTtp

UdpStep ==
  \/ FireLockCond("uFireCond", "uSignal")
  \/ FireSignal("uSignal", "uFireUncond")
  \/ FireUnlockCond("uFireUncond", "uStarted")
  \/ FireLockStarted("uStarted", "uUnstarted")
  \/ UdpFireDone
  \/ UdpLock \/ NewUTP \/ UdpUnlock

TcpStep ==
  \/ NewLockTtp \/ NewTTP \/ NewUnlockTtp
  \/ CloseLock \/ CloseFree \/ CloseUnlock
  \/ SegLock \/ SegUnlock

MainStep == StartSleep \/ FireStep \/ UdpStep \/ TcpStep
Receive == RecvSyn \/ RecvClosing \/ RecvSegment \/ RecvDatagram

------------------------------
(* time_out_flow_closing: both mutexes are taken before the loop.          *)
BootLockStarted ==
  /\ Cleaner("boot", "bootCond")
  /\ startedLock = "none"
  /\ startedLock' = "cleaner"
  /\ UNCHANGED <<ttpLock, utpLock, condLock, tables, ix>>

BootLockCond ==
  /\ Cleaner("bootCond", "sleep")
  /\ condLock = "none"
  /\ condLock' = "cleaner"
  /\ UNCHANGED <<ttpLock, utpLock, startedLock, tables, ix>>

(* pthread_cond_wait releases the mutex and waits in one step, and returns *)
(* with the mutex held again.  There is no predicate around the wait.      *)
CondWait ==
  /\ Cleaner("sleep", "wait")
  /\ condLock' = "none"
  /\ UNCHANGED <<ttpLock, utpLock, startedLock, tables, ix>>

SpuriousWake ==
  /\ Spurious
  /\ Cleaner("wait", "woken")
  /\ UNCHANGED <<locks, tables, ix>>

CondReturn ==
  /\ Cleaner("woken", "release")
  /\ condLock = "none"
  /\ condLock' = "cleaner"
  /\ UNCHANGED <<ttpLock, utpLock, startedLock, tables, ix>>

(* Mutant: the cleaner cleans without saying that it has started.          *)
UnlockStarted_Missing ==
  /\ Cleaner("release", "nap")
  /\ UNCHANGED <<locks, tables, ix>>

(* From here to LockStarted runs one cleaning, all of it with              *)
(* flow_close_cond_mutex held.                                             *)
UnlockStarted ==
  /\ Cleaner("release", "nap")
  /\ startedLock' = "none"
  /\ UNCHANGED <<ttpLock, utpLock, condLock, tables, ix>>

(* usleep(200): time for the thread that fired to take and release         *)
(* flow_close_started_mutex, which nothing but this sleep makes it do      *)
(* before the cleaner wants the mutex again.                               *)
Nap ==
  /\ Cleaner("nap", "scan")
  /\ SleepsSuffice => mpc \notin {"tFireUncond", "tStarted", "uFireUncond", "uStarted"}
  /\ UNCHANGED <<locks, tables, ix>>

(* trace_done_periodic: the idle test on a slot reads it without a lock;   *)
(* the times it depends on are not part of this module.                    *)
LastIx == IF DoUdp THEN MaxTcpPairs + MaxUdpPairs ELSE MaxTcpPairs

ScanSkip ==
  /\ Cleaner("scan", "scan")
  /\ ix < LastIx
  /\ ix' = ix + 1
  /\ UNCHANGED <<locks, tables>>

ScanIdleTcp ==
  /\ Cleaner("scan", "lockTtp")
  /\ ix < MaxTcpPairs
  /\ ix \in tcp
  /\ UNCHANGED <<locks, tables, ix>>

ScanIdleUdp ==
  /\ Cleaner("scan", "lockUtp")
  /\ MaxTcpPairs <= ix /\ ix < LastIx
  /\ ix - MaxTcpPairs \in udp
  /\ UNCHANGED <<locks, tables, ix>>

CleanLockTtp ==
  /\ Cleaner("lockTtp", "recheckTtp")
  /\ CanLockTtp("cleaner")
  /\ ttpLock' = "cleaner"
  /\ UNCHANGED <<utpLock, condLock, startedLock, tables, ix>>

(* Under the lock the idle test is repeated: the flow is closed, or it has *)
(* seen a packet or been closed by the other thread meanwhile.             *)
CleanTcp ==
  /\ Cleaner("recheckTtp", "unlockTtp")
  /\ tcp' \in {tcp, tcp \ {ix}}
  /\ UNCHANGED <<locks, udp, tcpCur, udpCur, ix>>

CleanUnlockTtp ==
  /\ Cleaner("unlockTtp", "scan")
  /\ ttpLock' = AfterUnlockTtp("cleaner")
  /\ ix' = ix + 1
  /\ UNCHANGED <<utpLock, condLock, startedLock, tables>>

(* udp.c: close_udp_flow does the same for a UDP slot.                     *)
CleanLockUtp ==
  /\ Cleaner("lockUtp", "recheckUtp")
  /\ utpLock = "none"
  /\ utpLock' = "cleaner"
  /\ UNCHANGED <<ttpLock, condLock, startedLock, tables, ix>>

CleanUdp ==
  /\ Cleaner("recheckUtp", "unlockUtp")
  /\ udp' \in {udp, udp \ {ix - MaxTcpPairs}}
  /\ UNCHANGED <<locks, tcp, tcpCur, udpCur, ix>>

CleanUnlockUtp ==
  /\ Cleaner("unlockUtp", "scan")
  /\ utpLock' = "none"
  /\ ix' = ix + 1
  /\ UNCHANGED <<ttpLock, condLock, startedLock, tables>>

ScanDone ==
  /\ Cleaner("scan", "restart")
  /\ ix = LastIx
  /\ ix' = 0
  /\ UNCHANGED <<locks, tables>>

LockStarted ==
  /\ Cleaner("restart", "sleep")
  /\ startedLock = "none"
  /\ startedLock' = "cleaner"
  /\ UNCHANGED <<ttpLock, utpLock, condLock, tables, ix>>

HandshakeStep ==
  \/ BootLockStarted \/ BootLockCond
  \/ CondWait \/ CondReturn \/ UnlockStarted \/ Nap \/ LockStarted

ScanStep ==
  \/ ScanSkip \/ ScanIdleTcp \/ ScanIdleUdp \/ ScanDone
  \/ CleanLockTtp \/ CleanTcp \/ CleanUnlockTtp
  \/ CleanLockUtp \/ CleanUdp \/ CleanUnlockUtp

CleanerStep == HandshakeStep \/ ScanStep

------------------------------
(* main(): the mutexes are free and the thread is about to run.            *)
ThreadsInit ==
  /\ mpc = "start"
  /\ cpc = "boot"
  /\ ttpLock = "none" /\ utpLock = "none" /\ condLock = "none" /\ startedLock = "none"
  /\ due = FALSE
  /\ tcp = {} /\ udp = {}
  /\ tcpCur = 0 /\ udpCur = -1
  /\ hit = NoSlot
  /\ ix = 0

ThreadsNext == Receive \/ MainStep \/ CleanerStep \/ SpuriousWake

ThreadsSpec == ThreadsInit /\ [][ThreadsNext]_threadVars

(* The operating system keeps running both threads; packets need not come, *)
(* and spurious wakeups do not go on for ever.                             *)
Fairness ==
  /\ WF_threadVars(MainStep) /\ WF_threadVars(CleanerStep)
  /\ <>[][~ SpuriousWake]_threadVars

FairThreads == ThreadsSpec /\ Fairness

------------------------------
(* Where the packet thread, and where the cleaner, works on ttp[] and its  *)
(* hash table and free lists under ttp_lock_mutex; likewise for utp[].     *)
MainInTcp == mpc \in {"tNew", "tUnlock", "xFree", "xUnlock", "sUnlock"}
CleanerInTcp == cpc \in {"recheckTtp", "unlockTtp"}
MainInUdp == mpc \in {"uNew", "uUnlock"}
CleanerInUdp == cpc \in {"recheckUtp", "unlockUtp"}

(* The two threads never work on the TCP table at once, nor on the UDP     *)
(* table, although the packet thread takes ttp_lock_mutex twice and relies *)
(* on the second attempt failing, and gives it up by unlocks that other    *)
(* code paths issue (tcp.c:594-668, rexmit.c:323-342).                     *)
TableExclusion == ~ (MainInTcp /\ CleanerInTcp) /\ ~ (MainInUdp /\ CleanerInUdp)

(* Every firing starts a cleaning: when the packet thread signals, the     *)
(* cleaner is waiting or already woken, so the signal cannot be lost       *)
(* (tcp.c:595-600, udp.c:265-271 against tcp.c:440-449).                   *)
SignalFindsWaiter == mpc \in {"tSignal", "uSignal"} => cpc \in {"wait", "woken"}

(* The packet thread goes on after a firing only from inside the cleaning  *)
(* it asked for or a later one (tcp.c:602-603 against tcp.c:440-449).      *)
HandshakeComplete == mpc \in {"tUnstarted", "uUnstarted"} => cpc \in Cleaning

(* ttp_lock_mutex can stay with the packet thread between two packets, but *)
(* only after a flow that found no slot, and only as long as every slot    *)
(* that search examined is still taken: whatever frees one of them also    *)
(* gives the mutex back (tcp.c:630-648 against tcp.c:844-861).             *)
IdleOwnerOnlyWhenFull ==
  mpc = "idle" /\ ttpLock = "main" => T!Behind(tcpCur) \subseteq tcp

(* Which mutex each thread holds at which point.  ttp_lock_mutex is the    *)
(* exception: the packet thread holds it at least where it works on the    *)
(* table, and may hold it elsewhere (tcp.c:429-455, 594-668).              *)
Ownership ==
  /\ condLock = "main" <=> mpc \in {"tSignal", "tFireUncond", "uSignal", "uFireUncond"}
  /\ condLock = "cleaner" <=> cpc \in {"sleep", "release"} \cup Cleaning
  /\ startedLock = "main" <=> mpc \in {"tUnstarted", "uUnstarted"}
  /\ startedLock = "cleaner" <=> cpc \in {"bootCond", "sleep", "wait", "woken", "release"}
  /\ ttpLock = "cleaner" <=> CleanerInTcp
  /\ MainInTcp => ttpLock = "main"
  /\ mpc \in Fire => ttpLock # "main"
  /\ utpLock = "main" <=> MainInUdp
  /\ utpLock = "cleaner" <=> CleanerInUdp

(* With sleeps that suffice the cleaner has reached its wait before the    *)
(* packet thread reads a packet; and a ttp_lock_mutex the packet thread    *)
(* kept after a failed search stays with it only while that search would   *)
(* fail again.  They make the invariant above inductive.                   *)
Started == SleepsSuffice /\ mpc # "start" => cpc \notin {"boot", "bootCond"}

Carried ==
  mpc \in {"start", "idle", "tDrop", "xLock", "sLock", "uLock", "uNew", "uUnlock"} \cup UdpFire
    /\ ttpLock = "main" => T!Behind(tcpCur) \subseteq tcp

(* What the two threads may rely on at each point of the handshake.        *)
Safe ==
  /\ ThreadsTypeOK
  /\ Ownership
  /\ TableExclusion
  /\ SignalFindsWaiter
  /\ HandshakeComplete
  /\ IdleOwnerOnlyWhenFull

(* The packet thread begins a firing.  FindTTP gives up ttp_lock_mutex     *)
(* first; FindUTP does not, and may fire with the one a failed search has  *)
(* left behind (udp.c:265 after tcp.c:648).  Nothing is promised of that   *)
(* firing: the cleaner that needs the mutex for an idle flow keeps the     *)
(* one FindUTP waits for, and both threads stop.                           *)
Firing == mpc = "tDrop" \/ (mpc = "uFireCond" /\ ttpLock # "main")

(* After a firing, a cleaning starts (udp.c:247 "if is elapsed an          *)
(* IDLE_TIME from the last cleaning flow operation I will start a new one").*)
FireStartsCleaning == Firing ~> cpc = "nap"

(* A firing does not stop the packet thread for ever: it gets back to the  *)
(* next packet, as an engine "useful for live capture" (tstat.c:425) must. *)
FireReturns == Firing ~> mpc = "idle"
==============================
