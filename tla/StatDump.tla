------------------------------ MODULE StatDump ------------------------------
(***************************************************************************)
(* The statistics of Tstat: histograms and address tables kept twice, one  *)
(* copy being filled while the other, the frozen one, is printed and       *)
(* cleared.  With -p the thread stats_dumping() swaps the copies when the  *)
(* packet thread fires it, and prints while packets are processed; without *)
(* -p stat_dumping_old_style() does all of it at once.  The thread that    *)
(* closes idle flows adds samples too.                                     *)
(*                                                                         *)
(* A histogram is its number of samples: ip stands for those that only the *)
(* packet thread feeds, tcp for those fed when a flow is closed, rate for  *)
(* the bitrates, which are set once per dump from counters.  One slot of   *)
(* the address table (EXTERNAL_ADX_HISTO) stands for all.                  *)
(***************************************************************************)
EXTENDS Integers, FiniteSets, SequencesExt

CONSTANTS
  Addresses,      \* addresses & adx_addr_mask of the traffic
  NoAddress,      \* 0L, the address of an entry that was printed
  NotYet, NoFile, \* of a histogram on a page: still to come, and left out
  LastDir,        \* the directory LAST
  Modes,          \* the values of threaded (option -p)
  Dirs,           \* DIRS: dumps of a live capture into one output directory
  SleepsSuffice,  \* both usleep(200) outlast the steps they leave time for
  ThreadedFiles,  \* bound on the input files of the threaded engine
  MaxFiles,       \* bound on the input files
  ThreadedPackets, MaxPackets,  \* bounds on the packets, with and without threads
  MaxClosed,      \* bound on the flows the cleaner closes
  ThreadedFired, MaxFired       \* bounds on the calls of flush_histo_engine

ASSUME StatDumpAssumption ==
  /\ NoAddress \notin Addresses
  /\ NotYet \notin Nat /\ NoFile \notin Nat /\ NotYet # NoFile /\ LastDir \notin Nat
  /\ Modes \subseteq BOOLEAN /\ SleepsSuffice \in BOOLEAN
  /\ Dirs \in Nat \ {0}
  /\ ThreadedFiles \in Nat \ {0} /\ MaxFiles \in Nat /\ ThreadedFiles <= MaxFiles
  /\ ThreadedPackets \in Nat /\ MaxPackets \in Nat /\ ThreadedPackets <= MaxPackets
  /\ MaxClosed \in Nat
  /\ ThreadedFired \in Nat /\ MaxFired \in Nat /\ ThreadedFired <= MaxFired

VARIABLES
  threaded, con_cat, is_stdin,  \* options -p, -c, and a live capture or pipe
  mpc, dpc,          \* where the packet thread and the dumper are
  back,              \* what the packet thread does after the flush
  condLock,          \* owner of stat_dump_cond_mutex
  dumpLock,          \* owner of stat_dump_mutex
  histo_engine_log,  \* histograms are printed
  add,               \* the sample each thread is adding
  current,           \* current_data of the histograms: copy 1 or 2
  data,              \* first_data and second_data of each histogram
  bitrate,           \* L4_bitrate and the like: bytes since the last reset
  adx_current,       \* adx_index_current: copy 1 or 2
  adx,               \* adx_index_first and adx_index_second, a list each
  step, outdir,      \* the dump's number in its directory; directories made
  files,             \* input files left, the one being read included
  packets, closed,   \* packets received, flows the cleaner closed
  fired, printed,    \* pages asked for, and pages finished
  period,            \* what has happened since the last swap
  owed,              \* what the page being printed should show
  page,              \* what it shows
  asked, farewell,   \* the flush, the page: asked for by a reload that disables the printing
  used               \* the directories that hold a page

options == <<threaded, con_cat, is_stdin>>
locks == <<condLock, dumpLock>>
copies == <<current, data, adx_current, adx>>
paper == <<step, outdir, printed, used>>
sheet == <<owed, page, farewell>>
traffic == <<files, packets, fired>>
vars == <<options, mpc, dpc, back, locks, histo_engine_log, add, copies, bitrate, paper,
          sheet, asked, traffic, closed, period>>

Counted == {"ip", "tcp"}
Histos == Counted \cup {"rate"}
Copy == {1, 2}

Main == "main"
Dumper == "dumper"
Cleaner == "cleaner"

Flushing == {"lockCond", "signal", "unlockCond", "lockDump", "unlockDump"}
MainPC == {"start", "read", "add", "config", "timer", "disable", "next", "done",
           "oldStyle", "reset"} \cup Flushing
Printing == {"nap", "ip", "tcp", "rate", "addresses", "clear"}
DumperPC == {"boot", "bootCond", "sleep", "wait", "woken", "swap", "unlock", "relock"} \cup Printing

(* An addition in progress: to which histogram, through which copy, and    *)
(* what it read there.                                                     *)
Addition == [at : {"idle", "pointer", "load", "store"}, histo : Counted, copy : Copy, was : Nat]
Idle == [at |-> "idle", histo |-> "ip", copy |-> 1, was |-> 0]
Start(h) == [at |-> "pointer", histo |-> h, copy |-> 1, was |-> 0]

Hits == [Addresses -> Nat]
Entry == [ip : Addresses \cup {NoAddress}, hits : Nat]
Period == [packets : Nat, closed : Nat, hits : Hits]
Nothing == [packets |-> 0, closed |-> 0, hits |-> [a \in Addresses |-> 0]]
Page == [histo : [Histos -> Nat \cup {NotYet, NoFile}], adx : Hits \cup {NotYet}]
Blank == [histo |-> [h \in Histos |-> NotYet], adx |-> NotYet]

TypeOK ==
  /\ threaded \in Modes /\ con_cat \in BOOLEAN /\ is_stdin \in BOOLEAN
  /\ mpc \in MainPC /\ dpc \in DumperPC
  /\ back \in {"disable", "read", "next"}
  /\ condLock \in {"none", Main, Dumper} /\ dumpLock \in {"none", Main, Dumper}
  /\ histo_engine_log \in BOOLEAN
  /\ add \in [{Main, Cleaner} -> Addition]
  /\ current \in Copy /\ data \in [Histos -> [Copy -> Nat]] /\ bitrate \in Nat
  /\ adx_current \in Copy /\ adx \in [Copy -> Seq(Entry)]
  /\ step \in Nat /\ outdir \in Nat
  /\ files \in 0 .. MaxFiles /\ packets \in 0 .. MaxPackets /\ closed \in 0 .. MaxClosed
  /\ fired \in Nat /\ printed \in Nat
  /\ period \in Period /\ owed \in Period /\ page \in Page
  /\ asked \in BOOLEAN /\ farewell \in BOOLEAN
  /\ used \subseteq Nat \X (Nat \cup {LastDir})

------------------------------
(* whats_frozen: the copy that is not current.                             *)
Other(copy) == 3 - copy

(* add_adx: the entry of the address, else the first one whose address was *)
(* cleared, else a new one at the end.                                     *)
AddAdx(list, a) ==
  LET i == SelectInSeq(list, LAMBDA e : e.ip \in {a, NoAddress})
  IN IF i = 0 THEN Append(list, [ip |-> a, hits |-> 1])
     ELSE [list EXCEPT ![i] = [ip |-> a, hits |-> @.hits + 1]]

(* print_adx prints and clears the list up to the first entry without hits.*)
Filled(list) ==
  LET i == SelectInSeq(list, LAMBDA e : e.hits = 0)
  IN IF i = 0 THEN Len(list) ELSE i - 1

PrintedHits(list) ==
  [a \in Addresses |->
     LET i == SelectInSeq(SubSeq(list, 1, Filled(list)), LAMBDA e : e.ip = a)
     IN IF i = 0 THEN 0 ELSE list[i].hits]

ClearedAdx(list) ==
  [i \in 1 .. Len(list) |->
     IF i <= Filled(list) THEN [ip |-> NoAddress, hits |-> 0] ELSE list[i]]

(* print_histo of one histogram, if print_all_histo calls it.              *)
PrintHisto(n) == IF histo_engine_log THEN n ELSE NoFile

------------------------------
(* add_histo: p->current_data is read, then the bin, then the bin is       *)
(* written; nothing keeps other threads away.                              *)
AddPointer(t) ==
  /\ add[t].at = "pointer"
  /\ add' = [add EXCEPT ![t].at = "load", ![t].copy = current]
  /\ UNCHANGED <<options, mpc, dpc, back, locks, histo_engine_log, copies, bitrate, paper,
                 sheet, asked, traffic, closed, period>>

AddLoad(t) ==
  /\ add[t].at = "load"
  /\ add' = [add EXCEPT ![t].at = "store", ![t].was = data[add[t].histo][add[t].copy]]
  /\ UNCHANGED <<options, mpc, dpc, back, locks, histo_engine_log, copies, bitrate, paper,
                 sheet, asked, traffic, closed, period>>

(* The packet thread goes on to ip_histo_stat, and from there to the       *)
(* checks at the end of ProcessPacket if the packet belongs to a flow.     *)
AddStore(t) ==
  /\ add[t].at = "store"
  /\ data' = [data EXCEPT ![add[t].histo][add[t].copy] = add[t].was + 1]
  /\ IF add[t].histo = "tcp" THEN period' = [period EXCEPT !.closed = @ + 1]
     ELSE period' = period
  /\ \/ /\ add' = [add EXCEPT ![t] = Idle]
        /\ t = Cleaner \/ add[t].histo = "ip"
        /\ IF t = Main THEN mpc' \in {"config", "read"} ELSE mpc' = mpc
     \/ /\ t = Main /\ add[t].histo = "tcp"
        /\ add' = [add EXCEPT ![t] = Start("ip")]
        /\ mpc' = mpc
  /\ UNCHANGED <<options, dpc, back, locks, histo_engine_log, current, adx_current, adx,
                 bitrate, paper, sheet, asked, traffic, closed>>

(* The thread of trace_done_periodic ends an idle flow.                    *)
CloseFlow ==
  /\ threaded
  /\ mpc # "done"
  /\ closed < MaxClosed
  /\ add[Cleaner].at = "idle"
  /\ closed' = closed + 1
  /\ add' = [add EXCEPT ![Cleaner] = Start("tcp")]
  /\ UNCHANGED <<options, mpc, dpc, back, locks, histo_engine_log, copies, bitrate, paper,
                 sheet, asked, traffic, period>>

------------------------------
(* The packet thread.                                                      *)
Engine(from, to) ==
  /\ mpc = from /\ mpc' = to
  /\ UNCHANGED <<options, data, adx_current, adx, current>>

(* main(), after pthread_create: "allow the thread to start...".           *)
StartSleep ==
  /\ Engine("start", "read")
  /\ threaded /\ SleepsSuffice => dpc = "wait"
  /\ UNCHANGED <<dpc, back, locks, histo_engine_log, add, bitrate, paper, sheet, asked,
                 traffic, closed, period>>

(* tcp_flow_stat, in which the packet may end a flow, then ip_histo_stat.  *)
(* Where in the packet its bytes and its addresses are counted makes no    *)
(* difference: no dump begins before its end.                              *)
RecvPacket(a) ==
  /\ mpc = "read" /\ mpc' = "add"
  /\ packets < IF threaded THEN ThreadedPackets ELSE MaxPackets
  /\ packets' = packets + 1
  /\ period' = [period EXCEPT !.packets = @ + 1, !.hits[a] = @ + 1]
  /\ adx' = [adx EXCEPT ![adx_current] = AddAdx(@, a)]
  /\ bitrate' = bitrate + 1
  /\ \E h \in Counted : add' = [add EXCEPT ![Main] = Start(h)]
  /\ UNCHANGED <<options, dpc, back, locks, histo_engine_log, current, data, adx_current,
                 paper, sheet, asked, files, fired, closed>>

(* flush_histo_engine begins; afterwards the packet thread goes on at to.  *)
Flush(to) ==
  /\ mpc' = IF threaded THEN "lockCond" ELSE "oldStyle"
  /\ back' = to
  /\ fired' = fired + 1

(* ini_read: log_parse_ini_arg of the key histo_engine.  histo_engine is   *)
(* TRUE throughout, so that a value of 0 flushes every time.               *)
Enable ==
  /\ Engine("config", "timer")
  /\ histo_engine_log' = TRUE
  /\ UNCHANGED <<dpc, back, locks, add, bitrate, paper, sheet, asked, traffic, closed, period>>

Disable ==
  /\ mpc = "config"
  /\ fired < IF threaded THEN ThreadedFired ELSE MaxFired
  /\ Flush("disable")
  /\ asked' = histo_engine_log
  /\ UNCHANGED <<options, dpc, locks, histo_engine_log, add, copies, bitrate, paper, sheet,
                 files, packets, closed, period>>

(* The time of the last flush is now: no second one in the same packet.    *)
Disabled ==
  /\ Engine("disable", "read")
  /\ histo_engine_log' = FALSE
  /\ UNCHANGED <<dpc, back, locks, add, bitrate, paper, sheet, asked, traffic, closed, period>>

Unchanged ==
  /\ Engine("config", "timer")
  /\ UNCHANGED <<dpc, back, locks, histo_engine_log, add, bitrate, paper, sheet, asked,
                 traffic, closed, period>>

(* elapsed(last_time_step, current_time) > MAX_TIME_STEP, or not yet.      *)
TimeStep ==
  /\ mpc = "timer"
  /\ fired < IF threaded THEN ThreadedFired ELSE MaxFired
  /\ Flush("read")
  /\ asked' = FALSE
  /\ UNCHANGED <<options, dpc, locks, histo_engine_log, add, copies, bitrate, paper, sheet,
                 files, packets, closed, period>>

NoTimeStep ==
  /\ Engine("timer", "read")
  /\ UNCHANGED <<dpc, back, locks, histo_engine_log, add, bitrate, paper, sheet, asked,
                 traffic, closed, period>>

------------------------------
(* Firing the dumper.                                                      *)
FireLockCond ==
  /\ Engine("lockCond", "signal")
  /\ condLock = "none"
  /\ condLock' = Main
  /\ UNCHANGED <<dpc, back, dumpLock, histo_engine_log, add, bitrate, paper, sheet, asked,
                 traffic, closed, period>>

(* Mutant: the condition is not signalled.                                 *)
FireSignal_Forgotten ==
  /\ Engine("signal", "unlockCond")
  /\ UNCHANGED <<dpc, back, locks, histo_engine_log, add, bitrate, paper, sheet, asked,
                 traffic, closed, period>>

(* pthread_cond_signal: without a waiter it is lost.                       *)
FireSignal ==
  /\ Engine("signal", "unlockCond")
  /\ dpc' = IF dpc = "wait" THEN "woken" ELSE dpc
  /\ UNCHANGED <<back, locks, histo_engine_log, add, bitrate, paper, sheet, asked,
                 traffic, closed, period>>

FireUnlockCond ==
  /\ Engine("unlockCond", "lockDump")
  /\ condLock' = "none"
  /\ UNCHANGED <<dpc, back, dumpLock, histo_engine_log, add, bitrate, paper, sheet, asked,
                 traffic, closed, period>>

(* Mutant: the packet thread does not wait for the swap.                   *)
FireLockDump_NoWait ==
  /\ Engine("lockDump", "unlockDump")
  /\ UNCHANGED <<dpc, back, locks, histo_engine_log, add, bitrate, paper, sheet, asked,
                 traffic, closed, period>>

(* The dumper holds stat_dump_mutex until it has swapped the copies.       *)
FireLockDump ==
  /\ Engine("lockDump", "unlockDump")
  /\ dumpLock = "none"
  /\ dumpLock' = Main
  /\ UNCHANGED <<dpc, back, condLock, histo_engine_log, add, bitrate, paper, sheet, asked,
                 traffic, closed, period>>

FireUnlockDump ==
  /\ Engine("unlockDump", "reset")
  /\ dumpLock' = "none"
  /\ UNCHANGED <<dpc, back, condLock, histo_engine_log, add, bitrate, paper, sheet, asked,
                 traffic, closed, period>>

(* The end of flush_histo_engine.                                          *)
Reset ==
  /\ Engine("reset", back)
  /\ bitrate' = 0
  /\ UNCHANGED <<dpc, back, locks, histo_engine_log, add, paper, sheet, asked,
                 traffic, closed, period>>

------------------------------
(* A page is finished: the next one goes to the next directory, for a live *)
(* capture every Dirs of them to a new output directory                    *)
(* (create_new_outfiles).                                                  *)
NextStep ==
  /\ used' = used \cup {<<outdir, step>>}
  /\ printed' = printed + 1
  /\ IF step + 1 >= Dirs /\ is_stdin
     THEN step' = 0 /\ outdir' = outdir + 1
     ELSE step' = step + 1 /\ outdir' = outdir

(* update_fake_histos sets the bitrates in the current copy; then the      *)
(* copies are swapped.                                                     *)
SwapCopies ==
  /\ current' = Other(current)
  /\ adx_current' = Other(adx_current)
  /\ owed' = period /\ period' = Nothing

(* The packet thread updates, swaps, prints and clears by itself.          *)
Dump ==
  /\ SwapCopies
  /\ page' = [histo |-> [h \in Histos |->
                           PrintHisto(IF h = "rate" THEN bitrate ELSE data[h][current])],
              adx |-> PrintedHits(adx[adx_current])]
  /\ data' = [h \in Histos |-> [data[h] EXCEPT ![current] = 0]]
  /\ adx' = [adx EXCEPT ![adx_current] = ClearedAdx(@)]

StatDumpingOldStyle ==
  /\ mpc = "oldStyle" /\ mpc' = "reset"
  /\ Dump
  /\ farewell' = asked
  /\ NextStep
  /\ UNCHANGED <<options, dpc, back, locks, histo_engine_log, add, bitrate, asked, traffic, closed>>

(* ProcessFileCompleted: "statistics dumping modified for -c option": a    *)
(* dump by the packet thread, then a flush.                                *)
FileCompletedConcat ==
  /\ mpc = "read"
  /\ con_cat /\ files > 1
  /\ Dump
  /\ farewell' = FALSE
  /\ NextStep
  /\ mpc' = IF threaded THEN "lockCond" ELSE "oldStyle"
  /\ back' = "next"
  /\ fired' = fired + 2
  /\ asked' = FALSE
  /\ UNCHANGED <<options, dpc, locks, histo_engine_log, add, bitrate, files, packets, closed>>

LastOne == ~ con_cat \/ files = 1

(* "wait for the stat_dump thread to be idle": nothing gives the mutex     *)
(* back afterwards.                                                        *)
FileCompletedThreaded ==
  /\ threaded /\ LastOne
  /\ Engine("read", "next")
  /\ condLock = "none"
  /\ condLock' = Main
  /\ UNCHANGED <<dpc, back, dumpLock, histo_engine_log, add, bitrate, paper, sheet, asked,
                 traffic, closed, period>>

FileCompleted ==
  /\ ~ threaded /\ LastOne
  /\ mpc = "read" /\ mpc' = "next"
  /\ asked' = FALSE
  /\ farewell' = FALSE
  /\ Dump
  /\ used' = used \cup {<<outdir, LastDir>>}
  /\ fired' = fired + 1 /\ printed' = printed + 1
  /\ step' = 0
  /\ UNCHANGED <<options, dpc, back, locks, histo_engine_log, add, bitrate, outdir,
                 files, packets, closed>>

(* ProcessFile of the next one: InitAfterFirstPacketReaded.                *)
NextFile ==
  /\ Engine("next", IF files > 1 THEN "read" ELSE "done")
  /\ files' = files - 1
  /\ IF con_cat THEN UNCHANGED <<outdir, bitrate>>
     ELSE outdir' = outdir + 1 /\ bitrate' = 0
  /\ UNCHANGED <<dpc, back, locks, histo_engine_log, add, step, printed, used, sheet, asked,
                 packets, fired, closed, period>>

MainStep ==
  \/ StartSleep \/ AddPointer(Main) \/ AddLoad(Main) \/ AddStore(Main)
  \/ Enable \/ Disable \/ Unchanged \/ Disabled \/ TimeStep \/ NoTimeStep
  \/ FireLockCond \/ FireSignal \/ FireUnlockCond \/ FireLockDump \/ FireUnlockDump \/ Reset
  \/ StatDumpingOldStyle \/ NextFile

FileEnd == FileCompletedConcat \/ FileCompletedThreaded \/ FileCompleted

------------------------------
(* stats_dumping.  pthread_cancel ends it when the program ends.           *)
Thread(from, to) ==
  /\ dpc = from /\ dpc' = to
  /\ threaded /\ mpc # "done"
  /\ UNCHANGED <<options, mpc, back, histo_engine_log, add, bitrate, asked, traffic, closed>>

BootLockDump ==
  /\ Thread("boot", "bootCond")
  /\ dumpLock = "none"
  /\ dumpLock' = Dumper
  /\ UNCHANGED <<condLock, copies, paper, sheet, period>>

BootLockCond ==
  /\ Thread("bootCond", "sleep")
  /\ condLock = "none"
  /\ condLock' = Dumper
  /\ UNCHANGED <<dumpLock, copies, paper, sheet, period>>

CondWait ==
  /\ Thread("sleep", "wait")
  /\ condLock' = "none"
  /\ UNCHANGED <<dumpLock, copies, paper, sheet, period>>

(* From here to the next CondWait stat_dump_cond_mutex is the dumper's.    *)
CondReturn ==
  /\ Thread("woken", "swap")
  /\ condLock = "none"
  /\ condLock' = Dumper
  /\ UNCHANGED <<dumpLock, copies, paper, sheet, period>>

SwapHisto ==
  /\ Thread("swap", "unlock")
  /\ data' = [data EXCEPT !["rate"][current] = bitrate]
  /\ SwapCopies
  /\ page' = Blank
  /\ farewell' = asked
  /\ UNCHANGED <<locks, adx, paper>>

(* Mutant: stat_dump_mutex is kept.                                        *)
UnlockDump_Missing ==
  /\ Thread("unlock", "nap")
  /\ UNCHANGED <<locks, copies, paper, sheet, period>>

UnlockDump ==
  /\ Thread("unlock", "nap")
  /\ dumpLock' = "none"
  /\ UNCHANGED <<condLock, copies, paper, sheet, period>>

(* usleep(200): time for the packet thread to take and release             *)
(* stat_dump_mutex.                                                        *)
Nap ==
  /\ Thread("nap", "ip")
  /\ SleepsSuffice => mpc \notin {"unlockCond", "lockDump"}
  /\ UNCHANGED <<locks, copies, paper, sheet, period>>

(* print_all_histo looks at histo_engine_log for each histogram.           *)
WriteHisto(h, to) ==
  /\ Thread(h, to)
  /\ page' = [page EXCEPT !.histo[h] = PrintHisto(data[h][Other(current)])]
  /\ UNCHANGED <<locks, copies, paper, owed, farewell, period>>

PrintAdx ==
  /\ Thread("addresses", "clear")
  /\ page' = [page EXCEPT !.adx = PrintedHits(adx[Other(adx_current)])]
  /\ adx' = [adx EXCEPT ![Other(adx_current)] = ClearedAdx(@)]
  /\ UNCHANGED <<locks, current, data, adx_current, paper, owed, farewell, period>>

ClearAllHisto ==
  /\ Thread("clear", "relock")
  /\ data' = [h \in Histos |-> [data[h] EXCEPT ![Other(current)] = 0]]
  /\ NextStep
  /\ UNCHANGED <<locks, current, adx_current, adx, sheet, period>>

LockDump ==
  /\ Thread("relock", "sleep")
  /\ dumpLock = "none"
  /\ dumpLock' = Dumper
  /\ UNCHANGED <<condLock, copies, paper, sheet, period>>

DumperStep ==
  \/ BootLockDump \/ BootLockCond \/ CondWait \/ CondReturn \/ SwapHisto \/ UnlockDump \/ Nap
  \/ WriteHisto("ip", "tcp") \/ WriteHisto("tcp", "rate") \/ WriteHisto("rate", "addresses") \/ PrintAdx
  \/ ClearAllHisto \/ LockDump

CleanerAdd == AddPointer(Cleaner) \/ AddLoad(Cleaner) \/ AddStore(Cleaner)

------------------------------
Init ==
  /\ threaded \in Modes /\ con_cat \in BOOLEAN /\ is_stdin \in BOOLEAN
  /\ files \in 1 .. (IF threaded THEN ThreadedFiles ELSE MaxFiles)
  /\ is_stdin => files = 1
  /\ con_cat => files > 1       \* otherwise -c makes no difference
  /\ mpc = "start" /\ dpc = "boot" /\ back = "read"
  /\ condLock = "none" /\ dumpLock = "none"
  /\ histo_engine_log \in BOOLEAN
  /\ add = [t \in {Main, Cleaner} |-> Idle]
  /\ current = 1 /\ data = [h \in Histos |-> [i \in Copy |-> 0]] /\ bitrate = 0
  /\ adx_current = 1 /\ adx = [i \in Copy |-> <<>>]
  /\ step = 0 /\ outdir = 0 /\ used = {} /\ printed = 0 /\ fired = 0
  /\ packets = 0 /\ closed = 0
  /\ period = Nothing /\ owed = Nothing /\ page = Blank
  /\ asked = FALSE /\ farewell = FALSE

Next ==
  \/ \E a \in Addresses : RecvPacket(a)
  \/ MainStep \/ FileEnd \/ DumperStep \/ CloseFlow \/ CleanerAdd

Spec == Init /\ [][Next]_vars

(* The operating system keeps running the threads; packets need not come.  *)
Fairness == WF_vars(MainStep) /\ WF_vars(DumperStep) /\ WF_vars(CleanerAdd)

FairSpec == Spec /\ Fairness

------------------------------
(* A page shows its period, the whole of it and nothing else: the packets  *)
(* counted by the histogram that the packet thread alone feeds, by the     *)
(* bitrates and by the addresses are those since the swap before, however  *)
(* the thread that prints and the one that counts are interleaved          *)
(* (tstat.c:3481-3514 against 3610-3626; histo.c:565-590,                  *)
(* addresses.c:199-260).  With -c the bitrates are shown twice at the end  *)
(* of a file and are left out here.  Flows the cleaner closes land         *)
(* anywhere, so that their histogram is exact without -p only.             *)
PageIsPeriod ==
  /\ page.histo["ip"] \in {NotYet, NoFile, owed.packets}
  /\ con_cat \/ page.histo["rate"] \in {NotYet, NoFile, owed.packets}
  /\ threaded \/ page.histo["tcp"] \in {NotYet, NoFile, owed.closed}
  /\ page.adx \in {NotYet, owed.hits}

(* No page replaces another: print_histo opens the files for writing, so a *)
(* directory must be used once (tstat.c:3498-3513, 1773-1809).             *)
NoPageReplaced == Cardinality(used) = printed

(* When the program ends every page asked for is finished: the thread that *)
(* prints is cancelled (tstat.c:1764-1766, 776).                           *)
EndsAfterPrinting == mpc = "done" => printed = fired

(* A reload that disables the histograms first has the period printed      *)
(* ("need to flush histo engine", tstat.c:3565).                           *)
FlushedBeforeDisabled ==
  farewell /\ ~threaded => \A h \in Histos : page.histo[h] # NoFile

(* What becomes of the pages: each holds its period, none is lost to       *)
(* another, to the end of the program or to a reload.                      *)
PagesSound ==
  TypeOK /\ PageIsPeriod /\ NoPageReplaced /\ EndsAfterPrinting /\ FlushedBeforeDisabled

(* The packet thread always comes back from a flush (tstat.c:3610-3614).   *)
FlushReturns == mpc = "lockCond" ~> mpc = "reset"

(* Every flush leads to a page: no signal to the dumper is lost            *)
(* (tstat.c:3610-3612 against 3485).                                       *)
PageForEveryFlush == \A n \in 1 .. MaxFired : fired >= n ~> printed >= n
==============================
