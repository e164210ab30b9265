--------------------------- MODULE StatDumpProofs ---------------------------
(***************************************************************************)
(* The pages of statistics, for every number of packets, flows, flushes,   *)
(* addresses and directories: each holds its period, and none is lost.     *)
(***************************************************************************)
EXTENDS StatDump, FiniteSetTheorems, WellFoundedInduction, TLAPS

------------------------------
\* Where the two threads of a flush are, and what they hold.  The dumper
\* is at work on a page from the signal to the end of clear_all_histo; the
\* copies are swapped, and the frozen one not yet cleared, between.
Frozen == {"unlock"} \cup Printing
Due == Frozen \ {"clear"}
Serving == {"woken", "swap"} \cup Frozen

B(condition) == IF condition THEN 1 ELSE 0

\* Who holds which mutex, and since when.
Locks ==
  /\ condLock = Main <=> mpc \in {"signal", "unlockCond"} \/ (threaded /\ mpc \in {"next", "done"})
  /\ condLock = Dumper <=> dpc \in {"sleep", "swap", "relock"} \cup Frozen
  /\ dumpLock = Main <=> mpc = "unlockDump"
  /\ dumpLock = Dumper <=> dpc \in {"bootCond", "sleep", "wait", "woken", "swap", "unlock"}

\* The packet thread waits for the swap: while the dumper is between the
\* signal and the unlocking of stat_dump_mutex, it stays before the lock.
Rendezvous ==
  /\ mpc = "start" => dpc \in {"boot", "bootCond", "sleep", "wait"}
  /\ threaded /\ mpc # "start" => dpc \notin {"boot", "bootCond"}
  /\ dpc \in {"woken", "swap", "unlock"} => mpc \in {"unlockCond", "lockDump"}
  /\ mpc = "lockDump" => dpc \in {"woken", "swap", "unlock", "nap"}
  /\ mpc = "unlockCond" => dpc = "woken"
  /\ threaded /\ mpc \in {"next", "done"} => dpc = "wait"

\* With -p there is one file; without it, one thread.
Alone ==
  /\ threaded => ~ con_cat /\ mpc # "oldStyle" /\ back # "next"
  /\ ~ threaded => dpc = "boot" /\ mpc \notin Flushing
  /\ mpc # "done" => files >= 1
  /\ threaded /\ mpc # "done" => files = 1

\* A packet is being counted only in mpc = "add", in the current copy.
Adding ==
  /\ add[Main].at # "idle" <=> mpc = "add"
  /\ add[Main].at \in {"load", "store"} => add[Main].copy = current
  /\ add[Main].at = "store" /\ (add[Main].histo = "ip" \/ ~ threaded)
       => add[Main].was = data[add[Main].histo][current]
  /\ add[Cleaner].at # "idle" => threaded /\ add[Cleaner].histo = "tcp"

Control == Locks /\ Rendezvous /\ Alone /\ Adding

\* Every page asked for is finished, except the one to be signalled and
\* the one being printed.
PagesCounted ==
  fired = printed + B(mpc \in {"lockCond", "signal", "oldStyle"}) + B(dpc \in Serving)

\* A directory is left behind full; LAST is written when nothing else is.
Leaving == mpc = "done" \/ (mpc = "next" /\ (~ con_cat \/ files = 1))
Directories ==
  /\ IsFiniteSet(used)
  /\ \A u \in used : u[1] < outdir \/ (u[1] = outdir /\ (Leaving \/ u[2] \in 0 .. step - 1))

\* What the packet thread alone feeds: the current copy holds the period,
\* the frozen one the period owed until it is cleared.
Counts ==
  /\ data["ip"][current] + B(mpc = "add") = period.packets
  /\ data["ip"][Other(current)] = IF dpc \in Frozen THEN owed.packets ELSE 0
  /\ ~ threaded => /\ data["tcp"][current] = period.closed
                   /\ data["tcp"][Other(current)] = 0
  /\ dpc \in Frozen => data["rate"][Other(current)] = owed.packets

\* The bitrates count since the last reset, which follows the swap.
Swapped ==
  \/ mpc \in {"unlockDump", "reset"}
  \/ mpc = "lockDump" /\ dpc \in {"unlock", "nap"}
  \/ ~ threaded /\ mpc = "next"
Rates ==
  /\ Swapped => period.packets = 0
  /\ ~ con_cat /\ ~ Swapped /\ mpc # "done" => bitrate = period.packets

\* An address table: the addresses met since it was printed, each with its
\* hits, then the entries that were cleared.
Tidy(list) ==
  /\ \A i \in DOMAIN list : list[i].hits = 0 <=> list[i].ip = NoAddress
  /\ \A i, j \in DOMAIN list : i < j /\ list[i].hits = 0 => list[j].hits = 0
  /\ \A i, j \in DOMAIN list : list[i].ip = list[j].ip /\ i # j => list[i].ip = NoAddress
Shows(list, hits) ==
  \A a \in Addresses :
    /\ \A i \in DOMAIN list : list[i].ip = a => list[i].hits = hits[a]
    /\ (\A i \in DOMAIN list : list[i].ip # a) => hits[a] = 0
NoHits == [a \in Addresses |-> 0]

Tables ==
  /\ Tidy(adx[1]) /\ Tidy(adx[2])
  /\ Shows(adx[adx_current], period.hits)
  /\ Shows(adx[Other(adx_current)],
           IF dpc \in Due THEN owed.hits ELSE NoHits)

\* A flush asked for by a reload prints.
Asked == mpc = "oldStyle" /\ asked => histo_engine_log

IInv ==
  /\ TypeOK /\ Control /\ PagesCounted /\ Directories /\ Counts /\ Rates /\ Tables /\ Asked
  /\ PageIsPeriod /\ NoPageReplaced /\ FlushedBeforeDisabled

------------------------------
\* The locks follow the two threads.
LEMMA LocksStep ==
  ASSUME SleepsSuffice, ThreadedFiles = 1, TypeOK, Control, Next
  PROVE  Locks'
<1>0. mpc \in MainPC /\ dpc \in DumperPC /\ back \in {"disable", "read", "next"} /\ files \in Int
  BY DEF TypeOK
<1> USE <1>0
<1> USE DEF Control, Locks, Rendezvous, Alone, Adding, Flushing, Frozen, Printing, Main,
        Dumper, Cleaner, DumperPC
<1>1. CASE \E a \in Addresses : RecvPacket(a)
  BY <1>1 DEF RecvPacket, options, locks, copies, paper, sheet, traffic
<1>2. CASE MainStep
  <2>1. CASE Enable \/ Unchanged \/ Disabled \/ NoTimeStep
    BY <2>1 DEF Enable, Unchanged, Disabled, NoTimeStep, Engine, options, locks,
       copies, paper, sheet, traffic
  <2>2. CASE StartSleep BY <2>2 DEF StartSleep, Engine, options, locks, copies, paper, sheet, traffic
  <2>3. CASE AddPointer(Main) \/ AddLoad(Main)
    BY <2>3 DEF AddPointer, AddLoad, options, locks, copies, paper, sheet, traffic
  <2>4. CASE AddStore(Main) BY <2>4 DEF AddStore, options, locks, copies, paper, sheet, traffic
  <2>5. CASE Disable \/ TimeStep
    BY <2>5 DEF Disable, TimeStep, Flush, options, locks, copies, paper, sheet,
       traffic
  <2>6. CASE StatDumpingOldStyle
    BY <2>6 DEF StatDumpingOldStyle, Dump, SwapCopies, options, locks, copies,
       paper, sheet, traffic
  <2>7. CASE FireLockCond \/ FireSignal
    BY <2>7 DEF FireLockCond, FireSignal, Engine, options, locks, copies, paper,
       sheet, traffic
  <2>8. CASE FireUnlockCond \/ FireLockDump \/ FireUnlockDump
    BY <2>8 DEF FireUnlockCond, FireLockDump, FireUnlockDump, Engine, options,
       locks, copies, paper, sheet, traffic
  <2>9. CASE Reset BY <2>9 DEF Reset, Engine, options, locks, copies, paper, sheet, traffic
  <2>10. CASE NextFile BY <2>10 DEF NextFile, Engine, options, locks, copies, paper, sheet, traffic
  <2> QED BY <1>2, <2>1, <2>2, <2>3, <2>4, <2>5, <2>6, <2>7, <2>8, <2>9, <2>10 DEF MainStep
<1>3. CASE FileEnd
  <2>1. CASE FileCompletedConcat
    BY <2>1 DEF FileCompletedConcat, Dump, SwapCopies, options, locks, copies,
       paper, sheet, traffic
  <2>2. CASE FileCompletedThreaded \/ FileCompleted
    BY <2>2 DEF FileCompletedThreaded, FileCompleted, LastOne, Engine, Dump,
       SwapCopies, options, locks, copies, paper, sheet, traffic
  <2> QED BY <1>3, <2>1, <2>2 DEF FileEnd
<1>4. CASE DumperStep
  <2>1. CASE BootLockDump \/ BootLockCond \/ CondWait \/ CondReturn
    BY <2>1 DEF BootLockDump, BootLockCond, CondWait, CondReturn, Thread, options,
       locks, copies, paper, sheet, traffic
  <2>2. CASE SwapHisto
    BY <2>2 DEF SwapHisto, SwapCopies, Thread, options, locks, copies, paper, sheet,
       traffic
  <2>3. CASE UnlockDump \/ Nap
    BY <2>3 DEF UnlockDump, Nap, Thread, options, locks, copies, paper, sheet,
       traffic
  <2>4. CASE WriteHisto("ip", "tcp") \/ WriteHisto("tcp", "rate")
              \/ WriteHisto("rate", "addresses")
    BY <2>4 DEF WriteHisto, Thread, options, locks, copies, paper, sheet, traffic
  <2>5. CASE PrintAdx BY <2>5 DEF PrintAdx, Thread, options, locks, copies, paper, sheet, traffic
  <2>6. CASE ClearAllHisto \/ LockDump
    BY <2>6 DEF ClearAllHisto, LockDump, Thread, options, locks, copies, paper,
       sheet, traffic
  <2> QED BY <1>4, <2>1, <2>2, <2>3, <2>4, <2>5, <2>6 DEF DumperStep
<1>5. CASE CloseFlow BY <1>5 DEF CloseFlow, options, locks, copies, paper, sheet, traffic
<1>6. CASE AddPointer(Cleaner) \/ AddLoad(Cleaner)
  BY <1>6 DEF AddPointer, AddLoad, options, locks, copies, paper, sheet, traffic
<1>7. CASE AddStore(Cleaner) BY <1>7 DEF AddStore, options, locks, copies, paper, sheet, traffic
<1> QED BY <1>1, <1>2, <1>3, <1>4, <1>5, <1>6, <1>7 DEF Next, CleanerAdd

\* The packet thread does not go on before the copies are swapped.
LEMMA RendezvousStep ==
  ASSUME SleepsSuffice, ThreadedFiles = 1, TypeOK, Control, Next
  PROVE  Rendezvous'
<1>0. mpc \in MainPC /\ dpc \in DumperPC /\ back \in {"disable", "read", "next"} /\ files \in Int
  BY DEF TypeOK
<1> USE <1>0
<1> USE DEF Control, Locks, Rendezvous, Alone, Adding, Flushing, Frozen, Printing, Main,
        Dumper, Cleaner, DumperPC
<1>1. CASE \E a \in Addresses : RecvPacket(a)
  BY <1>1 DEF RecvPacket, options, locks, copies, paper, sheet, traffic
<1>2. CASE MainStep
  <2>1. CASE Enable \/ Unchanged \/ Disabled \/ NoTimeStep
    BY <2>1 DEF Enable, Unchanged, Disabled, NoTimeStep, Engine, options, locks,
       copies, paper, sheet, traffic
  <2>2. CASE StartSleep BY <2>2 DEF StartSleep, Engine, options, locks, copies, paper, sheet, traffic
  <2>3. CASE AddPointer(Main) \/ AddLoad(Main)
    BY <2>3 DEF AddPointer, AddLoad, options, locks, copies, paper, sheet, traffic
  <2>4. CASE AddStore(Main) BY <2>4 DEF AddStore, options, locks, copies, paper, sheet, traffic
  <2>5. CASE Disable \/ TimeStep
    BY <2>5 DEF Disable, TimeStep, Flush, options, locks, copies, paper, sheet,
       traffic
  <2>6. CASE StatDumpingOldStyle
    BY <2>6 DEF StatDumpingOldStyle, Dump, SwapCopies, options, locks, copies,
       paper, sheet, traffic
  <2>7. CASE FireLockCond \/ FireSignal
    BY <2>7 DEF FireLockCond, FireSignal, Engine, options, locks, copies, paper,
       sheet, traffic
  <2>8. CASE FireUnlockCond \/ FireLockDump \/ FireUnlockDump
    BY <2>8 DEF FireUnlockCond, FireLockDump, FireUnlockDump, Engine, options,
       locks, copies, paper, sheet, traffic
  <2>9. CASE Reset BY <2>9 DEF Reset, Engine, options, locks, copies, paper, sheet, traffic
  <2>10. CASE NextFile BY <2>10 DEF NextFile, Engine, options, locks, copies, paper, sheet, traffic
  <2> QED BY <1>2, <2>1, <2>2, <2>3, <2>4, <2>5, <2>6, <2>7, <2>8, <2>9, <2>10 DEF MainStep
<1>3. CASE FileEnd
  <2>1. CASE FileCompletedConcat
    BY <2>1 DEF FileCompletedConcat, Dump, SwapCopies, options, locks, copies,
       paper, sheet, traffic
  <2>2. CASE FileCompletedThreaded \/ FileCompleted
    BY <2>2 DEF FileCompletedThreaded, FileCompleted, LastOne, Engine, Dump,
       SwapCopies, options, locks, copies, paper, sheet, traffic
  <2> QED BY <1>3, <2>1, <2>2 DEF FileEnd
<1>4. CASE DumperStep
  <2>1. CASE BootLockDump \/ BootLockCond \/ CondWait \/ CondReturn
    BY <2>1 DEF BootLockDump, BootLockCond, CondWait, CondReturn, Thread, options,
       locks, copies, paper, sheet, traffic
  <2>2. CASE SwapHisto
    BY <2>2 DEF SwapHisto, SwapCopies, Thread, options, locks, copies, paper, sheet,
       traffic
  <2>3. CASE UnlockDump \/ Nap
    BY <2>3 DEF UnlockDump, Nap, Thread, options, locks, copies, paper, sheet,
       traffic
  <2>4. CASE WriteHisto("ip", "tcp") \/ WriteHisto("tcp", "rate")
              \/ WriteHisto("rate", "addresses")
    BY <2>4 DEF WriteHisto, Thread, options, locks, copies, paper, sheet, traffic
  <2>5. CASE PrintAdx BY <2>5 DEF PrintAdx, Thread, options, locks, copies, paper, sheet, traffic
  <2>6. CASE ClearAllHisto \/ LockDump
    BY <2>6 DEF ClearAllHisto, LockDump, Thread, options, locks, copies, paper,
       sheet, traffic
  <2> QED BY <1>4, <2>1, <2>2, <2>3, <2>4, <2>5, <2>6 DEF DumperStep
<1>5. CASE CloseFlow BY <1>5 DEF CloseFlow, options, locks, copies, paper, sheet, traffic
<1>6. CASE AddPointer(Cleaner) \/ AddLoad(Cleaner)
  BY <1>6 DEF AddPointer, AddLoad, options, locks, copies, paper, sheet, traffic
<1>7. CASE AddStore(Cleaner) BY <1>7 DEF AddStore, options, locks, copies, paper, sheet, traffic
<1> QED BY <1>1, <1>2, <1>3, <1>4, <1>5, <1>6, <1>7 DEF Next, CleanerAdd

\* One file or one thread.
LEMMA AloneStep ==
  ASSUME SleepsSuffice, ThreadedFiles = 1, TypeOK, Control, Next
  PROVE  Alone'
<1>0. mpc \in MainPC /\ dpc \in DumperPC /\ back \in {"disable", "read", "next"} /\ files \in Int
  BY DEF TypeOK
<1> USE <1>0
<1> USE DEF Control, Locks, Rendezvous, Alone, Adding, Flushing, Frozen, Printing, Main,
        Dumper, Cleaner, DumperPC
<1>1. CASE \E a \in Addresses : RecvPacket(a)
  BY <1>1 DEF RecvPacket, options, locks, copies, paper, sheet, traffic
<1>2. CASE MainStep
  <2>1. CASE Enable \/ Unchanged \/ Disabled \/ NoTimeStep
    BY <2>1 DEF Enable, Unchanged, Disabled, NoTimeStep, Engine, options, locks,
       copies, paper, sheet, traffic
  <2>2. CASE StartSleep BY <2>2 DEF StartSleep, Engine, options, locks, copies, paper, sheet, traffic
  <2>3. CASE AddPointer(Main) \/ AddLoad(Main)
    BY <2>3 DEF AddPointer, AddLoad, options, locks, copies, paper, sheet, traffic
  <2>4. CASE AddStore(Main) BY <2>4 DEF AddStore, options, locks, copies, paper, sheet, traffic
  <2>5. CASE Disable \/ TimeStep
    BY <2>5 DEF Disable, TimeStep, Flush, options, locks, copies, paper, sheet,
       traffic
  <2>6. CASE StatDumpingOldStyle
    BY <2>6 DEF StatDumpingOldStyle, Dump, SwapCopies, options, locks, copies,
       paper, sheet, traffic
  <2>7. CASE FireLockCond \/ FireSignal
    BY <2>7 DEF FireLockCond, FireSignal, Engine, options, locks, copies, paper,
       sheet, traffic
  <2>8. CASE FireUnlockCond \/ FireLockDump \/ FireUnlockDump
    BY <2>8 DEF FireUnlockCond, FireLockDump, FireUnlockDump, Engine, options,
       locks, copies, paper, sheet, traffic
  <2>9. CASE Reset BY <2>9 DEF Reset, Engine, options, locks, copies, paper, sheet, traffic
  <2>10. CASE NextFile BY <2>10 DEF NextFile, Engine, options, locks, copies, paper, sheet, traffic
  <2> QED BY <1>2, <2>1, <2>2, <2>3, <2>4, <2>5, <2>6, <2>7, <2>8, <2>9, <2>10 DEF MainStep
<1>3. CASE FileEnd
  <2>1. CASE FileCompletedConcat
    BY <2>1 DEF FileCompletedConcat, Dump, SwapCopies, options, locks, copies,
       paper, sheet, traffic
  <2>2. CASE FileCompletedThreaded \/ FileCompleted
    BY <2>2 DEF FileCompletedThreaded, FileCompleted, LastOne, Engine, Dump,
       SwapCopies, options, locks, copies, paper, sheet, traffic
  <2> QED BY <1>3, <2>1, <2>2 DEF FileEnd
<1>4. CASE DumperStep
  <2>1. CASE BootLockDump \/ BootLockCond \/ CondWait \/ CondReturn
    BY <2>1 DEF BootLockDump, BootLockCond, CondWait, CondReturn, Thread, options,
       locks, copies, paper, sheet, traffic
  <2>2. CASE SwapHisto
    BY <2>2 DEF SwapHisto, SwapCopies, Thread, options, locks, copies, paper, sheet,
       traffic
  <2>3. CASE UnlockDump \/ Nap
    BY <2>3 DEF UnlockDump, Nap, Thread, options, locks, copies, paper, sheet,
       traffic
  <2>4. CASE WriteHisto("ip", "tcp") \/ WriteHisto("tcp", "rate")
              \/ WriteHisto("rate", "addresses")
    BY <2>4 DEF WriteHisto, Thread, options, locks, copies, paper, sheet, traffic
  <2>5. CASE PrintAdx BY <2>5 DEF PrintAdx, Thread, options, locks, copies, paper, sheet, traffic
  <2>6. CASE ClearAllHisto \/ LockDump
    BY <2>6 DEF ClearAllHisto, LockDump, Thread, options, locks, copies, paper,
       sheet, traffic
  <2> QED BY <1>4, <2>1, <2>2, <2>3, <2>4, <2>5, <2>6 DEF DumperStep
<1>5. CASE CloseFlow BY <1>5 DEF CloseFlow, options, locks, copies, paper, sheet, traffic
<1>6. CASE AddPointer(Cleaner) \/ AddLoad(Cleaner)
  BY <1>6 DEF AddPointer, AddLoad, options, locks, copies, paper, sheet, traffic
<1>7. CASE AddStore(Cleaner) BY <1>7 DEF AddStore, options, locks, copies, paper, sheet, traffic
<1> QED BY <1>1, <1>2, <1>3, <1>4, <1>5, <1>6, <1>7 DEF Next, CleanerAdd

------------------------------
\* The end of an addition of the packet thread.
LEMMA MainStores ==
  ASSUME TypeOK, Control, AddStore(Main)
  PROVE  /\ mpc = "add" /\ mpc' \in {"add", "config", "read"}
         /\ UNCHANGED <<options, dpc, bitrate, printed, fired, asked, histo_engine_log>>
         /\ period'.packets = period.packets
<1>1. mpc = "add" BY DEF AddStore, Control, Adding
<1>2. UNCHANGED <<options, dpc, bitrate, printed, fired, asked, histo_engine_log>>
  BY DEF AddStore, paper, traffic
<1>3. mpc' \in {"add", "config", "read"}
  <2>1. mpc' \in {"config", "read"} \/ mpc' = mpc BY DEF AddStore
  <2> QED BY <1>1, <2>1
<1>4. period'.packets = period.packets
  <2>1. period \in Period BY DEF TypeOK
  <2>2. period' = period \/ period' = [period EXCEPT !.closed = @ + 1] BY DEF AddStore
  <2> QED BY <2>1, <2>2 DEF Period
<1> QED BY <1>1, <1>2, <1>3, <1>4

\* Who writes what.
Adds == \E t \in {Main, Cleaner} : AddPointer(t) \/ AddLoad(t) \/ AddStore(t)
Dumps == StatDumpingOldStyle \/ FileCompletedConcat \/ FileCompleted
Prints == WriteHisto("ip", "tcp") \/ WriteHisto("tcp", "rate") \/ WriteHisto("rate", "addresses")

Writers ==
  /\ UNCHANGED options
  /\ UNCHANGED add \/ Adds \/ CloseFlow \/ \E a \in Addresses : RecvPacket(a)
  /\ UNCHANGED data \/ (\E t \in {Main, Cleaner} : AddStore(t)) \/ Dumps \/ SwapHisto \/ ClearAllHisto
  /\ UNCHANGED adx \/ (\E a \in Addresses : RecvPacket(a)) \/ Dumps \/ PrintAdx
  /\ UNCHANGED period \/ (\E a \in Addresses : RecvPacket(a)) \/ (\E t \in {Main, Cleaner} : AddStore(t))
       \/ Dumps \/ SwapHisto
  /\ UNCHANGED <<current, adx_current, owed>> \/ Dumps \/ SwapHisto
  /\ UNCHANGED page \/ Dumps \/ SwapHisto \/ Prints \/ PrintAdx
  /\ (dpc' \in Due <=> dpc \in Due) \/ SwapHisto \/ PrintAdx
  /\ (dpc' \in Frozen <=> dpc \in Frozen) \/ SwapHisto \/ ClearAllHisto
  /\ (mpc' = "add" <=> mpc = "add") \/ (\E a \in Addresses : RecvPacket(a)) \/ AddStore(Main)
  /\ UNCHANGED farewell \/ Dumps \/ SwapHisto
  /\ UNCHANGED <<step, outdir, files>> \/ Dumps \/ ClearAllHisto \/ NextFile
  /\ (mpc \in {"next", "done"} => mpc' = mpc) \/ NextFile
  /\ UNCHANGED <<used, printed>> \/ Dumps \/ ClearAllHisto

\* Nobody else does.
LEMMA WritersStep ==
  ASSUME TypeOK, Control, Next
  PROVE  Writers
<1> USE DEF Writers, Adds, Dumps, Prints, Main, Cleaner, Due, Frozen, Printing, Flushing
<1>1. CASE \E a \in Addresses : RecvPacket(a)
  BY <1>1 DEF RecvPacket, options, locks, copies, paper, sheet, traffic
<1>2. CASE MainStep
  <2>1. CASE Enable \/ Unchanged \/ Disabled \/ NoTimeStep
    BY <2>1 DEF Enable, Unchanged, Disabled, NoTimeStep, Engine, options, locks,
       copies, paper, sheet, traffic
  <2>2. CASE StartSleep BY <2>2 DEF StartSleep, Engine, options, locks, copies, paper, sheet, traffic
  <2>3. CASE AddPointer(Main) \/ AddLoad(Main)
    BY <2>3 DEF AddPointer, AddLoad, options, locks, copies, paper, sheet, traffic
  <2>4. CASE AddStore(Main)
    <3>1. UNCHANGED <<options, adx, current, adx_current, sheet, paper, traffic, dpc>> /\ mpc = "add"
      BY <2>4, MainStores DEF AddStore
    <3> QED BY <2>4, <3>1 DEF options, sheet, paper, traffic
  <2>5. CASE Disable \/ TimeStep
    BY <2>5 DEF Disable, TimeStep, Flush, options, locks, copies, paper, sheet,
       traffic
  <2>6. CASE StatDumpingOldStyle
    BY <2>6 DEF StatDumpingOldStyle, Dump, SwapCopies, options, locks, copies,
       paper, sheet, traffic
  <2>7. CASE FireLockCond \/ FireSignal
    BY <2>7 DEF FireLockCond, FireSignal, Engine, options, locks, copies, paper,
       sheet, traffic
  <2>8. CASE FireUnlockCond \/ FireLockDump \/ FireUnlockDump
    BY <2>8 DEF FireUnlockCond, FireLockDump, FireUnlockDump, Engine, options,
       locks, copies, paper, sheet, traffic
  <2>9. CASE Reset
    <3>1. mpc' # "add" BY <2>9 DEF Reset, Engine, TypeOK
    <3> QED BY <2>9, <3>1 DEF Reset, Engine, options, locks, copies, paper, sheet, traffic
  <2>10. CASE NextFile BY <2>10 DEF NextFile, Engine, options, locks, copies, paper, sheet, traffic
  <2> QED BY <1>2, <2>1, <2>2, <2>3, <2>4, <2>5, <2>6, <2>7, <2>8, <2>9, <2>10 DEF MainStep
<1>3. CASE FileEnd
  <2>1. CASE FileCompletedConcat
    BY <2>1 DEF FileCompletedConcat, Dump, SwapCopies, options, locks, copies,
       paper, sheet, traffic
  <2>2. CASE FileCompletedThreaded \/ FileCompleted
    BY <2>2 DEF FileCompletedThreaded, FileCompleted, LastOne, Engine, Dump,
       SwapCopies, options, locks, copies, paper, sheet, traffic
  <2> QED BY <1>3, <2>1, <2>2 DEF FileEnd
<1>4. CASE DumperStep
  <2>1. CASE BootLockDump \/ BootLockCond \/ CondWait \/ CondReturn
    BY <2>1 DEF BootLockDump, BootLockCond, CondWait, CondReturn, Thread, options,
       locks, copies, paper, sheet, traffic
  <2>2. CASE SwapHisto
    BY <2>2 DEF SwapHisto, SwapCopies, Thread, options, locks, copies, paper, sheet,
       traffic
  <2>3. CASE UnlockDump \/ Nap
    BY <2>3 DEF UnlockDump, Nap, Thread, options, locks, copies, paper, sheet,
       traffic
  <2>4. CASE WriteHisto("ip", "tcp") \/ WriteHisto("tcp", "rate")
              \/ WriteHisto("rate", "addresses")
    BY <2>4 DEF WriteHisto, Thread, options, locks, copies, paper, sheet, traffic
  <2>5. CASE PrintAdx BY <2>5 DEF PrintAdx, Thread, options, locks, copies, paper, sheet, traffic
  <2>6. CASE ClearAllHisto \/ LockDump
    BY <2>6 DEF ClearAllHisto, LockDump, Thread, options, locks, copies, paper,
       sheet, traffic
  <2> QED BY <1>4, <2>1, <2>2, <2>3, <2>4, <2>5, <2>6 DEF DumperStep
<1>5. CASE CloseFlow BY <1>5 DEF CloseFlow, options, locks, copies, paper, sheet, traffic
<1>6. CASE AddPointer(Cleaner) \/ AddLoad(Cleaner)
  BY <1>6 DEF AddPointer, AddLoad, options, locks, copies, paper, sheet, traffic
<1>7. CASE AddStore(Cleaner) BY <1>7 DEF AddStore, options, locks, copies, paper, sheet, traffic
<1> QED BY <1>1, <1>2, <1>3, <1>4, <1>5, <1>6, <1>7 DEF Next, CleanerAdd

------------------------------
\* Types: places and flags,
Places ==
  /\ threaded \in Modes /\ con_cat \in BOOLEAN /\ is_stdin \in BOOLEAN
  /\ mpc \in MainPC /\ dpc \in DumperPC
  /\ back \in {"disable", "read", "next"}
  /\ condLock \in {"none", Main, Dumper} /\ dumpLock \in {"none", Main, Dumper}
  /\ histo_engine_log \in BOOLEAN /\ asked \in BOOLEAN /\ farewell \in BOOLEAN
\* numbers,
Numbers ==
  /\ current \in Copy /\ adx_current \in Copy /\ bitrate \in Nat
  /\ step \in Nat /\ outdir \in Nat
  /\ files \in 0 .. MaxFiles /\ packets \in 0 .. MaxPackets /\ closed \in 0 .. MaxClosed
  /\ fired \in Nat /\ printed \in Nat

\* each checked step by step;
LEMMA PlacesStep ==
  ASSUME TypeOK, Next
  PROVE  Places'
<1>0. Places BY DEF TypeOK, Places
<1> USE <1>0
<1> USE DEF Places, MainPC, DumperPC, Flushing, Printing, Main, Dumper, Cleaner
<1>1. CASE \E a \in Addresses : RecvPacket(a)
  BY <1>1 DEF RecvPacket, options, locks, copies, paper, sheet, traffic
<1>2. CASE MainStep
  <2>1. CASE Enable \/ Unchanged
    <3>1. UNCHANGED <<options, dpc, back, locks, asked, farewell>> /\ mpc' = "timer"
      BY <2>1 DEF Enable, Unchanged, Engine, sheet
    <3>2. histo_engine_log' \in BOOLEAN BY <2>1 DEF Enable, Unchanged
    <3> QED BY <3>1, <3>2 DEF options, locks
  <2>11. CASE Disabled \/ NoTimeStep
    <3>1. UNCHANGED <<options, dpc, back, locks, asked, farewell>> /\ mpc' = "read"
      BY <2>11 DEF Disabled, NoTimeStep, Engine, sheet
    <3>2. histo_engine_log' \in BOOLEAN BY <2>11 DEF Disabled, NoTimeStep
    <3> QED BY <3>1, <3>2 DEF options, locks
  <2>2. CASE StartSleep BY <2>2 DEF StartSleep, Engine, options, locks, copies, paper, sheet, traffic
  <2>3. CASE AddPointer(Main) \/ AddLoad(Main)
    BY <2>3 DEF AddPointer, AddLoad, options, locks, copies, paper, sheet, traffic
  <2>4. CASE AddStore(Main) BY <2>4 DEF AddStore, options, locks, copies, paper, sheet, traffic
  <2>5. CASE Disable \/ TimeStep
    BY <2>5 DEF Disable, TimeStep, Flush, options, locks, copies, paper, sheet,
       traffic
  <2>6. CASE StatDumpingOldStyle
    BY <2>6 DEF StatDumpingOldStyle, Dump, SwapCopies, options, locks, copies,
       paper, sheet, traffic
  <2>7. CASE FireLockCond \/ FireSignal
    BY <2>7 DEF FireLockCond, FireSignal, Engine, options, locks, copies, paper,
       sheet, traffic
  <2>8. CASE FireUnlockCond \/ FireLockDump \/ FireUnlockDump
    BY <2>8 DEF FireUnlockCond, FireLockDump, FireUnlockDump, Engine, options,
       locks, copies, paper, sheet, traffic
  <2>9. CASE Reset BY <2>9 DEF Reset, Engine, options, locks, copies, paper, sheet, traffic
  <2>10. CASE NextFile BY <2>10 DEF NextFile, Engine, options, locks, copies, paper, sheet, traffic
  <2> QED BY <1>2, <2>1, <2>2, <2>3, <2>4, <2>5, <2>6, <2>7, <2>8, <2>9, <2>10, <2>11 DEF MainStep
<1>3. CASE FileEnd
  <2>1. CASE FileCompletedConcat
    BY <2>1 DEF FileCompletedConcat, Dump, SwapCopies, options, locks, copies,
       paper, sheet, traffic
  <2>2. CASE FileCompletedThreaded
    <3>1. /\ UNCHANGED <<options, dpc, back, histo_engine_log, asked, farewell, dumpLock>>
          /\ mpc' = "next" /\ condLock' = Main
      BY <2>2 DEF FileCompletedThreaded, Engine, sheet
    <3> QED BY <3>1 DEF options
  <2>3. CASE FileCompleted
    <3>1. /\ UNCHANGED <<options, dpc, back, locks, histo_engine_log>>
          /\ mpc' = "next" /\ asked' = FALSE /\ farewell' = FALSE
      BY <2>3, Zenon DEF FileCompleted
    <3> QED BY <3>1 DEF options, locks
  <2> QED BY <1>3, <2>1, <2>2, <2>3 DEF FileEnd
<1>4. CASE DumperStep
  <2>1. CASE BootLockDump \/ BootLockCond \/ CondWait \/ CondReturn
    <3>1. /\ UNCHANGED <<options, mpc, back, histo_engine_log, asked, farewell>>
          /\ dpc' \in {"bootCond", "sleep", "wait", "swap"}
          /\ condLock' \in {condLock, Dumper, "none"} /\ dumpLock' \in {dumpLock, Dumper}
      BY <2>1 DEF BootLockDump, BootLockCond, CondWait, CondReturn, Thread, sheet
    <3> QED BY <3>1 DEF options
  <2>2. CASE SwapHisto
    <3>1. /\ UNCHANGED <<options, mpc, back, locks, histo_engine_log, asked>>
          /\ dpc' = "unlock" /\ farewell' = asked
      BY <2>2, Zenon DEF SwapHisto, Thread
    <3> QED BY <3>1 DEF options, locks
  <2>3. CASE UnlockDump \/ Nap
    BY <2>3 DEF UnlockDump, Nap, Thread, options, locks, copies, paper, sheet,
       traffic
  <2>4. CASE WriteHisto("ip", "tcp") \/ WriteHisto("tcp", "rate")
              \/ WriteHisto("rate", "addresses")
    BY <2>4 DEF WriteHisto, Thread, options, locks, copies, paper, sheet, traffic
  <2>5. CASE PrintAdx
    <3>1. /\ UNCHANGED <<options, mpc, back, locks, histo_engine_log, asked, farewell>>
          /\ dpc' = "clear"
      BY <2>5 DEF PrintAdx, Thread
    <3> QED BY <3>1 DEF options, locks
  <2>6. CASE ClearAllHisto \/ LockDump
    BY <2>6 DEF ClearAllHisto, LockDump, Thread, options, locks, copies, paper,
       sheet, traffic
  <2> QED BY <1>4, <2>1, <2>2, <2>3, <2>4, <2>5, <2>6 DEF DumperStep
<1>5. CASE CloseFlow
  <2>1. UNCHANGED <<options, mpc, dpc, back, locks, histo_engine_log, asked, farewell>>
    BY <1>5 DEF CloseFlow, sheet
  <2> QED BY <2>1 DEF options, locks
<1>6. CASE AddPointer(Cleaner) \/ AddLoad(Cleaner)
  BY <1>6 DEF AddPointer, AddLoad, options, locks, copies, paper, sheet, traffic
<1>7. CASE AddStore(Cleaner) BY <1>7 DEF AddStore, options, locks, copies, paper, sheet, traffic
<1> QED BY <1>1, <1>2, <1>3, <1>4, <1>5, <1>6, <1>7 DEF Next, CleanerAdd

\* no counter leaves its bounds;
LEMMA NumbersStep ==
  ASSUME TypeOK, Control, Next
  PROVE  Numbers'
<1>0. /\ ThreadedPackets \in Nat /\ MaxPackets \in Nat /\ ThreadedPackets <= MaxPackets
      /\ MaxClosed \in Nat /\ MaxFiles \in Nat
  BY StatDumpAssumption DEF StatDumpAssumption
<1>10. /\ Numbers
       /\ mpc # "done" => files >= 1
  BY DEF TypeOK, Numbers, Control, Alone
<1> USE <1>0, <1>10
<1> USE DEF Numbers, Copy, Other, NextStep
<1>1. CASE \E a \in Addresses : RecvPacket(a)
  BY <1>1 DEF RecvPacket, options, locks, copies, paper, sheet, traffic
<1>2. CASE MainStep
  <2>1. CASE Enable \/ Unchanged \/ Disabled \/ NoTimeStep
    BY <2>1 DEF Enable, Unchanged, Disabled, NoTimeStep, Engine, options, locks,
       copies, paper, sheet, traffic
  <2>2. CASE StartSleep BY <2>2 DEF StartSleep, Engine, options, locks, copies, paper, sheet, traffic
  <2>3. CASE AddPointer(Main) \/ AddLoad(Main)
    BY <2>3 DEF AddPointer, AddLoad, options, locks, copies, paper, sheet, traffic
  <2>4. CASE AddStore(Main) BY <2>4 DEF AddStore, options, locks, copies, paper, sheet, traffic
  <2>5. CASE Disable \/ TimeStep
    BY <2>5 DEF Disable, TimeStep, Flush, options, locks, copies, paper, sheet,
       traffic
  <2>6. CASE StatDumpingOldStyle
    BY <2>6 DEF StatDumpingOldStyle, Dump, SwapCopies, options, locks, copies,
       paper, sheet, traffic
  <2>7. CASE FireLockCond \/ FireSignal
    BY <2>7 DEF FireLockCond, FireSignal, Engine, options, locks, copies, paper,
       sheet, traffic
  <2>8. CASE FireUnlockCond \/ FireLockDump \/ FireUnlockDump
    BY <2>8 DEF FireUnlockCond, FireLockDump, FireUnlockDump, Engine, options,
       locks, copies, paper, sheet, traffic
  <2>9. CASE Reset BY <2>9 DEF Reset, Engine, options, locks, copies, paper, sheet, traffic
  <2>10. CASE NextFile BY <2>10 DEF NextFile, Engine, options, locks, copies, paper, sheet, traffic
  <2> QED BY <1>2, <2>1, <2>2, <2>3, <2>4, <2>5, <2>6, <2>7, <2>8, <2>9, <2>10 DEF MainStep
<1>3. CASE FileEnd
  <2>1. CASE FileCompletedConcat
    BY <2>1 DEF FileCompletedConcat, Dump, SwapCopies, options, locks, copies,
       paper, sheet, traffic
  <2>2. CASE FileCompletedThreaded \/ FileCompleted
    BY <2>2 DEF FileCompletedThreaded, FileCompleted, LastOne, Engine, Dump,
       SwapCopies, options, locks, copies, paper, sheet, traffic
  <2> QED BY <1>3, <2>1, <2>2 DEF FileEnd
<1>4. CASE DumperStep
  <2>1. CASE BootLockDump \/ BootLockCond \/ CondWait \/ CondReturn
    BY <2>1 DEF BootLockDump, BootLockCond, CondWait, CondReturn, Thread, options,
       locks, copies, paper, sheet, traffic
  <2>2. CASE SwapHisto
    BY <2>2 DEF SwapHisto, SwapCopies, Thread, options, locks, copies, paper, sheet,
       traffic
  <2>3. CASE UnlockDump \/ Nap
    BY <2>3 DEF UnlockDump, Nap, Thread, options, locks, copies, paper, sheet,
       traffic
  <2>4. CASE WriteHisto("ip", "tcp") \/ WriteHisto("tcp", "rate")
              \/ WriteHisto("rate", "addresses")
    BY <2>4 DEF WriteHisto, Thread, options, locks, copies, paper, sheet, traffic
  <2>5. CASE PrintAdx BY <2>5 DEF PrintAdx, Thread, options, locks, copies, paper, sheet, traffic
  <2>6. CASE ClearAllHisto \/ LockDump
    BY <2>6 DEF ClearAllHisto, LockDump, Thread, options, locks, copies, paper,
       sheet, traffic
  <2> QED BY <1>4, <2>1, <2>2, <2>3, <2>4, <2>5, <2>6 DEF DumperStep
<1>5. CASE CloseFlow BY <1>5 DEF CloseFlow, options, locks, copies, paper, sheet, traffic
<1>6. CASE AddPointer(Cleaner) \/ AddLoad(Cleaner)
  BY <1>6 DEF AddPointer, AddLoad, options, locks, copies, paper, sheet, traffic
<1>7. CASE AddStore(Cleaner) BY <1>7 DEF AddStore, options, locks, copies, paper, sheet, traffic
<1> QED BY <1>1, <1>2, <1>3, <1>4, <1>5, <1>6, <1>7 DEF Next, CleanerAdd

\* additions,
LEMMA AdditionsStep ==
  ASSUME TypeOK, Control, Next
  PROVE  add' \in [{Main, Cleaner} -> Addition]
<1>1. add \in [{Main, Cleaner} -> Addition] /\ current \in Copy /\ data \in [Histos -> [Copy -> Nat]]
  BY DEF TypeOK
<1>2. Idle \in Addition /\ \A h \in Counted : Start(h) \in Addition
  BY DEF Idle, Start, Addition, Counted, Copy
<1>3. CASE Adds
  <2>1. PICK t \in {Main, Cleaner} : AddPointer(t) \/ AddLoad(t) \/ AddStore(t) BY <1>3 DEF Adds
  <2>2. CASE AddPointer(t) BY <1>1, <2>2 DEF AddPointer, Addition
  <2>3. CASE AddLoad(t)
    <3>1. add[t].histo \in Histos /\ add[t].copy \in Copy BY <1>1 DEF Addition, Histos
    <3>2. data[add[t].histo][add[t].copy] \in Nat BY <1>1, <3>1
    <3> QED BY <1>1, <2>3, <3>2 DEF AddLoad, Addition
  <2>4. CASE AddStore(t) BY <1>1, <1>2, <2>4 DEF AddStore, Counted
  <2> QED BY <2>1, <2>2, <2>3, <2>4
<1>4. CASE CloseFlow BY <1>1, <1>2, <1>4 DEF CloseFlow, Counted
<1>5. ASSUME NEW a \in Addresses, RecvPacket(a)
      PROVE  add' \in [{Main, Cleaner} -> Addition]
  BY <1>1, <1>2, <1>5 DEF RecvPacket
<1> QED BY <1>1, <1>3, <1>4, <1>5, WritersStep DEF Writers

\* histograms,
LEMMA DataStep ==
  ASSUME TypeOK, Control, Next
  PROVE  data' \in [Histos -> [Copy -> Nat]]
<1>1. /\ add \in [{Main, Cleaner} -> Addition] /\ current \in Copy
      /\ data \in [Histos -> [Copy -> Nat]] /\ bitrate \in Nat
  BY DEF TypeOK
<1>2. ASSUME NEW t \in {Main, Cleaner}, AddStore(t)
      PROVE  data' \in [Histos -> [Copy -> Nat]]
  <2>1. add[t].histo \in Histos /\ add[t].copy \in Copy /\ add[t].was + 1 \in Nat BY <1>1 DEF Addition, Histos
  <2> QED BY <1>1, <1>2, <2>1 DEF AddStore
<1>3. \A i \in Copy : [h \in Histos |-> [data[h] EXCEPT ![i] = 0]] \in [Histos -> [Copy -> Nat]] BY <1>1
<1>4. CASE Dumps BY <1>1, <1>3, <1>4 DEF Dumps, StatDumpingOldStyle, FileCompletedConcat, FileCompleted, Dump
<1>5. CASE SwapHisto BY <1>1, <1>5 DEF SwapHisto, Histos
<1>6. CASE ClearAllHisto BY <1>1, <1>3, <1>6 DEF ClearAllHisto, Other, Copy
<1> QED BY <1>1, <1>2, <1>4, <1>5, <1>6, WritersStep DEF Writers

------------------------------
\* The address tables.  A set of naturals that is not empty has a least
\* member,
LEMMA Smallest ==
  ASSUME NEW X \in SUBSET Nat, X # {}
  PROVE  Min(X) \in X /\ \A j \in X : Min(X) <= j
<1>1. \E i \in X : \A j \in X : ~ (<<j, i>> \in OpToRel(<, Nat)) BY NatLessThanWellFounded, WFMin
<1>2. \A j, i \in Nat : <<j, i>> \in OpToRel(<, Nat) <=> j < i BY DEF OpToRel
<1>3. PICK i \in X : \A j \in X : ~ (<<j, i>> \in OpToRel(<, Nat)) BY <1>1
<1>4. \A j \in X : ~ (j < i) /\ j \in Nat /\ i \in Nat BY <1>2, <1>3
<1>5. \A j \in X : i <= j BY <1>4
<1> QED BY <1>5 DEF Min

\* so that the search of add_adx finds the first entry it can use, if
\* there is one,
LEMMA FoundEntry ==
  ASSUME NEW list \in Seq(Entry), NEW a \in Addresses
  PROVE  \/ /\ \A j \in DOMAIN list : list[j].ip \notin {a, NoAddress}
            /\ AddAdx(list, a) = Append(list, [ip |-> a, hits |-> 1])
         \/ \E i \in DOMAIN list :
              /\ list[i].ip \in {a, NoAddress}
              /\ \A j \in DOMAIN list : j < i => list[j].ip \notin {a, NoAddress}
              /\ AddAdx(list, a) = [list EXCEPT ![i] = [ip |-> a, hits |-> list[i].hits + 1]]
<1> DEFINE I == {i \in 1 .. Len(list) : list[i].ip \in {a, NoAddress}}
<1>1. I \in SUBSET Nat /\ DOMAIN list = 1 .. Len(list) OBVIOUS
<1>2. CASE I = {}
  <2>1. SelectInSeq(list, LAMBDA e : e.ip \in {a, NoAddress}) = 0 BY <1>2 DEF SelectInSeq
  <2>2. \A j \in DOMAIN list : list[j].ip \notin {a, NoAddress} BY <1>1, <1>2
  <2> QED BY <2>1, <2>2 DEF AddAdx
<1>3. CASE I # {}
  <2>1. SelectInSeq(list, LAMBDA e : e.ip \in {a, NoAddress}) = Min(I) BY <1>3 DEF SelectInSeq
  <2>2. Min(I) \in I /\ \A j \in I : Min(I) <= j BY <1>1, <1>3, Smallest
  <2> DEFINE m == Min(I)
  <2>3. AddAdx(list, a) = [list EXCEPT ![m] = [ip |-> a, hits |-> list[m].hits + 1]]
    <3>1. m # 0 BY <2>2
    <3> QED BY <2>1, <3>1 DEF AddAdx
  <2> HIDE DEF m
  <2>4. m \in I /\ \A j \in I : m <= j BY <2>2 DEF m
  <2>5. m \in DOMAIN list /\ list[m].ip \in {a, NoAddress} BY <1>1, <2>4
  <2>6. \A j \in DOMAIN list : j < m => list[j].ip \notin {a, NoAddress}
    <3> SUFFICES ASSUME NEW j \in DOMAIN list, j < m, list[j].ip \in {a, NoAddress}
                 PROVE  FALSE
      OBVIOUS
    <3>1. j \in I BY <1>1
    <3> QED BY <1>1, <2>4, <3>1
  <2> HIDE DEF I
  <2> QED BY <2>3, <2>5, <2>6
<1> QED BY <1>2, <1>3

\* and print_adx prints every entry that was met, and no other.
LEMMA FilledEntries ==
  ASSUME NEW list \in Seq(Entry), Tidy(list)
  PROVE  /\ Filled(list) \in 0 .. Len(list)
         /\ \A i \in DOMAIN list : i <= Filled(list) <=> list[i].hits # 0
<1> DEFINE I == {i \in 1 .. Len(list) : list[i].hits = 0}
<1>1. I \in SUBSET Nat /\ DOMAIN list = 1 .. Len(list) /\ Len(list) \in Nat OBVIOUS
<1>2. CASE I = {}
  <2>1. Filled(list) = Len(list) BY <1>2 DEF Filled, SelectInSeq
  <2> QED BY <1>1, <1>2, <2>1
<1>3. CASE I # {}
  <2>1. Min(I) \in I /\ \A j \in I : Min(I) <= j BY <1>1, <1>3, Smallest
  <2>2. Filled(list) = Min(I) - 1
    <3>1. SelectInSeq(list, LAMBDA e : e.hits = 0) = Min(I) BY <1>3 DEF SelectInSeq
    <3>2. Min(I) # 0 BY <2>1
    <3> QED BY <3>1, <3>2 DEF Filled
  <2> DEFINE m == Min(I)
  <2> HIDE DEF m
  <2>3. m \in 1 .. Len(list) /\ list[m].hits = 0 /\ Filled(list) = m - 1 BY <2>1, <2>2 DEF m
  <2>4. \A j \in 1 .. Len(list) : j < m => list[j].hits # 0 BY <1>1, <2>1 DEF m
  <2>5. \A j \in 1 .. Len(list) : j > m => list[j].hits = 0 BY <1>1, <2>3 DEF Tidy
  <2>6. \A j \in 1 .. Len(list) : list[j].hits = 0 => j >= m BY <2>4, <2>3
  <2> QED BY <1>1, <2>3, <2>4, <2>5
<1> QED BY <1>2, <1>3

\* A packet adds one hit of its address.
LEMMA AddedHit ==
  ASSUME NEW list \in Seq(Entry), Tidy(list), NEW hits \in Hits, Shows(list, hits),
         NEW a \in Addresses
  PROVE  /\ AddAdx(list, a) \in Seq(Entry)
         /\ Tidy(AddAdx(list, a))
         /\ Shows(AddAdx(list, a), [hits EXCEPT ![a] = @ + 1])
<1> DEFINE new == AddAdx(list, a)
           more == [hits EXCEPT ![a] = @ + 1]
<1>1. /\ NoAddress \notin Addresses
      /\ more \in Hits /\ more[a] = hits[a] + 1
      /\ \A b \in Addresses : b # a => more[b] = hits[b]
  BY StatDumpAssumption DEF StatDumpAssumption, Hits
<1>2. /\ DOMAIN list = 1 .. Len(list) /\ Len(list) \in Nat
      /\ \A i \in DOMAIN list : list[i] \in Entry
      /\ \A i \in DOMAIN list : list[i].hits \in Nat /\ list[i].ip \in Addresses \cup {NoAddress}
  <2>1. DOMAIN list = 1 .. Len(list) /\ Len(list) \in Nat /\ \A i \in DOMAIN list : list[i] \in Entry OBVIOUS
  <2> QED BY <2>1 DEF Entry
<1>3. \/ /\ \A j \in DOMAIN list : list[j].ip \notin {a, NoAddress}
         /\ new = Append(list, [ip |-> a, hits |-> 1])
      \/ \E i \in DOMAIN list :
           /\ list[i].ip \in {a, NoAddress}
           /\ \A j \in DOMAIN list : j < i => list[j].ip \notin {a, NoAddress}
           /\ new = [list EXCEPT ![i] = [ip |-> a, hits |-> list[i].hits + 1]]
  BY FoundEntry
<1> HIDE DEF new, more
<1>4. CASE /\ \A j \in DOMAIN list : list[j].ip \notin {a, NoAddress}
           /\ new = Append(list, [ip |-> a, hits |-> 1])
  <2>1. new \in Seq(Entry)
    <3>1. [ip |-> a, hits |-> 1] \in Entry BY DEF Entry
    <3> QED BY <1>4, <3>1
  <2>2. /\ DOMAIN new = 1 .. Len(list) + 1
        /\ new[Len(list) + 1] = [ip |-> a, hits |-> 1]
        /\ \A i \in DOMAIN list : new[i] = list[i]
    BY <1>2, <1>4
  <2>3. hits[a] = 0 BY <1>4 DEF Shows
  <2>4. Tidy(new) BY <1>1, <1>2, <1>4, <2>2 DEF Tidy
  <2>5. Shows(new, more)
    <3> SUFFICES ASSUME NEW b \in Addresses
                 PROVE  /\ \A i \in DOMAIN new : new[i].ip = b => new[i].hits = more[b]
                        /\ (\A i \in DOMAIN new : new[i].ip # b) => more[b] = 0
      BY DEF Shows
    <3>1. CASE b = a BY <1>1, <1>2, <1>4, <2>2, <2>3, <3>1
    <3>2. CASE b # a BY <1>1, <1>2, <2>2, <3>2 DEF Shows
    <3> QED BY <3>1, <3>2
  <2> QED BY <2>1, <2>4, <2>5 DEF new, more
<1>5. ASSUME NEW i \in DOMAIN list, list[i].ip \in {a, NoAddress},
             \A j \in DOMAIN list : j < i => list[j].ip \notin {a, NoAddress},
             new = [list EXCEPT ![i] = [ip |-> a, hits |-> list[i].hits + 1]]
      PROVE  new \in Seq(Entry) /\ Tidy(new) /\ Shows(new, more)
  <2>1. new \in Seq(Entry)
    <3>1. [ip |-> a, hits |-> list[i].hits + 1] \in Entry BY <1>2 DEF Entry
    <3> QED BY <1>2, <1>5, <3>1
  <2>2. /\ DOMAIN new = DOMAIN list
        /\ new[i].ip = a /\ new[i].hits = list[i].hits + 1
        /\ \A j \in DOMAIN list : j # i => new[j] = list[j]
    BY <1>5
  <2>3. list[i].hits = hits[a]
    <3>1. CASE list[i].ip = a BY <3>1 DEF Shows
    <3>2. CASE list[i].ip = NoAddress
      <4>1. list[i].hits = 0 /\ \A j \in DOMAIN list : j > i => list[j].ip = NoAddress BY <1>2, <3>2 DEF Tidy
      <4>2. \A j \in DOMAIN list : list[j].ip # a BY <1>1, <1>2, <1>5, <3>2, <4>1
      <4> QED BY <4>1, <4>2 DEF Shows
    <3> QED BY <1>5, <3>1, <3>2
  <2>4. \A j \in DOMAIN list : j # i => list[j].ip # a
    <3>1. CASE list[i].ip = a BY <1>1, <3>1 DEF Tidy
    <3>2. CASE list[i].ip = NoAddress
      <4>1. \A j \in DOMAIN list : j > i => list[j].ip = NoAddress BY <1>2, <3>2 DEF Tidy
      <4> QED BY <1>1, <1>2, <1>5, <4>1
    <3> QED BY <1>5, <3>1, <3>2
  <2>5. Tidy(new)
    <3>1. \A j \in DOMAIN new : new[j].hits = 0 <=> new[j].ip = NoAddress BY <1>1, <1>2, <2>2 DEF Tidy
    <3>2. \A j, k \in DOMAIN new : j < k /\ new[j].hits = 0 => new[k].hits = 0
      <4> SUFFICES ASSUME NEW j \in DOMAIN new, NEW k \in DOMAIN new, j < k, new[j].hits = 0
                   PROVE  new[k].hits = 0
        OBVIOUS
      <4>1. j # i /\ list[j].hits = 0 BY <1>2, <2>2
      <4>2. list[j].ip = NoAddress BY <2>2, <4>1 DEF Tidy
      <4>3. k # i BY <1>5, <2>2, <4>2
      <4> QED BY <2>2, <4>1, <4>3 DEF Tidy
    <3>3. \A j, k \in DOMAIN new : new[j].ip = new[k].ip /\ j # k => new[j].ip = NoAddress
      BY <1>1, <2>2, <2>4 DEF Tidy
    <3> QED BY <3>1, <3>2, <3>3 DEF Tidy
  <2>6. Shows(new, more)
    <3> SUFFICES ASSUME NEW b \in Addresses
                 PROVE  /\ \A j \in DOMAIN new : new[j].ip = b => new[j].hits = more[b]
                        /\ (\A j \in DOMAIN new : new[j].ip # b) => more[b] = 0
      BY DEF Shows
    <3>1. CASE b = a BY <1>1, <2>2, <2>3, <2>4, <3>1
    <3>2. CASE b # a
      <4>1. \A j \in DOMAIN new : new[j].ip = b => new[j].hits = more[b] BY <1>1, <2>2, <3>2 DEF Shows
      <4>2. ASSUME \A j \in DOMAIN new : new[j].ip # b
            PROVE  more[b] = 0
        <5>1. list[i].ip # b BY <1>1, <1>5, <3>2
        <5>2. \A j \in DOMAIN list : list[j].ip # b BY <2>2, <4>2, <5>1
        <5> QED BY <1>1, <3>2, <5>2 DEF Shows
      <4> QED BY <4>1, <4>2
    <3> QED BY <3>1, <3>2
  <2> QED BY <2>1, <2>5, <2>6
<1> QED BY <1>3, <1>4, <1>5 DEF new, more

\* What is printed is what the table shows.
LEMMA PrintedRight ==
  ASSUME NEW list \in Seq(Entry), Tidy(list), NEW hits \in Hits, Shows(list, hits)
  PROVE  PrintedHits(list) = hits
<1> DEFINE n == Filled(list)
           part == SubSeq(list, 1, n)
           I(a) == {i \in 1 .. Len(part) : part[i].ip = a}
<1>1. /\ n \in 0 .. Len(list) /\ DOMAIN list = 1 .. Len(list) /\ Len(list) \in Nat
      /\ \A i \in DOMAIN list : i <= n <=> list[i].hits # 0
  BY FilledEntries
<1> HIDE DEF n
<1>2. Len(part) = n /\ \A i \in 1 .. n : part[i] = list[i] BY <1>1
<1> HIDE DEF part
<1>3. ASSUME NEW a \in Addresses
      PROVE  (IF I(a) = {} THEN 0 ELSE list[Min(I(a))].hits) = hits[a]
  <2>1. CASE I(a) = {}
    <3>1. \A i \in DOMAIN list : i <= n => list[i].ip # a BY <1>1, <1>2, <2>1
    <3>2. \A i \in DOMAIN list : ~ (i <= n) => list[i].ip = NoAddress BY <1>1 DEF Tidy
    <3>3. \A i \in DOMAIN list : list[i].ip # a BY <3>1, <3>2, StatDumpAssumption DEF StatDumpAssumption
    <3> QED BY <2>1, <3>3 DEF Shows
  <2>2. CASE I(a) # {}
    <3>1. I(a) \in SUBSET Nat BY <1>1, <1>2
    <3>2. Min(I(a)) \in I(a) BY <2>2, <3>1, Smallest
    <3> DEFINE m == Min(I(a))
    <3> HIDE DEF m
    <3>3. m \in 1 .. n /\ list[m].ip = a BY <1>2, <3>2 DEF m
    <3>4. list[m].hits = hits[a] BY <1>1, <3>3 DEF Shows
    <3> QED BY <2>2, <3>4 DEF m
  <2> QED BY <2>1, <2>2
<1>4. ASSUME NEW a \in Addresses
      PROVE  PrintedHits(list)[a] = hits[a]
  <2>1. SelectInSeq(part, LAMBDA e : e.ip = a) = IF I(a) # {} THEN Min(I(a)) ELSE 0 BY DEF SelectInSeq
  <2>2. I(a) # {} => Min(I(a)) # 0
    <3>1. I(a) \in SUBSET Nat BY <1>1, <1>2
    <3> QED BY <3>1, Smallest
  <2>3. PrintedHits(list)[a] = LET i == SelectInSeq(part, LAMBDA e : e.ip = a)
                               IN IF i = 0 THEN 0 ELSE list[i].hits
    BY DEF PrintedHits, part, n
  <2> QED BY <1>3, <2>1, <2>2, <2>3
<1>5. PrintedHits(list) = [a \in Addresses |-> PrintedHits(list)[a]] BY DEF PrintedHits
<1>6. hits = [a \in Addresses |-> hits[a]] BY DEF Hits
<1> QED BY <1>4, <1>5, <1>6

\* A printed table shows nothing.
LEMMA ClearedEmpty ==
  ASSUME NEW list \in Seq(Entry), Tidy(list)
  PROVE  /\ ClearedAdx(list) \in Seq(Entry)
         /\ Tidy(ClearedAdx(list)) /\ Shows(ClearedAdx(list), NoHits)
<1> DEFINE new == ClearedAdx(list)
<1>1. /\ Filled(list) \in 0 .. Len(list) /\ DOMAIN list = 1 .. Len(list) /\ Len(list) \in Nat
      /\ \A i \in DOMAIN list : i <= Filled(list) <=> list[i].hits # 0
      /\ \A i \in DOMAIN list : list[i] \in Entry
  BY FilledEntries
<1>2. /\ new \in Seq(Entry) /\ DOMAIN new = 1 .. Len(list)
      /\ \A i \in 1 .. Len(list) :
           new[i] = IF i <= Filled(list) THEN [ip |-> NoAddress, hits |-> 0] ELSE list[i]
  BY <1>1 DEF ClearedAdx, Entry
<1> HIDE DEF new
<1>3. \A i \in DOMAIN new : new[i].ip = NoAddress /\ new[i].hits = 0
  <2> SUFFICES ASSUME NEW i \in DOMAIN new
               PROVE  new[i].ip = NoAddress /\ new[i].hits = 0
    OBVIOUS
  <2>1. CASE i <= Filled(list) BY <1>2, <2>1
  <2>2. CASE ~ (i <= Filled(list))
    <3>1. new[i] = list[i] /\ list[i].hits = 0 BY <1>1, <1>2, <2>2
    <3> QED BY <1>1, <1>2, <3>1 DEF Tidy
  <2> QED BY <2>1, <2>2
<1>4. Tidy(new) BY <1>3 DEF Tidy
<1>5. Shows(new, NoHits) BY <1>3, StatDumpAssumption DEF Shows, NoHits, StatDumpAssumption
<1> QED BY <1>2, <1>4, <1>5 DEF new

------------------------------
\* Types of the periods,
LEMMA PeriodsStep ==
  ASSUME TypeOK, Control, Next
  PROVE  period' \in Period /\ owed' \in Period
<1>1. period \in Period /\ owed \in Period BY DEF TypeOK
<1>2. Nothing \in Period BY DEF Nothing, Period, Hits
<1>3. ASSUME NEW a \in Addresses, RecvPacket(a)
      PROVE  period' \in Period
  <2>1. period.packets + 1 \in Nat /\ [period.hits EXCEPT ![a] = @ + 1] \in Hits BY <1>1 DEF Period, Hits
  <2> QED BY <1>1, <1>3, <2>1 DEF RecvPacket, Period
<1>4. ASSUME NEW t \in {Main, Cleaner}, AddStore(t)
      PROVE  period' \in Period
  BY <1>1, <1>4 DEF AddStore, Period
<1>5. CASE Dumps
  BY <1>1, <1>2, <1>5 DEF Dumps, StatDumpingOldStyle, FileCompletedConcat, FileCompleted, Dump, SwapCopies
<1>6. CASE SwapHisto BY <1>1, <1>2, <1>6 DEF SwapHisto, SwapCopies
<1> QED BY <1>1, <1>3, <1>4, <1>5, <1>6, WritersStep DEF Writers

\* and what the address tables show: the current one the period, the
\* frozen one the period owed, until it is printed.
LEMMA TablesStep ==
  ASSUME ThreadedFiles = 1, TypeOK, Control, Tables, Next
  PROVE  adx' \in [Copy -> Seq(Entry)] /\ Tables'
<1> DEFINE c == adx_current
           o == Other(adx_current)
<1>1. /\ adx \in [Copy -> Seq(Entry)] /\ c \in Copy /\ o \in Copy /\ o # c
      /\ Other(o) = c /\ Copy = {c, o} /\ Copy = {1, 2}
      /\ period.hits \in Hits
  BY DEF TypeOK, Copy, Other, Period
<1>2. /\ Tidy(adx[c]) /\ Tidy(adx[o])
      /\ Shows(adx[c], period.hits)
      /\ Shows(adx[o], IF dpc \in Due THEN owed.hits ELSE NoHits)
  BY <1>1 DEF Tables
<1>3. ASSUME adx' \in [Copy -> Seq(Entry)], Tidy(adx'[c]), Tidy(adx'[o]),
             \/ /\ adx_current' = c /\ Shows(adx'[c], period'.hits)
                /\ Shows(adx'[o], IF dpc' \in Due THEN owed'.hits ELSE NoHits)
             \/ /\ adx_current' = o /\ Shows(adx'[o], period'.hits)
                /\ Shows(adx'[c], IF dpc' \in Due THEN owed'.hits ELSE NoHits)
      PROVE  adx' \in [Copy -> Seq(Entry)] /\ Tables'
  <2>1. Tidy(adx'[1]) /\ Tidy(adx'[2]) BY <1>1, <1>3
  <2>2. CASE adx_current' = c BY <1>1, <1>3, <2>1, <2>2 DEF Tables, Due, Frozen, Printing, NoHits
  <2>3. CASE adx_current' = o BY <1>1, <1>3, <2>1, <2>3 DEF Tables, Due, Frozen, Printing, NoHits
  <2> QED BY <1>3, <2>2, <2>3
<1> HIDE DEF c, o
<1>4. ASSUME NEW a \in Addresses, RecvPacket(a)
      PROVE  adx' \in [Copy -> Seq(Entry)] /\ Tables'
  <2>1. /\ adx' = [adx EXCEPT ![c] = AddAdx(adx[c], a)]
        /\ adx_current' = c /\ dpc' = dpc /\ owed' = owed
        /\ period'.hits = [period.hits EXCEPT ![a] = @ + 1]
    <3>1. period' = [period EXCEPT !.packets = @ + 1, !.hits[a] = @ + 1] BY <1>4 DEF RecvPacket
    <3>2. period \in Period BY DEF TypeOK
    <3> QED BY <1>4, <3>1, <3>2 DEF RecvPacket, sheet, c, Period
  <2>2. /\ AddAdx(adx[c], a) \in Seq(Entry) /\ Tidy(AddAdx(adx[c], a))
        /\ Shows(AddAdx(adx[c], a), [period.hits EXCEPT ![a] = @ + 1])
    BY <1>1, <1>2, AddedHit
  <2> QED BY <1>1, <1>2, <1>3, <2>1, <2>2
<1>5. ClearedAdx(adx[c]) \in Seq(Entry) /\ Tidy(ClearedAdx(adx[c])) /\ Shows(ClearedAdx(adx[c]), NoHits)
  BY <1>1, <1>2, ClearedEmpty
<1>6. CASE Dumps
  <2>1. ~ threaded /\ dpc = "boot" /\ dpc' = dpc
    BY <1>6 DEF Dumps, StatDumpingOldStyle, FileCompletedConcat, FileCompleted, Control, Alone
  <2>2. /\ adx' = [adx EXCEPT ![c] = ClearedAdx(adx[c])]
        /\ adx_current' = o /\ period' = Nothing
    BY <1>6 DEF Dumps, StatDumpingOldStyle, FileCompletedConcat, FileCompleted, Dump, SwapCopies, c, o
  <2>3. dpc \notin Due BY <2>1 DEF Due, Frozen, Printing
  <2>4. period'.hits = NoHits BY <2>2 DEF Nothing, NoHits
  <2> QED BY <1>1, <1>2, <1>3, <1>5, <2>1, <2>2, <2>3, <2>4
<1>7. CASE SwapHisto
  <2>1. /\ dpc = "swap" /\ dpc' = "unlock"
        /\ adx' = adx /\ adx_current' = o /\ period' = Nothing /\ owed' = period
    BY <1>7 DEF SwapHisto, Thread, SwapCopies, o
  <2>2. dpc \notin Due /\ dpc' \in Due /\ period'.hits = NoHits
    BY <2>1 DEF Due, Frozen, Printing, Nothing, NoHits
  <2> QED BY <1>1, <1>2, <1>3, <2>1, <2>2
<1>8. CASE PrintAdx
  <2>1. /\ adx' = [adx EXCEPT ![o] = ClearedAdx(adx[o])] /\ dpc' = "clear"
        /\ adx_current' = c /\ period' = period /\ owed' = owed
    BY <1>8 DEF PrintAdx, Thread, o, c
  <2>2. ClearedAdx(adx[o]) \in Seq(Entry) /\ Tidy(ClearedAdx(adx[o])) /\ Shows(ClearedAdx(adx[o]), NoHits)
    BY <1>1, <1>2, ClearedEmpty
  <2>3. dpc' \notin Due BY <2>1 DEF Due
  <2> QED BY <1>1, <1>2, <1>3, <2>1, <2>2, <2>3
<1>9. CASE /\ UNCHANGED <<adx, adx_current, owed>> /\ period'.hits = period.hits
           /\ dpc' \in Due <=> dpc \in Due
  BY <1>1, <1>2, <1>3, <1>9 DEF c
<1>10. ASSUME NEW t \in {Main, Cleaner}, AddStore(t)
       PROVE  period'.hits = period.hits
  <2>1. period \in Period BY DEF TypeOK
  <2> QED BY <1>10, <2>1 DEF AddStore, Period
<1> QED BY <1>4, <1>6, <1>7, <1>8, <1>9, <1>10, WritersStep DEF Writers

------------------------------
\* Additions go to the copy they began with, which is the current one, and
\* what they read there is still there when they write.
LEMMA AddingStep ==
  ASSUME TypeOK, Control, Next
  PROVE  Adding'
<1>1. /\ add \in [{Main, Cleaner} -> Addition] /\ current \in Copy /\ Main # Cleaner
      /\ data \in [Histos -> [Copy -> Nat]]
      /\ add[Main].histo \in Histos
  BY DEF TypeOK, Main, Cleaner, Addition, Histos
<1>2. Adding /\ UNCHANGED threaded BY WritersStep DEF Writers, options, Control
<1>3. ASSUME NEW a \in Addresses, RecvPacket(a)
      PROVE  Adding'
  BY <1>1, <1>2, <1>3 DEF Adding, RecvPacket, Start
<1>4. CASE CloseFlow BY <1>1, <1>2, <1>4 DEF Adding, CloseFlow, Start, copies
<1>5. CASE AddPointer(Main) \/ AddPointer(Cleaner)
  <2>1. UNCHANGED <<mpc, current, data>> BY <1>5 DEF AddPointer, copies
  <2>2. ASSUME NEW t \in {Main, Cleaner}, AddPointer(t)
        PROVE  /\ add'[t].at = "load" /\ add'[t].copy = current /\ add'[t].histo = add[t].histo
               /\ add[t].at = "pointer"
               /\ \A u \in {Main, Cleaner} : u # t => add'[u] = add[u]
    BY <1>1, <2>2 DEF AddPointer, Addition
  <2>3. CASE AddPointer(Main) BY <1>1, <1>2, <2>1, <2>2, <2>3 DEF Adding
  <2>4. CASE AddPointer(Cleaner) BY <1>1, <1>2, <2>1, <2>2, <2>4 DEF Adding
  <2> QED BY <1>5, <2>3, <2>4
<1>6. CASE AddLoad(Main) BY <1>1, <1>2, <1>6 DEF Adding, AddLoad, copies
<1>7. CASE AddLoad(Cleaner) BY <1>1, <1>2, <1>7 DEF Adding, AddLoad, copies
<1>8. CASE AddStore(Main)
  <2>1. /\ mpc = "add" /\ current' = current /\ add' = [add EXCEPT ![Main] = add'[Main]]
        /\ \/ add'[Main] = Idle /\ mpc' # "add"
           \/ add'[Main] = Start("ip") /\ mpc' = "add"
    BY <1>1, <1>2, <1>8 DEF Adding, AddStore, Main, Cleaner
  <2>2. add'[Cleaner] = add[Cleaner] BY <1>1, <2>1
  <2> QED BY <1>1, <1>2, <2>1, <2>2 DEF Adding, Idle, Start
<1>9. CASE AddStore(Cleaner)
  <2>1. /\ threaded /\ add[Cleaner].histo = "tcp" /\ mpc' = mpc /\ current' = current
        /\ add' = [add EXCEPT ![Cleaner] = Idle]
        /\ data' = [data EXCEPT ![add[Cleaner].histo][add[Cleaner].copy] = add[Cleaner].was + 1]
    BY <1>1, <1>2, <1>9 DEF Adding, AddStore, Main, Cleaner
  <2>2. add'[Main] = add[Main] /\ add'[Cleaner].at = "idle" BY <1>1, <2>1 DEF Idle
  <2>3. data'["ip"] = data["ip"] BY <1>1, <2>1
  <2> QED BY <1>1, <1>2, <2>1, <2>2, <2>3 DEF Adding
<1>10. ASSUME UNCHANGED add, mpc' = "add" <=> mpc = "add", mpc # "add"
       PROVE  Adding'
  BY <1>1, <1>2, <1>10 DEF Adding
<1>11. CASE Dumps \/ SwapHisto
  <2>1. mpc # "add" /\ UNCHANGED add
    BY <1>11 DEF Dumps, StatDumpingOldStyle, FileCompletedConcat, FileCompleted, SwapHisto, Thread,
                 Control, Rendezvous
  <2>2. mpc' # "add"
    BY <1>11, <2>1 DEF Dumps, StatDumpingOldStyle, FileCompletedConcat, FileCompleted, SwapHisto, Thread
  <2> QED BY <1>10, <2>1, <2>2
<1>12. CASE ClearAllHisto
  <2>1. data' = [h \in Histos |-> [data[h] EXCEPT ![Other(current)] = 0]] /\ UNCHANGED <<add, mpc, current>>
    BY <1>12 DEF ClearAllHisto, Thread
  <2>2. Other(current) # current BY <1>1 DEF Copy, Other
  <2>3. data'[add[Main].histo][current] = data[add[Main].histo][current] BY <1>1, <2>1, <2>2
  <2> QED BY <1>2, <2>1, <2>3 DEF Adding
<1>13. CASE UNCHANGED <<add, data, current>> /\ (mpc' = "add" <=> mpc = "add") BY <1>2, <1>13 DEF Adding
<1> QED BY <1>3, <1>4, <1>5, <1>6, <1>7, <1>8, <1>9, <1>11, <1>12, <1>13, WritersStep DEF Writers, Adds

------------------------------
\* The histograms hold what was counted.
LEMMA CountsStep ==
  ASSUME ThreadedFiles = 1, TypeOK, Control, Counts, Rates, Next
  PROVE  Counts'
<1> DEFINE c == current
           o == Other(current)
<1>1. /\ add \in [{Main, Cleaner} -> Addition] /\ Main # Cleaner
      /\ c \in Copy /\ o \in Copy /\ o # c /\ Other(o) = c /\ Other(c) = o
      /\ data \in [Histos -> [Copy -> Nat]]
      /\ Histos = {"ip", "tcp", "rate"}
  BY DEF TypeOK, Main, Cleaner, Copy, Other, Histos, Counted
<1>2. /\ period.packets \in Nat /\ period.closed \in Nat /\ owed.packets \in Nat
      /\ period \in Period
  BY DEF TypeOK, Period
<1>3. /\ data["ip"][c] + B(mpc = "add") = period.packets
      /\ data["ip"][o] = IF dpc \in Frozen THEN owed.packets ELSE 0
      /\ ~ threaded => data["tcp"][c] = period.closed /\ data["tcp"][o] = 0
      /\ dpc \in Frozen => data["rate"][o] = owed.packets
  BY DEF Counts
<1>4. /\ Adding /\ UNCHANGED threaded BY WritersStep DEF Writers, options, Control
<1> HIDE DEF o, c
<1>5. ASSUME current' = c,
             data'["ip"][c] + B(mpc' = "add") = period'.packets,
             data'["ip"][o] = IF dpc' \in Frozen THEN owed'.packets ELSE 0,
             ~ threaded => data'["tcp"][c] = period'.closed /\ data'["tcp"][o] = 0,
             dpc' \in Frozen => data'["rate"][o] = owed'.packets
      PROVE  Counts'
  BY <1>1, <1>4, <1>5 DEF Counts, B, Frozen, Printing
<1>6. ASSUME current' = o,
             data'["ip"][o] + B(mpc' = "add") = period'.packets,
             data'["ip"][c] = IF dpc' \in Frozen THEN owed'.packets ELSE 0,
             ~ threaded => data'["tcp"][o] = period'.closed /\ data'["tcp"][c] = 0,
             dpc' \in Frozen => data'["rate"][c] = owed'.packets
      PROVE  Counts'
  BY <1>1, <1>4, <1>6 DEF Counts, B, Frozen, Printing
<1>7. ASSUME NEW a \in Addresses, RecvPacket(a)
      PROVE  Counts'
  <2>1. /\ UNCHANGED <<current, data, dpc, owed>> /\ mpc = "read" /\ mpc' = "add"
        /\ period'.packets = period.packets + 1 /\ period'.closed = period.closed
    BY <1>2, <1>7 DEF RecvPacket, sheet, Period
  <2>2. B(mpc = "add") = 0 /\ B(mpc' = "add") = 1 BY <2>1 DEF B
  <2> QED BY <1>1, <1>2, <1>3, <1>5, <2>1, <2>2 DEF c
<1>8. CASE AddStore(Main)
  <2>1. /\ UNCHANGED <<current, dpc, owed>> /\ mpc = "add"
        /\ data' = [data EXCEPT ![add[Main].histo][add[Main].copy] = add[Main].was + 1]
        /\ add[Main].copy = c
        /\ period' = IF add[Main].histo = "tcp" THEN [period EXCEPT !.closed = @ + 1] ELSE period
        /\ add[Main].histo \in {"ip", "tcp"}
    BY <1>1, <1>4, <1>8 DEF AddStore, Adding, sheet, c, Addition, Counted
  <2>2. /\ add[Main].histo = "ip" \/ ~ threaded => add[Main].was = data[add[Main].histo][c]
        /\ add[Main].histo = "ip" => mpc' # "add"
        /\ add[Main].histo = "tcp" => mpc' = "add"
    BY <1>1, <1>4, <1>8, <2>1 DEF AddStore, Adding, c, Main, Cleaner
  <2>3. data["ip"][c] + 1 = period.packets BY <1>3, <2>1 DEF B
  <2>4. CASE add[Main].histo = "ip"
    <3>1. /\ data'["ip"][c] = data["ip"][c] + 1 /\ data'["ip"][o] = data["ip"][o]
          /\ data'["tcp"] = data["tcp"] /\ data'["rate"] = data["rate"] /\ period' = period
      BY <1>1, <2>1, <2>2, <2>4
    <3>2. B(mpc' = "add") = 0 BY <2>2, <2>4 DEF B
    <3> QED BY <1>1, <1>2, <1>3, <1>5, <2>1, <2>3, <3>1, <3>2 DEF c
  <2>5. CASE add[Main].histo = "tcp"
    <3>1. /\ data'["ip"] = data["ip"] /\ data'["rate"] = data["rate"]
          /\ ~ threaded => data'["tcp"][c] = data["tcp"][c] + 1
          /\ data'["tcp"][o] = data["tcp"][o]
          /\ period'.packets = period.packets /\ period'.closed = period.closed + 1
      BY <1>1, <1>2, <2>1, <2>2, <2>5 DEF Period
    <3>2. B(mpc' = "add") = 1 BY <2>2, <2>5 DEF B
    <3> QED BY <1>1, <1>2, <1>3, <1>5, <2>1, <2>3, <3>1, <3>2 DEF c
  <2> QED BY <2>1, <2>4, <2>5
<1>9. CASE AddStore(Cleaner)
  <2>1. /\ UNCHANGED <<current, dpc, owed, mpc>> /\ threaded /\ add[Cleaner].histo = "tcp"
        /\ data' = [data EXCEPT !["tcp"][add[Cleaner].copy] = add[Cleaner].was + 1]
        /\ period' = [period EXCEPT !.closed = @ + 1]
    BY <1>1, <1>4, <1>9 DEF AddStore, Adding, sheet, Main, Cleaner
  <2>2. data'["ip"] = data["ip"] /\ data'["rate"] = data["rate"] /\ period'.packets = period.packets
    BY <1>1, <1>2, <2>1 DEF Period
  <2> QED BY <1>1, <1>2, <1>3, <1>5, <2>1, <2>2 DEF c, B
<1>10. CASE Dumps
  <2>1. /\ ~ threaded /\ dpc = "boot" /\ dpc' = dpc /\ mpc # "add" /\ mpc' # "add"
        /\ data' = [h \in Histos |-> [data[h] EXCEPT ![c] = 0]]
        /\ current' = o /\ period' = Nothing
    BY <1>10 DEF Dumps, StatDumpingOldStyle, FileCompletedConcat, FileCompleted, Dump, SwapCopies, c, o,
                 Control, Alone
  <2>2. dpc \notin Frozen /\ B(mpc' = "add") = 0 /\ period'.packets = 0 /\ period'.closed = 0
    BY <2>1 DEF Frozen, Printing, B, Nothing
  <2>3. /\ data'["ip"][o] = data["ip"][o] /\ data'["tcp"][o] = data["tcp"][o]
        /\ data'["ip"][c] = 0 /\ data'["tcp"][c] = 0
    BY <1>1, <2>1
  <2> QED BY <1>3, <1>6, <2>1, <2>2, <2>3
<1>11. CASE SwapHisto
  <2>1. /\ dpc = "swap" /\ dpc' = "unlock" /\ threaded /\ mpc' = mpc
        /\ mpc \in {"unlockCond", "lockDump"} /\ ~ con_cat
        /\ data' = [data EXCEPT !["rate"][c] = bitrate]
        /\ current' = o /\ period' = Nothing /\ owed' = period
    BY <1>11 DEF SwapHisto, Thread, SwapCopies, o, c, Control, Rendezvous, Alone
  <2>2. bitrate = period.packets BY <2>1 DEF Rates, Swapped
  <2>3. /\ data'["ip"] = data["ip"] /\ data'["rate"][c] = period.packets
        /\ B(mpc = "add") = 0 /\ B(mpc' = "add") = 0 /\ period'.packets = 0
        /\ dpc \notin Frozen /\ dpc' \in Frozen
    BY <1>1, <2>1, <2>2 DEF B, Nothing, Frozen, Printing
  <2> QED BY <1>1, <1>2, <1>3, <1>6, <2>1, <2>3
<1>12. CASE ClearAllHisto
  <2>1. /\ dpc' = "relock" /\ threaded /\ UNCHANGED <<mpc, current, period>>
        /\ data' = [h \in Histos |-> [data[h] EXCEPT ![o] = 0]]
    BY <1>12 DEF ClearAllHisto, Thread, sheet, o
  <2>2. data'["ip"][c] = data["ip"][c] /\ data'["ip"][o] = 0 /\ dpc' \notin Frozen
    BY <1>1, <2>1 DEF Frozen, Printing
  <2> QED BY <1>1, <1>2, <1>3, <1>5, <2>1, <2>2 DEF c, B
<1>13. CASE /\ UNCHANGED <<data, current, owed, period>>
            /\ dpc' \in Frozen <=> dpc \in Frozen
            /\ mpc' = "add" <=> mpc = "add"
  BY <1>1, <1>2, <1>3, <1>5, <1>13 DEF c, B
<1> QED BY <1>7, <1>8, <1>9, <1>10, <1>11, <1>12, <1>13, WritersStep DEF Writers

------------------------------
\* The bitrates of a period are counted from the swap, not from the reset.
LEMMA RatesStep ==
  ASSUME SleepsSuffice, ThreadedFiles = 1, TypeOK, Control, Rates, Next
  PROVE  Rates'
<1>0. /\ mpc \in MainPC /\ dpc \in DumperPC /\ bitrate \in Nat /\ fired \in Nat /\ printed \in Nat
      /\ period \in Period /\ period.packets \in Nat /\ back \in {"disable", "read", "next"}
  BY DEF TypeOK, Period
<1> USE <1>0
<1> USE DEF Rates, Swapped, Control, Locks, Rendezvous, Alone, Flushing, Printing, Frozen,
        Main, Dumper, Cleaner, MainPC, DumperPC
<1>1. CASE \E a \in Addresses : RecvPacket(a)
  BY <1>1 DEF RecvPacket, options, locks, copies, paper, sheet, traffic, Nothing,
     Period
<1>2. CASE MainStep
  <2>1. CASE Enable \/ Unchanged \/ Disabled \/ NoTimeStep
    BY <2>1 DEF Enable, Unchanged, Disabled, NoTimeStep, Engine, options, locks,
       copies, paper, sheet, traffic, Nothing, Period
  <2>2. CASE StartSleep
    BY <2>2 DEF StartSleep, Engine, options, locks, copies, paper, sheet, traffic,
       Nothing, Period
  <2>3. CASE AddPointer(Main) \/ AddLoad(Main)
    BY <2>3 DEF AddPointer, AddLoad, options, locks, copies, paper, sheet, traffic,
       Nothing, Period
  <2>4. CASE AddStore(Main) BY <2>4, MainStores DEF options
  <2>5. CASE Disable \/ TimeStep
    BY <2>5 DEF Disable, TimeStep, Flush, options, locks, copies, paper, sheet,
       traffic, Nothing, Period
  <2>6. CASE StatDumpingOldStyle
    BY <2>6 DEF StatDumpingOldStyle, Dump, SwapCopies, options, locks, copies,
       paper, sheet, traffic, Nothing, Period
  <2>7. CASE FireLockCond \/ FireSignal
    BY <2>7 DEF FireLockCond, FireSignal, Engine, options, locks, copies, paper,
       sheet, traffic, Nothing, Period
  <2>8. CASE FireUnlockCond \/ FireLockDump \/ FireUnlockDump
    BY <2>8 DEF FireUnlockCond, FireLockDump, FireUnlockDump, Engine, options,
       locks, copies, paper, sheet, traffic, Nothing, Period
  <2>9. CASE Reset
    BY <2>9 DEF Reset, Engine, options, locks, copies, paper, sheet, traffic,
       Nothing, Period
  <2>10. CASE NextFile
    BY <2>10 DEF NextFile, Engine, options, locks, copies, paper, sheet, traffic,
       Nothing, Period
  <2> QED BY <1>2, <2>1, <2>2, <2>3, <2>4, <2>5, <2>6, <2>7, <2>8, <2>9, <2>10 DEF MainStep
<1>3. CASE FileEnd
  <2>1. CASE FileCompletedConcat
    BY <2>1 DEF FileCompletedConcat, Dump, SwapCopies, options, locks, copies,
       paper, sheet, traffic, Nothing, Period
  <2>2. CASE FileCompletedThreaded \/ FileCompleted
    BY <2>2 DEF FileCompletedThreaded, FileCompleted, LastOne, Engine, Dump,
       SwapCopies, options, locks, copies, paper, sheet, traffic, Nothing, Period
  <2> QED BY <1>3, <2>1, <2>2 DEF FileEnd
<1>4. CASE DumperStep
  <2>1. CASE BootLockDump \/ BootLockCond \/ CondWait \/ CondReturn
    BY <2>1 DEF BootLockDump, BootLockCond, CondWait, CondReturn, Thread, options,
       locks, copies, paper, sheet, traffic, Nothing, Period
  <2>2. CASE SwapHisto
    BY <2>2 DEF SwapHisto, SwapCopies, Thread, options, locks, copies, paper, sheet,
       traffic, Nothing, Period
  <2>3. CASE UnlockDump \/ Nap
    BY <2>3 DEF UnlockDump, Nap, Thread, options, locks, copies, paper, sheet,
       traffic, Nothing, Period
  <2>4. CASE WriteHisto("ip", "tcp") \/ WriteHisto("tcp", "rate")
              \/ WriteHisto("rate", "addresses")
    BY <2>4 DEF WriteHisto, Thread, options, locks, copies, paper, sheet, traffic,
       Nothing, Period
  <2>5. CASE PrintAdx
    BY <2>5 DEF PrintAdx, Thread, options, locks, copies, paper, sheet, traffic,
       Nothing, Period
  <2>6. CASE ClearAllHisto \/ LockDump
    BY <2>6 DEF ClearAllHisto, LockDump, Thread, options, locks, copies, paper,
       sheet, traffic, Nothing, Period
  <2> QED BY <1>4, <2>1, <2>2, <2>3, <2>4, <2>5, <2>6 DEF DumperStep
<1>5. CASE CloseFlow
  BY <1>5 DEF CloseFlow, options, locks, copies, paper, sheet, traffic, Nothing,
     Period
<1>6. CASE AddPointer(Cleaner) \/ AddLoad(Cleaner)
  BY <1>6 DEF AddPointer, AddLoad, options, locks, copies, paper, sheet, traffic,
     Nothing, Period
<1>7. CASE AddStore(Cleaner)
  BY <1>7 DEF AddStore, options, locks, copies, paper, sheet, traffic, Nothing,
     Period
<1> QED BY <1>1, <1>2, <1>3, <1>4, <1>5, <1>6, <1>7 DEF Next, CleanerAdd

\* Every flush is owed one page.
LEMMA PagesCountedStep ==
  ASSUME SleepsSuffice, ThreadedFiles = 1, TypeOK, Control, PagesCounted, Next
  PROVE  PagesCounted'
<1>0. /\ mpc \in MainPC /\ dpc \in DumperPC /\ bitrate \in Nat /\ fired \in Nat /\ printed \in Nat
      /\ period \in Period /\ period.packets \in Nat /\ back \in {"disable", "read", "next"}
  BY DEF TypeOK, Period
<1> USE <1>0
<1> USE DEF PagesCounted, B, Serving, Control, Locks, Rendezvous, Alone, Flushing, Printing,
        Frozen, Main, Dumper, Cleaner, MainPC, DumperPC
<1>1. CASE \E a \in Addresses : RecvPacket(a)
  BY <1>1 DEF RecvPacket, options, locks, copies, paper, sheet, traffic, NextStep
<1>2. CASE MainStep
  <2>1. CASE Enable \/ Unchanged \/ Disabled \/ NoTimeStep
    BY <2>1 DEF Enable, Unchanged, Disabled, NoTimeStep, Engine, options, locks,
       copies, paper, sheet, traffic, NextStep
  <2>2. CASE StartSleep
    BY <2>2 DEF StartSleep, Engine, options, locks, copies, paper, sheet, traffic,
       NextStep
  <2>3. CASE AddPointer(Main) \/ AddLoad(Main)
    BY <2>3 DEF AddPointer, AddLoad, options, locks, copies, paper, sheet, traffic,
       NextStep
  <2>4. CASE AddStore(Main) BY <2>4, MainStores DEF options
  <2>5. CASE Disable \/ TimeStep
    BY <2>5 DEF Disable, TimeStep, Flush, options, locks, copies, paper, sheet,
       traffic, NextStep
  <2>6. CASE StatDumpingOldStyle
    BY <2>6 DEF StatDumpingOldStyle, Dump, SwapCopies, options, locks, copies,
       paper, sheet, traffic, NextStep
  <2>7. CASE FireLockCond \/ FireSignal
    BY <2>7 DEF FireLockCond, FireSignal, Engine, options, locks, copies, paper,
       sheet, traffic, NextStep
  <2>8. CASE FireUnlockCond \/ FireLockDump \/ FireUnlockDump
    BY <2>8 DEF FireUnlockCond, FireLockDump, FireUnlockDump, Engine, options,
       locks, copies, paper, sheet, traffic, NextStep
  <2>9. CASE Reset
    BY <2>9 DEF Reset, Engine, options, locks, copies, paper, sheet, traffic,
       NextStep
  <2>10. CASE NextFile
    BY <2>10 DEF NextFile, Engine, options, locks, copies, paper, sheet, traffic,
       NextStep
  <2> QED BY <1>2, <2>1, <2>2, <2>3, <2>4, <2>5, <2>6, <2>7, <2>8, <2>9, <2>10 DEF MainStep
<1>3. CASE FileEnd
  <2>1. CASE FileCompletedConcat
    BY <2>1 DEF FileCompletedConcat, Dump, SwapCopies, options, locks, copies,
       paper, sheet, traffic, NextStep
  <2>2. CASE FileCompletedThreaded \/ FileCompleted
    BY <2>2 DEF FileCompletedThreaded, FileCompleted, LastOne, Engine, Dump,
       SwapCopies, options, locks, copies, paper, sheet, traffic, NextStep
  <2> QED BY <1>3, <2>1, <2>2 DEF FileEnd
<1>4. CASE DumperStep
  <2>1. CASE BootLockDump \/ BootLockCond \/ CondWait \/ CondReturn
    BY <2>1 DEF BootLockDump, BootLockCond, CondWait, CondReturn, Thread, options,
       locks, copies, paper, sheet, traffic, NextStep
  <2>2. CASE SwapHisto
    BY <2>2 DEF SwapHisto, SwapCopies, Thread, options, locks, copies, paper, sheet,
       traffic, NextStep
  <2>3. CASE UnlockDump \/ Nap
    BY <2>3 DEF UnlockDump, Nap, Thread, options, locks, copies, paper, sheet,
       traffic, NextStep
  <2>4. CASE WriteHisto("ip", "tcp") \/ WriteHisto("tcp", "rate")
              \/ WriteHisto("rate", "addresses")
    BY <2>4 DEF WriteHisto, Thread, options, locks, copies, paper, sheet, traffic,
       NextStep
  <2>5. CASE PrintAdx
    BY <2>5 DEF PrintAdx, Thread, options, locks, copies, paper, sheet, traffic,
       NextStep
  <2>6. CASE ClearAllHisto \/ LockDump
    BY <2>6 DEF ClearAllHisto, LockDump, Thread, options, locks, copies, paper,
       sheet, traffic, NextStep
  <2> QED BY <1>4, <2>1, <2>2, <2>3, <2>4, <2>5, <2>6 DEF DumperStep
<1>5. CASE CloseFlow BY <1>5 DEF CloseFlow, options, locks, copies, paper, sheet, traffic, NextStep
<1>6. CASE AddPointer(Cleaner) \/ AddLoad(Cleaner)
  BY <1>6 DEF AddPointer, AddLoad, options, locks, copies, paper, sheet, traffic,
     NextStep
<1>7. CASE AddStore(Cleaner) BY <1>7 DEF AddStore, options, locks, copies, paper, sheet, traffic, NextStep
<1> QED BY <1>1, <1>2, <1>3, <1>4, <1>5, <1>6, <1>7 DEF Next, CleanerAdd

\* Between the request of a flush and its page the printing is not disabled.
LEMMA AskedStep ==
  ASSUME TypeOK, Control, Asked, Next
  PROVE  Asked'
<1>0. back \in {"disable", "read", "next"} BY DEF TypeOK
<1> USE <1>0
<1> USE DEF Asked, Control, Alone, Flushing, Main, Dumper, Cleaner
<1>1. CASE \E a \in Addresses : RecvPacket(a)
  BY <1>1 DEF RecvPacket, options, locks, copies, paper, sheet, traffic
<1>2. CASE MainStep
  <2>1. CASE Enable \/ Unchanged \/ Disabled \/ NoTimeStep
    BY <2>1 DEF Enable, Unchanged, Disabled, NoTimeStep, Engine, options, locks,
       copies, paper, sheet, traffic
  <2>2. CASE StartSleep BY <2>2 DEF StartSleep, Engine, options, locks, copies, paper, sheet, traffic
  <2>3. CASE AddPointer(Main) \/ AddLoad(Main)
    BY <2>3 DEF AddPointer, AddLoad, options, locks, copies, paper, sheet, traffic
  <2>4. CASE AddStore(Main) BY <2>4, MainStores DEF options
  <2>5. CASE Disable \/ TimeStep
    <3>1. asked' = FALSE \/ (asked' = histo_engine_log /\ histo_engine_log' = histo_engine_log)
      BY <2>5 DEF Disable, TimeStep
    <3>2. histo_engine_log \in BOOLEAN BY DEF TypeOK
    <3>3. asked' => histo_engine_log'
      <4>1. CASE histo_engine_log = TRUE BY <3>1, <4>1
      <4>2. CASE histo_engine_log = FALSE BY <3>1, <4>2
      <4> QED BY <3>2, <4>1, <4>2
    <3> QED BY <3>3
  <2>6. CASE StatDumpingOldStyle
    BY <2>6 DEF StatDumpingOldStyle, Dump, SwapCopies, options, locks, copies,
       paper, sheet, traffic
  <2>7. CASE FireLockCond \/ FireSignal
    BY <2>7 DEF FireLockCond, FireSignal, Engine, options, locks, copies, paper,
       sheet, traffic
  <2>8. CASE FireUnlockCond \/ FireLockDump \/ FireUnlockDump
    BY <2>8 DEF FireUnlockCond, FireLockDump, FireUnlockDump, Engine, options,
       locks, copies, paper, sheet, traffic
  <2>9. CASE Reset BY <2>9 DEF Reset, Engine, options, locks, copies, paper, sheet, traffic
  <2>10. CASE NextFile BY <2>10 DEF NextFile, Engine, options, locks, copies, paper, sheet, traffic
  <2> QED BY <1>2, <2>1, <2>2, <2>3, <2>4, <2>5, <2>6, <2>7, <2>8, <2>9, <2>10 DEF MainStep
<1>3. CASE FileEnd
  <2>1. CASE FileCompletedConcat
    BY <2>1 DEF FileCompletedConcat, Dump, SwapCopies, options, locks, copies,
       paper, sheet, traffic
  <2>2. CASE FileCompletedThreaded \/ FileCompleted
    BY <2>2 DEF FileCompletedThreaded, FileCompleted, LastOne, Engine, Dump,
       SwapCopies, options, locks, copies, paper, sheet, traffic
  <2> QED BY <1>3, <2>1, <2>2 DEF FileEnd
<1>4. CASE DumperStep
  <2>1. CASE BootLockDump \/ BootLockCond \/ CondWait \/ CondReturn
    BY <2>1 DEF BootLockDump, BootLockCond, CondWait, CondReturn, Thread, options,
       locks, copies, paper, sheet, traffic
  <2>2. CASE SwapHisto
    BY <2>2 DEF SwapHisto, SwapCopies, Thread, options, locks, copies, paper, sheet,
       traffic
  <2>3. CASE UnlockDump \/ Nap
    BY <2>3 DEF UnlockDump, Nap, Thread, options, locks, copies, paper, sheet,
       traffic
  <2>4. CASE WriteHisto("ip", "tcp") \/ WriteHisto("tcp", "rate")
              \/ WriteHisto("rate", "addresses")
    BY <2>4 DEF WriteHisto, Thread, options, locks, copies, paper, sheet, traffic
  <2>5. CASE PrintAdx BY <2>5 DEF PrintAdx, Thread, options, locks, copies, paper, sheet, traffic
  <2>6. CASE ClearAllHisto \/ LockDump
    BY <2>6 DEF ClearAllHisto, LockDump, Thread, options, locks, copies, paper,
       sheet, traffic
  <2> QED BY <1>4, <2>1, <2>2, <2>3, <2>4, <2>5, <2>6 DEF DumperStep
<1>5. CASE CloseFlow BY <1>5 DEF CloseFlow, options, locks, copies, paper, sheet, traffic
<1>6. CASE AddPointer(Cleaner) \/ AddLoad(Cleaner)
  BY <1>6 DEF AddPointer, AddLoad, options, locks, copies, paper, sheet, traffic
<1>7. CASE AddStore(Cleaner) BY <1>7 DEF AddStore, options, locks, copies, paper, sheet, traffic
<1> QED BY <1>1, <1>2, <1>3, <1>4, <1>5, <1>6, <1>7 DEF Next, CleanerAdd

------------------------------
\* No directory is used twice: those left behind are smaller, and in the
\* one in use the pages are numbered; LAST is the last of its directory.
LEMMA DirectoriesStep ==
  ASSUME ThreadedFiles = 1, TypeOK, Control, Directories, NoPageReplaced, Next
  PROVE  /\ used' \subseteq Nat \X (Nat \cup {LastDir})
         /\ Directories' /\ NoPageReplaced'
<1>1. /\ used \subseteq Nat \X (Nat \cup {LastDir}) /\ step \in Nat /\ outdir \in Nat /\ printed \in Nat
      /\ LastDir \notin Nat /\ Dirs \in Nat \ {0}
      /\ files \in Nat
  BY StatDumpAssumption DEF TypeOK, StatDumpAssumption
<1>2. UNCHANGED <<threaded, con_cat, is_stdin>> BY WritersStep DEF Writers, options
<1>3. ASSUME NEW x \in Nat \X (Nat \cup {LastDir}), x \notin used, used' = used \cup {x}, printed' = printed + 1,
             \A u \in used' : u[1] < outdir' \/ (u[1] = outdir' /\ (Leaving' \/ u[2] \in 0 .. step' - 1))
      PROVE  /\ used' \subseteq Nat \X (Nat \cup {LastDir})
             /\ Directories' /\ NoPageReplaced'
  <2>1. IsFiniteSet(used') /\ Cardinality(used') = Cardinality(used) + 1
    BY <1>3, FS_AddElement DEF Directories
  <2> QED BY <1>1, <1>3, <2>1 DEF Directories, NoPageReplaced, Leaving
<1>4. ASSUME ~ Leaving, NextStep
      PROVE  /\ used' \subseteq Nat \X (Nat \cup {LastDir})
             /\ Directories' /\ NoPageReplaced'
  <2> DEFINE x == <<outdir, step>>
  <2>1. /\ x \in Nat \X (Nat \cup {LastDir}) /\ used' = used \cup {x} /\ printed' = printed + 1
        /\ x[1] = outdir /\ x[2] = step
    BY <1>1, <1>4 DEF NextStep
  <2>2. \A u \in used : u[1] < outdir \/ (u[1] = outdir /\ u[2] \in 0 .. step - 1) BY <1>4 DEF Directories
  <2>3. x \notin used BY <1>1, <2>1, <2>2
  <2>4. \/ outdir' = outdir + 1
        \/ outdir' = outdir /\ step' = step + 1
    BY <1>4 DEF NextStep
  <2> HIDE DEF x
  <2>5. ASSUME NEW u \in used'
        PROVE  u[1] < outdir' \/ (u[1] = outdir' /\ u[2] \in 0 .. step' - 1)
    <3>1. CASE u = x BY <1>1, <2>1, <2>4, <3>1
    <3>2. CASE u \in used
      <4>1. u[1] \in Nat BY <1>1, <3>2
      <4>2. u[1] < outdir \/ (u[1] = outdir /\ u[2] \in 0 .. step - 1) BY <2>2, <3>2
      <4> QED BY <1>1, <2>4, <4>1, <4>2
    <3> QED BY <2>1, <3>1, <3>2
  <2> QED BY <1>3, <2>1, <2>3, <2>5
<1>5. CASE StatDumpingOldStyle \/ FileCompletedConcat \/ ClearAllHisto
  <2>1. mpc \notin {"next", "done"}
    BY <1>5 DEF StatDumpingOldStyle, FileCompletedConcat, ClearAllHisto, Thread, Control, Rendezvous
  <2>2. NextStep BY <1>5 DEF StatDumpingOldStyle, FileCompletedConcat, ClearAllHisto
  <2> QED BY <1>4, <2>1, <2>2 DEF Leaving
<1>6. CASE FileCompleted
  <2> DEFINE x == <<outdir, LastDir>>
  <2>1. /\ x \in Nat \X (Nat \cup {LastDir}) /\ used' = used \cup {x} /\ printed' = printed + 1
        /\ x[1] = outdir /\ x[2] = LastDir /\ outdir' = outdir
        /\ mpc = "read" /\ mpc' = "next" /\ LastOne /\ files' = files
    BY <1>1, <1>6 DEF FileCompleted
  <2>2. ~ Leaving /\ Leaving' BY <1>2, <2>1 DEF Leaving, LastOne
  <2>3. x \notin used BY <1>1, <2>1, <2>2 DEF Directories
  <2>4. \A u \in used' : u[1] < outdir' \/ u[1] = outdir' BY <2>1 DEF Directories
  <2> HIDE DEF x
  <2> QED BY <1>3, <2>1, <2>2, <2>3, <2>4
<1>7. ASSUME UNCHANGED <<used, printed>>,
             \A u \in used : u[1] < outdir' \/ (u[1] = outdir' /\ (Leaving' \/ u[2] \in 0 .. step' - 1))
      PROVE  /\ used' \subseteq Nat \X (Nat \cup {LastDir})
             /\ Directories' /\ NoPageReplaced'
  BY <1>1, <1>7 DEF Directories, NoPageReplaced, Leaving
<1>8. CASE NextFile
  <2>1. /\ UNCHANGED <<used, printed, step>> /\ mpc = "next"
        /\ mpc' = IF files > 1 THEN "read" ELSE "done"
        /\ IF con_cat THEN outdir' = outdir ELSE outdir' = outdir + 1
    BY <1>8 DEF NextFile, Engine
  <2>2. \A u \in used : u[1] \in Nat /\ (u[1] < outdir \/ u[1] = outdir) BY <1>1 DEF Directories
  <2>3. CASE ~ con_cat BY <1>1, <1>7, <2>1, <2>2, <2>3
  <2>4. CASE con_cat /\ files > 1
    <3>1. ~ Leaving BY <1>1, <2>1, <2>4 DEF Leaving
    <3> QED BY <1>7, <2>1, <2>4, <3>1 DEF Directories
  <2>5. CASE con_cat /\ ~ (files > 1)
    <3>1. Leaving' BY <2>1, <2>5 DEF Leaving
    <3> QED BY <1>7, <2>1, <2>2, <2>5, <3>1
  <2> QED BY <2>3, <2>4, <2>5
<1>9. CASE UNCHANGED <<used, printed, step, outdir, files>> /\ (mpc \in {"next", "done"} => mpc' = mpc)
  <2>1. Leaving => Leaving' BY <1>2, <1>9 DEF Leaving
  <2> QED BY <1>7, <1>9, <2>1 DEF Directories
<1> QED BY <1>5, <1>6, <1>8, <1>9, WritersStep DEF Writers, Dumps

------------------------------
\* The page shows what is owed, as far as it is written.
LEMMA PagesStep ==
  ASSUME ThreadedFiles = 1, TypeOK, Control, Counts, Rates, Tables, Asked, PageIsPeriod,
         FlushedBeforeDisabled, Next
  PROVE  page' \in Page /\ PageIsPeriod' /\ FlushedBeforeDisabled'
<1> DEFINE c == current
           o == Other(current)
<1>1. /\ c \in Copy /\ o \in Copy /\ adx_current \in Copy /\ Other(adx_current) \in Copy
      /\ data \in [Histos -> [Copy -> Nat]] /\ bitrate \in Nat
      /\ Histos = {"ip", "tcp", "rate"}
      /\ adx \in [Copy -> Seq(Entry)]
      /\ page \in Page /\ histo_engine_log \in BOOLEAN
      /\ NoFile \notin Nat /\ NotYet \notin Nat /\ NotYet # NoFile
  BY StatDumpAssumption DEF TypeOK, Copy, Other, Histos, Counted, StatDumpAssumption
<1>2. period \in Period /\ owed \in Period /\ period.hits \in Hits /\ owed.hits \in Hits BY DEF TypeOK, Period
<1>3. UNCHANGED <<threaded, con_cat>> BY WritersStep DEF Writers, options
<1>4. \A n \in Nat : PrintHisto(n) \in {NoFile, n} /\ (histo_engine_log => PrintHisto(n) = n)
  BY DEF PrintHisto
<1>5. Tidy(adx[adx_current]) /\ Tidy(adx[Other(adx_current)]) BY <1>1 DEF Tables, Copy, Other
<1>6. CASE Dumps
  <2>1. /\ ~ threaded /\ mpc \in {"oldStyle", "read"}
        /\ page' = [histo |-> [h \in Histos |-> PrintHisto(IF h = "rate" THEN bitrate ELSE data[h][c])],
                    adx |-> PrintedHits(adx[adx_current])]
        /\ owed' = period
        /\ farewell' = FALSE \/ (farewell' = asked /\ mpc = "oldStyle")
    BY <1>6 DEF Dumps, StatDumpingOldStyle, FileCompletedConcat, FileCompleted, Dump, SwapCopies, c,
                Control, Alone
  <2>2. /\ data["ip"][c] = period.packets /\ data["tcp"][c] = period.closed
        /\ con_cat \/ bitrate = period.packets
    BY <1>1, <2>1 DEF Counts, B, Rates, Swapped
  <2>3. PrintedHits(adx[adx_current]) = period.hits BY <1>1, <1>2, <1>5, PrintedRight DEF Tables
  <2>4. /\ page'.histo["ip"] = PrintHisto(data["ip"][c]) /\ page'.histo["tcp"] = PrintHisto(data["tcp"][c])
        /\ page'.histo["rate"] = PrintHisto(bitrate) /\ page'.adx = period.hits
    BY <1>1, <2>1, <2>3
  <2>5. data["ip"][c] \in Nat /\ data["tcp"][c] \in Nat BY <1>1
  <2>6. page' \in Page
    <3>1. [h \in Histos |-> PrintHisto(IF h = "rate" THEN bitrate ELSE data[h][c])]
            \in [Histos -> Nat \cup {NotYet, NoFile}]
      <4>1. \A h \in Histos : (IF h = "rate" THEN bitrate ELSE data[h][c]) \in Nat BY <1>1
      <4> QED BY <1>4, <4>1
    <3> QED BY <1>2, <2>1, <2>3, <3>1 DEF Page
  <2>7. PageIsPeriod' BY <1>1, <1>3, <1>4, <2>1, <2>2, <2>4, <2>5 DEF PageIsPeriod
  <2>8. FlushedBeforeDisabled'
    <3>1. farewell' => histo_engine_log BY <2>1 DEF Asked
    <3>2. histo_engine_log => \A h \in Histos : page'.histo[h] \in Nat BY <1>1, <1>4, <2>4, <2>5
    <3> QED BY <1>1, <3>1, <3>2 DEF FlushedBeforeDisabled
  <2> QED BY <2>6, <2>7, <2>8
<1>7. CASE SwapHisto
  <2>1. threaded /\ page' = Blank BY <1>7 DEF SwapHisto, Thread
  <2>2. page' \in Page BY <2>1 DEF Page, Blank
  <2>3. PageIsPeriod' BY <1>1, <1>3, <2>1 DEF PageIsPeriod, Blank
  <2> QED BY <1>3, <2>1, <2>2, <2>3 DEF FlushedBeforeDisabled
<1>8. ASSUME NEW h \in Histos, NEW to, WriteHisto(h, to)
      PROVE  page' \in Page /\ PageIsPeriod' /\ FlushedBeforeDisabled'
  <2>1. /\ threaded /\ dpc = h /\ owed' = owed
        /\ page' = [page EXCEPT !.histo[h] = PrintHisto(data[h][o])]
    BY <1>8 DEF WriteHisto, Thread, o
  <2>2. data[h][o] \in Nat /\ PrintHisto(data[h][o]) \in {NoFile, data[h][o]} BY <1>1, <1>4
  <2>3. h \in {"ip", "rate"} => data[h][o] = owed.packets BY <2>1 DEF Counts, Frozen, Printing, o
  <2>4. /\ page' \in Page /\ page'.adx = page.adx
        /\ page'.histo[h] = PrintHisto(data[h][o])
        /\ \A k \in Histos \ {h} : page'.histo[k] = page.histo[k]
    BY <1>1, <2>1, <2>2 DEF Page
  <2>5. PageIsPeriod'
    <3>1. /\ page'.histo["ip"] \in {NotYet, NoFile, owed.packets}
          /\ con_cat \/ page'.histo["rate"] \in {NotYet, NoFile, owed.packets}
          /\ page'.adx \in {NotYet, owed.hits}
      BY <1>1, <2>2, <2>3, <2>4 DEF PageIsPeriod
    <3> QED BY <1>3, <2>1, <3>1 DEF PageIsPeriod
  <2> QED BY <1>3, <2>1, <2>4, <2>5 DEF FlushedBeforeDisabled
<1>9. CASE PrintAdx
  <2>1. /\ threaded /\ dpc = "addresses" /\ owed' = owed
        /\ page' = [page EXCEPT !.adx = PrintedHits(adx[Other(adx_current)])]
    BY <1>9 DEF PrintAdx, Thread
  <2>2. Shows(adx[Other(adx_current)], owed.hits) BY <2>1 DEF Tables, Due, Frozen, Printing
  <2>3. PrintedHits(adx[Other(adx_current)]) = owed.hits BY <1>1, <1>2, <1>5, <2>2, PrintedRight
  <2>4. page' \in Page /\ page'.histo = page.histo /\ page'.adx = owed.hits BY <1>1, <1>2, <2>1, <2>3 DEF Page
  <2>5. PageIsPeriod' BY <1>3, <2>1, <2>4 DEF PageIsPeriod
  <2> QED BY <1>3, <2>1, <2>4, <2>5 DEF FlushedBeforeDisabled
<1>10. CASE UNCHANGED <<page, owed, farewell>> BY <1>1, <1>3, <1>10 DEF PageIsPeriod, FlushedBeforeDisabled
<1>11. CASE Prints BY <1>1, <1>8, <1>11 DEF Prints
<1> QED BY <1>6, <1>7, <1>9, <1>10, <1>11, WritersStep DEF Writers

------------------------------
\* The invariant holds at the start,
LEMMA InvariantInit ==
  ASSUME ThreadedFiles = 1, Init
  PROVE  IInv
<1>1. StatDumpAssumption BY StatDumpAssumption
<1>2. TypeOK
  <2>1. Places BY DEF Init, Places, MainPC, DumperPC
  <2>2. Numbers
    <3>1. files \in 0 .. MaxFiles BY <1>1 DEF Init, StatDumpAssumption
    <3> QED BY <1>1, <3>1 DEF Init, Numbers, Copy, StatDumpAssumption
  <2>3. add \in [{Main, Cleaner} -> Addition] BY DEF Init, Idle, Addition, Counted, Copy
  <2>4. data \in [Histos -> [Copy -> Nat]] /\ adx \in [Copy -> Seq(Entry)] BY DEF Init
  <2>5. period \in Period /\ owed \in Period BY DEF Init, Nothing, Period, Hits
  <2>6. page \in Page BY DEF Init, Page, Blank
  <2>7. used \subseteq Nat \X (Nat \cup {LastDir}) BY DEF Init
  <2> QED BY <2>1, <2>2, <2>3, <2>4, <2>5, <2>6, <2>7 DEF TypeOK, Places, Numbers
<1>3. Control
  <2>1. Locks BY DEF Init, Locks, Frozen, Printing, Main, Dumper
  <2>2. Rendezvous BY DEF Init, Rendezvous
  <2>3. Alone
    <3>1. /\ mpc = "start" /\ dpc = "boot" /\ back = "read" /\ files \in Int /\ files >= 1
      BY <1>1 DEF Init, StatDumpAssumption
    <3>2. threaded => files = 1 BY DEF Init
    <3>3. threaded => ~ con_cat BY <3>2 DEF Init
    <3> QED BY <3>1, <3>2, <3>3 DEF Alone, Flushing
  <2>4. Adding BY DEF Init, Adding, Idle, Main, Cleaner
  <2> QED BY <2>1, <2>2, <2>3, <2>4 DEF Control
<1>4. PagesCounted BY DEF Init, PagesCounted, B, Serving, Frozen, Printing
<1>5. Directories /\ NoPageReplaced BY FS_EmptySet DEF Init, Directories, NoPageReplaced
<1>6. Counts /\ Rates
  <2>1. period.packets = 0 /\ period.closed = 0 BY DEF Init, Nothing
  <2>2. \A h \in Histos, i \in Copy : data[h][i] = 0 BY DEF Init
  <2>3. {"ip", "tcp", "rate"} = Histos /\ current \in Copy /\ Other(current) \in Copy
    BY DEF Init, Histos, Counted, Copy, Other
  <2>4. data["ip"][current] = 0 /\ data["ip"][Other(current)] = 0
        /\ data["tcp"][current] = 0 /\ data["tcp"][Other(current)] = 0
    BY <2>2, <2>3
  <2>5. dpc \notin Frozen /\ B(mpc = "add") = 0 /\ ~ Swapped /\ bitrate = 0
    BY DEF Init, B, Frozen, Printing, Swapped
  <2> QED BY <2>1, <2>4, <2>5 DEF Counts, Rates
<1>7. Tables
  <2>1. adx[1] = <<>> /\ adx[2] = <<>> /\ adx_current = 1 /\ Other(adx_current) = 2 BY DEF Init, Copy, Other
  <2>2. period.hits = NoHits /\ dpc \notin Due BY DEF Init, Nothing, NoHits, Due, Frozen, Printing
  <2>3. Tidy(<<>>) /\ Shows(<<>>, NoHits) BY DEF Tidy, Shows, NoHits
  <2> QED BY <2>1, <2>2, <2>3 DEF Tables
<1>8. Asked /\ FlushedBeforeDisabled BY DEF Init, Asked, FlushedBeforeDisabled
<1>9. PageIsPeriod BY DEF Init, PageIsPeriod, Blank, Histos, Counted
<1> QED BY <1>2, <1>3, <1>4, <1>5, <1>6, <1>7, <1>8, <1>9 DEF IInv

\* and every step keeps it.
LEMMA InvariantStep ==
  ASSUME SleepsSuffice, ThreadedFiles = 1, IInv, [Next]_vars
  PROVE  IInv'
<1>1. CASE Next
  <2>1. /\ TypeOK /\ Control /\ PagesCounted /\ Directories /\ Counts /\ Rates /\ Tables /\ Asked
        /\ PageIsPeriod /\ NoPageReplaced /\ FlushedBeforeDisabled
    BY DEF IInv
  <2>2. Control' BY <1>1, <2>1, LocksStep, RendezvousStep, AloneStep, AddingStep DEF Control
  <2>3. Places' /\ Numbers' BY <1>1, <2>1, PlacesStep, NumbersStep
  <2>4. /\ add' \in [{Main, Cleaner} -> Addition] /\ data' \in [Histos -> [Copy -> Nat]]
        /\ period' \in Period /\ owed' \in Period
    BY <1>1, <2>1, AdditionsStep, DataStep, PeriodsStep
  <2>5. adx' \in [Copy -> Seq(Entry)] /\ Tables' BY <1>1, <2>1, TablesStep
  <2>6. used' \subseteq Nat \X (Nat \cup {LastDir}) /\ Directories' /\ NoPageReplaced'
    BY <1>1, <2>1, DirectoriesStep
  <2>7. page' \in Page /\ PageIsPeriod' /\ FlushedBeforeDisabled' BY <1>1, <2>1, PagesStep
  <2>8. Counts' /\ Rates' /\ PagesCounted' /\ Asked'
    BY <1>1, <2>1, CountsStep, RatesStep, PagesCountedStep, AskedStep
  <2>9. TypeOK' BY <2>3, <2>4, <2>5, <2>6, <2>7 DEF TypeOK, Places, Numbers
  <2> QED BY <2>2, <2>5, <2>6, <2>7, <2>8, <2>9 DEF IInv
<1>2. CASE UNCHANGED vars
  <2>1. UNCHANGED <<threaded, con_cat, is_stdin, mpc, dpc, back, condLock, dumpLock, histo_engine_log, add,
                    current, data, bitrate, adx_current, adx, step, outdir, files, packets, closed, fired,
                    printed, period, owed, page, asked, farewell, used>>
    BY <1>2 DEF vars, options, locks, copies, paper, sheet, traffic
  <2>2. TypeOK' BY <2>1 DEF IInv, TypeOK
  <2>3. Control' /\ PagesCounted' /\ Asked'
    BY <2>1 DEF IInv, Control, Locks, Rendezvous, Alone, Adding, PagesCounted, B, Asked
  <2>4. Directories' /\ NoPageReplaced' BY <2>1 DEF IInv, Directories, Leaving, NoPageReplaced
  <2>5. Counts' /\ Rates' /\ Tables' BY <2>1 DEF IInv, Counts, B, Rates, Swapped, Tables
  <2>6. PageIsPeriod' /\ FlushedBeforeDisabled' BY <2>1 DEF IInv, PageIsPeriod, FlushedBeforeDisabled
  <2> QED BY <2>2, <2>3, <2>4, <2>5, <2>6 DEF IInv
<1> QED BY <1>1, <1>2

\* So it always holds.
LEMMA Invariant ==
  ASSUME SleepsSuffice, ThreadedFiles = 1
  PROVE  Spec => []IInv
<1>1. Init => IInv BY InvariantInit
<1>2. IInv /\ [Next]_vars => IInv' BY SleepsSuffice, InvariantStep
<1> QED BY <1>1, <1>2, PTL DEF Spec

------------------------------
\* The copies are swapped only while the packet thread waits for it, so a
\* packet is counted in one copy from the pointer to the store
\* (tstat.c:3481-3514, 3610-3626).
SwapWaitedFor ==
  /\ dpc \in {"swap", "unlock"} => mpc \in {"unlockCond", "lockDump"}
  /\ mpc = "add" => add[Main].at = "pointer" \/ add[Main].copy = current

\* The two mutexes and the nap see to it.
THEOREM Swaps ==
  ASSUME SleepsSuffice, ThreadedFiles = 1
  PROVE  Spec => []SwapWaitedFor
<1>1. IInv => SwapWaitedFor
  <2> SUFFICES ASSUME IInv PROVE SwapWaitedFor OBVIOUS
  <2>1. add[Main].at \in {"idle", "pointer", "load", "store"} BY DEF IInv, TypeOK, Addition
  <2> QED BY <2>1 DEF IInv, Control, Rendezvous, Adding, SwapWaitedFor
<1> QED BY <1>1, Invariant, PTL

\* What becomes of the pages, whatever the number of packets, flows,
\* flushes and directories: each holds its period, the whole of it and
\* nothing else, none is written over another, none is lost to the end of
\* the program or to a reload (tstat.c:3481-3514, 3565, 3610-3626,
\* 1764-1809).
THEOREM PagesKept ==
  ASSUME SleepsSuffice, ThreadedFiles = 1
  PROVE  Spec => []PagesSound
<1>1. IInv => EndsAfterPrinting
  <2> SUFFICES ASSUME IInv, mpc = "done"
               PROVE  printed = fired
    BY DEF EndsAfterPrinting
  <2>1. dpc \in {"wait", "boot"} BY DEF IInv, Control, Rendezvous, Alone
  <2>2. B(mpc \in {"lockCond", "signal", "oldStyle"}) = 0 /\ B(dpc \in Serving) = 0
    BY <2>1 DEF B, Serving, Frozen, Printing
  <2>3. printed \in Nat /\ fired \in Nat BY DEF IInv, TypeOK
  <2> QED BY <2>2, <2>3 DEF IInv, PagesCounted
<1>2. IInv => PagesSound BY <1>1 DEF IInv, PagesSound
<1> QED BY <1>2, Invariant, PTL
==============================
