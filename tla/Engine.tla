------------------------------- MODULE Engine -------------------------------
(***************************************************************************)
(* Where the output of Tstat goes: the directory of a trace or of a period *)
(* of a capture, the log files in it, the packets dumped in its trace      *)
(* directories, and what a reload of the runtime configuration (-T) does   *)
(* to them.  tstat.c, inireader.c and dump.c for the engine without -p.    *)
(*                                                                         *)
(* Time is counted in minutes, the unit of the directory names.  All log   *)
(* files stand for one, as they are opened and closed together, but for those of *)
(* the queueing delays, which close_all_logfiles forgets without zlib      *)
(* (fp_qd).  The pages of the histograms are in StatDump; here only their  *)
(* number matters, which decides when a capture gets a new directory.      *)
(***************************************************************************)
EXTENDS Integers, FiniteSets

CONSTANTS
  Confs,       \* command lines: [con_cat, live, shared : BOOLEAN, files, minutes, edits : Nat]
  Inis,        \* runtime configurations: [log, histo, dump : BOOLEAN, protos, slice]
  IpComplete,  \* an entry of proto2dump: DUMP_IP_COMPLETE, fed with every packet
  FlowDump,    \* one fed with the packets of flows
  Dirs,        \* DIRS: pages in one directory of a capture
  TimeStep,    \* MAX_TIME_STEP, in minutes
  StableCount, \* RUNTIME_MTIME_COUNTER
  FirstErrors, Errors   \* values of stat_err_counter: at first, after a success

(* A capture is one input (ProcessFile("stdin"), tstat.c:762); with one    *)
(* page in a directory (DIRS is 12) a capture could remove and make the    *)
(* one in use twice in a minute.                                           *)
ASSUME EngineAssumption ==
  /\ \A c \in Confs : /\ {c.con_cat, c.live, c.shared} \subseteq BOOLEAN
                      /\ c.files \in Nat \ {0} /\ c.minutes \in Nat /\ c.edits \in Nat
                      /\ c.live => c.files = 1
  /\ \A i \in Inis : /\ {i.log, i.histo, i.dump} \subseteq BOOLEAN
                     /\ i.protos \subseteq {IpComplete, FlowDump} /\ i.slice \in Nat
  /\ IpComplete # FlowDump
  /\ {Dirs, TimeStep, StableCount, FirstErrors, Errors} \subseteq Nat \ {0}
  /\ Dirs > 1

VARIABLES
  conf,   \* the command line
  stage,  \* open: before a file; first, reading: before a packet; check, reload, flush:
          \* after one; done, stopped: after the last
  file,   \* the input file, counted from 1
  file_count,  \* as the code counts it
  now,    \* current_time
  lastCheck,   \* last_mtime_check, for a capture
  w,      \* directories, logs, dump files: everything the output depends on
  ini,    \* the configuration file: [there, mtime, content]
  poll,   \* last_mtime, mtime_stable_counter, stat_err_counter, and what is in force
  skipped, \* input files without a packet
  pending \* flows have been opened that trace_done has not closed

vars == <<conf, stage, file, file_count, now, lastCheck, w, ini, poll, skipped, pending>>

Protos == {IpComplete, FlowDump}
None == -1
NoBase == [name |-> <<None, None>>, gen |-> 0, logs |-> FALSE]   \* basename not set yet
NoDir == <<0, 0>>
Closed == [dir |-> NoDir, proto |-> IpComplete, seq |-> 0]

TypeOK ==
  /\ conf \in Confs /\ ini.content \in Inis
  /\ stage \in {"open", "first", "reading", "check", "reload", "flush", "done", "stopped"}
  /\ file \in 0 .. conf.files /\ file_count \in 0 .. file /\ now \in 0 .. conf.minutes
  /\ lastCheck \in 0 .. conf.minutes /\ skipped \subseteq 1 .. conf.files /\ pending \in BOOLEAN
  /\ DOMAIN w = {"base", "made", "gen", "step", "last", "log_engine", "fp_logc", "fp_qd", "astray",
                 "engine", "enabled", "slice_win", "fp", "win_start", "seq_num", "outdir",
                 "log_basedir", "dir_counter", "traces", "opened", "failed"}
  /\ w.enabled \subseteq Protos /\ w.seq_num \in [Protos -> Nat]
  /\ w.win_start \in [Protos -> {None} \cup 0 .. conf.minutes]
  /\ w.engine = (w.enabled # {}) /\ w.step \in Nat
  /\ w.astray \in BOOLEAN /\ poll.stable \in -1 .. StableCount /\ poll.errs \in (0 .. FirstErrors) \cup (0 .. Errors)
  /\ poll.loaded.mtime <= ini.mtime /\ ini.mtime <= conf.edits

------------------------------
(* The dump engine: dump.c.                                                *)

(* new_dump_file: creates the file, or ends the program.                   *)
NewDumpFile(o, p) ==
  IF o.outdir[1] \notin {d.gen : d \in o.made} THEN [o EXCEPT !.failed = TRUE]
  ELSE LET path == [dir |-> o.outdir, proto |-> p,
                    seq |-> IF o.slice_win = 0 THEN None ELSE o.seq_num[p]]
       IN [o EXCEPT !.fp[p] = path, !.opened = @ \cup {path}]

(* dump_to_file: the first packet of a file opens it, and with slice_win   *)
(* one that comes after the end of its window opens the next one.          *)
DumpToFile(o, p) ==
  LET diff == now - o.win_start[p]
  IN IF o.failed \/ p \notin o.enabled THEN o
     ELSE IF o.win_start[p] = None THEN [NewDumpFile(o, p) EXCEPT !.win_start[p] = now]
     ELSE IF o.slice_win > 0 /\ diff >= o.slice_win
     THEN NewDumpFile([o EXCEPT !.seq_num[p] = @ + 1,
                                !.win_start[p] = @ + (diff \div o.slice_win) * o.slice_win], p)
     ELSE o

(* dump_flush.                                                             *)
DumpFlush(o, completed) ==
  IF ~o.engine THEN o
  ELSE [o EXCEPT !.dir_counter = IF completed /\ ~conf.con_cat THEN 0 ELSE @,
                 !.fp = [p \in Protos |-> IF p \in o.enabled THEN Closed ELSE @[p]],
                 !.win_start = [p \in Protos |-> IF p \in o.enabled THEN None ELSE @[p]]]

(* dump_create_outdir: a new directory for every reload and every output   *)
(* directory; mkdir fails if it is there, or if there is no basename.      *)
DumpCreateOutdir(o) ==
  IF ~o.engine THEN o
  ELSE LET moved == o.log_basedir # NoBase.name /\ o.log_basedir # o.base.name
           a == IF moved THEN [DumpFlush(o, TRUE) EXCEPT !.dir_counter = 0] ELSE o
           dir == <<o.base.gen, a.dir_counter>>
       IN [a EXCEPT !.log_basedir = o.base.name, !.outdir = dir,
                    !.traces = @ \cup {dir}, !.dir_counter = @ + 1,
                    !.failed = @ \/ o.base = NoBase \/ dir \in o.traces]

------------------------------
(* The output directory and the steps: tstat.c.                            *)

(* create_new_outfiles: the directory is named after the minute of the     *)
(* current packet; one of that name is removed first.                      *)
(* Mutant: the logs that are open stay so.                                 *)
CreateNewOutfiles_Bug(o, name) ==
  LET g == o.gen + 1
      a == [o EXCEPT !.gen = g, !.base = [name |-> name, gen |-> g, logs |-> o.log_engine],
                     !.made = {d \in @ : d.name # name} \cup {[name |-> name, gen |-> g]},
                     !.fp_logc = IF o.log_engine /\ @ = 0 THEN g ELSE @,
                     !.fp_qd = IF o.log_engine THEN g ELSE @]
  IN DumpCreateOutdir(a)
CreateNewOutfiles(o, name) ==
  LET g == o.gen + 1
      a == [o EXCEPT !.gen = g, !.base = [name |-> name, gen |-> g, logs |-> o.log_engine],
                     !.made = {d \in @ : d.name # name} \cup {[name |-> name, gen |-> g]},
                     !.fp_logc = IF o.log_engine THEN g ELSE @,
                     !.fp_qd = IF o.log_engine THEN g ELSE @]
  IN DumpCreateOutdir(a)

(* The name: of the directory of this file, or of -s, and the minute.      *)
Name == <<IF conf.shared THEN 0 ELSE file, now>>

(* stat_dumping_old_style, and flush_histo_engine around it.               *)
StatDumping(o) ==
  IF o.step + 1 >= Dirs /\ conf.live
  THEN [CreateNewOutfiles(o, Name) EXCEPT !.step = 0]
  ELSE [o EXCEPT !.step = @ + 1]
FlushHisto(o) == IF o.failed THEN o ELSE [StatDumping(o) EXCEPT !.last = now]

(* A line of the TCP logs (make_conn_stats): none while the engine is off, *)
(* and none without the file.  astray: the line is lost, or in another     *)
(* directory, although the one in use was made with logs.                  *)
ConnLine(o) ==
  IF o.failed \/ ~o.log_engine THEN o
  ELSE [o EXCEPT !.astray = @ \/ (o.base.logs /\ o.fp_logc # o.base.gen)]

(* A line of a queueing delay log (print_queueing_dly_sample): the engine  *)
(* is not looked at, nor the pointer.                                      *)
SampleLine(o) ==
  IF o.failed THEN o
  ELSE [o EXCEPT !.astray = @ \/ (o.base.logs /\ o.fp_qd # o.base.gen),
                 !.failed = (o.fp_qd = 0)]

(* close_all_logfiles.                                                     *)
CloseLogs(o) == IF o.log_engine THEN [o EXCEPT !.fp_logc = 0] ELSE o

------------------------------
(* The runtime configuration: inireader.c and the handlers of its two      *)
(* sections.  histo_engine = 0 flushes at every reload, since the option   *)
(* it is compared with (-S) never changes.                                 *)
LogSection(o, c, started) ==
  LET a == IF ~c.histo /\ started THEN FlushHisto(o) ELSE o
  IN [a EXCEPT !.log_engine = c.log]

DumpSection(o, c, started) ==
  IF ~c.dump THEN o
  ELSE [(IF started THEN DumpFlush(o, FALSE) ELSE o) EXCEPT
          !.engine = (c.protos # {}), !.enabled = c.protos, !.slice_win = c.slice,
          !.fp = [p \in Protos |-> Closed], !.win_start = [p \in Protos |-> None],
          !.seq_num = [p \in Protos |-> 0]]

IniRead(o, c, started) == DumpSection(LogSection(o, c, started), c, started)

(* Reload.  Mutant: into the same directory.                               *)
Reload_Bug(o) == IniRead(o, ini.content, TRUE)
Reload(o) == DumpCreateOutdir(IniRead(o, ini.content, TRUE))

(* ProcessPacket's test of the configuration file: a change is taken when  *)
(* it has been seen unchanged StableCount times.  Mutant: a change that    *)
(* was seen is forgotten, so that it looks new every time.                 *)
Poll_Bug ==
  CASE ~ini.there -> [poll EXCEPT !.errs = @ - 1]
    [] ini.there /\ ini.mtime # poll.last ->
         [poll EXCEPT !.errs = Errors, !.stable = StableCount]
    [] OTHER -> [poll EXCEPT !.errs = Errors, !.stable = IF @ >= 0 THEN @ - 1 ELSE @]
Poll ==
  CASE ~ini.there -> [poll EXCEPT !.errs = @ - 1]
    [] ini.there /\ ini.mtime # poll.last ->
         [poll EXCEPT !.errs = Errors, !.stable = StableCount, !.last = ini.mtime]
    [] OTHER -> [poll EXCEPT !.errs = Errors, !.stable = IF @ >= 0 THEN @ - 1 ELSE @]

Reloads == poll.stable = 1 /\ poll'.stable = 0

------------------------------
Fresh ==
  [base |-> NoBase, made |-> {}, gen |-> 0, step |-> 0, last |-> None,
   log_engine |-> TRUE, fp_logc |-> 0, fp_qd |-> 0, astray |-> FALSE,
   engine |-> FALSE, enabled |-> {}, slice_win |-> 0, fp |-> [p \in Protos |-> Closed],
   win_start |-> [p \in Protos |-> None], seq_num |-> [p \in Protos |-> 0],
   outdir |-> NoDir, log_basedir |-> NoBase.name, dir_counter |-> 0, traces |-> {},
   opened |-> {}, failed |-> FALSE]

(* main: the configuration is read once before the first file.             *)
Init ==
  /\ conf \in Confs
  /\ stage = "open" /\ file = 0 /\ file_count = 0 /\ now = 0 /\ lastCheck = 0
  /\ \E c \in Inis : /\ ini = [there |-> TRUE, mtime |-> 0, content |-> c]
                     /\ w = IniRead(Fresh, c, FALSE)
  /\ poll = [last |-> 0, stable |-> -1, errs |-> FirstErrors, loaded |-> ini]
  /\ skipped = {} /\ pending = FALSE

(* ProcessFile up to the first packet: a file without one is skipped, but  *)
(* has been counted; the first file of all, or every one without -c, gets  *)
(* a directory.  A capture is not counted.                                 *)
OpenFile(empty) ==
  /\ stage = "open" /\ file < conf.files
  /\ empty => ~conf.live
  /\ file' = file + 1
  /\ file_count' = IF conf.live THEN file_count ELSE file_count + 1
  /\ IF empty THEN UNCHANGED <<stage, now, w>>
     ELSE /\ stage' = "first"
          /\ now' \in IF conf.live THEN {0} ELSE 0 .. conf.minutes
          /\ w' = IF ~conf.con_cat \/ file_count' = 1
                  THEN CreateNewOutfiles(w, <<IF conf.shared THEN 0 ELSE file', now'>>)
                  ELSE w
  /\ skipped' = IF empty THEN skipped \cup {file'} ELSE skipped
  /\ UNCHANGED <<conf, lastCheck, ini, poll, pending>>

(* The next packet is a later one.                                         *)
Later ==
  /\ stage = "reading" /\ now < conf.minutes
  /\ now' = now + 1
  /\ UNCHANGED <<conf, stage, file, file_count, lastCheck, w, ini, poll, skipped, pending>>

(* ProcessPacket: the first packet of all starts the time to a page.       *)
FirstPacket(o) == IF o.last = None THEN [o EXCEPT !.last = now] ELSE o

(* ProcessPacket for a packet without a flow, or a duplicate: only the IP  *)
(* dump sees it.                                                           *)
OtherPacket ==
  /\ stage \in {"first", "reading"}
  /\ w' = DumpToFile(FirstPacket(w), IpComplete)
  /\ stage' = IF w'.failed THEN "stopped" ELSE "reading"
  /\ UNCHANGED <<conf, file, file_count, now, lastCheck, ini, poll, skipped, pending>>

(* ProcessPacket for a packet of a flow, which may have a line written: of *)
(* a flow it closes, or of a delay it measures.                            *)
Handled(line) ==
  LET ip == DumpToFile(FirstPacket(w), IpComplete)
  IN DumpToFile(CASE line = "flow" -> ConnLine(ip)
                  [] line = "delay" -> SampleLine(ip)
                  [] OTHER -> ip, FlowDump)

FlowPacket(line) ==
  /\ stage \in {"first", "reading"}
  /\ w' = Handled(line) /\ pending' = TRUE
  /\ stage' = IF w'.failed THEN "stopped" ELSE "check"
  /\ UNCHANGED <<conf, file, file_count, now, lastCheck, ini, poll, skipped>>

(* Its test of the configuration file, every RUNTIME_CONFIG_IDLE seconds   *)
(* of the clock on the wall: of that of the packets for a capture.         *)
Due == conf.live => now > lastCheck

Check ==
  /\ stage = "check" /\ Due
  /\ ini.there \/ poll.errs > 0
  /\ poll' = Poll
  /\ lastCheck' = IF conf.live THEN now ELSE lastCheck
  /\ stage' = IF Reloads THEN "reload" ELSE "flush"
  /\ UNCHANGED <<conf, file, file_count, now, w, ini, skipped, pending>>

NoCheck ==
  /\ stage = "check"
  /\ stage' = "flush"
  /\ UNCHANGED <<conf, file, file_count, now, lastCheck, w, ini, poll, skipped, pending>>

(* The file has been missing for too long, or is when it should be read.   *)
NoSuchFile ==
  /\ ~ini.there
  /\ (stage = "check" /\ Due /\ poll.errs = 0) \/ stage = "reload"
  /\ stage' = "stopped"
  /\ UNCHANGED <<conf, file, file_count, now, lastCheck, w, ini, poll, skipped, pending>>

ReloadIni ==
  /\ stage = "reload" /\ ini.there
  /\ w' = Reload(w)
  /\ stage' = IF w'.failed THEN "stopped" ELSE "flush"
  /\ poll' = [poll EXCEPT !.loaded = ini]
  /\ UNCHANGED <<conf, file, file_count, now, lastCheck, ini, skipped, pending>>

(* The test of the time for a page.                                        *)
Flush ==
  /\ stage = "flush"
  /\ w' = IF now - w.last > TimeStep THEN FlushHisto(w) ELSE w
  /\ stage' = IF w'.failed THEN "stopped" ELSE "reading"
  /\ UNCHANGED <<conf, file, file_count, now, lastCheck, ini, poll, skipped, pending>>

(* ProcessFileCompleted: with -c a file that is not the last has a page    *)
(* written twice; else the flows end (trace_done), the steps start again   *)
(* and everything is closed.                                               *)
Finish(line) == CloseLogs(DumpFlush([(IF line THEN ConnLine(w) ELSE w) EXCEPT !.step = 0], TRUE))

EndOfFile(line) ==
  /\ stage = "reading"
  /\ line => pending
  /\ IF conf.con_cat /\ file < conf.files
     THEN w' = FlushHisto(StatDumping(w)) /\ ~line /\ UNCHANGED pending
     ELSE w' = Finish(line) /\ pending' = FALSE
  /\ stage' = IF w'.failed THEN "stopped" ELSE "open"
  /\ UNCHANGED <<conf, file, file_count, now, lastCheck, ini, poll, skipped>>

(* QuitSig, between two packets.                                           *)
Quit(line) ==
  /\ stage = "reading"
  /\ line => pending
  /\ w' = Finish(line) /\ pending' = FALSE
  /\ stage' = IF w'.failed THEN "stopped" ELSE "done"
  /\ UNCHANGED <<conf, file, file_count, now, lastCheck, ini, poll, skipped>>

End ==
  /\ stage = "open" /\ file = conf.files
  /\ stage' = "done"
  /\ UNCHANGED <<conf, file, file_count, now, lastCheck, w, ini, poll, skipped, pending>>

(* Somebody edits the configuration file; an editor may remove it first.   *)
Edit ==
  /\ stage \in {"reading", "reload"} /\ ini.mtime < conf.edits
  /\ \E c \in Inis : ini' = [there |-> TRUE, mtime |-> ini.mtime + 1, content |-> c]
  /\ UNCHANGED <<conf, stage, file, file_count, now, lastCheck, w, poll, skipped, pending>>

Remove ==
  /\ stage \in {"reading", "reload"} /\ ini.there /\ ini.mtime < conf.edits
  /\ ini' = [ini EXCEPT !.there = FALSE]
  /\ UNCHANGED <<conf, stage, file, file_count, now, lastCheck, w, poll, skipped, pending>>

Next ==
  \/ \E empty \in BOOLEAN : OpenFile(empty)
  \/ Later \/ OtherPacket
  \/ \E line \in {"none", "flow", "delay"} : FlowPacket(line)
  \/ \E line \in BOOLEAN : EndOfFile(line) \/ Quit(line)
  \/ Check \/ NoCheck \/ NoSuchFile \/ ReloadIni \/ Flush
  \/ End \/ Edit \/ Remove

(* Packets of flows keep coming: without them nothing looks at the file.   *)
Spec == Init /\ [][Next]_vars
FairSpec == Spec /\ WF_vars(FlowPacket("none")) /\ SF_vars(Check)
                 /\ WF_vars(ReloadIni) /\ WF_vars(Flush)
------------------------------
(* A line that is written while the log engine is on goes to the directory *)
(* in use, and is not dropped, whenever the engine was on when that was    *)
(* made, whatever has been switched off and on since.                      *)
LinesLand == ~w.astray

(* The program gives up (exit(1), or the NULL pointer of a delay log) only *)
(* in a run that has no directory, because -c counts an empty first file   *)
(* and does not count a capture, or in a directory made without logs.      *)
StopsExplained ==
  /\ w.failed => w.base = NoBase \/ ~w.base.logs
  /\ w.base = NoBase /\ stage = "reading" => conf.con_cat /\ (conf.live \/ 1 \in skipped)

(* A packet is never dumped to a file of a removed directory, nor, as long *)
(* as the configuration in force has its section [dump], to one made for   *)
(* an earlier configuration or an earlier output directory.                *)
DumpedHere ==
  \A p \in Protos : w.fp[p] # Closed =>
    /\ \E d \in w.made : d.gen = w.fp[p].dir[1]
    /\ poll.loaded.content.dump => w.fp[p].dir = w.outdir /\ w.outdir[1] = w.base.gen

(* Every flow is closed and logged before the end, but for those of a      *)
(* sequence of files (-c) the last of which has no packet.                 *)
FlowsClosed == stage = "done" /\ pending => conf.con_cat /\ conf.files \in skipped

(* What the program wrote is where it should be and was not left behind.   *)
OutputSound == TypeOK /\ LinesLand /\ StopsExplained /\ DumpedHere /\ FlowsClosed

(* What was written stays: no packet dump is created over another, and a   *)
(* directory is removed only for another file of the same minute.          *)
Kept ==
  /\ \A d \in w.made \ w'.made : /\ d.name = w'.base.name
                                 /\ ~conf.con_cat /\ ~conf.live /\ stage = "open"
  /\ \A p \in Protos : w'.fp[p] \notin w.opened \cup {Closed} \/ w'.fp[p] \in {w.fp[p], Closed}
OutputKept == [][Kept]_vars

(* An edit of the configuration takes effect if packets of flows keep      *)
(* coming, whenever and however often the file was changed, removed or     *)
(* looked at before (the minutes of a capture are bounded: it is left out).*)
EditsTakeEffect ==
  <>[](stage = "reading" /\ ini.there /\ ~conf.live => poll.loaded = ini)

(* -T: "configuration file to enable/disable dumping of traces and logs at *)
(* runtime": with the logs off the program runs as with them, once it has  *)
(* a directory.                                                            *)
LogsCanBeDisabled == w.failed => w.base = NoBase
==============================
