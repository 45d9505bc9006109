------------------------------- MODULE Daemon -------------------------------
(***************************************************************************)
(* Daemon (src/RY/src/Daemon/Daemon.c): the process that starts the        *)
(* servers of tbl_srv_inf, notices that one has died and starts it again,  *)
(* and on SIGUSR1 goes through the rows of tbl_srv_inf once more.          *)
(*                                                                         *)
(* Two signal handlers only set a flag; the main loop tests the flags once *)
(* in every pass and does the work.  A dead child is a zombie until the    *)
(* SIGCLD handler has waited for it, and until then kill(pid, 0) succeeds. *)
(* The main loop is one action per iteration of its loops, a fork and the  *)
(* entry of its pid in the table being two, so that handlers, deaths and a *)
(* SIGTERM can come in between.                                            *)
(*                                                                         *)
(* The query for the rows is run once, in DaemonInit.  DBS_OPEN does not   *)
(* run it again and DBS_CLOSE frees its result, so that vChange reads      *)
(* freed memory: it finds no row, or any row, or the daemon breaks.        *)
(***************************************************************************)
EXTENDS Integers, FiniteSetsExt

CONSTANTS
  Srv,         \* number of rows of tbl_srv_inf, fetched in the order 1..Srv
  Gateways,    \* the rows whose server is CommHTTP
  Num,         \* values srv_num may have
  MaxTotal,    \* bound on the processes asked for
  Slots,       \* DM_MAX_PROC_NUM
  Pids,        \* pids 1..Pids
  Fails,       \* what may fail: "fork", "select" (tbl_srv_param), "cursor" (either table)
  Window,      \* may children end while vStopAllProcess ignores SIGCLD?
  MaxConns,    \* connections the database server grants the daemon
  MayExit,     \* may the daemon get a SIGTERM?
  MaxOutages, MaxDeaths, MaxChanges, MaxFails,  \* bounds on what the environment does
  MaxFaults    \* bound on the outages, deaths and failing calls together

ASSUME DaemonAssumption ==
  /\ Srv \in Nat \ {0} /\ Num \subseteq Nat /\ Num # {} /\ Gateways \subseteq 1..Srv
  /\ MaxTotal \in Nat
  /\ Slots \in Nat \ {0} /\ Pids \in Nat \ {0}
  /\ Fails \subseteq {"fork", "select", "cursor"}
  /\ Window \in BOOLEAN /\ MayExit \in BOOLEAN
  /\ MaxConns \in Nat \ {0}
  /\ MaxOutages \in Nat /\ MaxDeaths \in Nat /\ MaxChanges \in Nat /\ MaxFails \in Nat
  /\ MaxFaults \in Nat

VARIABLES
  gpcbaList,   \* slot -> [pid, srv, seq]
  proc,        \* pid -> "free", "run", "term" (got a SIGTERM) or "zombie"
  deaf,        \* pids of the gateways that were forked while SIGCLD was blocked
  refused,     \* pids that lInsertPid refused because the table was full
  want,        \* server -> srv_num in the database when the daemon started
  freed,       \* was the result of the query freed?
  cldPending,  \* is a SIGCLD pending?
  usr1Pending, \* is a SIGUSR1 pending?
  usr1Held,    \* is SIGUSR1 blocked?
  nCldDeath, nChange,  \* the flags the handlers set
  nConnDone,   \* did five attempts to connect to the database fail?
  conns,       \* connections the daemon holds open
  pc,          \* where the main loop is
  job,         \* the loop counters of vStartAllProcess, vChange or the scan
  child,       \* what lStartProcess returned and is not yet in the table
  count        \* [outages, deaths, changes, failed calls] so far

vars == <<gpcbaList, proc, deaf, refused, want, freed, cldPending, usr1Pending, usr1Held,
          nCldDeath, nChange, nConnDone, conns, pc, job, child, count>>

Slot == 0..(Slots - 1)
Pid == 1..Pids
Gone == -1                  \* pid of an entry without a process
NotForked == 0              \* what lStartProcess returns when fork fails
Wanted == {w \in [1..Srv -> Num] : MapThenSumSet(LAMBDA s : w[s], 1..Srv) <= MaxTotal}
NoSrv == 0                  \* an empty sSrvId
NoChild == -2
EmptyEntry == [pid |-> Gone, srv |-> NoSrv, seq |-> 0]

\* In a loop over the servers: srv is the row, k the next process to start and
\* upto the last one.  In the scan: srv is the slot.
AtRow(s) == [srv |-> s, k |-> 1, upto |-> 0]
AtSlot(i) == [srv |-> i, k |-> 1, upto |-> 0]

\* SIGCLD is blocked from sighold to sigrelse.
CldHeld == pc \in {"boot", "scan"}

\* vHandleExit has ended the daemon, or a fault has.
Over == pc \in {"gone", "crashed"}

----------------------------------------------------------------------------
TypeOK ==
  /\ gpcbaList \in [Slot -> [pid : Pid \cup {Gone, NotForked}, srv : 0..Srv, seq : Nat]]
  /\ \A i \in Slot : gpcbaList[i].pid # Gone => gpcbaList[i].srv # NoSrv
  /\ proc \in [Pid -> {"free", "run", "term", "zombie"}]
  /\ deaf \subseteq Pid /\ refused \subseteq Pid
  /\ want \in Wanted
  /\ {freed, cldPending, usr1Pending, usr1Held, nCldDeath, nChange, nConnDone} \subseteq BOOLEAN
  /\ conns \in 0..MaxConns
  /\ pc \in {"boot", "check", "change", "vchange", "death", "scan", "sleep", "gone",
             "crashed", "hung"}
  /\ job \in [srv : Nat, k : Nat, upto : Nat]
  /\ child \in Pid \cup {Gone, NotForked, NoChild}

Init ==
  /\ gpcbaList = [i \in Slot |-> EmptyEntry]
  /\ proc = [p \in Pid |-> "free"]
  /\ deaf = {} /\ refused = {}
  /\ want \in Wanted
  /\ freed \in {FALSE, "cursor" \in Fails /\ MaxFails > 0 /\ MaxFaults > 0}
  /\ cldPending = FALSE /\ usr1Pending = FALSE /\ usr1Held = FALSE
  /\ nCldDeath = FALSE /\ nChange = FALSE
  /\ nConnDone = FALSE /\ conns = 1
  /\ pc = "boot"
  /\ job = AtRow(1)
  /\ child = NoChild
  /\ count = [outages |-> 0, deaths |-> 0, changes |-> 0,
              fails |-> IF freed THEN 1 ELSE 0]

----------------------------------------------------------------------------
(* lGetProcNum, lInsertPid, lStartProcess *)

EntriesOf(s) == {i \in Slot : gpcbaList[i].pid # Gone /\ gpcbaList[i].srv = s}
ProcNum(s) == Cardinality(EntriesOf(s))

\* kill(pid, 0): pid 0 is the process group of the daemon.
Exists(pid) == pid = NotForked \/ (pid \in Pid /\ proc[pid] # "free")

\* vRestartTheseDeaths: an entry whose process does not exist, or whose process
\* vStopAllProcess stopped.
Dead(i) ==
  \/ gpcbaList[i].pid # Gone /\ ~Exists(gpcbaList[i].pid)
  \/ gpcbaList[i].pid = Gone /\ gpcbaList[i].srv # NoSrv

\* Mutant: the loop over the table keeps its last index.
InsertLast(pid, s, seq) ==
  IF \E i \in Slot : gpcbaList[i].pid = pid
  THEN gpcbaList
  ELSE [gpcbaList EXCEPT ![Slots - 1] = [pid |-> pid, srv |-> s, seq |-> seq]]

\* A pid goes to the free entry with the highest index, unless it is a
\* duplicate or the table is full.
Insert(pid, s, seq) ==
  LET free == {i \in Slot : gpcbaList[i].pid = Gone}
  IN IF free = {} \/ \E i \in Slot : gpcbaList[i].pid = pid
     THEN gpcbaList
     ELSE LET k == CHOOSE i \in free : \A j \in free : j <= i
          IN [gpcbaList EXCEPT ![k] = [pid |-> pid, srv |-> s, seq |-> seq]]

FaultBound == count.outages + count.deaths + count.fails < MaxFaults

\* A call that may fail does.
Failing(call) ==
  /\ call \in Fails
  /\ count.fails < MaxFails /\ FaultBound
  /\ count' = [count EXCEPT !.fails = @ + 1]

\* The kernel gives a pid that is not in use; it is taken not to come round to
\* one that is still in the table.  Pids is a bound: nothing is forked when none
\* is left.
Fresh(p) == proc[p] = "free" /\ \A i \in Slot : gpcbaList[i].pid # p
FreshPid == CHOOSE p \in Pid : Fresh(p)

\* A child inherits the blocked signals.
StartProcess(s) ==
  /\ child = NoChild
  /\ \/ /\ \E p \in Pid : Fresh(p)
        /\ child' = FreshPid
        /\ proc' = [proc EXCEPT ![FreshPid] = "run"]
        /\ deaf' = IF s \in Gateways /\ CldHeld THEN deaf \cup {FreshPid} ELSE deaf \ {FreshPid}
        /\ refused' = refused \ {FreshPid}
        /\ UNCHANGED count
     \/ /\ Failing("select")
        /\ child' = Gone
        /\ UNCHANGED <<proc, deaf, refused>>
     \/ /\ Failing("fork")
        /\ child' = NotForked
        /\ UNCHANGED <<proc, deaf, refused>>

----------------------------------------------------------------------------
(* vStartAllProcess at the start and vChange after a SIGUSR1: both go       *)
(* through the rows of tbl_srv_inf and start what is missing.              *)

InRows == pc \in {"boot", "vchange"} /\ child = NoChild

\* Mutant: the loop over the rows ends before the last one.
AtEndEarly == job.srv >= Srv

AtEnd == job.srv > Srv
Starting == job.k <= job.upto
AtFetch == InRows /\ ~AtEnd /\ ~Starting

\* What DBS_FETCH may return as the srv_num of a row.  In freed memory the rows are
\* taken to come in their order, some of them or none, and any number is possible.
Fetched(s) == IF freed THEN Num ELSE {want[s]}

\* No more rows: DBS_CLOSE frees the result; vChange releases SIGUSR1,
\* vStartAllProcess SIGCLD.
RowsDone ==
  /\ InRows
  /\ AtEnd \/ (freed /\ ~Starting)
  /\ pc' = IF pc = "boot" THEN "check" ELSE "death"
  /\ usr1Held' = IF pc = "boot" THEN usr1Held ELSE FALSE
  /\ freed' = TRUE
  /\ job' = AtRow(1)
  /\ UNCHANGED <<gpcbaList, proc, deaf, refused, want, cldPending, usr1Pending, nCldDeath,
                 nChange, nConnDone, conns, child, count>>

\* As many processes as srv_num, or too few: the missing ones will be started.
VisitRow ==
  /\ AtFetch
  /\ \E n \in Fetched(job.srv) :
       /\ ProcNum(job.srv) <= n
       /\ job' = IF ProcNum(job.srv) = n THEN AtRow(job.srv + 1)
                 ELSE [srv |-> job.srv, k |-> ProcNum(job.srv) + 1, upto |-> n]
  /\ UNCHANGED <<gpcbaList, proc, deaf, refused, want, freed, cldPending, usr1Pending,
                 usr1Held, nCldDeath, nChange, nConnDone, conns, pc, child, count>>

\* The entries to give up, with n processes asked for: the first ones of the server.
Excess(n) ==
  LET s == job.srv
  IN {i \in EntriesOf(s) : Cardinality({j \in EntriesOf(s) : j < i}) < ProcNum(s) - n}

\* Mutant: the entry of a stopped process keeps its server.
LeavesNamed(entry) == [entry EXCEPT !.pid = Gone]

\* Mutant: the entry of a stopped process loses its server and keeps its pid.
LeavesHalf(entry) == [entry EXCEPT !.srv = NoSrv]

Leaves(entry) == [EmptyEntry EXCEPT !.seq = entry.seq]

\* SIGTERM for the processes of the entries.
Terminated(stopped) ==
  [p \in Pid |-> IF proc[p] = "run" /\ \E i \in stopped : gpcbaList[i].pid = p
                 THEN "term" ELSE proc[p]]

\* kill(0, SIGTERM), for an entry whose fork failed, is for the process group: the
\* daemon and everything it started.
HitsGroup(stopped) == \E i \in stopped : gpcbaList[i].pid = NotForked
GroupTerminated == [p \in Pid |-> IF proc[p] = "run" THEN "term" ELSE proc[p]]

\* Too many: the ones in the first entries get a SIGTERM and leave the table.
StopExcess ==
  /\ AtFetch
  /\ \E n \in Fetched(job.srv) :
       /\ Excess(n) # {}
       /\ ~HitsGroup(Excess(n))
       /\ gpcbaList' = [i \in Slot |-> IF i \in Excess(n) THEN Leaves(gpcbaList[i])
                                       ELSE gpcbaList[i]]
       /\ proc' = Terminated(Excess(n))
  /\ job' = AtRow(job.srv + 1)
  /\ UNCHANGED <<deaf, refused, want, freed, cldPending, usr1Pending, usr1Held, nCldDeath,
                 nChange, nConnDone, conns, pc, child, count>>

StartMissing ==
  /\ InRows
  /\ Starting
  /\ StartProcess(job.srv)
  /\ UNCHANGED <<gpcbaList, want, freed, cldPending, usr1Pending, usr1Held, nCldDeath,
                 nChange, nConnDone, conns, pc, job>>

\* vStartAllProcess enters a pid > 0, vChange a pid # -1; the former goes on to
\* the next row when it has filled the table.
EnterMissing ==
  /\ pc \in {"boot", "vchange"}
  /\ child # NoChild
  /\ gpcbaList' = IF child = Gone \/ (pc = "boot" /\ child = NotForked) THEN gpcbaList
                  ELSE Insert(child, job.srv, job.k)
  /\ LET filled == gpcbaList' # gpcbaList /\ \A i \in Slot : gpcbaList'[i].pid # Gone
     IN job' = IF job.k < job.upto /\ ~(pc = "boot" /\ filled) THEN [job EXCEPT !.k = @ + 1]
               ELSE AtRow(job.srv + 1)
  /\ refused' = IF child \in Pid /\ gpcbaList' = gpcbaList THEN refused \cup {child} ELSE refused
  /\ child' = NoChild
  /\ UNCHANGED <<proc, deaf, want, freed, cldPending, usr1Pending, usr1Held, nCldDeath,
                 nChange, nConnDone, conns, pc, count>>

\* The freed result is read or freed again, or a cursor of tbl_srv_param, whose
\* error lStartProcess ignores, has none: the daemon is aborted, or it gets a
\* SIGSEGV, whose handler returns to the instruction that caused it.
Breaks ==
  /\ child = NoChild
  /\ \/ InRows /\ ~Starting /\ freed /\ UNCHANGED count
     \/ InRows /\ Starting /\ Failing("cursor")
     \/ pc = "scan" /\ job.srv \in Slot /\ Dead(job.srv) /\ Failing("cursor")
  /\ \/ /\ pc' = "crashed"
        /\ gpcbaList' = [i \in Slot |-> EmptyEntry]
        /\ cldPending' = FALSE
     \/ /\ pc' = "hung"
        /\ UNCHANGED <<gpcbaList, cldPending>>
  /\ UNCHANGED <<proc, deaf, refused, want, freed, usr1Pending, usr1Held, nCldDeath, nChange,
                 nConnDone, conns, job, child>>

----------------------------------------------------------------------------
(* The main loop *)

\* Mutant: the loop over the table ends at the first entry without a process.
StoppedUpToGap == {i \in Slot : \A j \in 0..i : gpcbaList[j].pid # Gone}

Stopped == Slot

\* vStopAllProcess: SIGCLD is ignored, which drops a pending one; a child that
\* ends before the handler is back is reaped by the kernel without a signal.
\* The entries keep their server.  A gateway ends at its second SIGTERM, if it had
\* handled the first (sigterm_cb removes itself): kill(0) may be that one.
StopAll(window) ==
  /\ gpcbaList' = [i \in Slot |-> IF i \in Stopped THEN [gpcbaList[i] EXCEPT !.pid = Gone]
                                  ELSE gpcbaList[i]]
  /\ LET after == IF HitsGroup(Stopped) THEN GroupTerminated ELSE Terminated(Stopped)
     IN proc' = [p \in Pid |-> IF after[p] # proc[p] /\ p \in window THEN "free" ELSE after[p]]
  /\ IF HitsGroup(Stopped) THEN deaf' \in SUBSET {p \in deaf : proc[p] # "term"}
     ELSE UNCHANGED deaf
  /\ cldPending' = FALSE

\* vHandleExit, in a SIGTERM of the administrator or of the daemon's own kill(0).
Exit ==
  /\ pc' = "gone"
  /\ StopAll({})
  /\ child' = NoChild
  /\ UNCHANGED <<refused, want, freed, usr1Pending, usr1Held, nCldDeath, nChange, nConnDone,
                 conns, job>>

\* The line is up.  Once five attempts have failed nothing resets nConnDone:
\* every later pass opens one more connection and closes none.
LineUp ==
  /\ pc = "check"
  /\ nConnDone => conns < MaxConns
  /\ conns' = IF nConnDone THEN conns + 1 ELSE conns
  /\ pc' = "change"
  /\ UNCHANGED <<gpcbaList, proc, deaf, refused, want, freed, cldPending, usr1Pending, usr1Held, nCldDeath,
                 nChange, nConnDone, job, child, count>>

\* The line is down, or the server grants no more connections: every server
\* is stopped and the check repeated a minute later.
LineDown ==
  /\ pc = "check"
  /\ \/ /\ count.outages < MaxOutages /\ FaultBound
        /\ count' = [count EXCEPT !.outages = @ + 1]
        /\ conns' = 0
        /\ nConnDone' = TRUE
     \/ /\ nConnDone
        /\ conns = MaxConns
        /\ UNCHANGED <<count, conns, nConnDone>>
  /\ \E window \in SUBSET {p \in Pid : Window /\ proc[p] = "run" /\ p \notin deaf} : StopAll(window)
  /\ pc' = IF HitsGroup(Stopped) THEN "gone" ELSE pc
  /\ UNCHANGED <<refused, want, freed, usr1Pending, usr1Held, nCldDeath, nChange, job, child>>

\* vChange kills its own process group.
StopItself ==
  /\ AtFetch
  /\ \E n \in Fetched(job.srv) : HitsGroup(Excess(n))
  /\ Exit
  /\ UNCHANGED count

\* A pass without a change, or vChange.  Its return when nExit is set is never
\* taken: vHandleExit, which sets it, does not return.
TestChange ==
  /\ pc = "change"
  /\ nChange' = FALSE
  /\ pc' = IF nChange THEN "vchange" ELSE "death"
  /\ usr1Held' = IF nChange THEN TRUE ELSE usr1Held
  /\ job' = AtRow(1)
  /\ UNCHANGED <<gpcbaList, proc, deaf, refused, want, freed, cldPending, usr1Pending,
                 nCldDeath, nConnDone, conns, child, count>>

TestDeath ==
  /\ pc = "death"
  /\ nCldDeath' = FALSE
  /\ pc' = IF nCldDeath THEN "scan" ELSE "sleep"
  /\ job' = AtSlot(0)
  /\ UNCHANGED <<gpcbaList, proc, deaf, refused, want, freed, cldPending, usr1Pending, usr1Held, nChange,
                 nConnDone, conns, child, count>>

SkipEntry ==
  /\ pc = "scan"
  /\ child = NoChild
  /\ job.srv \in Slot
  /\ ~Dead(job.srv)
  /\ job' = AtSlot(job.srv + 1)
  /\ UNCHANGED <<gpcbaList, proc, deaf, refused, want, freed, cldPending, usr1Pending, usr1Held, nCldDeath,
                 nChange, nConnDone, conns, pc, child, count>>

RestartEntry ==
  /\ pc = "scan"
  /\ job.srv \in Slot
  /\ Dead(job.srv)
  /\ StartProcess(gpcbaList[job.srv].srv)
  /\ UNCHANGED <<gpcbaList, want, freed, cldPending, usr1Pending, usr1Held, nCldDeath, nChange,
                 nConnDone, conns, pc, job>>

EnterRestarted ==
  /\ pc = "scan"
  /\ child # NoChild
  /\ gpcbaList' = [gpcbaList EXCEPT ![job.srv].pid = child]
  /\ child' = NoChild
  /\ job' = AtSlot(job.srv + 1)
  /\ UNCHANGED <<proc, deaf, refused, want, freed, cldPending, usr1Pending, usr1Held,
                 nCldDeath, nChange, nConnDone, conns, pc, count>>

ScanDone ==
  /\ pc = "scan"
  /\ child = NoChild
  /\ job.srv \notin Slot
  /\ pc' = "sleep"
  /\ UNCHANGED <<gpcbaList, proc, deaf, refused, want, freed, cldPending, usr1Pending, usr1Held, nCldDeath,
                 nChange, nConnDone, conns, job, child, count>>

\* Mutant: the flag is cleared at the end of the pass.
WakeUpClears ==
  /\ pc = "sleep"
  /\ pc' = "check"
  /\ nCldDeath' = FALSE
  /\ UNCHANGED <<gpcbaList, proc, deaf, refused, want, freed, cldPending, usr1Pending, usr1Held,
                 nChange, nConnDone, conns, job, child, count>>

WakeUp ==
  /\ pc = "sleep"
  /\ pc' = "check"
  /\ UNCHANGED <<gpcbaList, proc, deaf, refused, want, freed, cldPending, usr1Pending, usr1Held, nCldDeath,
                 nChange, nConnDone, conns, job, child, count>>

----------------------------------------------------------------------------
(* Signal handlers *)

\* Mutant: one waitpid for one SIGCLD.
HandleOneDeath ==
  /\ cldPending
  /\ ~CldHeld
  /\ ~Over
  /\ cldPending' = FALSE
  /\ nCldDeath' = TRUE
  /\ IF \E p \in Pid : proc[p] = "zombie"
     THEN proc' = [proc EXCEPT ![CHOOSE p \in Pid : proc[p] = "zombie"] = "free"]
     ELSE UNCHANGED proc
  /\ UNCHANGED <<gpcbaList, deaf, refused, want, freed, usr1Pending, usr1Held, nChange, nConnDone, conns,
                 pc, job, child, count>>

\* vHandleChildDeath waits for every zombie: signals are not queued.
HandleChildDeath ==
  /\ cldPending
  /\ ~CldHeld
  /\ ~Over
  /\ cldPending' = FALSE
  /\ nCldDeath' = TRUE
  /\ proc' = [p \in Pid |-> IF proc[p] = "zombie" THEN "free" ELSE proc[p]]
  /\ UNCHANGED <<gpcbaList, deaf, refused, want, freed, usr1Pending, usr1Held, nChange, nConnDone, conns,
                 pc, job, child, count>>

HandleChange ==
  /\ usr1Pending
  /\ ~usr1Held
  /\ ~Over
  /\ usr1Pending' = FALSE
  /\ nChange' = TRUE
  /\ UNCHANGED <<gpcbaList, proc, deaf, refused, want, freed, cldPending, usr1Held, nCldDeath, nConnDone,
                 conns, pc, job, child, count>>

\* vHandleExit, wherever the main loop is: what it had just forked is not yet
\* in the table.
HandleExit ==
  /\ MayExit
  /\ ~Over
  /\ Exit
  /\ UNCHANGED count

----------------------------------------------------------------------------
(* The children and the administrator *)

\* A process ends; init reaps it when the daemon is gone.
End(p) ==
  /\ proc' = [proc EXCEPT ![p] = IF Over THEN "free" ELSE "zombie"]
  /\ cldPending' = ~Over
  /\ UNCHANGED <<gpcbaList, deaf, refused, want, freed, usr1Pending, usr1Held, nCldDeath,
                 nChange, nConnDone, conns, pc, job, child>>

Dies(p) ==
  /\ proc[p] = "run" \/ (proc[p] = "term" /\ p \in deaf)
  /\ count.deaths < MaxDeaths /\ FaultBound
  /\ count' = [count EXCEPT !.deaths = @ + 1]
  /\ End(p)

\* A worker ends on SIGTERM.  A gateway ends when its reader, which it kills then,
\* has gone: sigchld_cb, which is never called when SIGCLD is blocked.
EndsOnSigterm(p) ==
  /\ proc[p] = "term"
  /\ p \notin deaf
  /\ End(p)
  /\ UNCHANGED count

\* The configuration is changed and the daemon gets a SIGUSR1.
Reconfigure ==
  /\ ~Over
  /\ count.changes < MaxChanges
  /\ count' = [count EXCEPT !.changes = @ + 1]
  /\ usr1Pending' = TRUE
  /\ UNCHANGED <<gpcbaList, proc, deaf, refused, want, freed, cldPending, usr1Held,
                 nCldDeath, nChange, nConnDone, conns, pc, job, child>>

----------------------------------------------------------------------------
MainLoop ==
  \/ RowsDone \/ VisitRow \/ StopExcess \/ StopItself \/ StartMissing \/ EnterMissing \/ Breaks
  \/ LineUp \/ LineDown \/ TestChange \/ TestDeath
  \/ SkipEntry \/ RestartEntry \/ EnterRestarted \/ ScanDone \/ WakeUp

Next ==
  \/ MainLoop
  \/ HandleChildDeath \/ HandleChange \/ HandleExit
  \/ \E p \in Pid : Dies(p) \/ EndsOnSigterm(p)
  \/ Reconfigure

\* The daemon runs, a deliverable signal is delivered and a process that got a
\* SIGTERM ends, but for the gateways that do not.
Fairness ==
  /\ WF_vars(MainLoop)
  /\ WF_vars(HandleChildDeath)
  /\ WF_vars(HandleChange)
  /\ \A p \in Pid : WF_vars(EndsOnSigterm(p))

Spec == Init /\ [][Next]_vars /\ Fairness

----------------------------------------------------------------------------
(* Properties *)

\* A death is never forgotten: while a process of the table is dead, either
\* its SIGCLD is still to be handled, or the flag is set, or the scan that
\* will see it has not passed its entry (or never will, the main loop being stuck).
DeathIsNoted ==
  \A i \in Slot :
    LET p == gpcbaList[i].pid
    IN /\ p \in Pid /\ proc[p] = "zombie" => cldPending
       /\ p \in Pid /\ proc[p] = "free" =>
            nCldDeath \/ (pc = "scan" /\ job.srv <= i) \/ pc = "hung"

\* Every process the daemon started and has not told to end is in the table
\* once, or was forked a moment ago: none escapes the supervision but those that
\* lInsertPid refused because the table was full.
Tracked ==
  ~Over =>
    \A p \in Pid : proc[p] = "run" =>
      \/ child = p
      \/ Cardinality({i \in Slot : gpcbaList[i].pid = p}) = 1
      \/ p \in refused /\ \A i \in Slot : gpcbaList[i].pid # p

\* A daemon that gets a SIGTERM, at whatever step, has told every process to end but
\* the one it was forking and those the table had no room for.  That a process which
\* was told ends is not said: the gateways with SIGCLD blocked do not.
OneUntold == pc = "gone" => Cardinality({p \in Pid : proc[p] = "run" /\ p \notin refused}) <= 1

Runs(i) == gpcbaList[i].pid \in Pid /\ proc[gpcbaList[i].pid] = "run"
Down(i) == gpcbaList[i].srv # NoSrv /\ ~Runs(i)

\* No call has failed, there was no outage and the daemon is alive.
Undisturbed == count.fails = 0 /\ count.outages = 0 /\ ~Over /\ pc # "hung"

\* Whenever a child process dies it is restarted (or its entry is given up, by
\* what vChange finds), although signals coalesce and come at any step.
Restarted == \A i \in Slot : Down(i) ~> ~Down(i) \/ ~Undisturbed

\* As long as nobody sends a SIGUSR1, in the end as many processes of each server
\* run as its srv_num asked for when the daemon started, whatever died and however
\* often, unless they are more than the table holds.
Fits == MapThenSumSet(LAMBDA s : want[s], 1..Srv) <= Slots
Supervised ==
  <>[](Undisturbed /\ count.changes = 0 /\ Fits =>
         \A s \in 1..Srv :
           Cardinality({i \in Slot : gpcbaList[i].srv = s /\ Runs(i)}) = want[s])

\* "whenever a child process changes state, vHandleChildDeath will restart it"
\* (Daemon.c:952), also after an outage of the database.
RestartedAlways == \A i \in Slot : Down(i) ~> ~Down(i)
=============================================================================
