---------------------------- MODULE DaemonProofs ----------------------------
(***************************************************************************)
(* Proofs about the daemon, for any number of servers and processes, any   *)
(* size of the table and any number of deaths, failures and signals.       *)
(*                                                                         *)
(* What needs an argument is a child between fork and its entry: it can end *)
(* before it is in the table.  Forked says what is known of it.  That no    *)
(* process escapes but those that a full table refused is Accounted.       *)
(***************************************************************************)
EXTENDS Daemon, FiniteSetTheorems, WellFoundedInduction, TLAPS

Entry == [pid : Pid \cup {Gone, NotForked}, srv : 0..Srv, seq : Nat]

Types ==
  /\ gpcbaList \in [Slot -> Entry]
  /\ \A i \in Slot : gpcbaList[i].pid # Gone => gpcbaList[i].srv # NoSrv
  /\ proc \in [Pid -> {"free", "run", "term", "zombie"}]
  /\ deaf \in SUBSET Pid /\ refused \in SUBSET Pid
  /\ want \in Wanted /\ freed \in BOOLEAN
  /\ cldPending \in BOOLEAN /\ usr1Pending \in BOOLEAN /\ usr1Held \in BOOLEAN
  /\ nCldDeath \in BOOLEAN /\ nChange \in BOOLEAN /\ nConnDone \in BOOLEAN
  /\ conns \in 0..MaxConns
  /\ pc \in {"boot", "check", "change", "vchange", "death", "scan", "sleep", "gone",
             "crashed", "hung"}
  /\ job \in [srv : Nat, k : Nat, upto : Nat]
  /\ child \in Pid \cup {Gone, NotForked, NoChild}

\* Where the main loop is says what its counters mean.
Control ==
  /\ pc \in {"boot", "vchange"} =>
       /\ job.srv \in 1..(Srv + 1)
       /\ Starting \/ child # NoChild => job.srv \in 1..Srv
  /\ pc = "scan" => job.srv \in 0..Slots
  /\ child # NoChild => \/ pc \in {"boot", "vchange"}
                        \/ pc = "scan" /\ job.srv \in Slot /\ Dead(job.srv)
  /\ Over => \A i \in Slot : gpcbaList[i].pid = Gone

\* The child that is not in the table yet: if it has died already, this will be
\* seen.
Forked ==
  child \in Pid =>
    /\ \A i \in Slot : gpcbaList[i].pid # child
    /\ proc[child] = "zombie" => cldPending
    /\ proc[child] = "free" => nCldDeath

Distinct ==
  \A i, j \in Slot : i # j /\ gpcbaList[i].pid \in Pid => gpcbaList[i].pid # gpcbaList[j].pid

IInv == Types /\ Control /\ Forked /\ Distinct /\ DeathIsNoted

\* Every process that runs was just forked, is in the table or was refused by it; of
\* the others at most one is left when a SIGTERM has ended the daemon.
Accounted ==
  IF pc = "gone" THEN \E x : \A p \in Pid : proc[p] = "run" => p = x \/ p \in refused
  ELSE pc # "crashed" =>
         \A p \in Pid : proc[p] = "run" =>
           child = p \/ p \in refused \/ \E i \in Slot : gpcbaList[i].pid = p

----------------------------------------------------------------------------
(* Numbers *)

\* A set of natural numbers has a least element.
LEMMA Least ==
  ASSUME NEW T, T \subseteq Nat, T # {}
  PROVE  \E x \in T : \A y \in T : x <= y
<1> DEFINE R == OpToRel(<, Nat)
<1>1. IsWellFoundedOn(R, Nat)
  BY NatLessThanWellFounded
<1>2. \A x, y \in Nat : y < x => <<y, x>> \in R
  BY DEF OpToRel
<1> HIDE DEF R
<1>3. PICK x \in T : \A y \in T : ~ (<<y, x>> \in R)
  BY <1>1, WFMin
<1>4. ASSUME NEW y \in T PROVE x <= y
  <2>1. x \in Nat /\ y \in Nat /\ ~ (y < x)
    BY <1>2, <1>3
  <2>2. QED
    BY <2>1
<1>5. QED
  BY <1>4

\* lInsertPid finds the free entry with the highest index.
LEMMA Last ==
  ASSUME NEW F, F \subseteq Slot, F # {}
  PROVE  \E i \in F : \A j \in F : j <= i
<1> DEFINE T == {Slots - i : i \in F}
<1>1. \A i \in F : i \in Nat /\ i <= Slots /\ Slots \in Nat
  BY DaemonAssumption DEF Slot
<1>2. T \subseteq Nat /\ T # {}
  BY <1>1
<1>3. PICK x \in T : \A y \in T : x <= y
  BY <1>2, Least
<1>4. PICK i \in F : x = Slots - i
  OBVIOUS
<1>5. ASSUME NEW j \in F PROVE j <= i
  <2>1. Slots - i <= Slots - j
    BY <1>3, <1>4
  <2>2. QED
    BY <1>1, <2>1
<1>6. QED
  BY <1>5

\* What the table holds instead of a pid is none.
LEMMA PidIs ==
  /\ Gone \notin Pid /\ NotForked \notin Pid /\ NoChild \notin Pid
  /\ Gone # NotForked /\ NoChild # Gone /\ NoChild # NotForked
BY DaemonAssumption DEF Gone, NotForked, NoChild, Pid

\* An entry as it is at the start.
LEMMA EmptyIs == EmptyEntry \in Entry /\ EmptyEntry.pid = Gone
BY DaemonAssumption DEF EmptyEntry, Entry, NoSrv

\* The indices of the table, and the one behind the last.
LEMMA SlotIs ==
  /\ \A i \in Slot : i \in Nat /\ i < Slots
  /\ \A i \in 0..Slots : i \in Nat /\ (i \in Slot \/ i = Slots) /\ (i \in Slot => i + 1 \in 0..Slots)
  /\ 0 \in 0..Slots /\ Slots \in Nat
BY DaemonAssumption DEF Slot

\* The rows of tbl_srv_inf, and the one behind the last.
LEMMA RowIs ==
  /\ 1 \in 1..(Srv + 1) /\ Srv \in Nat
  /\ \A s \in 1..(Srv + 1) : s \in Nat /\ (s > Srv \/ (s \in 1..Srv /\ s \in 0..Srv /\ s # NoSrv
                                                       /\ s + 1 \in 1..(Srv + 1)))
BY DaemonAssumption DEF NoSrv

\* Where a scan is: at a row of tbl_srv_inf, or at an entry of the table.
LEMMA JobIs ==
  ASSUME NEW s \in Nat
  PROVE  /\ AtRow(s) \in [srv : Nat, k : Nat, upto : Nat] /\ AtRow(s).srv = s
         /\ AtSlot(s) \in [srv : Nat, k : Nat, upto : Nat] /\ AtSlot(s).srv = s
         /\ ~ (AtRow(s).k <= AtRow(s).upto)
BY DEF AtRow, AtSlot

----------------------------------------------------------------------------
(* Steps of the main loop that touch neither the table nor a process *)

LEMMA ControlStep ==
  ASSUME IInv, UNCHANGED <<gpcbaList, proc, child, cldPending, nCldDeath>>,
         Types', Control', DeathIsNoted'
  PROVE  IInv'
<1>1. Forked'
  BY DEF IInv, Forked
<1>2. Distinct'
  BY DEF IInv, Distinct
<1>3. QED
  BY <1>1, <1>2 DEF IInv

\* The end of the rows.
LEMMA RowsDoneKeeps ==
  ASSUME IInv, RowsDone
  PROVE  IInv'
<1>1. /\ pc \in {"boot", "vchange"}
      /\ pc' = IF pc = "boot" THEN "check" ELSE "death"
      /\ usr1Held' = IF pc = "boot" THEN usr1Held ELSE FALSE
      /\ job' = AtRow(1) /\ child = NoChild /\ freed' = TRUE
      /\ UNCHANGED <<gpcbaList, proc, deaf, refused, want, cldPending, usr1Pending, nCldDeath,
                     nChange, nConnDone, conns, child>>
  BY DEF RowsDone, InRows
<1>2. Types'
  BY <1>1, JobIs DEF IInv, Types
<1>3. Control'
  BY <1>1 DEF Control, Over
<1>4. DeathIsNoted'
  BY <1>1 DEF IInv, DeathIsNoted
<1>5. QED
  BY <1>1, <1>2, <1>3, <1>4, ControlStep

\* A row asks for a number of processes, whatever memory it is read from.
LEMMA FetchedIs ==
  ASSUME IInv, NEW s \in 1..Srv, NEW n \in Fetched(s)
  PROVE  n \in Nat
<1>1. want \in [1..Srv -> Num] /\ Num \subseteq Nat
  BY DaemonAssumption DEF IInv, Types, Wanted
<1>2. QED
  BY <1>1 DEF Fetched

\* A look at one row.
LEMMA VisitRowKeeps ==
  ASSUME IInv, VisitRow
  PROVE  IInv'
<1>1. PICK n \in Fetched(job.srv) :
        job' = IF ProcNum(job.srv) = n THEN AtRow(job.srv + 1)
               ELSE [srv |-> job.srv, k |-> ProcNum(job.srv) + 1, upto |-> n]
  BY DEF VisitRow
<1>2. PICK m : m = ProcNum(job.srv)
  OBVIOUS
<1>3. /\ pc \in {"boot", "vchange"} /\ child = NoChild /\ ~ (job.srv > Srv)
      /\ job' = IF m = n THEN AtRow(job.srv + 1) ELSE [srv |-> job.srv, k |-> m + 1, upto |-> n]
      /\ UNCHANGED <<gpcbaList, proc, deaf, refused, want, freed, cldPending, usr1Pending,
                     usr1Held, nCldDeath, nChange, nConnDone, conns, pc, child>>
  BY <1>1, <1>2 DEF VisitRow, AtFetch, InRows, AtEnd
<1>4. job.srv \in 1..Srv /\ job.srv \in Nat /\ job.srv + 1 \in 1..(Srv + 1) /\ job.srv + 1 \in Nat
  BY <1>3, RowIs DEF IInv, Control
<1>5. m \in Nat
  <2>1. IsFiniteSet(Slot)
    BY FS_Interval, DaemonAssumption DEF Slot
  <2>2. EntriesOf(job.srv) \in SUBSET Slot
    BY DEF EntriesOf
  <2>3. QED
    BY <1>2, <2>1, <2>2, FS_Subset, FS_CardinalityType DEF ProcNum
<1>6. n \in Nat
  BY <1>1, <1>4, FetchedIs
<1>7. job' \in [srv : Nat, k : Nat, upto : Nat] /\ job'.srv \in 1..(Srv + 1)
      /\ (job'.k <= job'.upto => job'.srv \in 1..Srv)
  <2>1. CASE m = n
    BY <1>3, <1>4, <2>1, JobIs
  <2>2. CASE m # n
    <3>1. job' = [srv |-> job.srv, k |-> m + 1, upto |-> n] /\ m + 1 \in Nat
      BY <1>3, <1>5, <2>2
    <3>2. job.srv \in 1..(Srv + 1)
      BY <1>3 DEF IInv, Control
    <3>3. QED
      BY <1>4, <1>6, <3>1, <3>2
  <2>3. QED
    BY <2>1, <2>2
<1>8. Types'
  BY <1>3, <1>7 DEF IInv, Types
<1>9. Control'
  BY <1>3, <1>7 DEF Control, Starting, Over
<1>10. DeathIsNoted'
  BY <1>3 DEF IInv, DeathIsNoted
<1>11. QED
  BY <1>3, <1>8, <1>9, <1>10, ControlStep

\* The daemon reads freed memory and ends there, or is stuck.
LEMMA BreaksKeeps ==
  ASSUME IInv, Breaks
  PROVE  IInv'
<1>1. /\ child = NoChild /\ pc \in {"boot", "vchange", "scan"}
      /\ UNCHANGED <<proc, deaf, refused, want, freed, usr1Pending, usr1Held, nCldDeath,
                     nChange, nConnDone, conns, job, child>>
      /\ \/ /\ pc' = "crashed" /\ gpcbaList' = [i \in Slot |-> EmptyEntry] /\ cldPending' = FALSE
         \/ pc' = "hung" /\ UNCHANGED <<gpcbaList, cldPending>>
  BY DEF Breaks, InRows
<1>2. CASE pc' = "crashed" /\ gpcbaList' = [i \in Slot |-> EmptyEntry] /\ cldPending' = FALSE
  <2>1. gpcbaList' \in [Slot -> Entry] /\ \A i \in Slot : gpcbaList'[i].pid = Gone
    BY <1>2, EmptyIs
  <2>2. Types' /\ Control'
    BY <1>1, <1>2, <2>1 DEF IInv, Types, Control
  <2>3. Forked' /\ Distinct' /\ DeathIsNoted'
    BY <1>1, <2>1, PidIs DEF Forked, Distinct, DeathIsNoted
  <2>4. QED
    BY <2>2, <2>3 DEF IInv
<1>3. CASE pc' = "hung" /\ UNCHANGED <<gpcbaList, cldPending>>
  <2>1. Types'
    BY <1>1, <1>3 DEF IInv, Types
  <2>2. Control'
    BY <1>1, <1>3 DEF Control, Over
  <2>3. DeathIsNoted'
    BY <1>1, <1>3 DEF IInv, DeathIsNoted
  <2>4. QED
    BY <1>1, <1>3, <2>1, <2>2, <2>3, ControlStep
<1>4. QED
  BY <1>1, <1>2, <1>3

\* Steps between the parts of a pass.
LEMMA PassKeeps ==
  ASSUME IInv, LineUp \/ TestChange \/ TestDeath \/ ScanDone \/ WakeUp
  PROVE  IInv'
<1>1. /\ UNCHANGED <<gpcbaList, proc, deaf, refused, want, freed, cldPending, usr1Pending, child>>
      /\ pc \in {"check", "change", "death", "scan", "sleep"}
  BY DEF LineUp, TestChange, TestDeath, ScanDone, WakeUp
<1>2. child = NoChild
  BY <1>1 DEF IInv, Control, ScanDone, LineUp, TestChange, TestDeath, WakeUp
<1>3. CASE LineUp
  <2>1. conns' \in 0..MaxConns
    BY <1>3, DaemonAssumption DEF IInv, Types, LineUp
  <2>2. Types' /\ Control' /\ DeathIsNoted'
    BY <1>2, <1>3, <2>1 DEF LineUp, IInv, Types, Control, Over, DeathIsNoted
  <2>3. QED
    BY <1>1, <1>3, <2>2, ControlStep DEF LineUp
<1>4. CASE TestChange
  <2>1. /\ job' = AtRow(1) /\ pc = "change" /\ pc' \in {"vchange", "death"} /\ nChange' = FALSE
        /\ usr1Held' \in {TRUE, usr1Held} /\ UNCHANGED <<nCldDeath, nConnDone, conns>>
    BY <1>4 DEF TestChange
  <2>2. Types'
    BY <1>1, <2>1, JobIs DEF IInv, Types
  <2>3. Control'
    BY <1>1, <1>2, <2>1, JobIs, RowIs DEF Control, Starting, Over
  <2>4. DeathIsNoted'
    BY <1>1, <2>1 DEF IInv, DeathIsNoted
  <2>5. QED
    BY <1>1, <2>1, <2>2, <2>3, <2>4, ControlStep
<1>5. CASE TestDeath
  <2>1. /\ job' = AtSlot(0) /\ pc = "death" /\ pc' = (IF nCldDeath THEN "scan" ELSE "sleep")
        /\ nCldDeath' = FALSE /\ UNCHANGED <<usr1Held, nChange, nConnDone, conns>>
    BY <1>5 DEF TestDeath
  <2>2. Types'
    BY <1>1, <2>1, JobIs DEF IInv, Types
  <2>3. job'.srv = 0
    BY <2>1, JobIs
  <2>4. Control'
    BY <1>1, <1>2, <2>1, <2>3, SlotIs DEF Control, Over
  <2>5. DeathIsNoted'
    BY <1>1, <2>1, <2>3, SlotIs DEF IInv, Types, DeathIsNoted
  <2>6. Forked' /\ Distinct'
    BY <1>1, <1>2, PidIs DEF IInv, Forked, Distinct
  <2>7. QED
    BY <2>2, <2>4, <2>5, <2>6 DEF IInv
<1>6. CASE ScanDone
  <2>1. /\ pc = "scan" /\ pc' = "sleep" /\ job.srv \notin Slot
        /\ UNCHANGED <<usr1Held, nCldDeath, nChange, nConnDone, conns, job>>
    BY <1>6 DEF ScanDone
  <2>2. job.srv = Slots
    BY <2>1, SlotIs DEF IInv, Control
  <2>3. Types' /\ Control'
    BY <1>1, <1>2, <2>1 DEF IInv, Types, Control, Over
  <2>4. DeathIsNoted'
    BY <1>1, <2>1, <2>2, SlotIs DEF IInv, DeathIsNoted
  <2>5. QED
    BY <1>1, <2>1, <2>3, <2>4, ControlStep
<1>7. CASE WakeUp
  <2>1. Types' /\ Control' /\ DeathIsNoted'
    BY <1>2, <1>7 DEF WakeUp, IInv, Types, Control, Over, DeathIsNoted
  <2>2. QED
    BY <1>1, <1>7, <2>1, ControlStep DEF WakeUp
<1>8. QED
  BY <1>3, <1>4, <1>5, <1>6, <1>7

\* An entry with nothing to do.
LEMMA SkipEntryKeeps ==
  ASSUME IInv, SkipEntry
  PROVE  IInv'
<1>1. /\ pc = "scan" /\ child = NoChild /\ job.srv \in Slot /\ ~Dead(job.srv)
      /\ job' = AtSlot(job.srv + 1)
      /\ UNCHANGED <<gpcbaList, proc, deaf, refused, want, freed, cldPending, usr1Pending, usr1Held, nCldDeath,
                     nChange, nConnDone, conns, pc, child>>
  BY DEF SkipEntry
<1>2. job.srv \in Nat /\ job.srv + 1 \in 0..Slots /\ job.srv + 1 \in Nat
  BY <1>1, SlotIs DEF IInv, Control
<1>3. job'.srv = job.srv + 1 /\ job' \in [srv : Nat, k : Nat, upto : Nat]
  BY <1>1, <1>2, JobIs
<1>4. Types' /\ Control'
  BY <1>1, <1>2, <1>3 DEF IInv, Types, Control, Over
<1>5. DeathIsNoted'
  <2> SUFFICES ASSUME NEW i \in Slot, NEW p \in Pid, p = gpcbaList[i].pid
               PROVE  /\ proc[p] = "zombie" => cldPending
                      /\ proc[p] = "free" => nCldDeath \/ job.srv + 1 <= i
    BY <1>1, <1>3 DEF DeathIsNoted
  <2>1. proc[p] = "zombie" => cldPending
    BY DEF IInv, DeathIsNoted
  <2>2. proc[p] = "free" => nCldDeath \/ job.srv <= i
    BY <1>1 DEF IInv, DeathIsNoted
  <2>3. proc[p] = "free" => i # job.srv
    BY <1>1, PidIs DEF Dead, Exists
  <2>4. QED
    BY <1>2, <2>1, <2>2, <2>3, SlotIs
<1>6. QED
  BY <1>1, <1>4, <1>5, ControlStep

----------------------------------------------------------------------------
(* Starting a process *)

\* The child is new, and has not ended yet.
LEMMA StartKeeps ==
  ASSUME IInv, NEW s, StartProcess(s),
         (pc \in {"boot", "vchange"} /\ Starting) \/ (pc = "scan" /\ job.srv \in Slot /\ Dead(job.srv)),
         UNCHANGED <<gpcbaList, want, freed, cldPending, usr1Pending, usr1Held, nCldDeath, nChange,
                     nConnDone, conns, pc, job>>
  PROVE  IInv'
<1>1. CASE child' \in {Gone, NotForked} /\ UNCHANGED <<proc, deaf, refused>>
  <2>1. Types'
    BY <1>1 DEF IInv, Types
  <2>2. Control'
    BY <1>1 DEF IInv, Control, Starting, Dead, Exists, Over
  <2>3. Forked' /\ Distinct' /\ DeathIsNoted'
    BY <1>1, PidIs DEF IInv, Forked, Distinct, DeathIsNoted
  <2>4. QED
    BY <2>1, <2>2, <2>3 DEF IInv
<1>2. CASE /\ \E p \in Pid : Fresh(p)
           /\ child' = FreshPid /\ proc' = [proc EXCEPT ![FreshPid] = "run"]
           /\ deaf' \in {deaf \cup {FreshPid}, deaf \ {FreshPid}} /\ refused' = refused \ {FreshPid}
  <2>1. FreshPid \in Pid /\ Fresh(FreshPid)
    BY <1>2 DEF FreshPid
  <2>2. /\ proc' \in [Pid -> {"free", "run", "term", "zombie"}]
        /\ proc'[child'] = "run" /\ child' \in Pid
        /\ \A i \in Slot : gpcbaList[i].pid # child'
        /\ \A p \in Pid : p # child' => proc'[p] = proc[p]
    BY <1>2, <2>1 DEF Fresh, IInv, Types
  <2>3. Types'
    <3>1. deaf' \in SUBSET Pid /\ refused' \in SUBSET Pid
      BY <1>2, <2>1 DEF IInv, Types
    <3>2. QED
      BY <2>2, <3>1 DEF IInv, Types
  <2>4. ASSUME NEW i \in Slot, Dead(i) PROVE Dead(i)'
    BY <2>2, <2>4 DEF Dead, Exists
  <2>5. Control'
    <3>1. CASE pc \in {"boot", "vchange"} /\ Starting
      BY <3>1 DEF IInv, Control, Starting, Over
    <3>2. CASE pc = "scan" /\ job.srv \in Slot /\ Dead(job.srv)
      <4>1. Dead(job.srv)'
        BY <2>2, <3>2 DEF Dead, Exists
      <4>2. QED
        BY <3>2, <4>1 DEF IInv, Control, Over
    <3>3. QED
      BY <3>1, <3>2
  <2>6. Forked'
    BY <2>2 DEF Forked
  <2>7. Distinct' /\ DeathIsNoted'
    BY <2>2 DEF IInv, Distinct, DeathIsNoted
  <2>8. QED
    BY <2>3, <2>5, <2>6, <2>7 DEF IInv
<1>3. QED
  BY <1>1, <1>2 DEF StartProcess

----------------------------------------------------------------------------
(* Entering a process in the table *)

\* lInsertPid takes a free entry, if there is one and the pid is not there.
LEMMA InsertIs ==
  ASSUME NEW pid, NEW s, NEW q
  PROVE  \/ /\ Insert(pid, s, q) = gpcbaList
            /\ (\A i \in Slot : gpcbaList[i].pid # Gone) \/ (\E i \in Slot : gpcbaList[i].pid = pid)
         \/ \E k \in Slot : /\ gpcbaList[k].pid = Gone
                            /\ Insert(pid, s, q) =
                                 [gpcbaList EXCEPT ![k] = [pid |-> pid, srv |-> s, seq |-> q]]
<1> DEFINE free == {i \in Slot : gpcbaList[i].pid = Gone}
           k == CHOOSE i \in free : \A j \in free : j <= i
<1>1. CASE free = {} \/ \E i \in Slot : gpcbaList[i].pid = pid
  BY <1>1 DEF Insert
<1>2. CASE ~ (free = {} \/ \E i \in Slot : gpcbaList[i].pid = pid)
  <2>1. \E i \in free : \A j \in free : j <= i
    BY <1>2, Last
  <2>2. k \in free
    BY <2>1
  <2>3. Insert(pid, s, q) = [gpcbaList EXCEPT ![k] = [pid |-> pid, srv |-> s, seq |-> q]]
    BY <1>2 DEF Insert
  <2>4. QED
    BY <2>2, <2>3
<1>3. QED
  BY <1>1, <1>2

\* The child comes into the table, and with it what is known of it.
LEMMA EnterKeeps ==
  ASSUME IInv, NEW k \in Slot, NEW e \in Entry,
         e.pid # Gone => e.srv # NoSrv, e.pid \in Pid => e.pid = child,
         gpcbaList' = [gpcbaList EXCEPT ![k] = e], child' = NoChild,
         UNCHANGED <<proc, cldPending, nCldDeath, pc>>,
         pc = "scan" => k = job.srv /\ job'.srv = job.srv + 1
  PROVE  Forked' /\ Distinct' /\ DeathIsNoted'
         /\ gpcbaList' \in [Slot -> Entry]
         /\ \A i \in Slot : gpcbaList'[i].pid # Gone => gpcbaList'[i].srv # NoSrv
<1>1. /\ gpcbaList' \in [Slot -> Entry] /\ gpcbaList'[k] = e
      /\ \A i \in Slot : i # k => gpcbaList'[i] = gpcbaList[i]
  BY DEF IInv, Types
<1>2. Forked'
  BY PidIs DEF Forked
<1>3. Distinct'
  BY <1>1 DEF IInv, Forked, Distinct
<1>4. DeathIsNoted'
  <2> SUFFICES ASSUME NEW i \in Slot, NEW p \in Pid, p = gpcbaList'[i].pid
               PROVE  /\ proc[p] = "zombie" => cldPending
                      /\ proc[p] = "free" => nCldDeath \/ (pc = "scan" /\ job'.srv <= i) \/ pc = "hung"
    BY <1>1 DEF DeathIsNoted
  <2>1. CASE i = k
    BY <1>1, <2>1 DEF IInv, Forked
  <2>2. CASE i # k
    <3>1. p = gpcbaList[i].pid
      BY <1>1, <2>2
    <3>2. /\ proc[p] = "zombie" => cldPending
          /\ proc[p] = "free" => nCldDeath \/ (pc = "scan" /\ job.srv <= i) \/ pc = "hung"
      BY <3>1 DEF IInv, DeathIsNoted
    <3>3. pc = "scan" /\ job.srv <= i => job'.srv <= i
      BY <2>2, SlotIs
    <3>4. QED
      BY <3>2, <3>3
  <2>3. QED
    BY <2>1, <2>2
<1>5. QED
  BY <1>1, <1>2, <1>3, <1>4 DEF IInv, Types

\* The pid of a new process is put in a free entry.
LEMMA EnterMissingKeeps ==
  ASSUME IInv, EnterMissing
  PROVE  IInv'
<1>1. /\ pc \in {"boot", "vchange"} /\ child # NoChild /\ child' = NoChild
      /\ UNCHANGED <<proc, deaf, want, freed, cldPending, usr1Pending, usr1Held, nCldDeath,
                     nChange, nConnDone, conns, pc>>
      /\ refused' \in {refused, refused \cup ({child} \cap Pid)}
      /\ \/ job' = AtRow(job.srv + 1)
         \/ job' = [job EXCEPT !.k = job.k + 1] /\ job.k < job.upto
  <2>1. refused' \in {refused, refused \cup ({child} \cap Pid)}
    BY DEF EnterMissing
  <2>2. QED
    BY <2>1 DEF EnterMissing
<1>2. job.srv \in 1..Srv /\ job.srv \in Nat /\ job.srv + 1 \in Nat /\ job.srv + 1 \in 1..(Srv + 1)
      /\ job.srv \in 0..Srv /\ job.srv # NoSrv /\ job.k \in Nat
  BY <1>1, RowIs DEF IInv, Control, Types
<1>3. /\ job' \in [srv : Nat, k : Nat, upto : Nat] /\ job'.srv \in 1..(Srv + 1)
      /\ job'.k <= job'.upto => job'.srv \in 1..Srv
  <2>1. CASE job' = AtRow(job.srv + 1)
    BY <1>2, <2>1, JobIs
  <2>2. CASE job' = [job EXCEPT !.k = job.k + 1] /\ job.k < job.upto
    <3>1. job \in [srv : Nat, k : Nat, upto : Nat] /\ job.k + 1 \in Nat
      BY <1>2 DEF IInv, Types
    <3>2. job' \in [srv : Nat, k : Nat, upto : Nat] /\ job'.srv = job.srv
      BY <2>2, <3>1
    <3>3. QED
      BY <1>1, <1>2, <3>2 DEF IInv, Control
  <2>3. QED
    BY <1>1, <2>1, <2>2
<1>4. CASE gpcbaList' = gpcbaList
  <2>1. Types'
    BY <1>1, <1>3, <1>4 DEF IInv, Types
  <2>2. Control'
    BY <1>1, <1>3, <1>4 DEF Control, Starting, Over
  <2>3. Forked' /\ Distinct' /\ DeathIsNoted'
    BY <1>1, <1>4, PidIs DEF IInv, Forked, Distinct, DeathIsNoted
  <2>4. QED
    BY <2>1, <2>2, <2>3 DEF IInv
<1>5. CASE child # Gone /\ gpcbaList' = Insert(child, job.srv, job.k)
  <2>1. PICK e : e = [pid |-> child, srv |-> job.srv, seq |-> job.k]
    OBVIOUS
  <2>2. e \in Entry /\ e.pid = child /\ e.srv # NoSrv
    BY <1>1, <1>2, <1>5, <2>1 DEF Entry, IInv, Types
  <2>3. CASE Insert(child, job.srv, job.k) = gpcbaList
    BY <1>4, <1>5, <2>3
  <2>4. ASSUME NEW k \in Slot, Insert(child, job.srv, job.k) = [gpcbaList EXCEPT ![k] = e]
        PROVE  IInv'
    <3>1. Forked' /\ Distinct' /\ DeathIsNoted'
         /\ gpcbaList' \in [Slot -> Entry]
         /\ \A i \in Slot : gpcbaList'[i].pid # Gone => gpcbaList'[i].srv # NoSrv
      BY <1>1, <1>5, <2>2, <2>4, EnterKeeps
    <3>2. Types'
      BY <1>1, <1>3, <3>1 DEF IInv, Types
    <3>3. Control'
      BY <1>1, <1>3 DEF Control, Starting, Over
    <3>4. QED
      BY <3>1, <3>2, <3>3 DEF IInv
  <2>5. QED
    BY <2>1, <2>3, <2>4, InsertIs
<1>6. gpcbaList' = IF child = Gone \/ (pc = "boot" /\ child = NotForked) THEN gpcbaList
                   ELSE Insert(child, job.srv, job.k)
  BY DEF EnterMissing
<1>7. QED
  BY <1>4, <1>5, <1>6

\* The pid of a process started again replaces the old one.
LEMMA EnterRestartedKeeps ==
  ASSUME IInv, EnterRestarted
  PROVE  IInv'
<1>1. PICK k, e : k = job.srv /\ e = [gpcbaList[k] EXCEPT !.pid = child]
  OBVIOUS
<1>2. /\ pc = "scan" /\ child # NoChild /\ child' = NoChild
      /\ gpcbaList' = [gpcbaList EXCEPT ![k] = e] /\ job' = AtSlot(k + 1) /\ refused' = refused
      /\ UNCHANGED <<proc, deaf, want, freed, cldPending, usr1Pending, usr1Held, nCldDeath,
                     nChange, nConnDone, conns, pc>>
  BY <1>1 DEF EnterRestarted
<1>3. k \in Slot /\ Dead(k) /\ k \in Nat /\ k + 1 \in 0..Slots /\ k + 1 \in Nat
  BY <1>1, <1>2, SlotIs DEF IInv, Control
<1>4. e \in Entry /\ e.pid = child /\ e.srv # NoSrv
  <2>1. gpcbaList[k] \in Entry /\ gpcbaList[k].srv # NoSrv
    BY <1>3 DEF IInv, Types, Dead
  <2>2. child \in Pid \cup {Gone, NotForked}
    BY <1>2 DEF IInv, Types
  <2>3. QED
    BY <1>1, <2>1, <2>2 DEF Entry
<1>5. job' \in [srv : Nat, k : Nat, upto : Nat] /\ job'.srv = k + 1
  BY <1>2, <1>3, JobIs
<1>6. Forked' /\ Distinct' /\ DeathIsNoted'
      /\ gpcbaList' \in [Slot -> Entry]
      /\ \A i \in Slot : gpcbaList'[i].pid # Gone => gpcbaList'[i].srv # NoSrv
  BY <1>1, <1>2, <1>3, <1>4, <1>5, EnterKeeps
<1>7. Types' /\ Control'
  BY <1>2, <1>3, <1>5, <1>6 DEF IInv, Types, Control, Over
<1>8. QED
  BY <1>6, <1>7 DEF IInv

----------------------------------------------------------------------------
(* Stopping processes *)

\* Processes that run are told to end, and no others.
LEMMA TerminatedIs ==
  ASSUME IInv, NEW S, NEW after, after = Terminated(S) \/ after = GroupTerminated
  PROVE  /\ after \in [Pid -> {"free", "run", "term", "zombie"}]
         /\ \A p \in Pid : after[p] # proc[p] => proc[p] = "run" /\ after[p] = "term"
BY DEF IInv, Types, Terminated, GroupTerminated

\* A process too many is told to end and its entry is cleared.
LEMMA StopExcessKeeps ==
  ASSUME IInv, StopExcess
  PROVE  IInv'
<1> PICK n \in Fetched(job.srv) :
      /\ gpcbaList' = [i \in Slot |-> IF i \in Excess(n) THEN Leaves(gpcbaList[i]) ELSE gpcbaList[i]]
      /\ proc' = Terminated(Excess(n))
  BY DEF StopExcess
<1>1. /\ pc \in {"boot", "vchange"} /\ child = NoChild /\ ~ (job.srv > Srv)
      /\ proc' = Terminated(Excess(n)) /\ job' = AtRow(job.srv + 1)
      /\ gpcbaList' = [i \in Slot |-> IF i \in Excess(n) THEN Leaves(gpcbaList[i]) ELSE gpcbaList[i]]
      /\ UNCHANGED <<deaf, refused, want, freed, cldPending, usr1Pending, usr1Held, nCldDeath,
                     nChange, nConnDone, conns, pc, child>>
  BY DEF StopExcess, AtFetch, InRows, AtEnd
<1>2. \A i \in Slot : Leaves(gpcbaList[i]) \in Entry /\ Leaves(gpcbaList[i]).pid = Gone
  <2> SUFFICES ASSUME NEW i \in Slot
               PROVE  Leaves(gpcbaList[i]) \in Entry /\ Leaves(gpcbaList[i]).pid = Gone
    OBVIOUS
  <2>1. gpcbaList[i].seq \in Nat /\ 0 \in 0..Srv
    BY DaemonAssumption DEF IInv, Types, Entry
  <2>2. Leaves(gpcbaList[i]) = [pid |-> Gone, srv |-> NoSrv, seq |-> gpcbaList[i].seq]
    BY DEF Leaves, EmptyEntry
  <2>3. QED
    BY <2>1, <2>2 DEF Entry, NoSrv
<1>3. /\ gpcbaList' \in [Slot -> Entry]
      /\ \A i \in Slot : gpcbaList'[i] = gpcbaList[i] \/ gpcbaList'[i].pid = Gone
  BY <1>1, <1>2 DEF IInv, Types
<1>4. /\ proc' \in [Pid -> {"free", "run", "term", "zombie"}]
      /\ \A p \in Pid : proc'[p] # proc[p] => proc[p] = "run" /\ proc'[p] = "term"
  BY <1>1, TerminatedIs
<1>5. job.srv \in Nat /\ job.srv + 1 \in 1..(Srv + 1) /\ job.srv + 1 \in Nat
  BY <1>1, RowIs DEF IInv, Control
<1>6. job' \in [srv : Nat, k : Nat, upto : Nat] /\ job'.srv \in 1..(Srv + 1)
      /\ ~ (job'.k <= job'.upto)
  BY <1>1, <1>5, JobIs
<1>7. Types'
  BY <1>1, <1>3, <1>4, <1>6 DEF IInv, Types
<1>8. Control'
  BY <1>1, <1>6 DEF Control, Starting, Over
<1>9. Forked' /\ Distinct' /\ DeathIsNoted'
  BY <1>1, <1>3, <1>4, PidIs DEF IInv, Forked, Distinct, DeathIsNoted
<1>10. QED
  BY <1>7, <1>8, <1>9 DEF IInv

\* vStopAllProcess leaves no process in the table.
LEMMA StopAllIs ==
  ASSUME IInv, NEW window, StopAll(window)
  PROVE  /\ gpcbaList' \in [Slot -> Entry] /\ \A i \in Slot : gpcbaList'[i].pid = Gone
         /\ proc' \in [Pid -> {"free", "run", "term", "zombie"}]
         /\ cldPending' = FALSE /\ deaf' \in SUBSET deaf
         /\ \A p \in Pid : proc'[p] = "run" =>
              proc[p] = "run" /\ \A i \in Slot : gpcbaList[i].pid # p
<1>1. PICK after : /\ after = (IF HitsGroup(Stopped) THEN GroupTerminated ELSE Terminated(Stopped))
                   /\ proc' = [p \in Pid |-> IF after[p] # proc[p] /\ p \in window THEN "free" ELSE after[p]]
  BY DEF StopAll
<1>2. /\ after \in [Pid -> {"free", "run", "term", "zombie"}]
      /\ \A p \in Pid : after[p] # proc[p] => proc[p] = "run" /\ after[p] = "term"
  BY <1>1, TerminatedIs
<1>3. \A p \in Pid : proc[p] = "run" /\ (\E i \in Slot : gpcbaList[i].pid = p) => after[p] = "term"
  BY <1>1 DEF Terminated, GroupTerminated, Stopped
<1>4. proc' \in [Pid -> {"free", "run", "term", "zombie"}]
  BY <1>1, <1>2
<1>5. ASSUME NEW p \in Pid, proc'[p] = "run"
      PROVE  proc[p] = "run" /\ \A i \in Slot : gpcbaList[i].pid # p
  <2>1. after[p] = "run"
    BY <1>1, <1>5
  <2>2. QED
    BY <1>2, <1>3, <2>1
<1>6. gpcbaList' \in [Slot -> Entry] /\ \A i \in Slot : gpcbaList'[i].pid = Gone
  <2>1. gpcbaList' = [i \in Slot |-> [gpcbaList[i] EXCEPT !.pid = Gone]]
    BY DEF StopAll, Stopped
  <2>2. \A i \in Slot : [gpcbaList[i] EXCEPT !.pid = Gone] \in Entry
                        /\ [gpcbaList[i] EXCEPT !.pid = Gone].pid = Gone
    BY DEF IInv, Types, Entry
  <2>3. QED
    BY <2>1, <2>2
<1>7. cldPending' = FALSE /\ deaf' \in SUBSET deaf
  <2>1. CASE deaf' = deaf
    BY <2>1 DEF StopAll
  <2>2. CASE deaf' \in SUBSET {p \in deaf : proc[p] # "term"}
    BY <2>2 DEF StopAll
  <2>3. QED
    BY <2>1, <2>2 DEF StopAll
<1>8. QED
  BY <1>4, <1>5, <1>6, <1>7

\* The daemon ends.
LEMMA ExitKeeps ==
  ASSUME IInv, Exit
  PROVE  IInv'
<1>1. /\ pc' = "gone" /\ StopAll({}) /\ child' = NoChild
      /\ UNCHANGED <<refused, want, freed, usr1Pending, usr1Held, nCldDeath, nChange,
                     nConnDone, conns, job>>
  BY DEF Exit
<1>2. /\ gpcbaList' \in [Slot -> Entry] /\ \A i \in Slot : gpcbaList'[i].pid = Gone
      /\ proc' \in [Pid -> {"free", "run", "term", "zombie"}] /\ cldPending' = FALSE
      /\ deaf' \in SUBSET deaf
  BY <1>1, StopAllIs
<1>3. Types' /\ Control'
  BY <1>1, <1>2 DEF IInv, Types, Control
<1>4. Forked' /\ Distinct' /\ DeathIsNoted'
  BY <1>1, <1>2, PidIs DEF Forked, Distinct, DeathIsNoted
<1>5. QED
  BY <1>3, <1>4 DEF IInv

\* The connection is lost and all processes are stopped.
LEMMA LineDownKeeps ==
  ASSUME IInv, LineDown
  PROVE  IInv'
<1>1. /\ pc = "check" /\ pc' \in {"gone", "check"} /\ \E window : StopAll(window)
      /\ conns' \in {0, conns} /\ nConnDone' \in {TRUE, nConnDone}
      /\ UNCHANGED <<refused, want, freed, usr1Pending, usr1Held, nCldDeath, nChange, job, child>>
  BY DEF LineDown
<1>2. /\ gpcbaList' \in [Slot -> Entry] /\ \A i \in Slot : gpcbaList'[i].pid = Gone
      /\ proc' \in [Pid -> {"free", "run", "term", "zombie"}] /\ cldPending' = FALSE
      /\ deaf' \in SUBSET deaf
  BY <1>1, StopAllIs
<1>3. child = NoChild /\ 0 \in 0..MaxConns
  BY <1>1, DaemonAssumption DEF IInv, Control
<1>4. Types' /\ Control'
  BY <1>1, <1>2, <1>3 DEF IInv, Types, Control
<1>5. Forked' /\ Distinct' /\ DeathIsNoted'
  BY <1>1, <1>2, <1>3, PidIs DEF Forked, Distinct, DeathIsNoted
<1>6. QED
  BY <1>4, <1>5 DEF IInv

----------------------------------------------------------------------------
(* Signals, children and the administrator *)

LEMMA HandleChildDeathKeeps ==
  ASSUME IInv, HandleChildDeath
  PROVE  IInv'
<1>1. /\ pc \notin {"boot", "scan", "gone", "crashed"} /\ cldPending' = FALSE /\ nCldDeath' = TRUE
      /\ proc' = [p \in Pid |-> IF proc[p] = "zombie" THEN "free" ELSE proc[p]]
      /\ UNCHANGED <<gpcbaList, deaf, refused, want, freed, usr1Pending, usr1Held, nChange,
                     nConnDone, conns, pc, job, child>>
  BY DEF HandleChildDeath, CldHeld, Over
<1>2. /\ proc' \in [Pid -> {"free", "run", "term", "zombie"}]
      /\ \A p \in Pid : proc'[p] # "zombie"
  BY <1>1 DEF IInv, Types
<1>3. Types'
  BY <1>1, <1>2 DEF IInv, Types
<1>4. Control'
  BY <1>1 DEF IInv, Control, Starting, Over
<1>5. Forked' /\ Distinct'
  BY <1>1, <1>2 DEF IInv, Forked, Distinct
<1>6. DeathIsNoted'
  BY <1>1, <1>2 DEF DeathIsNoted
<1>7. QED
  BY <1>3, <1>4, <1>5, <1>6 DEF IInv

\* Somebody changes the configuration, or the daemon is told of it.
LEMMA OutsideKeeps ==
  ASSUME IInv, HandleChange \/ Reconfigure
  PROVE  IInv'
<1>1. /\ UNCHANGED <<gpcbaList, proc, deaf, refused, want, freed, child, cldPending, nCldDeath,
                     usr1Held, nConnDone, conns, pc, job>>
      /\ usr1Pending' \in BOOLEAN /\ nChange' \in {TRUE, nChange}
  BY DEF HandleChange, Reconfigure
<1>2. Types'
  <2>1. nChange' \in BOOLEAN
    BY <1>1 DEF IInv, Types
  <2>2. QED
    BY <1>1, <2>1 DEF IInv, Types
<1>3. Control'
  <2>1. UNCHANGED <<gpcbaList, proc, child, cldPending, nCldDeath, pc, job>>
    BY <1>1
  <2>2. QED
    BY <1>1, <2>1 DEF IInv, Control, Starting, Dead, Exists, Over
<1>4. DeathIsNoted'
  BY <1>1 DEF IInv, DeathIsNoted
<1>5. QED
  BY <1>1, <1>2, <1>3, <1>4, ControlStep

\* A child ends and becomes a zombie.
LEMMA EndKeeps ==
  ASSUME IInv, NEW p \in Pid, proc[p] \in {"run", "term"}, End(p)
  PROVE  IInv'
<1>1. /\ proc' = [proc EXCEPT ![p] = IF Over THEN "free" ELSE "zombie"]
      /\ cldPending' = ~Over
      /\ UNCHANGED <<gpcbaList, deaf, refused, want, freed, usr1Pending, usr1Held, nCldDeath,
                     nChange, nConnDone, conns, pc, job, child>>
  BY DEF End
<1>2. /\ proc' \in [Pid -> {"free", "run", "term", "zombie"}]
      /\ proc'[p] = IF Over THEN "free" ELSE "zombie"
      /\ \A q \in Pid : q # p => proc'[q] = proc[q]
  BY <1>1 DEF IInv, Types
<1>3. cldPending' \in BOOLEAN
  BY <1>1
<1>4. Types'
  BY <1>1, <1>2, <1>3 DEF IInv, Types
<1>5. CASE Over
  <2>1. child = NoChild /\ \A i \in Slot : gpcbaList[i].pid = Gone
    BY <1>5 DEF IInv, Control, Over
  <2>2. Control'
    BY <1>1, <1>5, <2>1 DEF Control, Over
  <2>3. Forked' /\ Distinct' /\ DeathIsNoted'
    BY <1>1, <2>1, PidIs DEF Forked, Distinct, DeathIsNoted
  <2>4. QED
    BY <1>4, <2>2, <2>3 DEF IInv
<1>6. CASE ~Over
  <2>1. \A q \in Pid : proc'[q] = "free" <=> proc[q] = "free"
    BY <1>2, <1>6
  <2>2. job.srv \in Slot => (Dead(job.srv)' <=> Dead(job.srv))
    BY <1>1, <2>1 DEF Dead, Exists
  <2>3. Control'
    BY <1>1, <1>6, <2>2 DEF IInv, Control, Starting, Over
  <2>4. cldPending' = TRUE
    BY <1>1, <1>6
  <2>5. Forked' /\ Distinct' /\ DeathIsNoted'
    BY <1>1, <2>1, <2>4 DEF IInv, Forked, Distinct, DeathIsNoted
  <2>6. QED
    BY <1>4, <2>3, <2>5 DEF IInv
<1>7. QED
  BY <1>5, <1>6

----------------------------------------------------------------------------
(* The invariant *)

LEMMA InitHolds == Init => IInv
<1> SUFFICES ASSUME Init PROVE IInv
  OBVIOUS
<1>1. gpcbaList \in [Slot -> Entry] /\ \A i \in Slot : gpcbaList[i].pid = Gone
  <2>1. QED
    BY EmptyIs DEF Init
<1>2. job \in [srv : Nat, k : Nat, upto : Nat] /\ job.srv = 1 /\ ~ (job.k <= job.upto)
  BY JobIs DEF Init
<1>3. 1 \in 0..MaxConns
  BY DaemonAssumption
<1>4. Types
  BY <1>1, <1>2, <1>3 DEF Init, Types
<1>5. Control
  BY <1>2, RowIs DEF Init, Control, Starting, Over
<1>6. Forked /\ Distinct /\ DeathIsNoted
  BY <1>1, PidIs DEF Init, Forked, Distinct, DeathIsNoted
<1>7. QED
  BY <1>4, <1>5, <1>6 DEF IInv

\* Every step keeps the invariant.
LEMMA NextKeeps == IInv /\ [Next]_vars => IInv'
<1> SUFFICES ASSUME IInv, [Next]_vars PROVE IInv'
  OBVIOUS
<1>1. CASE RowsDone \/ Breaks
  BY <1>1, RowsDoneKeeps, BreaksKeeps
<1>2. CASE VisitRow \/ StopExcess
  BY <1>2, VisitRowKeeps, StopExcessKeeps
<1>3. CASE StopItself \/ HandleExit
  BY <1>3, ExitKeeps DEF StopItself, HandleExit
<1>4. CASE StartMissing
  BY <1>4, StartKeeps DEF StartMissing, InRows
<1>5. CASE RestartEntry
  BY <1>5, StartKeeps DEF RestartEntry
<1>6. CASE EnterMissing \/ EnterRestarted
  BY <1>6, EnterMissingKeeps, EnterRestartedKeeps
<1>7. CASE LineUp \/ TestChange \/ TestDeath \/ ScanDone \/ WakeUp
  BY <1>7, PassKeeps
<1>8. CASE LineDown \/ SkipEntry \/ HandleChildDeath
  BY <1>8, LineDownKeeps, SkipEntryKeeps, HandleChildDeathKeeps
<1>9. CASE HandleChange \/ Reconfigure
  BY <1>9, OutsideKeeps
<1>10. ASSUME NEW p \in Pid, Dies(p) \/ EndsOnSigterm(p) PROVE IInv'
  BY <1>10, EndKeeps DEF Dies, EndsOnSigterm
<1>11. CASE UNCHANGED vars
  <2>1. Types' /\ DeathIsNoted'
    BY <1>11 DEF vars, IInv, Types, DeathIsNoted
  <2>2. Control'
    BY <1>11 DEF vars, IInv, Control, Starting, Dead, Exists, Over
  <2>3. QED
    BY <1>11, <2>1, <2>2, ControlStep DEF vars
<1>12. QED
  BY <1>1, <1>2, <1>3, <1>4, <1>5, <1>6, <1>7, <1>8, <1>9, <1>10, <1>11 DEF Next, MainLoop

----------------------------------------------------------------------------
(* The account of the processes that run *)

\* Only a fork adds to them, and then to the child.
LEMMA AccountKept ==
  ASSUME IInv, Accounted, ~Over, pc' \notin {"gone", "crashed"}, refused \subseteq refused',
         \A p \in Pid : proc'[p] = "run" =>
           \/ child' = p
           \/ /\ proc[p] = "run" /\ child # p
              /\ \A i \in Slot : gpcbaList[i].pid = p => \E j \in Slot : gpcbaList'[j].pid = p
  PROVE  Accounted'
BY DEF Accounted, Over

\* Exit stops every process in the table; the one just forked may stay.
LEMMA ExitAccounts ==
  ASSUME IInv, Accounted, Exit, ~Over
  PROVE  Accounted'
<1>1. pc' = "gone" /\ StopAll({}) /\ refused' = refused
  BY DEF Exit
<1>2. \A p \in Pid : proc'[p] = "run" =>
              proc[p] = "run" /\ \A i \in Slot : gpcbaList[i].pid # p
  BY <1>1, StopAllIs
<1>3. PICK x : x = child
  OBVIOUS
<1>4. \A p \in Pid : proc'[p] = "run" => p = x \/ p \in refused
  BY <1>2, <1>3 DEF Accounted, Over
<1>5. QED
  BY <1>1, <1>4 DEF Accounted

\* A lost connection stops every process, and none was just forked.
LEMMA LineDownAccounts ==
  ASSUME IInv, Accounted, LineDown
  PROVE  Accounted'
<1>1. pc = "check" /\ pc' \in {"check", "gone"} /\ refused' = refused /\ \E window : StopAll(window)
  BY DEF LineDown
<1>2. child = NoChild
  BY <1>1 DEF IInv, Control
<1>3. \A p \in Pid : proc'[p] = "run" =>
              proc[p] = "run" /\ \A i \in Slot : gpcbaList[i].pid # p
  BY <1>1, StopAllIs
<1>4. \A p \in Pid : proc'[p] = "run" => p \in refused'
  BY <1>1, <1>2, <1>3, PidIs DEF Accounted
<1>5. QED
  BY <1>1, <1>4 DEF Accounted

\* A new child is in no entry yet: it is the one stray that may be.
LEMMA StartAccounts ==
  ASSUME IInv, Accounted, NEW s, StartProcess(s), UNCHANGED <<gpcbaList, pc>>, ~Over
  PROVE  Accounted'
<1>1. CASE UNCHANGED <<proc, refused>>
  BY <1>1, PidIs DEF StartProcess, Accounted, Over
<1>2. CASE /\ child' = FreshPid /\ proc' = [proc EXCEPT ![FreshPid] = "run"]
           /\ refused' = refused \ {FreshPid}
  <2>1. child = NoChild /\ \A p \in Pid : proc'[p] = "run" => proc[p] = "run" \/ p = child'
    BY <1>2 DEF StartProcess, IInv, Types
  <2>2. \A p \in Pid : p \in refused => p \in refused' \/ p = child'
    BY <1>2
  <2>3. QED
    BY <2>1, <2>2, PidIs DEF Accounted, Over
<1>3. QED
  BY <1>1, <1>2 DEF StartProcess

\* A process whose entry is cleared has been told to end.
LEMMA StopExcessAccounts ==
  ASSUME IInv, Accounted, StopExcess
  PROVE  Accounted'
<1> PICK n \in Fetched(job.srv) :
      /\ gpcbaList' = [i \in Slot |-> IF i \in Excess(n) THEN Leaves(gpcbaList[i]) ELSE gpcbaList[i]]
      /\ proc' = Terminated(Excess(n))
  BY DEF StopExcess
<1>1. /\ pc \in {"boot", "vchange"} /\ pc' = pc /\ child = NoChild /\ child' = child
      /\ proc' = Terminated(Excess(n)) /\ refused' = refused
      /\ gpcbaList' = [i \in Slot |-> IF i \in Excess(n) THEN Leaves(gpcbaList[i]) ELSE gpcbaList[i]]
  BY DEF StopExcess, AtFetch, InRows
<1>2. ASSUME NEW p \in Pid, proc'[p] = "run"
      PROVE  /\ proc[p] = "run"
             /\ \A i \in Slot : gpcbaList[i].pid = p => gpcbaList'[i].pid = p
  BY <1>1, <1>2 DEF Terminated
<1>3. \A p \in Pid : child # p
  BY <1>1, PidIs
<1>4. QED
  BY <1>1, <1>2, <1>3, AccountKept DEF Over

\* The new child is in the table now, or it was refused.
LEMMA EnterMissingAccounts ==
  ASSUME IInv, Accounted, EnterMissing
  PROVE  Accounted'
<1>1. /\ pc \in {"boot", "vchange"} /\ pc' = pc /\ child # NoChild /\ child' = NoChild /\ proc' = proc
      /\ gpcbaList' = IF child = Gone \/ (pc = "boot" /\ child = NotForked) THEN gpcbaList
                      ELSE Insert(child, job.srv, job.k)
      /\ refused' = IF child \in Pid /\ gpcbaList' = gpcbaList THEN refused \cup {child} ELSE refused
  BY DEF EnterMissing
<1>2. CASE gpcbaList' = gpcbaList
  <2>1. \A p \in Pid : child = p \/ p \in refused => p \in refused'
    BY <1>1, <1>2
  <2>2. QED
    BY <1>1, <1>2, <2>1 DEF Accounted
<1>3. ASSUME NEW k \in Slot, gpcbaList[k].pid = Gone,
             gpcbaList' = [gpcbaList EXCEPT ![k] = [pid |-> child, srv |-> job.srv, seq |-> job.k]]
      PROVE  Accounted'
  <2>1. gpcbaList'[k].pid = child /\ \A i \in Slot : i # k => gpcbaList'[i] = gpcbaList[i]
    BY <1>3 DEF IInv, Types
  <2>2. refused \subseteq refused'
    BY <1>1
  <2>3. ASSUME NEW p \in Pid, proc'[p] = "run", p \notin refused'
        PROVE  \E j \in Slot : gpcbaList'[j].pid = p
    BY <1>1, <1>3, <2>1, <2>2, <2>3, PidIs DEF Accounted
  <2>4. QED
    BY <1>1, <2>3 DEF Accounted
<1>4. CASE gpcbaList' = Insert(child, job.srv, job.k)
  BY <1>2, <1>3, <1>4, InsertIs
<1>5. QED
  BY <1>1, <1>2, <1>4

\* The old entry takes the new child; the pid it held has ended.
LEMMA EnterRestartedAccounts ==
  ASSUME IInv, Accounted, EnterRestarted
  PROVE  Accounted'
<1>1. PICK k : k = job.srv
  OBVIOUS
<1>2. /\ pc = "scan" /\ pc' = pc /\ child # NoChild /\ child' = NoChild /\ proc' = proc
      /\ refused' = refused
      /\ gpcbaList' = [gpcbaList EXCEPT ![k] = [gpcbaList[k] EXCEPT !.pid = child]]
  BY <1>1 DEF EnterRestarted
<1>3. k \in Slot /\ Dead(k)
  BY <1>1, <1>2 DEF IInv, Control
<1>4. gpcbaList'[k].pid = child /\ \A i \in Slot : i # k => gpcbaList'[i] = gpcbaList[i]
  BY <1>2, <1>3 DEF IInv, Types, Entry
<1>5. ASSUME NEW p \in Pid, proc[p] = "run" PROVE gpcbaList[k].pid # p
  BY <1>3, <1>5, PidIs DEF Dead, Exists
<1>6. ASSUME NEW p \in Pid, proc'[p] = "run", p \notin refused
      PROVE  \E j \in Slot : gpcbaList'[j].pid = p
  BY <1>2, <1>3, <1>4, <1>5, <1>6 DEF Accounted
<1>7. QED
  BY <1>2, <1>6 DEF Accounted

\* Every step keeps account of each child.
LEMMA NextAccounts == IInv /\ Accounted /\ [Next]_vars => Accounted'
<1> SUFFICES ASSUME IInv, Accounted, [Next]_vars PROVE Accounted'
  OBVIOUS
<1>1. CASE /\ UNCHANGED <<gpcbaList, proc, child, refused>> /\ pc # "crashed"
           /\ pc' = "gone" <=> pc = "gone"
  BY <1>1 DEF Accounted
<1>2. CASE StopItself \/ HandleExit
  BY <1>2, ExitAccounts DEF StopItself, HandleExit, AtFetch, InRows, Over
<1>3. CASE LineDown
  BY <1>3, LineDownAccounts
<1>4. CASE StartMissing
  BY <1>4, StartAccounts DEF StartMissing, InRows, Over
<1>5. CASE RestartEntry
  BY <1>5, StartAccounts DEF RestartEntry, Over
<1>6. CASE StopExcess \/ EnterMissing \/ EnterRestarted
  BY <1>6, StopExcessAccounts, EnterMissingAccounts, EnterRestartedAccounts
<1>7. CASE HandleChildDeath
  <2>1. \A p \in Pid : proc'[p] = "run" => proc[p] = "run"
    BY <1>7 DEF HandleChildDeath
  <2>2. QED
    BY <1>7, <2>1 DEF HandleChildDeath, Accounted, Over
<1>8. ASSUME NEW p \in Pid, Dies(p) \/ EndsOnSigterm(p) PROVE Accounted'
  <2>1. UNCHANGED <<gpcbaList, pc, child, refused>> /\ \A q \in Pid : proc'[q] = "run" => proc[q] = "run"
    BY <1>8 DEF Dies, EndsOnSigterm, End, IInv, Types
  <2>2. QED
    BY <2>1 DEF Accounted
<1>9. CASE pc' = "crashed"
  BY <1>9 DEF Accounted
<1>10. CASE Breaks
  <2>1. /\ UNCHANGED <<proc, child, refused>> /\ pc \notin {"gone", "crashed"}
        /\ pc' = "crashed" \/ (pc' = "hung" /\ gpcbaList' = gpcbaList)
    BY <1>10 DEF Breaks, InRows
  <2>2. QED
    BY <1>1, <1>9, <2>1
<1>11. CASE UNCHANGED vars
  BY <1>1, <1>9, <1>11 DEF vars
<1>12. CASE HandleChange \/ Reconfigure
  BY <1>1, <1>12 DEF HandleChange, Reconfigure, Over
<1>13. CASE RowsDone \/ VisitRow \/ LineUp \/ TestChange \/ TestDeath \/ SkipEntry \/ ScanDone
            \/ WakeUp
  BY <1>1, <1>13 DEF RowsDone, VisitRow, LineUp, TestChange, TestDeath, SkipEntry, ScanDone, WakeUp,
     AtFetch, InRows
<1>14. QED
  BY <1>2, <1>3, <1>4, <1>5, <1>6, <1>7, <1>8, <1>10, <1>11, <1>12, <1>13 DEF Next, MainLoop

----------------------------------------------------------------------------
(* The theorems *)

\* The invariant holds in every instance.
THEOREM Inductive == Spec => []IInv
<1>1. QED
  BY InitHolds, NextKeeps, PTL DEF Spec

\* However many processes die and whenever, also between fork and the entry of
\* the pid: no death of a process of the table is forgotten (Daemon.c:464, 982).
THEOREM NoDeathIsForgotten == Spec => []DeathIsNoted
<1>1. IInv => DeathIsNoted
  BY DEF IInv
<1>2. QED
  BY <1>1, Inductive, PTL

\* The variables keep their types, whatever fails (Daemon.c:347, 490).
THEOREM Typed == Spec => []TypeOK
<1>1. IInv => TypeOK
  BY DEF IInv, Types, Entry, TypeOK
<1>2. QED
  BY <1>1, Inductive, PTL

\* Processes are accounted for.
LEMMA Account == Spec => []Accounted
<1>1. Init => Accounted
  BY DEF Init, Accounted
<1>2. QED
  BY <1>1, Inductive, NextAccounts, PTL DEF Spec

\* No process the daemon started escapes it but those that a full table refused,
\* whichever calls fail and whatever rows vChange finds (Daemon.c:347, 363).
THEOREM NoneEscapes == Spec => []Tracked
<1>1. IInv /\ Accounted => Tracked
  <2> SUFFICES ASSUME IInv, Accounted, ~Over, NEW p \in Pid, proc[p] = "run", child # p,
                      p \notin refused \/ \E i \in Slot : gpcbaList[i].pid = p
               PROVE  Cardinality({i \in Slot : gpcbaList[i].pid = p}) = 1
    BY DEF Tracked
  <2>1. PICK i \in Slot : gpcbaList[i].pid = p
    BY DEF Accounted, Over
  <2>2. {j \in Slot : gpcbaList[j].pid = p} = {i}
    BY <2>1 DEF IInv, Distinct
  <2>3. QED
    BY <2>2, FS_Singleton
<1>2. QED
  BY <1>1, Inductive, Account, PTL

\* A SIGTERM, at whatever step, leaves at most one process untold: the one that was
\* being forked (Daemon.c:432, 720).
THEOREM OneIsUntold == Spec => []OneUntold
<1>1. Accounted => OneUntold
  <2> SUFFICES ASSUME Accounted, pc = "gone"
               PROVE  Cardinality({p \in Pid : proc[p] = "run" /\ p \notin refused}) <= 1
    BY DEF OneUntold
  <2>1. PICK x : \A p \in Pid : proc[p] = "run" => p = x \/ p \in refused
    BY DEF Accounted
  <2>2. {p \in Pid : proc[p] = "run" /\ p \notin refused} \in SUBSET {x}
    BY <2>1
  <2>3. IsFiniteSet({x}) /\ Cardinality({x}) = 1
    BY FS_Singleton
  <2>4. QED
    BY <2>2, <2>3, FS_Subset
<1>2. QED
  BY <1>1, Account, PTL
=============================================================================
