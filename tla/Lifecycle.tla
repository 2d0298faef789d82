----------------------------- MODULE Lifecycle -----------------------------
(***************************************************************************)
(* nc_init and nc_close (internal.c): processes that come, go, crash and   *)
(* come again, the shared memory they find each other in, and the decision *)
(* who is the first and who is the last, and so cleans up what all of them *)
(* share: the sessions file, the semaphores and the datastore locks.       *)
(* The build without POSIX_SHM (System V shared memory) is modelled.       *)
(***************************************************************************)
EXTENDS Naturals, Integers, FiniteSets, FiniteSetsExt

CONSTANTS
  NONE,
  Procs,        \* slots for processes
  Comm,         \* slot -> its command name (/proc/<pid>/comm)
  Multi,        \* the slots that use NC_INIT_MULTILAYER
  AppsMax,      \* NC_APPS_MAX
  Memories,     \* identifiers of shared memory segments
  MaxStarts     \* bound: how often a slot is started

ASSUME LifecycleAssumption ==
  /\ NONE \notin Memories \cup Procs
  /\ AppsMax \in Nat /\ MaxStarts \in Nat
  /\ \A p, q \in Procs, n \in 0..MaxStarts : [pid |-> <<p, n>>, comm |-> Comm[q]] # NONE

VARIABLES
  key,          \* the segment found under the library's key
  mem,          \* segment -> its contents
  pr,           \* slot -> its process
  due,          \* history: command -> its crashes since the segment was made that
                \*   were not reported yet
  forgotten,    \* history: the commands with such crashes in a segment removed since
  calm          \* history: no start or crash met the making or the removal of a
                \*   segment, and the table of applications was never full

vars == <<key, mem, pr, due, forgotten, calm>>

Slots == 1..AppsMax
Fresh == [set |-> FALSE, lock |-> NONE, participants |-> 0, apps |-> [i \in Slots |-> NONE]]
Out(n) == [pc |-> "out", starts |-> n, at |-> NONE, made |-> FALSE, first |-> FALSE,
           ret |-> {}, owed |-> {}]

Pid(p) == <<p, pr[p].starts>>
Alive(p) == pr[p].pc # "out"
Attached(m) == {p \in Procs : pr[p].at = m /\ pr[p].pc \notin {"out", "attach"}}
Goto(p, pc) == pr' = [pr EXCEPT ![p].pc = pc]
At(p, pc) == pr[p].pc = pc
Mem(p) == mem[pr[p].at]

(***************************************************************************)
(* The table of applications.                                              *)
(***************************************************************************)
\* An entry whose process does not run any more (no /proc/<pid>/comm).
Crashed(entry) == LET p == entry.pid[1] IN ~(Alive(p) /\ Pid(p) = entry.pid)

Valid(apps) == {i \in Slots : apps[i] # NONE}

Own_named(apps, p) == {i \in Valid(apps) : apps[i].comm = Comm[p]}

\* The entries of this command that crashed, and this process's own entry.
Own(apps, p) ==
  {i \in Valid(apps) : apps[i].pid = Pid(p)
                       \/ (apps[i].comm = Comm[p] /\ Crashed(apps[i]))}

Others_named(apps, p) == {i \in Valid(apps) : apps[i].comm # Comm[p] /\ ~Crashed(apps[i])}

Others(apps, p) == {i \in Valid(apps) : apps[i].pid # Pid(p) /\ ~Crashed(apps[i])}

nc_apps_check(apps, p) ==
  [own |-> Own(apps, p) # {}, others |-> Others(apps, p) # {},
   apps |-> IF Own(apps, p) = {} THEN apps ELSE [apps EXCEPT ![Max(Own(apps, p))] = NONE]]

\* A full table is only worth a message.
nc_apps_add(apps, p) ==
  LET free == Slots \ Valid(apps)
  IN IF free = {} THEN apps
     ELSE [apps EXCEPT ![Min(free)] = [pid |-> Pid(p), comm |-> Comm[p]]]

(***************************************************************************)
(* nc_init.                                                                *)
(***************************************************************************)
Unused == {m \in Memories : m # key /\ \A p \in Procs : pr[p].at # m}
Closing == \E q \in Procs : At(q, "remove")

\* shmget with IPC_EXCL, then without.
OpenMemory(p) ==
  /\ At(p, "out")
  /\ pr[p].starts < MaxStarts
  /\ \/ /\ key = NONE
        /\ \E m \in Unused :
             /\ m = Min(Unused)
             /\ key' = m
             /\ mem' = [mem EXCEPT ![m] = Fresh]
             /\ pr' = [pr EXCEPT ![p] = [Out(@.starts + 1) EXCEPT !.pc = "attach", !.at = m,
                                                                  !.made = TRUE]]
        /\ calm' = (calm /\ ~Closing)
     \/ /\ key # NONE
        /\ pr' = [pr EXCEPT ![p] = [Out(@.starts + 1) EXCEPT !.pc = "attach", !.at = key]]
        /\ calm' = (calm /\ ~Closing /\ mem[key].set)
        /\ UNCHANGED <<key, mem>>
  /\ UNCHANGED <<due, forgotten>>

\* shmat; a segment removed meanwhile is gone.
Attach(p) ==
  /\ At(p, "attach")
  /\ IF key = pr[p].at \/ Attached(pr[p].at) # {}
     THEN Goto(p, IF pr[p].made THEN "setup" ELSE "enter")
     ELSE pr' = [pr EXCEPT ![p] = Out(@.starts)]
  /\ UNCHANGED <<key, mem, due, forgotten, calm>>

\* The table is cleared and the lock initialised without a lock.
SetUp(p) ==
  /\ At(p, "setup")
  /\ mem' = [mem EXCEPT ![pr[p].at] = [@ EXCEPT !.lock = NONE, !.apps = Fresh.apps]]
  /\ Goto(p, "enter")
  /\ UNCHANGED <<key, due, forgotten, calm>>

\* A crash of this command is told once: its entry goes.
LessOne(m, found) == m.participants - (IF found.own THEN 1 ELSE 0)

\* What the process should be told: crashes the segment knows of, and others.
Owed(p) ==
  (IF due[Comm[p]] > 0 THEN {"recovery"} ELSE {})
  \cup (IF Comm[p] \in forgotten THEN {"forgotten"} ELSE {})

\* Under the lock: whether this process crashed before, and whether it is first.
Decide(p) ==
  /\ At(p, "enter")
  /\ Mem(p).lock = NONE
  /\ LET m == Mem(p)
         found == IF pr[p].made THEN [own |-> FALSE, others |-> FALSE, apps |-> Fresh.apps]
                  ELSE nc_apps_check(m.apps, p)
     IN /\ mem' = [mem EXCEPT ![pr[p].at] = [m EXCEPT !.set = m.set \/ pr[p].made,
                                                      !.lock = p, !.apps = found.apps,
                                                      !.participants = LessOne(m, found)]]
        /\ pr' = [pr EXCEPT ![p] = [@ EXCEPT !.pc = "clean",
                !.first = pr[p].made \/ (~found.others /\ p \in Multi),
                !.ret = (IF found.own THEN {"recovery"} ELSE {})
                        \cup (IF found.others THEN {"notfirst"} ELSE {}),
                !.owed = Owed(p)]]
  /\ due' = [due EXCEPT ![Comm[p]] = IF @ > 0 THEN @ - 1 ELSE 0]
  /\ forgotten' = forgotten \ {Comm[p]}
  /\ UNCHANGED <<key, calm>>

\* The first one removes the sessions file and the semaphores; then the process
\* enters itself and unlocks.
Register(p) ==
  /\ At(p, "clean")
  /\ LET m == Mem(p)
     IN mem' = [mem EXCEPT ![pr[p].at] = [m EXCEPT !.lock = NONE,
                                                   !.participants = m.participants + 1,
                                                   !.apps = nc_apps_add(m.apps, p)]]
  /\ calm' = (calm /\ Valid(Mem(p).apps) # Slots)
  /\ Goto(p, "start")
  /\ UNCHANGED <<key, due, forgotten>>

\* The subsystems, without the lock: the first one breaks the locks left by the
\* previous run and copies startup to running in the internal datastores.
StartSubsystems(p) ==
  /\ At(p, "start")
  /\ Goto(p, "running")
  /\ UNCHANGED <<key, mem, due, forgotten, calm>>

Leaves(p) ==
  /\ LET m == Mem(p)
     IN mem' = [mem EXCEPT ![pr[p].at] = [m EXCEPT !.apps = nc_apps_check(m.apps, p).apps,
                                                   !.participants = m.participants - 1]]
  /\ pr' = [pr EXCEPT ![p] = Out(@.starts)]

\* A subsystem that fails has all flags cleared before nc_close is called, the
\* one of the multi-layer architecture with them: the segment always stays.
StartFails(p) ==
  /\ At(p, "start")
  /\ Mem(p).lock = NONE
  /\ Leaves(p)
  /\ UNCHANGED <<key, due, forgotten, calm>>

(***************************************************************************)
(* nc_close, and the end of a process without it.                          *)
(***************************************************************************)
Starting == \E q \in Procs : pr[q].pc \in {"attach", "setup", "enter"}

\* The last one of a multi-layer server goes on to the removal, unlocked.
nc_close(p) ==
  /\ At(p, "running")
  /\ Mem(p).lock = NONE
  /\ LET found == nc_apps_check(Mem(p).apps, p)
     IN IF found.own /\ ~found.others /\ p \in Multi
        THEN /\ mem' = [mem EXCEPT ![pr[p].at].apps = found.apps]
             /\ Goto(p, "remove")
             /\ calm' = (calm /\ ~Starting)
        ELSE /\ Leaves(p)
             /\ UNCHANGED calm
  /\ UNCHANGED <<key, due, forgotten>>

\* The files and semaphores are removed first, the segment only if nobody else
\* is attached to it.
nc_shared_cleanup(p) ==
  /\ At(p, "remove")
  /\ IF Attached(pr[p].at) = {p}
     THEN /\ key' = IF key = pr[p].at THEN NONE ELSE key
          /\ due' = [c \in DOMAIN due |-> 0]
          /\ forgotten' = forgotten \cup {c \in DOMAIN due : due[c] > 0}
     ELSE UNCHANGED <<key, due, forgotten>>
  /\ pr' = [pr EXCEPT ![p] = Out(@.starts)]
  /\ UNCHANGED <<mem, calm>>

Crash(p) ==
  /\ Alive(p)
  /\ pr' = [pr EXCEPT ![p] = Out(@.starts)]
  /\ due' = [due EXCEPT ![Comm[p]] =
                IF pr[p].pc \in {"start", "running"} THEN @ + 1 ELSE @]
  /\ calm' = (calm /\ ~At(p, "remove"))
  /\ UNCHANGED <<key, mem, forgotten>>

Init ==
  /\ key = NONE
  /\ mem = [m \in Memories |-> Fresh]
  /\ pr = [p \in Procs |-> Out(0)]
  /\ due = [c \in {Comm[p] : p \in Procs} |-> 0]
  /\ forgotten = {}
  /\ calm = TRUE

Next ==
  \E p \in Procs : \/ OpenMemory(p) \/ Attach(p) \/ SetUp(p) \/ Decide(p) \/ Register(p)
                  \/ StartSubsystems(p) \/ StartFails(p) \/ nc_close(p) \/ nc_shared_cleanup(p) \/ Crash(p)

Spec == Init /\ [][Next]_vars

(***************************************************************************)
(* Properties.  They hold as long as no start meets the making or the      *)
(* removal of the shared memory and the table of applications is not full. *)
(***************************************************************************)
CleansUp(p) == (At(p, "clean") /\ pr[p].first) \/ At(p, "remove")

\* nc_shared_cleanup: the sessions file and the semaphores are removed only
\* when no other process works with them, whoever crashed and came back before.
\* A start between the decision of nc_close and the removal is left out (calm).
CleanupAlone ==
  calm => \A p, q \in Procs : CleansUp(p) /\ q # p => pr[q].pc \notin {"start", "running"}

\* nc_init: a process is told of a crash of its command if and only if there
\* was one since the shared memory was made that no call of nc_init has found
\* before.  A crash that nobody asked about until the last multi-layer process
\* removed the memory with nc_close is forgotten.
RecoveryTold ==
  calm => \A p \in Procs : pr[p].pc \in {"start", "running"} =>
             (("recovery" \in pr[p].ret) <=> ("recovery" \in pr[p].owed))

\* The same without that exception, as the documentation of nc_init has it
\* ("when after last init and before this init this application crashed"): it
\* does not hold.
RecoveryToldLater ==
  calm => \A p \in Procs : pr[p].pc \in {"start", "running"} =>
             (("recovery" \in pr[p].ret) <=> (pr[p].owed # {}))
=============================================================================
