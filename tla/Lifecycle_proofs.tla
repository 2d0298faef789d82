-------------------------- MODULE Lifecycle_proofs --------------------------
(***************************************************************************)
(* The first and the last process are alone, and every crash is told once: *)
(* proofs for any number of processes, commands and starts.                *)
(***************************************************************************)
EXTENDS Lifecycle, FiniteSetTheorems, WellFoundedInduction, TLAPS

(***************************************************************************)
(* The invariant                                                           *)
(***************************************************************************)
Comms == {Comm[p] : p \in Procs}
Entry == [pid : Procs \X (0..MaxStarts), comm : Comms]
Pcs == {"out", "attach", "setup", "enter", "clean", "start", "running", "remove"}

Contents == [set : BOOLEAN, lock : Procs \cup {NONE}, participants : Int,
             apps : [Slots -> Entry \cup {NONE}]]

Process == [pc : Pcs, starts : 0..MaxStarts, at : Memories \cup {NONE}, made : BOOLEAN,
            first : BOOLEAN, ret : SUBSET {"recovery", "notfirst"},
            owed : SUBSET {"recovery", "forgotten"}]

Types ==
  /\ key \in Memories \cup {NONE}
  /\ mem \in [Memories -> Contents]
  /\ pr \in [Procs -> Process]
  /\ due \in [Comms -> Nat]
  /\ calm \in BOOLEAN
  /\ \A p \in Procs : Alive(p) => pr[p].at \in Memories

Entering(p) == pr[p].pc \in {"attach", "setup", "enter"}
Working(p) == pr[p].pc \in {"start", "running"}

\* the table of applications
Table == mem[key].apps

\* Everybody works with the segment found under the key, and whoever removes
\* it is the last one.
OneSegment ==
  /\ \A p \in Procs : Alive(p) => pr[p].at = key
  /\ \A p, q \in Procs : At(p, "remove") /\ q # p => At(q, "out")

\* Until its maker has decided, a segment is empty and nobody else uses it.
Making ==
  /\ \A p \in Procs : At(p, "setup") => pr[p].made
  /\ key # NONE => IF mem[key].set
                   THEN \A p \in Procs : Entering(p) => ~pr[p].made
                   ELSE /\ mem[key].lock = NONE /\ mem[key].apps = Fresh.apps
                        /\ \A p \in Procs : Alive(p) => Entering(p) /\ pr[p].made
                        /\ \A p, q \in Procs : Alive(p) /\ Alive(q) => p = q

\* Who decides holds the lock, and is alone if it is the first.
Deciding ==
  \A p \in Procs : At(p, "clean") =>
    /\ mem[key].lock = p
    /\ pr[p].first => \A q \in Procs : ~Working(q)

\* Entries name processes that were started ...
Started ==
  \A i \in Valid(Table) :
    Table[i].pid[2] <= pr[Table[i].pid[1]].starts /\ Table[i].comm = Comm[Table[i].pid[1]]

\* ... a working process has an entry ...
Listed == \A p \in Procs : Working(p) => \E i \in Valid(Table) : Table[i].pid = Pid(p)

\* ... a single one, and who has not registered has none.
Once ==
  \A p \in Procs : \A i \in Valid(Table) :
    Alive(p) /\ Table[i].pid = Pid(p) =>
      /\ Working(p) \/ At(p, "remove")
      /\ \A j \in Valid(Table) : Table[j].pid = Pid(p) => i = j

Entries == key # NONE => Started /\ Listed /\ Once

\* the entries of crashed processes of command c
CrashedOf(c) == {i \in Valid(Table) : Table[i].comm = c /\ Crashed(Table[i])}

\* The crashes to be told are the entries of crashed processes.
Counting ==
  \A c \in Comms :
    IF key = NONE THEN due[c] = 0
    ELSE ~Closing => due[c] = Cardinality(CrashedOf(c))

Told ==
  \A p \in Procs : pr[p].pc \in {"clean", "start", "running"} =>
    (("recovery" \in pr[p].ret) <=> ("recovery" \in pr[p].owed))

CalmInv == OneSegment /\ Making /\ Deciding /\ Entries /\ Counting /\ Told

LifeInv == Types /\ (calm => CalmInv)

(***************************************************************************)
(* The table of applications                                               *)
(***************************************************************************)
\* Some entry of a non-empty set of entries is the first, and some the last.
LEMMA Smallest ==
  ASSUME NEW S, S \subseteq Nat, S # {}
  PROVE  \E x \in S : \A y \in S : x =< y
PROOF
  <1>1. PICK x \in S : \A y \in S : ~(<<y, x>> \in OpToRel(<, Nat))
    BY NatLessThanWellFounded, WFMin, Zenon
  <1>2. ASSUME NEW y \in S PROVE x =< y
    <2>1. CASE y < x
      <3>1. <<y, x>> \in Nat \X Nat /\ <<y, x>>[1] < <<y, x>>[2]
        BY <2>1, Zenon
      <3>2. <<y, x>> \in OpToRel(<, Nat)
        BY <3>1, Zenon DEF OpToRel
      <3> QED BY <1>1, <3>2, Zenon
    <2> QED BY <2>1
  <1> QED BY <1>2, Zenon

LEMMA MinIn ==
  ASSUME NEW S, S \subseteq Slots, S # {}
  PROVE  Min(S) \in S
PROOF
  <1>1. S \subseteq Nat
    BY LifecycleAssumption DEF Slots
  <1>2. \E x \in S : \A y \in S : x =< y
    BY <1>1, Smallest, Zenon
  <1> QED BY <1>2, Zenon DEF Min

LEMMA MaxIn ==
  ASSUME NEW S, S \subseteq Slots, S # {}
  PROVE  Max(S) \in S
PROOF
  <1> DEFINE T == {AppsMax - x : x \in S}
  <1>1. AppsMax \in Nat /\ \A x \in S : x \in Nat /\ AppsMax - x \in Nat
    BY LifecycleAssumption DEF Slots
  <1>2. T \subseteq Nat /\ T # {}
    BY <1>1, Zenon
  <1>3. PICK t \in T : \A y \in T : t =< y
    <2> HIDE DEF T
    <2> QED BY <1>2, Smallest, Zenon
  <1>4. PICK x \in S : t = AppsMax - x
    BY Zenon
  <1>5. ASSUME NEW y \in S PROVE x >= y
    <2>1. AppsMax - y \in T
      BY Zenon
    <2>2. AppsMax - x =< AppsMax - y
      BY <1>3, <1>4, <2>1, Zenon
    <2> HIDE DEF T
    <2> QED BY <1>1, <2>2
  <1> QED BY <1>5, Zenon DEF Max

LEMMA AppsType ==
  ASSUME Types, NEW p \in Procs, NEW apps \in [Slots -> Entry \cup {NONE}]
  PROVE  /\ nc_apps_check(apps, p).apps \in [Slots -> Entry \cup {NONE}]
         /\ nc_apps_check(apps, p).own \in BOOLEAN
         /\ nc_apps_check(apps, p).others \in BOOLEAN
         /\ nc_apps_add(apps, p) \in [Slots -> Entry \cup {NONE}]
PROOF
  <1>1. [pid |-> Pid(p), comm |-> Comm[p]] \in Entry
    BY Zenon DEF Pid, Entry, Comms, Types, Process
  <1>2. nc_apps_add(apps, p) \in [Slots -> Entry \cup {NONE}]
    BY <1>1, Zenon DEF nc_apps_add
  <1>3. nc_apps_check(apps, p).apps \in [Slots -> Entry \cup {NONE}]
    BY Zenon DEF nc_apps_check
  <1> QED BY <1>2, <1>3, Zenon DEF nc_apps_check

(***************************************************************************)
(* Types                                                                   *)
(***************************************************************************)
\* A step of process p changes p, at most one segment, and the rest as said.
LEMMA TypesFrom ==
  ASSUME Types, NEW p \in Procs, NEW x \in Process, pr' = [pr EXCEPT ![p] = x],
         x.pc # "out" => x.at \in Memories,
         \/ mem' = mem
         \/ \E m \in Memories, c \in Contents : mem' = [mem EXCEPT ![m] = c],
         key' \in Memories \cup {NONE}, due' \in [Comms -> Nat], calm' \in BOOLEAN
  PROVE  Types'
PROOF
  <1>1. mem' \in [Memories -> Contents]
    BY Zenon DEF Types, Contents
  <1>2. pr' \in [Procs -> Process]
    BY Zenon DEF Types, Process
  <1>3. \A q \in Procs : Alive(q)' => pr'[q].at \in Memories
    BY Zenon DEF Types, Alive
  <1> QED BY <1>1, <1>2, <1>3, Zenon DEF Types

LEMMA ContentsType ==
  ASSUME NEW m \in Contents, NEW l \in Procs \cup {NONE}, NEW n \in Int,
         NEW a \in [Slots -> Entry \cup {NONE}]
  PROVE  /\ [m EXCEPT !.lock = l, !.participants = n, !.apps = a] \in Contents
         /\ [m EXCEPT !.apps = a, !.participants = n] \in Contents
  BY Zenon DEF Contents

LEMMA OutType == \A n \in 0..MaxStarts : Out(n) \in Process /\ Out(n).pc = "out" /\ Out(n).starts = n
  BY Zenon DEF Out, Process, Pcs

LEMMA FreshType == Fresh \in Contents /\ Fresh.apps \in [Slots -> Entry \cup {NONE}]
  BY DEF Fresh, Contents

LEMMA GotoType ==
  ASSUME Types, NEW p \in Procs, NEW pc \in Pcs
  PROVE  /\ [pr[p] EXCEPT !.pc = pc] \in Process
         /\ [pr[p] EXCEPT !.pc = pc].at = pr[p].at
         /\ Goto(p, pc) => pr' = [pr EXCEPT ![p] = [pr[p] EXCEPT !.pc = pc]]
  BY DEF Types, Process, Goto

LEMMA TypesStep == Types /\ [Next]_vars => Types'
PROOF
  <1> SUFFICES ASSUME Types, [Next]_vars PROVE Types'
    BY Zenon
  <1> USE LifecycleAssumption
  <1>k. key \in Memories \cup {NONE} /\ due \in [Comms -> Nat] /\ calm \in BOOLEAN
    BY Zenon DEF Types
  <1>s. ASSUME NEW p \in Procs
        PROVE  /\ pr[p] \in Process /\ pr[p].starts \in 0..MaxStarts
               /\ Alive(p) => pr[p].at \in Memories /\ mem[pr[p].at] \in Contents
    BY Zenon DEF Types, Process, Contents
  <1>1. ASSUME NEW p \in Procs, OpenMemory(p) PROVE Types'
    <2>1. pr[p].starts + 1 \in 0..MaxStarts
      <3>1. pr[p].starts < MaxStarts
        BY <1>1, Zenon DEF OpenMemory
      <3> QED BY <1>s, <3>1
    <2> DEFINE o == Out(pr[p].starts + 1)
    <2>2. o \in Process
      BY <2>1, OutType, Zenon
    <2>3. ASSUME NEW m \in Memories, key = NONE, key' = m, mem' = [mem EXCEPT ![m] = Fresh],
                 pr' = [pr EXCEPT ![p] = [o EXCEPT !.pc = "attach", !.at = m, !.made = TRUE]]
          PROVE  Types'
      <3> DEFINE x == [o EXCEPT !.pc = "attach", !.at = m, !.made = TRUE]
      <3>1. x \in Process /\ x.at = m
        <4> HIDE DEF o
        <4> QED BY <2>2, Zenon DEF Process, Pcs
      <3>2. calm' \in BOOLEAN /\ due' = due
        BY <1>1, <2>3, <1>k, Zenon DEF OpenMemory
      <3> HIDE DEF x
      <3> QED BY <1>k, <2>3, <3>1, <3>2, FreshType, TypesFrom, Zenon DEF x
    <2>4. ASSUME key \in Memories, UNCHANGED <<key, mem>>,
                 pr' = [pr EXCEPT ![p] = [o EXCEPT !.pc = "attach", !.at = key]]
          PROVE  Types'
      <3> DEFINE x == [o EXCEPT !.pc = "attach", !.at = key]
      <3>1. x \in Process /\ x.at = key
        <4> HIDE DEF o
        <4> QED BY <2>2, <2>4, Zenon DEF Process, Pcs
      <3>2. calm' \in BOOLEAN /\ due' = due
        <4>1. mem[key].set \in BOOLEAN
          BY <2>4, Zenon DEF Types, Contents
        <4> QED BY <1>1, <2>4, <1>k, <4>1, Zenon DEF OpenMemory
      <3> HIDE DEF x
      <3> QED BY <1>k, <2>4, <3>1, <3>2, TypesFrom, Zenon DEF x
    <2> QED BY <1>1, <1>k, <2>3, <2>4, Zenon DEF OpenMemory, Unused
  <1>o. ASSUME NEW p \in Procs, pr' = [pr EXCEPT ![p] = Out(pr[p].starts)],
               \/ mem' = mem
               \/ \E m \in Memories, c \in Contents : mem' = [mem EXCEPT ![m] = c],
               key' \in Memories \cup {NONE}, due' \in [Comms -> Nat], calm' \in BOOLEAN
        PROVE  Types'
    <2>1. Out(pr[p].starts) \in Process /\ Out(pr[p].starts).pc = "out"
      BY <1>s, OutType, Zenon
    <2> QED BY <1>o, <2>1, TypesFrom, Zenon
  <1>g. ASSUME NEW p \in Procs, NEW pc \in Pcs, Alive(p), Goto(p, pc),
               \/ mem' = mem
               \/ \E m \in Memories, c \in Contents : mem' = [mem EXCEPT ![m] = c],
               key' = key, due' = due, calm' \in BOOLEAN
        PROVE  Types'
    BY <1>g, <1>k, <1>s, GotoType, TypesFrom, Zenon
  <1>2. ASSUME NEW p \in Procs, Attach(p) PROVE Types'
    <2>1. CASE Goto(p, IF pr[p].made THEN "setup" ELSE "enter")
      BY <1>2, <1>g, <1>k, <2>1, Zenon DEF Attach, Pcs, At, Alive
    <2>2. CASE pr' = [pr EXCEPT ![p] = Out(pr[p].starts)]
      BY <1>2, <1>k, <1>o, <2>2, Zenon DEF Attach
    <2> QED BY <1>2, <2>1, <2>2, Zenon DEF Attach
  <1>3. ASSUME NEW p \in Procs, SetUp(p) PROVE Types'
    <2> DEFINE c == [mem[pr[p].at] EXCEPT !.lock = NONE, !.apps = Fresh.apps]
    <2>1. Alive(p) /\ c \in Contents
      BY <1>3, <1>s, FreshType, Zenon DEF SetUp, At, Alive, Contents
    <2>2. mem' = [mem EXCEPT ![pr[p].at] = c]
      BY <1>3, Zenon DEF SetUp
    <2> HIDE DEF c
    <2> QED BY <1>3, <1>g, <1>k, <1>s, <2>1, <2>2, Zenon DEF SetUp, Pcs
  <1>4. ASSUME NEW p \in Procs, Decide(p) PROVE Types'
    <2> DEFINE m == mem[pr[p].at]
               found == IF pr[p].made THEN [own |-> FALSE, others |-> FALSE, apps |-> Fresh.apps]
                        ELSE nc_apps_check(m.apps, p)
               c == [m EXCEPT !.set = m.set \/ pr[p].made, !.lock = p, !.apps = found.apps,
                              !.participants = LessOne(m, found)]
               x == [pr[p] EXCEPT !.pc = "clean", !.first = pr[p].made \/ (~found.others /\ p \in Multi),
                                  !.ret = (IF found.own THEN {"recovery"} ELSE {})
                                          \cup (IF found.others THEN {"notfirst"} ELSE {}),
                                  !.owed = Owed(p)]
    <2>1. Alive(p) /\ m \in Contents /\ pr[p].at \in Memories
      BY <1>4, <1>s, Zenon DEF Decide, At, Alive
    <2>2. found.apps \in [Slots -> Entry \cup {NONE}] /\ found.own \in BOOLEAN /\ found.others \in BOOLEAN
      BY <2>1, AppsType, FreshType, Zenon DEF Contents
    <2>3. mem' = [mem EXCEPT ![pr[p].at] = c] /\ pr' = [pr EXCEPT ![p] = x]
      BY <1>4, Zenon DEF Decide, Mem
    <2>4. due' \in [Comms -> Nat] /\ key' = key /\ calm' = calm
      <3>1. /\ due' = [due EXCEPT ![Comm[p]] = IF @ > 0 THEN @ - 1 ELSE 0]
            /\ key' = key /\ calm' = calm
        BY <1>4, Zenon DEF Decide
      <3>2. due[Comm[p]] \in Nat
        BY <1>k, Zenon DEF Comms
      <3>3. (IF due[Comm[p]] > 0 THEN due[Comm[p]] - 1 ELSE 0) \in Nat
        BY <3>2
      <3> QED BY <1>k, <3>1, <3>3, Zenon
    <2> HIDE DEF found
    <2>5. LessOne(m, found) \in Int
      BY <2>1 DEF LessOne, Contents
    <2>6. c \in Contents
      <3> HIDE DEF m
      <3> QED BY <2>1, <2>2, <2>5, <1>s, Zenon DEF Contents, Process
    <2>7. x \in Process /\ x.at = pr[p].at
      <3> DEFINE fi == pr[p].made \/ (~found.others /\ p \in Multi)
                 re == (IF found.own THEN {"recovery"} ELSE {})
                       \cup (IF found.others THEN {"notfirst"} ELSE {})
                 ow == Owed(p)
      <3>1. fi \in BOOLEAN /\ re \in SUBSET {"recovery", "notfirst"}
        BY <2>2, Zenon
      <3>4. ow \in SUBSET {"recovery", "forgotten"}
        BY Zenon DEF Owed
      <3> HIDE DEF fi, re, ow
      <3>2. [pr[p] EXCEPT !.pc = "clean", !.first = fi, !.ret = re, !.owed = ow] \in Process
        BY <1>s, <3>1, <3>4, ZenonT(40) DEF Process, Pcs
      <3>3. [pr[p] EXCEPT !.pc = "clean", !.first = fi, !.ret = re, !.owed = ow].at = pr[p].at
        BY <1>s, Zenon DEF Process
      <3> QED BY <3>2, <3>3, Zenon DEF fi, re, ow
    <2> HIDE DEF c, x
    <2> QED BY <1>k, <2>1, <2>3, <2>4, <2>6, <2>7, TypesFrom, Zenon
  <1>5. ASSUME NEW p \in Procs, Register(p) PROVE Types'
    <2> DEFINE m == mem[pr[p].at]
               a == nc_apps_add(m.apps, p)
               c == [m EXCEPT !.lock = NONE, !.participants = m.participants + 1, !.apps = a]
    <2>1. Alive(p) /\ m \in Contents
      BY <1>5, <1>s, Zenon DEF Register, At, Alive
    <2>2. a \in [Slots -> Entry \cup {NONE}] /\ m.participants + 1 \in Int
      <3>1. m.apps \in [Slots -> Entry \cup {NONE}] /\ m.participants \in Int
        BY <2>1, Zenon DEF Contents
      <3> QED BY <3>1, AppsType
    <2>3. c \in Contents
      <3> HIDE DEF a, m
      <3> QED BY <2>1, <2>2, ContentsType, Zenon
    <2>4. mem' = [mem EXCEPT ![pr[p].at] = c]
      BY <1>5, Zenon DEF Register, Mem
    <2> HIDE DEF c
    <2> QED BY <1>5, <1>g, <1>k, <1>s, <2>1, <2>3, <2>4, Zenon DEF Register, Pcs
  <1>6. ASSUME NEW p \in Procs, StartSubsystems(p) PROVE Types'
    BY <1>6, <1>g, <1>k, Zenon DEF StartSubsystems, Pcs, At, Alive
  <1>l. ASSUME NEW p \in Procs, Alive(p), Leaves(p), key' = key, due' = due, calm' = calm
        PROVE  Types'
    <2> DEFINE m == mem[pr[p].at]
               a == nc_apps_check(m.apps, p).apps
               c == [m EXCEPT !.apps = a, !.participants = m.participants - 1]
    <2>1. m \in Contents
      BY <1>l, <1>s, Zenon
    <2>2. a \in [Slots -> Entry \cup {NONE}] /\ m.participants - 1 \in Int
      <3>1. m.apps \in [Slots -> Entry \cup {NONE}] /\ m.participants \in Int
        BY <2>1, Zenon DEF Contents
      <3> QED BY <3>1, AppsType
    <2>3. c \in Contents
      <3> HIDE DEF a, m
      <3> QED BY <2>1, <2>2, ContentsType, Zenon
    <2>4. mem' = [mem EXCEPT ![pr[p].at] = c]
      BY <1>l, Zenon DEF Leaves, Mem
    <2> HIDE DEF c
    <2> QED BY <1>l, <1>k, <1>o, <1>s, <2>3, <2>4, Zenon DEF Leaves
  <1>7. ASSUME NEW p \in Procs, StartFails(p) PROVE Types'
    BY <1>7, <1>l, Zenon DEF StartFails, At, Alive
  <1>8. ASSUME NEW p \in Procs, nc_close(p) PROVE Types'
    <2>1. CASE Leaves(p) /\ calm' = calm
      BY <1>8, <1>l, <2>1, Zenon DEF nc_close, At, Alive
    <2>2. CASE /\ mem' = [mem EXCEPT ![pr[p].at].apps = nc_apps_check(Mem(p).apps, p).apps]
               /\ Goto(p, "remove") /\ calm' = (calm /\ ~Starting)
      <3> DEFINE c == [mem[pr[p].at] EXCEPT !.apps = nc_apps_check(Mem(p).apps, p).apps]
      <3>1. Alive(p) /\ mem[pr[p].at] \in Contents
        BY <1>8, <1>s, Zenon DEF nc_close, At, Alive
      <3>2. nc_apps_check(Mem(p).apps, p).apps \in [Slots -> Entry \cup {NONE}]
        BY <3>1, AppsType, Zenon DEF Contents, Mem
      <3>3. c \in Contents
        BY <3>1, <3>2, Zenon DEF Contents
      <3>4. mem' = [mem EXCEPT ![pr[p].at] = c]
        BY <2>2, Zenon
      <3> HIDE DEF c
      <3> QED BY <1>8, <1>g, <1>k, <1>s, <2>2, <3>1, <3>3, <3>4, Zenon DEF nc_close, Pcs
    <2> QED BY <1>8, <2>1, <2>2, Zenon DEF nc_close
  <1>9. ASSUME NEW p \in Procs, nc_shared_cleanup(p) PROVE Types'
    <2>1. key' \in Memories \cup {NONE} /\ due' \in [Comms -> Nat]
      BY <1>9, <1>k DEF nc_shared_cleanup
    <2> QED BY <1>9, <1>k, <1>o, <2>1, Zenon DEF nc_shared_cleanup
  <1>10. ASSUME NEW p \in Procs, Crash(p) PROVE Types'
    <2>1. due' \in [Comms -> Nat]
      BY <1>10, <1>k DEF Crash, Comms
    <2> QED BY <1>10, <1>k, <1>o, <2>1, Zenon DEF Crash
  <1>11. CASE UNCHANGED vars
    BY <1>11, Zenon DEF Types, vars, Alive
  <1> QED BY <1>1, <1>2, <1>3, <1>4, <1>5, <1>6, <1>7, <1>8, <1>9, <1>10, <1>11, Zenon DEF Next

(***************************************************************************)
(* Entries and crashes                                                     *)
(***************************************************************************)
LEMMA EntryFacts ==
  ASSUME Types, key # NONE
  PROVE  /\ key \in Memories /\ mem[key] \in Contents
         /\ Table \in [Slots -> Entry \cup {NONE}]
         /\ \A i \in Valid(Table) : Table[i] \in Entry /\ Table[i].pid[1] \in Procs
  BY DEF Types, Contents, Table, Valid, Entry

\* An entry is that of a crashed process unless that process is alive.
LEMMA CrashedEntry ==
  ASSUME NEW e \in Entry, NEW q \in Procs, e.pid = Pid(q)
  PROVE  Crashed(e) <=> ~Alive(q)
PROOF
  <1>1. e.pid[1] = q
    BY DEF Pid
  <1> QED BY <1>1, Zenon DEF Crashed

\* Who is alive, and so which entries are those of crashed processes, is
\* the same after a step that starts and ends nobody.
LEMMA SameCrashes ==
  ASSUME Types, key # NONE, key' = key, mem'[key].apps = mem[key].apps,
         \A q \in Procs : pr'[q].starts = pr[q].starts /\ (Alive(q)' <=> Alive(q))
  PROVE  \A c : CrashedOf(c)' = CrashedOf(c)
PROOF
  <1>1. \A i \in Valid(Table) : Table[i].pid[1] \in Procs
    BY EntryFacts, Zenon
  <1>2. \A i \in Valid(Table) : Crashed(Table[i])' <=> Crashed(Table[i])
    <2> SUFFICES ASSUME NEW i \in Valid(Table)
                 PROVE  Crashed(Table[i])' <=> Crashed(Table[i])
      BY Zenon
    <2>1. Table' = Table
      BY Zenon DEF Table
    <2> QED BY <1>1, <2>1, Zenon DEF Crashed, Pid
  <1> QED BY <1>2, Zenon DEF CrashedOf, Table, Valid

LEMMA CrashesFinite ==
  ASSUME Types
  PROVE  \A c : IsFiniteSet(CrashedOf(c)) /\ Cardinality(CrashedOf(c)) \in Nat
PROOF
  <1> TAKE c
  <1>1. IsFiniteSet(Slots)
    BY LifecycleAssumption, FS_Interval DEF Slots
  <1>2. CrashedOf(c) \in SUBSET Slots
    BY Zenon DEF CrashedOf, Valid
  <1>3. IsFiniteSet(CrashedOf(c))
    BY <1>1, <1>2, FS_Subset, Zenon
  <1> QED BY <1>3, FS_CardinalityType, Zenon

\* The effects of a step on the process that takes it.
LEMMA GotoEffect ==
  ASSUME Types, NEW p \in Procs, NEW pc, Goto(p, pc)
  PROVE  /\ pr'[p].pc = pc /\ pr'[p].starts = pr[p].starts /\ pr'[p].at = pr[p].at
         /\ pr'[p].made = pr[p].made /\ pr'[p].first = pr[p].first
         /\ pr'[p].ret = pr[p].ret /\ pr'[p].owed = pr[p].owed
         /\ \A q \in Procs \ {p} : pr'[q] = pr[q]
  BY Zenon DEF Types, Process, Goto

LEMMA OutEffect ==
  ASSUME Types, NEW p \in Procs, pr' = [pr EXCEPT ![p] = Out(pr[p].starts)]
  PROVE  /\ pr'[p].pc = "out" /\ pr'[p].starts = pr[p].starts
         /\ \A q \in Procs \ {p} : pr'[q] = pr[q]
  BY Zenon DEF Types, Process, Out

(***************************************************************************)
(* The steps, while it is calm                                             *)
(***************************************************************************)
\* A step inside nc_init that leaves the segment as it is.
LEMMA MoveStep ==
  ASSUME Types, CalmInv, NEW p \in Procs, NEW pc \in Pcs \ {"out"}, Alive(p), Goto(p, pc),
         key' = key, due' = due,
         /\ mem'[key].apps = mem[key].apps /\ mem'[key].lock = mem[key].lock
         /\ mem'[key].set = mem[key].set,
         \/ Entering(p) /\ pc \in {"setup", "enter"} /\ (pc = "setup" => pr[p].made)
         \/ Working(p) /\ pc \in {"start", "running"}
  PROVE  CalmInv'
PROOF
  <1> USE LifecycleAssumption
  <1>1. /\ pr'[p].pc = pc /\ pr'[p].starts = pr[p].starts /\ pr'[p].at = pr[p].at
        /\ pr'[p].made = pr[p].made /\ pr'[p].first = pr[p].first
        /\ pr'[p].ret = pr[p].ret /\ pr'[p].owed = pr[p].owed
        /\ \A q \in Procs \ {p} : pr'[q] = pr[q]
    BY GotoEffect, Zenon
  <1>2. \A q \in Procs : /\ pr'[q].starts = pr[q].starts /\ pr'[q].at = pr[q].at
                         /\ pr'[q].made = pr[q].made /\ pr'[q].first = pr[q].first
                         /\ pr'[q].ret = pr[q].ret /\ pr'[q].owed = pr[q].owed
                         /\ Alive(q)' <=> Alive(q)
                         /\ Entering(q)' <=> Entering(q)
                         /\ Working(q)' <=> Working(q)
                         /\ At(q, "remove")' <=> At(q, "remove")
                         /\ At(q, "clean")' <=> At(q, "clean")
                         /\ At(q, "out")' <=> At(q, "out")
                         /\ At(q, "setup")' => pr[q].made
    BY <1>1 DEF CalmInv, Making, Alive, Entering, Working, At
  <1>3. key # NONE
    BY Zenon DEF Types, CalmInv, OneSegment
  <1>4. OneSegment'
    BY <1>2, Zenon DEF CalmInv, OneSegment
  <1>5. Making'
    BY <1>2, Zenon DEF CalmInv, Making
  <1>6. Deciding'
    BY <1>2, Zenon DEF CalmInv, Deciding
  <1>7. Entries'
    <2>1. Valid(Table)' = Valid(Table) /\ Table' = Table /\ \A q \in Procs : Pid(q)' = Pid(q)
      BY <1>2, Zenon DEF Valid, Table, Pid
    <2>2. Started'
      BY <1>2, <1>3, <2>1, EntryFacts, Zenon DEF CalmInv, Entries, Started
    <2>3. Listed' /\ Once'
      BY <1>2, <1>3, <2>1 DEF CalmInv, Entries, Listed, Once
    <2> QED BY <2>2, <2>3, Zenon DEF Entries
  <1>8. Counting'
    <2>1. \A c : CrashedOf(c)' = CrashedOf(c)
      BY <1>2, <1>3, SameCrashes, Zenon
    <2>2. Closing' <=> Closing
      BY <1>2, Zenon DEF Closing
    <2> QED BY <2>1, <2>2, Zenon DEF CalmInv, Counting
  <1>9. Told'
    BY <1>2, Zenon DEF CalmInv, Told, Working, At
  <1> QED BY <1>4, <1>5, <1>6, <1>7, <1>8, <1>9, Zenon DEF CalmInv

LEMMA StartingSteps ==
  ASSUME Types, CalmInv, NEW p \in Procs, Attach(p) \/ SetUp(p) \/ StartSubsystems(p)
  PROVE  CalmInv'
PROOF
  <1> USE LifecycleAssumption
  <1>1. Alive(p) /\ pr[p].at = key /\ key \in Memories
    BY Zenon DEF Attach, SetUp, StartSubsystems, At, Alive, CalmInv, OneSegment, Types
  <1>2. CASE Attach(p)
    <2>1. Goto(p, IF pr[p].made THEN "setup" ELSE "enter")
      BY <1>1, <1>2, Zenon DEF Attach
    <2> QED BY <1>1, <1>2, <2>1, MoveStep, Zenon DEF Attach, Pcs, Entering, At
  <1>3. CASE SetUp(p)
    <2>1. pr[p].made /\ Entering(p)
      BY <1>3, Zenon DEF SetUp, CalmInv, Making, At, Entering
    <2>2. mem[key].lock = NONE /\ mem[key].apps = Fresh.apps
      BY <1>1, <2>1, Zenon DEF CalmInv, Making
    <2>3. /\ mem'[key].apps = mem[key].apps /\ mem'[key].lock = mem[key].lock
          /\ mem'[key].set = mem[key].set
      BY <1>1, <1>3, <2>2 DEF SetUp, Types, Contents
    <2> QED BY <1>1, <1>3, <2>1, <2>3, MoveStep, Zenon DEF SetUp, Pcs
  <1>4. CASE StartSubsystems(p)
    BY <1>1, <1>4, MoveStep, Zenon DEF StartSubsystems, Pcs, Working, At
  <1> QED BY <1>2, <1>3, <1>4, Zenon

\* The segment is made: nobody is alive, and no crash is left to be told.
LEMMA MakeStep ==
  ASSUME Types, CalmInv, NEW p \in Procs, OpenMemory(p), key = NONE
  PROVE  CalmInv'
PROOF
  <1> USE LifecycleAssumption
  <1>1. PICK m \in Memories :
          /\ key' = m /\ mem' = [mem EXCEPT ![m] = Fresh] /\ due' = due
          /\ pr' = [pr EXCEPT ![p] = [Out(pr[p].starts + 1) EXCEPT !.pc = "attach", !.at = m,
                                                                   !.made = TRUE]]
    BY Zenon DEF OpenMemory, Unused
  <1>2. /\ pr'[p].pc = "attach" /\ pr'[p].at = m /\ pr'[p].made
        /\ \A q \in Procs \ {p} : pr'[q] = pr[q]
    BY <1>1, Zenon DEF Types, Process, Out
  <1>3. \A q \in Procs \ {p} : pr'[q].pc = "out"
    BY <1>2, Zenon DEF CalmInv, OneSegment, Types, Alive
  <1>4. mem'[m] = Fresh /\ key' # NONE
    BY <1>1, Zenon DEF Types
  <1>5. Valid(Table)' = {}
    BY <1>1, <1>4 DEF Valid, Table, Fresh
  <1>6. OneSegment'
    BY <1>1, <1>2, <1>3, Zenon DEF OneSegment, Alive, At
  <1>7. Making'
    BY <1>1, <1>2, <1>3, <1>4 DEF Making, Fresh, Alive, At, Entering
  <1>8. Deciding' /\ Told'
    BY <1>2, <1>3, Zenon DEF Deciding, Told, At
  <1>9. Entries'
    BY <1>2, <1>3, <1>5, Zenon DEF Entries, Started, Listed, Once, Working
  <1>10. Counting'
    <2>1. \A c : CrashedOf(c)' = {}
      BY <1>5, Zenon DEF CrashedOf
    <2> QED BY <1>1, <2>1, FS_EmptySet, Zenon DEF CalmInv, Counting
  <1> QED BY <1>6, <1>7, <1>8, <1>9, <1>10, Zenon DEF CalmInv

\* A process starts and finds the segment: its new process number is in no
\* entry, and its old entries stay those of crashed processes.
LEMMA OpenStep ==
  ASSUME Types, CalmInv, NEW p \in Procs, OpenMemory(p), key # NONE, calm'
  PROVE  CalmInv'
PROOF
  <1> USE LifecycleAssumption
  <1>1. /\ key' = key /\ mem' = mem /\ due' = due /\ ~Closing /\ mem[key].set /\ At(p, "out")
        /\ pr' = [pr EXCEPT ![p] = [Out(pr[p].starts + 1) EXCEPT !.pc = "attach", !.at = key]]
    BY Zenon DEF OpenMemory
  <1>2. /\ pr'[p].pc = "attach" /\ pr'[p].at = key /\ ~pr'[p].made
        /\ pr'[p].starts = pr[p].starts + 1 /\ pr[p].starts \in 0..MaxStarts
        /\ \A q \in Procs \ {p} : pr'[q] = pr[q]
    BY <1>1, Zenon DEF Types, Process, Out
  <1>3. \A q \in Procs : ~At(q, "remove") /\ ~At(q, "remove")'
    BY <1>1, <1>2, Zenon DEF Closing, At
  <1>4. /\ Table' = Table /\ Valid(Table)' = Valid(Table)
        /\ \A i \in Valid(Table) : /\ Table[i] \in Entry /\ Table[i].pid[1] \in Procs
                                   /\ Table[i].pid[2] \in 0..MaxStarts
    BY <1>1, EntryFacts, Zenon DEF Table, Valid, Entry
  <1>5. Started
    BY Zenon DEF CalmInv, Entries
  <1>6. \A i \in Valid(Table) : Table[i].pid # Pid(p)'
    <2> SUFFICES ASSUME NEW i \in Valid(Table), Table[i].pid = Pid(p)' PROVE FALSE
      BY Zenon
    <2>1. Table[i].pid[1] = p /\ Table[i].pid[2] = pr[p].starts + 1
      BY <1>2 DEF Pid
    <2> QED BY <1>2, <1>4, <1>5, <2>1 DEF Started
  <1>7. \A q \in Procs \ {p} : Pid(q)' = Pid(q) /\ (Alive(q)' <=> Alive(q))
    BY <1>2, Zenon DEF Pid, Alive
  <1>8. OneSegment'
    BY <1>1, <1>2, <1>3 DEF CalmInv, OneSegment, Alive
  <1>9. Making'
    BY <1>1, <1>2, Zenon DEF CalmInv, Making, Entering, At
  <1>10. Deciding' /\ Told'
    BY <1>1, <1>2 DEF CalmInv, Deciding, Told, At, Working
  <1>11. Started'
    <2>1. ASSUME NEW i \in Valid(Table) PROVE pr[Table[i].pid[1]].starts \in 0..MaxStarts
      BY <1>4, Zenon DEF Types, Process
    <2> QED BY <1>2, <1>4, <1>5, <2>1 DEF Started
  <1>12. Listed' /\ Once'
    <2>1. ~Working(p)' /\ \A q \in Procs \ {p} : Working(q)' <=> Working(q)
      BY <1>2, Zenon DEF Working
    <2> QED BY <1>3, <1>4, <1>6, <1>7, <2>1 DEF CalmInv, Entries, Listed, Once
  <1>13. \A c : CrashedOf(c)' = CrashedOf(c)
    <2>1. ASSUME NEW i \in Valid(Table) PROVE Crashed(Table[i])' <=> Crashed(Table[i])
      <3>1. CASE Table[i].pid[1] = p
        BY <1>1, <1>4, <1>6, <3>1, Zenon DEF Crashed, Alive, At
      <3>2. CASE Table[i].pid[1] # p
        BY <1>4, <1>7, <3>2, Zenon DEF Crashed
      <3> QED BY <3>1, <3>2, Zenon
    <2> QED BY <1>4, <2>1, Zenon DEF CrashedOf
  <1>14. Counting'
    BY <1>1, <1>13, Zenon DEF CalmInv, Counting
  <1> QED BY <1>8, <1>9, <1>10, <1>11, <1>12, <1>14, Zenon DEF CalmInv, Entries

\* The last process removes the segment, and with it what was left to tell.
LEMMA RemoveStep ==
  ASSUME Types, CalmInv, NEW p \in Procs, nc_shared_cleanup(p)
  PROVE  CalmInv'
PROOF
  <1> USE LifecycleAssumption
  <1>1. pr[p].at = key /\ \A q \in Procs \ {p} : At(q, "out")
    BY Zenon DEF nc_shared_cleanup, CalmInv, OneSegment, At, Alive
  <1>2. Attached(key) = {p}
    BY <1>1, Zenon DEF Attached, nc_shared_cleanup, At
  <1>3. key' = NONE /\ due' = [c \in DOMAIN due |-> 0]
    BY <1>1, <1>2, Zenon DEF nc_shared_cleanup
  <1>4. \A q \in Procs : pr'[q].pc = "out"
    <2>1. pr' = [pr EXCEPT ![p] = Out(pr[p].starts)]
      BY Zenon DEF nc_shared_cleanup
    <2>2. pr'[p].pc = "out" /\ \A q \in Procs \ {p} : pr'[q] = pr[q]
      BY <2>1, OutEffect, Zenon
    <2> QED BY <1>1, <2>2, Zenon DEF At
  <1>5. OneSegment' /\ Making' /\ Deciding' /\ Told'
    BY <1>3, <1>4, Zenon DEF OneSegment, Making, Deciding, Told, At, Alive
  <1>6. Entries' /\ Counting'
    BY <1>3, Zenon DEF Entries, Counting, Types
  <1> QED BY <1>5, <1>6, Zenon DEF CalmInv

(***************************************************************************)
(* A process ends: it crashes, or it leaves and takes out the last entry   *)
(* that is its own or that of a crashed process of its command.            *)
(***************************************************************************)
\* What all of them need: the entry gone is that of no other live process.
LEMMA EndKeeps ==
  ASSUME Types, CalmInv, key # NONE, key' = key, NEW p \in Procs, ~At(p, "remove"), Alive(p),
         pr' = [pr EXCEPT ![p] = Out(pr[p].starts)],
         mem'[key].set = mem[key].set, mem'[key].lock = mem[key].lock,
         Valid(Table)' \subseteq Valid(Table),
         \A i \in Valid(Table)' : Table'[i] = Table[i],
         \A i \in Valid(Table) \ Valid(Table)' : Table[i].pid = Pid(p) \/ Crashed(Table[i]),
         mem[key].set \/ Table' = Table
  PROVE  /\ OneSegment' /\ Making' /\ Deciding' /\ Entries' /\ Told'
         /\ ~Closing /\ ~Closing'
PROOF
  <1> USE LifecycleAssumption
  <1>1. /\ pr'[p].pc = "out" /\ pr'[p].starts = pr[p].starts
        /\ \A q \in Procs \ {p} : pr'[q] = pr[q]
    BY OutEffect, Zenon
  <1>2. \A q \in Procs : ~At(q, "remove") /\ ~At(q, "remove")'
    BY <1>1 DEF CalmInv, OneSegment, At, Alive
  <1>3. \A i \in Valid(Table) : Table[i] \in Entry /\ Table[i].pid[1] \in Procs
    BY EntryFacts, Zenon
  <1>4. \A q \in Procs : Pid(q)' = Pid(q)
    BY <1>1, Zenon DEF Pid
  <1>5. OneSegment'
    BY <1>1, <1>2 DEF CalmInv, OneSegment, Alive
  <1>6. Making'
    <2>1. mem'[key].apps = mem[key].apps \/ mem[key].set
      BY Zenon DEF Table
    <2> QED BY <1>1, <2>1 DEF CalmInv, Making, Alive, Entering, At
  <1>7. Deciding' /\ Told'
    BY <1>1 DEF CalmInv, Deciding, Told, At, Working
  <1>8. Started'
    BY <1>1, <1>3 DEF CalmInv, Entries, Started
  <1>9. Listed'
    <2> SUFFICES ASSUME NEW q \in Procs, Working(q)'
                 PROVE  \E i \in Valid(Table)' : Table'[i].pid = Pid(q)'
      BY Zenon DEF Listed
    <2>1. q # p /\ Working(q) /\ Alive(q)
      BY <1>1, Zenon DEF Working, Alive
    <2>2. PICK i \in Valid(Table) : Table[i].pid = Pid(q)
      BY <2>1, Zenon DEF CalmInv, Entries, Listed
    <2>3. ~Crashed(Table[i])
      BY <1>3, <2>1, <2>2, CrashedEntry, Zenon
    <2>4. Pid(q) # Pid(p)
      BY <2>1, Zenon DEF Pid
    <2>5. i \in Valid(Table)'
      BY <2>2, <2>3, <2>4, Zenon
    <2> QED BY <1>4, <2>2, <2>5, Zenon
  <1>10. Once'
    <2>1. \A q \in Procs : Alive(q)' => Alive(q) /\ (Working(q)' <=> Working(q))
      BY <1>1, Zenon DEF Alive, Working
    <2> QED BY <1>2, <1>4, <2>1 DEF CalmInv, Entries, Once
  <1> QED BY <1>2, <1>5, <1>6, <1>7, <1>8, <1>9, <1>10, Zenon DEF Entries, Closing

\* After the end of p its entry, if it is there, is that of a crashed process,
\* and the other entries are what they were.
LEMMA EndCrashes ==
  ASSUME Types, NEW p \in Procs, Alive(p), pr' = [pr EXCEPT ![p] = Out(pr[p].starts)]
  PROVE  \A e \in Entry : Crashed(e)' <=> e.pid = Pid(p) \/ Crashed(e)
PROOF
  <1> SUFFICES ASSUME NEW e \in Entry PROVE Crashed(e)' <=> e.pid = Pid(p) \/ Crashed(e)
    BY Zenon
  <1>1. /\ pr'[p].pc = "out" /\ pr'[p].starts = pr[p].starts
        /\ \A q \in Procs \ {p} : pr'[q] = pr[q]
    BY OutEffect, Zenon
  <1>2. e.pid[1] \in Procs
    BY Zenon DEF Entry
  <1>3. CASE e.pid[1] = p
    BY <1>1, <1>3, Zenon DEF Crashed, Alive, Pid
  <1>4. CASE e.pid[1] # p
    BY <1>1, <1>2, <1>4 DEF Crashed, Alive, Pid
  <1> QED BY <1>3, <1>4, Zenon

\* The entry of a working process is of its command and not that of a crashed
\* process.
LEMMA OwnEntry ==
  ASSUME Types, CalmInv, key # NONE, NEW p \in Procs, Working(p)
  PROVE  \E j \in Valid(Table) :
           /\ Table[j].pid = Pid(p) /\ Table[j].comm = Comm[p] /\ ~Crashed(Table[j])
           /\ \A i \in Valid(Table) : Table[i].pid = Pid(p) => i = j
PROOF
  <1>1. Alive(p)
    BY Zenon DEF Working, Alive
  <1>2. PICK j \in Valid(Table) : Table[j].pid = Pid(p)
    BY Zenon DEF CalmInv, Entries, Listed
  <1>3. Table[j] \in Entry
    BY EntryFacts, Zenon
  <1>4. ~Crashed(Table[j])
    BY <1>1, <1>2, <1>3, CrashedEntry, Zenon
  <1>5. Table[j].comm = Comm[p]
    BY <1>2 DEF CalmInv, Entries, Started, Pid
  <1>6. \A i \in Valid(Table) : Table[i].pid = Pid(p) => i = j
    BY <1>1, <1>2, Zenon DEF CalmInv, Entries, Once
  <1> QED BY <1>2, <1>4, <1>5, <1>6, Zenon

LEMMA CrashStep ==
  ASSUME Types, CalmInv, NEW p \in Procs, Crash(p), calm'
  PROVE  CalmInv'
PROOF
  <1> USE LifecycleAssumption
  <1>1. /\ Alive(p) /\ key' = key /\ mem' = mem /\ ~At(p, "remove")
        /\ pr' = [pr EXCEPT ![p] = Out(pr[p].starts)]
        /\ due' = [due EXCEPT ![Comm[p]] = IF Working(p) THEN @ + 1 ELSE @]
    BY Zenon DEF Crash, Working
  <1>2. key # NONE
    BY <1>1, Zenon DEF Types, CalmInv, OneSegment
  <1>3. Table' = Table /\ Valid(Table)' = Valid(Table)
    BY <1>1, Zenon DEF Table, Valid
  <1>4. /\ OneSegment' /\ Making' /\ Deciding' /\ Entries' /\ Told'
        /\ ~Closing /\ ~Closing'
    BY <1>1, <1>2, <1>3, EndKeeps, Zenon
  <1>5. \A i \in Valid(Table) : Crashed(Table[i])' <=> Table[i].pid = Pid(p) \/ Crashed(Table[i])
    BY <1>1, <1>2, <1>3, EndCrashes, EntryFacts, Zenon
  <1>6. \A c \in Comms : due[c] \in Nat /\ due[c] = Cardinality(CrashedOf(c))
    BY <1>2, <1>4, Zenon DEF CalmInv, Counting, Types
  <1>7. \A c \in Comms : due'[c] = Cardinality(CrashedOf(c)')
    <2> SUFFICES ASSUME NEW c \in Comms PROVE due'[c] = Cardinality(CrashedOf(c)')
      BY Zenon
    <2>1. CASE ~Working(p)
      <3>1. \A i \in Valid(Table) : Table[i].pid # Pid(p)
        BY <1>1, <1>2, <2>1, Zenon DEF CalmInv, Entries, Once
      <3>2. CrashedOf(c)' = CrashedOf(c)
        BY <1>3, <1>5, <3>1, Zenon DEF CrashedOf
      <3>3. due'[c] = due[c]
        BY <1>1, <2>1, Zenon DEF Types
      <3> QED BY <1>6, <3>2, <3>3, Zenon
    <2>2. CASE Working(p)
      <3>1. PICK j \in Valid(Table) :
              /\ Table[j].pid = Pid(p) /\ Table[j].comm = Comm[p] /\ ~Crashed(Table[j])
              /\ \A i \in Valid(Table) : Table[i].pid = Pid(p) => i = j
        BY <1>2, <2>2, OwnEntry, Zenon
      <3>2. CASE c = Comm[p]
        <4>1. CrashedOf(c)' = CrashedOf(c) \cup {j} /\ j \notin CrashedOf(c)
          BY <1>3, <1>5, <3>1, <3>2, Zenon DEF CrashedOf
        <4>2. due'[c] = due[c] + 1
          BY <1>1, <2>2, <3>2, Zenon DEF Types
        <4>3. Cardinality(CrashedOf(c) \cup {j}) = Cardinality(CrashedOf(c)) + 1
          BY <4>1, CrashesFinite, FS_AddElement, Zenon
        <4> QED BY <1>6, <4>1, <4>2, <4>3, Zenon
      <3>3. CASE c # Comm[p]
        <4>1. CrashedOf(c)' = CrashedOf(c)
          BY <1>3, <1>5, <3>1, <3>3, Zenon DEF CrashedOf
        <4>2. due'[c] = due[c]
          BY <1>1, <3>3, Zenon DEF Types
        <4> QED BY <1>6, <4>1, <4>2, Zenon
      <3> QED BY <3>2, <3>3, Zenon
    <2> QED BY <2>1, <2>2, Zenon
  <1>8. Counting'
    BY <1>1, <1>2, <1>7, Zenon DEF Counting
  <1> QED BY <1>4, <1>8, Zenon DEF CalmInv

\* Who leaves may take out the entry of a crashed process of its command and
\* leave its own, which then counts as that of a crashed process.
LEMMA LeaveStep ==
  ASSUME Types, CalmInv, NEW p \in Procs, Working(p), Leaves(p), key' = key, due' = due
  PROVE  CalmInv'
PROOF
  <1> USE LifecycleAssumption
  <1> DEFINE i == Max(Own(Table, p))
  <1>1. Alive(p) /\ ~At(p, "remove") /\ pr[p].at = key
    BY Zenon DEF Working, Alive, At, CalmInv, OneSegment
  <1>2. key # NONE /\ key \in Memories
    BY <1>1, Zenon DEF Types
  <1>3. PICK j \in Valid(Table) :
              /\ Table[j].pid = Pid(p) /\ Table[j].comm = Comm[p] /\ ~Crashed(Table[j])
              /\ \A k \in Valid(Table) : Table[k].pid = Pid(p) => k = j
    BY <1>2, OwnEntry, Zenon
  <1>4. i \in Own(Table, p)
    <2>1. j \in Own(Table, p) /\ Own(Table, p) \subseteq Slots
      BY <1>3, Zenon DEF Own, Valid
    <2> QED BY <2>1, MaxIn, Zenon
  <1>5. /\ i \in Valid(Table)
        /\ i = j \/ (Table[i].comm = Comm[p] /\ Crashed(Table[i]))
    BY <1>3, <1>4, Zenon DEF Own
  <1> HIDE DEF i
  <1>6. nc_apps_check(Table, p).apps = [Table EXCEPT ![i] = NONE]
    BY <1>4, Zenon DEF nc_apps_check, i
  <1>7. /\ Table' = [Table EXCEPT ![i] = NONE] /\ mem'[key].set = mem[key].set
        /\ mem'[key].lock = mem[key].lock
    <2> DEFINE t == [Table EXCEPT ![i] = NONE]
               n == mem[key].participants - 1
    <2>1. mem' = [mem EXCEPT ![key] = [mem[key] EXCEPT !.apps = t, !.participants = n]]
      BY <1>1, <1>6, Zenon DEF Leaves, Mem, Table
    <2> HIDE DEF t, n
    <2>2. mem'[key] = [mem[key] EXCEPT !.apps = t, !.participants = n]
      BY <1>2, <2>1, Zenon DEF Types
    <2>3. mem'[key].apps = t /\ mem'[key].set = mem[key].set /\ mem'[key].lock = mem[key].lock
      BY <1>2, <2>2 DEF Types, Contents
    <2> QED BY <2>3, Zenon DEF t, Table
  <1>8. /\ Valid(Table)' = Valid(Table) \ {i}
        /\ \A k \in Valid(Table) \ {i} : Table'[k] = Table[k]
    BY <1>2, <1>7, EntryFacts, Zenon DEF Valid
  <1>9. pr' = [pr EXCEPT ![p] = Out(pr[p].starts)]
    BY Zenon DEF Leaves
  <1>10. mem[key].set
    BY <1>1, <1>2, Zenon DEF CalmInv, Making, Entering, Working
  <1>11. /\ OneSegment' /\ Making' /\ Deciding' /\ Entries' /\ Told'
         /\ ~Closing /\ ~Closing'
    BY <1>1, <1>2, <1>3, <1>5, <1>7, <1>8, <1>9, <1>10, EndKeeps, Zenon
  <1>12. \A k \in Valid(Table) : Table[k] \in Entry
    BY <1>2, EntryFacts, Zenon
  <1>13. \A k \in Valid(Table)' : Crashed(Table[k])' <=> Table[k].pid = Pid(p) \/ Crashed(Table[k])
    <2>1. \A e \in Entry : Crashed(e)' <=> e.pid = Pid(p) \/ Crashed(e)
      BY <1>1, <1>9, EndCrashes, Zenon
    <2> QED BY <1>8, <1>12, <2>1, Zenon
  <1>14. \A c \in Comms : Cardinality(CrashedOf(c)') = Cardinality(CrashedOf(c))
    <2> SUFFICES ASSUME NEW c \in Comms PROVE Cardinality(CrashedOf(c)') = Cardinality(CrashedOf(c))
      BY Zenon
    <2>1. CASE i = j \/ c # Comm[p]
      <3>1. CrashedOf(c)' = CrashedOf(c)
        BY <1>3, <1>5, <1>8, <1>13, <2>1 DEF CrashedOf
      <3> QED BY <3>1, Zenon
    <2>2. CASE i # j /\ c = Comm[p]
      <3>1. /\ CrashedOf(c)' = (CrashedOf(c) \ {i}) \cup {j}
            /\ i \in CrashedOf(c) /\ j \notin CrashedOf(c) \ {i}
        BY <1>3, <1>5, <1>8, <1>13, <2>2 DEF CrashedOf
      <3>2. /\ IsFiniteSet(CrashedOf(c) \ {i})
            /\ Cardinality(CrashedOf(c) \ {i}) = Cardinality(CrashedOf(c)) - 1
        BY <3>1, CrashesFinite, FS_RemoveElement, Zenon
      <3>3. Cardinality(CrashedOf(c)') = Cardinality(CrashedOf(c) \ {i}) + 1
        BY <3>1, <3>2, FS_AddElement, Zenon
      <3> QED BY <3>2, <3>3, CrashesFinite
    <2> QED BY <2>1, <2>2, Zenon
  <1>15. Counting'
    BY <1>2, <1>11, <1>14, Zenon DEF CalmInv, Counting
  <1> QED BY <1>11, <1>15, Zenon DEF CalmInv

\* The last one: whoever else is alive would be starting, or hold the lock,
\* or have an entry.
LEMMA CloseStep ==
  ASSUME Types, CalmInv, NEW p \in Procs, nc_close(p), calm'
  PROVE  CalmInv'
PROOF
  <1> USE LifecycleAssumption
  <1> DEFINE found == nc_apps_check(Table, p)
  <1>1. /\ Working(p) /\ Alive(p) /\ pr[p].at = key /\ At(p, "running")
        /\ mem[key].lock = NONE /\ Mem(p) = mem[key]
    BY Zenon DEF nc_close, At, Working, Alive, CalmInv, OneSegment, Mem
  <1>2. key # NONE /\ key \in Memories /\ key' = key /\ due' = due
    BY <1>1, Zenon DEF nc_close, Types
  <1>3. CASE Leaves(p)
    BY <1>1, <1>2, <1>3, LeaveStep, Zenon
  <1>4. CASE /\ ~found.others /\ mem' = [mem EXCEPT ![key].apps = found.apps]
             /\ Goto(p, "remove") /\ ~Starting
    <2>1. Others(Table, p) = {}
      BY <1>4, Zenon DEF nc_apps_check
    <2>2. \A i \in Valid(Table) : Table[i] \in Entry
      BY <1>2, EntryFacts, Zenon
    <2>3. ASSUME NEW q \in Procs \ {p} PROVE At(q, "out")
      <3>1. ~Entering(q)
        BY <1>4, Zenon DEF Starting, Entering
      <3>2. ~At(q, "clean")
        BY <1>1, Zenon DEF CalmInv, Deciding
      <3>3. ~At(q, "remove")
        BY <1>1, Zenon DEF CalmInv, OneSegment, At
      <3>4. ~Working(q)
        <4> SUFFICES ASSUME Working(q) PROVE FALSE
          BY Zenon
        <4>1. PICK j \in Valid(Table) : Table[j].pid = Pid(q) /\ ~Crashed(Table[j])
          BY <1>2, OwnEntry, Zenon
        <4>2. Pid(q) # Pid(p)
          BY Zenon DEF Pid
        <4> QED BY <2>1, <4>1, <4>2, Zenon DEF Others
      <3>5. pr[q].pc \in Pcs
        BY Zenon DEF Types, Process
      <3> QED BY <3>1, <3>2, <3>3, <3>4, <3>5, Zenon DEF Pcs, Entering, Working, At
    <2>4. /\ pr'[p].pc = "remove" /\ pr'[p].starts = pr[p].starts /\ pr'[p].at = key
          /\ \A q \in Procs \ {p} : pr'[q] = pr[q]
      BY <1>1, <1>4, GotoEffect
    <2>5. Table' = found.apps /\ mem'[key].set = mem[key].set /\ mem'[key].lock = mem[key].lock
      <3> HIDE DEF found
      <3> QED BY <1>2, <1>4, Zenon DEF Types, Contents, Table
    <2>6. /\ Valid(Table)' \subseteq Valid(Table)
          /\ \A i \in Valid(Table)' : Table'[i] = Table[i]
      <3>1. Table' = Table \/ \E i : Table' = [Table EXCEPT ![i] = NONE]
        BY <2>5, Zenon DEF nc_apps_check
      <3> QED BY <1>2, <3>1, EntryFacts, Zenon DEF Valid
    <2>7. OneSegment'
      BY <1>2, <2>3, <2>4 DEF OneSegment, Alive, At
    <2>8. mem[key].set
      BY <1>1, <1>2, Zenon DEF CalmInv, Making, Entering, Working
    <2>9. Making' /\ Deciding' /\ Told'
      BY <1>2, <2>3, <2>4, <2>5, <2>8, Zenon DEF Making, Deciding, Told, Entering, At
    <2>10. Started'
      BY <1>2, <2>2, <2>4, <2>6, EntryFacts DEF CalmInv, Entries, Started
    <2>11. Listed'
      BY <2>3, <2>4, Zenon DEF Listed, Working, At
    <2>12. Once'
      <3>1. \A q \in Procs : Pid(q)' = Pid(q)
        BY <2>4, Zenon DEF Pid
      <3>2. \A q \in Procs : Alive(q)' => q = p
        BY <2>3, <2>4, Zenon DEF Alive, At
      <3>3. At(p, "remove")'
        BY <2>4, Zenon DEF At
      <3> QED BY <1>1, <1>2, <2>6, <3>1, <3>2, <3>3 DEF CalmInv, Entries, Once
    <2>13. Counting'
      BY <1>2, <2>4, Zenon DEF Counting, Closing, At
    <2> QED BY <2>7, <2>9, <2>10, <2>11, <2>12, <2>13, Zenon DEF CalmInv, Entries
  <1> QED BY <1>1, <1>3, <1>4, Zenon DEF nc_close, Table

LEMMA RegisterStep ==
  ASSUME Types, CalmInv, NEW p \in Procs, Register(p), calm'
  PROVE  CalmInv'
PROOF
  <1> USE LifecycleAssumption
  <1> DEFINE free == Slots \ Valid(Table)
             j == Min(free)
             e == [pid |-> Pid(p), comm |-> Comm[p]]
  <1>1. /\ At(p, "clean") /\ Alive(p) /\ ~Working(p) /\ ~Entering(p) /\ pr[p].at = key
        /\ mem[key].lock = p /\ Mem(p) = mem[key]
    BY Zenon DEF Register, At, Working, Entering, Alive, CalmInv, OneSegment, Deciding, Mem
  <1>2. key # NONE /\ key \in Memories /\ key' = key /\ due' = due
    BY <1>1, Zenon DEF Register, Types
  <1>3. mem[key].set
    BY <1>1, <1>2, Zenon DEF CalmInv, Making
  <1>4. j \in free
    <2>1. Valid(Table) # Slots
      BY <1>1, Zenon DEF Register, Table
    <2>2. free # {} /\ free \subseteq Slots
      BY <2>1, Zenon DEF Valid
    <2> QED BY <2>2, MinIn, Zenon
  <1>5. e \in Entry /\ e # NONE /\ e.pid = Pid(p) /\ e.comm = Comm[p]
    BY Zenon DEF Pid, Entry, Comms, Types, Process
  <1>6. nc_apps_add(Table, p) = [Table EXCEPT ![j] = e]
    BY <1>4, Zenon DEF nc_apps_add
  <1> HIDE DEF free, j, e
  <1>7. Table' = [Table EXCEPT ![j] = e] /\ mem'[key].set = mem[key].set
    <2> DEFINE t == [Table EXCEPT ![j] = e]
               n == mem[key].participants + 1
    <2>1. mem' = [mem EXCEPT ![key] = [mem[key] EXCEPT !.lock = NONE, !.participants = n, !.apps = t]]
      BY <1>1, <1>6, Zenon DEF Register, Table
    <2> HIDE DEF t, n
    <2>2. mem'[key] = [mem[key] EXCEPT !.lock = NONE, !.participants = n, !.apps = t]
      BY <1>2, <2>1, Zenon DEF Types
    <2>3. mem'[key].apps = t /\ mem'[key].set = mem[key].set
      BY <1>2, <2>2 DEF Types, Contents
    <2> QED BY <1>2, <2>3, Zenon DEF t, Table
  <1>8. /\ Valid(Table)' = Valid(Table) \cup {j} /\ j \notin Valid(Table)
        /\ Table'[j] = e /\ \A i \in Valid(Table) : Table'[i] = Table[i]
    BY <1>2, <1>4, <1>5, <1>7, EntryFacts, Zenon DEF Valid, free
  <1>9. /\ pr'[p].pc = "start" /\ pr'[p].starts = pr[p].starts /\ pr'[p].at = pr[p].at
        /\ pr'[p].made = pr[p].made /\ pr'[p].ret = pr[p].ret /\ pr'[p].owed = pr[p].owed
        /\ \A q \in Procs \ {p} : pr'[q] = pr[q]
    BY GotoEffect, Zenon DEF Register
  <1>10. \A q \in Procs : /\ Pid(q)' = Pid(q) /\ pr'[q].starts = pr[q].starts
                          /\ Alive(q)' <=> Alive(q)
    BY <1>1, <1>9, Zenon DEF Pid, Alive
  <1>11. \A q \in Procs : At(q, "clean") => q = p
    BY <1>1, Zenon DEF CalmInv, Deciding
  <1>12. OneSegment'
    BY <1>1, <1>2, <1>9 DEF CalmInv, OneSegment, Alive, At
  <1>13. Making'
    BY <1>2, <1>3, <1>7, <1>9, Zenon DEF CalmInv, Making, Entering, At
  <1>14. Deciding'
    BY <1>9, <1>11, Zenon DEF Deciding, At
  <1>15. Told'
    BY <1>1, <1>9 DEF CalmInv, Told, At
  <1>16. Started'
    <2>1. e.pid[2] <= pr[e.pid[1]].starts /\ e.comm = Comm[e.pid[1]] /\ e.pid[1] = p
      BY <1>5 DEF Pid, Types, Process
    <2>2. \A i \in Valid(Table) : Table[i].pid[1] \in Procs
      BY <1>2, EntryFacts, Zenon
    <2> QED BY <1>2, <1>8, <1>10, <2>1, <2>2 DEF CalmInv, Entries, Started
  <1>17. Listed'
    <2>1. \A q \in Procs \ {p} : Working(q)' <=> Working(q)
      BY <1>9, Zenon DEF Working
    <2> QED BY <1>2, <1>5, <1>8, <1>10, <2>1 DEF CalmInv, Entries, Listed
  <1>18. Once'
    <2>1. \A i \in Valid(Table) : Table[i].pid # Pid(p)
      BY <1>1, <1>2, Zenon DEF CalmInv, Entries, Once, At
    <2>2. \A q \in Procs \ {p} : Pid(q) # Pid(p)
      BY Zenon DEF Pid
    <2>3. Working(p)'
      BY <1>9, Zenon DEF Working
    <2>4. \A q \in Procs \ {p} : /\ Working(q)' <=> Working(q)
                                 /\ At(q, "remove")' <=> At(q, "remove")
      BY <1>9, Zenon DEF Working, At
    <2> QED BY <1>2, <1>5, <1>8, <1>10, <2>1, <2>2, <2>3, <2>4 DEF CalmInv, Entries, Once
  <1>19. Counting'
    <2>1. \A i : Table'[i] = e => ~Crashed(Table[i])'
      <3>1. e.pid[1] = p
        BY <1>5 DEF Pid
      <3> QED BY <1>1, <1>5, <1>10, <3>1, Zenon DEF Crashed
    <2>2. \A i \in Valid(Table) : Crashed(Table[i])' <=> Crashed(Table[i])
      <3>1. \A i \in Valid(Table) : Table[i].pid[1] \in Procs
        BY <1>2, EntryFacts, Zenon
      <3> QED BY <1>8, <1>10, <3>1, Zenon DEF Crashed
    <2>3. \A c : CrashedOf(c)' = CrashedOf(c)
      BY <1>8, <2>1, <2>2, Zenon DEF CrashedOf
    <2>4. ~Closing
      BY <1>1, Zenon DEF CalmInv, OneSegment, Closing, At
    <2> QED BY <1>2, <2>3, <2>4, Zenon DEF CalmInv, Counting
  <1> QED BY <1>12, <1>13, <1>14, <1>15, <1>16, <1>17, <1>18, <1>19, Zenon DEF CalmInv, Entries

\* What Decide does, given the entries it found.
DecideWith(p, own, others, apps) ==
  /\ mem' = [mem EXCEPT ![key] = [mem[key] EXCEPT !.set = mem[key].set \/ pr[p].made,
                                                  !.lock = p, !.apps = apps,
                                                  !.participants = mem[key].participants - (IF own # {} THEN 1 ELSE 0)]]
  /\ pr' = [pr EXCEPT ![p] = [pr[p] EXCEPT !.pc = "clean",
                !.first = pr[p].made \/ (~(others # {}) /\ p \in Multi),
                !.ret = (IF own # {} THEN {"recovery"} ELSE {})
                        \cup (IF others # {} THEN {"notfirst"} ELSE {}),
                !.owed = Owed(p)]]

\* Who has decided holds the lock; the rest of the invariant follows from what
\* became of the table.
LEMMA DecidedStep ==
  ASSUME Types, CalmInv, NEW p \in Procs, At(p, "enter"), mem[key].lock = NONE, pr[p].at = key,
         key \in Memories, key' = key,
         NEW own, NEW others, NEW apps, DecideWith(p, own, others, apps),
         Valid(apps) \subseteq Valid(Table), \A i \in Valid(apps) : apps[i] = Table[i],
         \A i \in Valid(Table) \ Valid(apps) : Crashed(Table[i]),
         own # {} <=> due[Comm[p]] > 0,
         pr[p].made \/ others = {} => \A q \in Procs : ~Working(q)
  PROVE  /\ OneSegment' /\ Making' /\ Deciding' /\ Entries' /\ Told'
         /\ Table' = apps /\ ~Closing
         /\ \A i \in Valid(apps) : Crashed(Table[i])' <=> Crashed(Table[i])
PROOF
  <1> USE LifecycleAssumption
  <1>1. key # NONE /\ Alive(p) /\ Entering(p) /\ ~Working(p)
    BY Zenon DEF At, Alive, Entering, Working
  <1>2. mem'[key].lock = p /\ mem'[key].apps = apps /\ mem'[key].set = (mem[key].set \/ pr[p].made)
    BY DEF DecideWith, Types, Contents
  <1>3. Table' = apps
    BY <1>2, Zenon DEF Table
  <1>4. /\ pr'[p].pc = "clean" /\ pr'[p].starts = pr[p].starts /\ pr'[p].at = pr[p].at
        /\ pr'[p].first => pr[p].made \/ others = {}
        /\ ("recovery" \in pr'[p].ret) <=> own # {}
        /\ ("recovery" \in pr'[p].owed) <=> due[Comm[p]] > 0
        /\ \A q \in Procs \ {p} : pr'[q] = pr[q]
    <2> DEFINE f == pr[p].made \/ (~(others # {}) /\ p \in Multi)
               r == (IF own # {} THEN {"recovery"} ELSE {})
                    \cup (IF others # {} THEN {"notfirst"} ELSE {})
               o == Owed(p)
    <2>1. ("recovery" \in r <=> own # {}) /\ ("recovery" \in o <=> due[Comm[p]] > 0)
      BY Zenon DEF Owed
    <2>2. pr' = [pr EXCEPT ![p] = [pr[p] EXCEPT !.pc = "clean", !.first = f, !.ret = r, !.owed = o]]
      BY Zenon DEF DecideWith
    <2> HIDE DEF f, r, o
    <2>3. /\ pr'[p] = [pr[p] EXCEPT !.pc = "clean", !.first = f, !.ret = r, !.owed = o]
          /\ \A q \in Procs \ {p} : pr'[q] = pr[q]
      BY <2>2, Zenon DEF Types
    <2>4. /\ pr'[p].pc = "clean" /\ pr'[p].starts = pr[p].starts /\ pr'[p].at = pr[p].at
          /\ pr'[p].first = f /\ pr'[p].ret = r /\ pr'[p].owed = o
      BY <2>3 DEF Types, Process
    <2> QED BY <2>1, <2>3, <2>4, Zenon DEF f
  <1>5. \A q \in Procs : Pid(q)' = Pid(q) /\ (Alive(q)' <=> Alive(q)) /\ pr'[q].starts = pr[q].starts
    BY <1>1, <1>4, Zenon DEF Pid, Alive
  <1>6. \A q \in Procs : /\ Working(q)' <=> Working(q)
                         /\ At(q, "remove")' <=> At(q, "remove")
                         /\ ~At(q, "remove") /\ ~At(q, "clean")
    <2>1. \A q \in Procs : ~At(q, "clean")
      BY Zenon DEF CalmInv, Deciding
    <2>2. \A q \in Procs : ~At(q, "remove")
      BY <1>1, Zenon DEF CalmInv, OneSegment, At, Alive
    <2> QED BY <1>1, <1>4, <2>1, <2>2, Zenon DEF Working, At
  <1>7. \A i \in Valid(apps) : Crashed(Table[i])' <=> Crashed(Table[i])
    <2>1. \A i \in Valid(Table) : Table[i].pid[1] \in Procs
      BY <1>1, EntryFacts, Zenon
    <2> QED BY <1>3, <1>5, <2>1, Zenon DEF Crashed
  <1>8. OneSegment'
    BY <1>4, <1>5, <1>6 DEF CalmInv, OneSegment, Alive
  <1>9. Making'
    <2>1. mem[key].set \/ pr[p].made
      BY <1>1, Zenon DEF CalmInv, Making
    <2>2. mem'[key].set
      BY <1>2, <2>1, Zenon
    <2>3. \A q \in Procs \ {p} : Entering(q) => ~pr[q].made
      BY <1>1, Zenon DEF CalmInv, Making, Alive, Entering
    <2> QED BY <1>1, <1>4, <2>2, <2>3, Zenon DEF CalmInv, Making, Entering, At
  <1>10. Deciding'
    <2>1. pr'[p].first => \A q \in Procs : ~Working(q)'
      BY <1>4, <1>6, Zenon
    <2> QED BY <1>2, <1>4, <1>6, <2>1 DEF Deciding, At
  <1>11. Told'
    BY <1>4, Zenon DEF CalmInv, Told
  <1>12. Started'
    <2>1. \A i \in Valid(Table) : Table[i].pid[1] \in Procs
      BY <1>1, EntryFacts, Zenon
    <2> QED BY <1>1, <1>3, <1>5, <2>1 DEF CalmInv, Entries, Started
  <1>13. Listed'
    <2> SUFFICES ASSUME NEW q \in Procs, Working(q)
                 PROVE  \E i \in Valid(apps) : apps[i].pid = Pid(q)
      BY <1>3, <1>5, <1>6 DEF Listed
    <2>1. PICK j \in Valid(Table) : Table[j].pid = Pid(q) /\ ~Crashed(Table[j])
      BY <1>1, OwnEntry, Zenon
    <2> QED BY <2>1, Zenon
  <1>14. Once'
    BY <1>1, <1>3, <1>5, <1>6 DEF CalmInv, Entries, Once
  <1>15. ~Closing
    BY <1>6, Zenon DEF Closing
  <1> QED BY <1>3, <1>7, <1>8, <1>9, <1>10, <1>11, <1>12, <1>13, <1>14, <1>15, Zenon DEF Entries

LEMMA DecideStep ==
  ASSUME Types, CalmInv, NEW p \in Procs, Decide(p)
  PROVE  CalmInv'
PROOF
  <1> USE LifecycleAssumption
  <1>1. /\ At(p, "enter") /\ Alive(p) /\ Entering(p) /\ pr[p].at = key /\ key \in Memories
        /\ mem[key].lock = NONE /\ Mem(p) = mem[key] /\ key # NONE
    BY Zenon DEF Decide, At, Entering, Alive, CalmInv, OneSegment, Mem, Types
  <1>2. key' = key /\ due' = [due EXCEPT ![Comm[p]] = IF @ > 0 THEN @ - 1 ELSE 0]
    BY Zenon DEF Decide
  <1>3. ~Closing /\ \A c \in Comms : due[c] = Cardinality(CrashedOf(c))
    BY <1>1, Zenon DEF CalmInv, OneSegment, Closing, At, Alive, Counting
  <1>4. Comm[p] \in Comms /\ due \in [Comms -> Nat]
    BY Zenon DEF Comms, Types
  <1>5. Table \in [Slots -> Entry \cup {NONE}]
    BY <1>1, EntryFacts, Zenon
  <1>6. CASE pr[p].made
    <2>1. Table = Fresh.apps /\ \A q \in Procs : Alive(q) => q = p
      BY <1>1, <1>6, Zenon DEF CalmInv, Making, Table
    <2>2. Valid(Table) = {}
      BY <2>1, Zenon DEF Valid, Fresh
    <2>3. \A c \in Comms : due[c] = 0
      BY <1>3, <2>2, FS_EmptySet, Zenon DEF CrashedOf
    <2>4. DecideWith(p, {}, {}, Fresh.apps)
      BY <1>1, <1>6, Zenon DEF Decide, DecideWith, LessOne
    <2>5. \A q \in Procs : ~Working(q)
      BY <1>1, <2>1, Zenon DEF Working, Alive, At
    <2>6. /\ OneSegment' /\ Making' /\ Deciding' /\ Entries' /\ Told' /\ Table' = Fresh.apps
      BY <1>1, <1>2, <1>4, <2>1, <2>2, <2>3, <2>4, <2>5, DecidedStep
    <2>7. \A c : CrashedOf(c)' = {}
      BY <2>1, <2>2, <2>6, Zenon DEF CrashedOf
    <2>8. \A c \in Comms : due'[c] = 0
      BY <1>2, <1>4, <2>3
    <2>9. Counting'
      BY <1>1, <1>2, <2>7, <2>8, FS_EmptySet, Zenon DEF Counting
    <2> QED BY <2>6, <2>9, Zenon DEF CalmInv
  <1>7. CASE ~pr[p].made
    <2> DEFINE own == Own(Table, p)
               i == Max(own)
               others == Others(Table, p)
               apps == nc_apps_check(Table, p).apps
    <2>1. own = CrashedOf(Comm[p])
      <3>1. \A k \in Valid(Table) : Table[k].pid # Pid(p)
        BY <1>1, Zenon DEF CalmInv, Entries, Once, Working, At
      <3> QED BY <3>1, Zenon DEF Own, CrashedOf
    <2>2. own # {} <=> due[Comm[p]] > 0
      BY <1>3, <1>4, <2>1, CrashesFinite, FS_EmptySet
    <2>3. DecideWith(p, own, others, apps)
      BY <1>1, <1>7, Zenon DEF Decide, DecideWith, LessOne, Table, nc_apps_check
    <2>4. others = {} => \A q \in Procs : ~Working(q)
      <3> SUFFICES ASSUME NEW q \in Procs, Working(q) PROVE others # {}
        BY Zenon
      <3>1. PICK j \in Valid(Table) : Table[j].pid = Pid(q) /\ ~Crashed(Table[j])
        BY <1>1, OwnEntry, Zenon
      <3>2. Pid(q) # Pid(p)
        BY <1>1, Zenon DEF Pid, Working, At
      <3> QED BY <3>1, <3>2, Zenon DEF Others
    <2>5. CASE own = {}
      <3>1. apps = Table
        BY <2>5, Zenon DEF nc_apps_check
      <3>2. /\ OneSegment' /\ Making' /\ Deciding' /\ Entries' /\ Told' /\ Table' = Table
            /\ \A k \in Valid(Table) : Crashed(Table[k])' <=> Crashed(Table[k])
        <4> HIDE DEF own, others, apps
        <4> QED BY <1>1, <1>2, <1>4, <1>7, <2>2, <2>3, <2>4, <3>1, DecidedStep, Zenon
      <3>3. \A c : CrashedOf(c)' = CrashedOf(c)
        BY <3>2, Zenon DEF CrashedOf
      <3>4. due' = due
        BY <1>2, <1>4, <2>2, <2>5
      <3>5. Counting'
        BY <1>1, <1>2, <1>3, <3>3, <3>4, Zenon DEF Counting
      <3> QED BY <3>2, <3>5, Zenon DEF CalmInv
    <2>6. CASE own # {}
      <3>1. i \in own
        <4>1. own \subseteq Slots
          BY Zenon DEF Own, Valid
        <4> QED BY <2>6, <4>1, MaxIn, Zenon
      <3>2. apps = [Table EXCEPT ![i] = NONE]
        BY <2>6, Zenon DEF nc_apps_check
      <3> HIDE DEF own, others, apps, i
      <3>3. /\ Valid(apps) = Valid(Table) \ {i} /\ i \in Valid(Table)
            /\ \A k \in Valid(apps) : apps[k] = Table[k]
        BY <1>5, <2>1, <3>1, <3>2, Zenon DEF Valid, CrashedOf
      <3>4. Crashed(Table[i]) /\ Table[i].comm = Comm[p]
        BY <2>1, <3>1, Zenon DEF CrashedOf
      <3>5. /\ OneSegment' /\ Making' /\ Deciding' /\ Entries' /\ Told' /\ Table' = apps
            /\ \A k \in Valid(apps) : Crashed(Table[k])' <=> Crashed(Table[k])
        <4>1. /\ Valid(apps) \subseteq Valid(Table)
              /\ \A k \in Valid(Table) \ Valid(apps) : Crashed(Table[k])
          BY <3>3, <3>4, Zenon
        <4> QED BY <1>1, <1>2, <1>7, <2>2, <2>3, <2>4, <2>6, <3>3, <4>1, DecidedStep
      <3>6. /\ \A k : k \in CrashedOf(Comm[p]) \ {i} <=> k \in CrashedOf(Comm[p])'
            /\ \A c : c # Comm[p] => CrashedOf(c)' = CrashedOf(c)
        BY <3>3, <3>4, <3>5, Zenon DEF CrashedOf
      <3>7. due'[Comm[p]] = due[Comm[p]] - 1 /\ \A c \in Comms \ {Comm[p]} : due'[c] = due[c]
        BY <1>2, <1>4, <2>2, <2>6, Zenon
      <3>8. Cardinality(CrashedOf(Comm[p]) \ {i}) = Cardinality(CrashedOf(Comm[p])) - 1
        BY <2>1, <3>1, CrashesFinite, FS_RemoveElement, Zenon
      <3>9. ASSUME NEW c \in Comms PROVE due'[c] = Cardinality(CrashedOf(c)')
        <4>1. CASE c = Comm[p]
          <5>1. CrashedOf(c)' = CrashedOf(c) \ {i}
            BY <3>6, <4>1, Zenon
          <5> QED BY <1>3, <3>7, <3>8, <4>1, <5>1, Zenon
        <4>2. CASE c # Comm[p]
          BY <1>3, <3>6, <3>7, <4>2, Zenon
        <4> QED BY <4>1, <4>2, Zenon
      <3>10. Counting'
        BY <1>1, <1>2, <3>9, Zenon DEF Counting
      <3> QED BY <3>5, <3>10, Zenon DEF CalmInv
    <2> QED BY <2>5, <2>6, Zenon
  <1> QED BY <1>6, <1>7, Zenon

(***************************************************************************)
(* The invariant, and what it shows                                        *)
(***************************************************************************)
LEMMA LifeInvInit == Init => LifeInv
PROOF
  <1> SUFFICES ASSUME Init PROVE LifeInv
    BY Zenon
  <1>1. pr \in [Procs -> Process] /\ \A p \in Procs : At(p, "out") /\ ~Alive(p)
    BY LifecycleAssumption, OutType DEF Init, At, Alive
  <1>2. Types
    BY <1>1, FreshType, Zenon DEF Init, Types, Comms
  <1>3. OneSegment /\ Making /\ Deciding /\ Told /\ Entries
    BY <1>1, Zenon DEF Init, OneSegment, Making, Deciding, Told, Entries, At, Alive
  <1>4. Counting
    BY Zenon DEF Init, Counting, Comms
  <1> QED BY <1>2, <1>3, <1>4, Zenon DEF LifeInv, CalmInv

LEMMA LifeInvStep == LifeInv /\ [Next]_vars => LifeInv'
PROOF
  <1> SUFFICES ASSUME LifeInv, [Next]_vars PROVE LifeInv'
    BY Zenon
  <1>1. Types /\ Types'
    BY TypesStep, Zenon DEF LifeInv
  <1>2. calm' => calm
    BY <1>1, Zenon DEF Next, vars, OpenMemory, Attach, SetUp, Decide, Register, StartSubsystems,
                StartFails, nc_close, nc_shared_cleanup, Crash, Types
  <1> SUFFICES ASSUME calm', CalmInv PROVE CalmInv'
    BY <1>1, <1>2, Zenon DEF LifeInv
  <1>3. CASE UNCHANGED vars
    <2>1. OneSegment' /\ Making' /\ Deciding' /\ Told'
      BY <1>3, Zenon DEF vars, CalmInv, OneSegment, Making, Deciding, Told, Alive, At, Entering, Working
    <2>2. Valid(Table)' = Valid(Table) /\ Table' = Table
      BY <1>3, Zenon DEF vars, Table, Valid
    <2>3. Entries'
      BY <1>3, <2>2, Zenon DEF vars, CalmInv, Entries, Started, Listed, Once, Alive, At, Working, Pid
    <2>4. \A c : CrashedOf(c)' = CrashedOf(c)
      BY <1>3, <2>2, Zenon DEF vars, CrashedOf, Crashed, Alive, Pid
    <2>5. Counting'
      BY <1>3, <2>4, Zenon DEF vars, CalmInv, Counting, Closing, At
    <2> QED BY <2>1, <2>3, <2>5, Zenon DEF CalmInv
  <1>4. CASE Next
    <2>1. PICK p \in Procs :
            \/ OpenMemory(p) \/ Attach(p) \/ SetUp(p) \/ Decide(p) \/ Register(p)
            \/ StartSubsystems(p) \/ StartFails(p) \/ nc_close(p) \/ nc_shared_cleanup(p) \/ Crash(p)
      BY <1>4, Zenon DEF Next
    <2>2. CASE OpenMemory(p)
      BY <1>1, <2>2, MakeStep, OpenStep, Zenon
    <2>3. CASE Attach(p) \/ SetUp(p) \/ StartSubsystems(p)
      BY <1>1, <2>3, StartingSteps, Zenon
    <2>4. CASE Decide(p)
      BY <1>1, <2>4, DecideStep, Zenon
    <2>5. CASE Register(p)
      BY <1>1, <2>5, RegisterStep, Zenon
    <2>6. CASE StartFails(p)
      <3>1. Working(p) /\ Leaves(p) /\ key' = key /\ due' = due
        BY <2>6, Zenon DEF StartFails, Working, At
      <3> QED BY <1>1, <3>1, LeaveStep, Zenon
    <2>7. CASE nc_close(p)
      BY <1>1, <2>7, CloseStep, Zenon
    <2>8. CASE nc_shared_cleanup(p)
      BY <1>1, <2>8, RemoveStep, Zenon
    <2>9. CASE Crash(p)
      BY <1>1, <2>9, CrashStep, Zenon
    <2> QED BY <2>1, <2>2, <2>3, <2>4, <2>5, <2>6, <2>7, <2>8, <2>9, Zenon
  <1> QED BY <1>3, <1>4, Zenon

\* For any processes, commands, table size and number of starts: nc_init of the
\* first and nc_close of the last process remove what all of them share only
\* when no other process works, whoever crashed before, as long as no start met
\* the making or the removal of the shared memory and the table was not full.
THEOREM CleanupIsAlone == Spec => []CleanupAlone
PROOF
  <1>1. LifeInv => CleanupAlone
    BY Zenon DEF LifeInv, CleanupAlone, CleansUp, CalmInv, Deciding, OneSegment, Working, At
  <1> QED BY <1>1, LifeInvInit, LifeInvStep, PTL DEF Spec

\* Under the same condition nc_init finds NC_INITRET_RECOVERY exactly when a
\* process of the command crashed, since the shared memory was made, and no
\* nc_init has found it yet: as long as the memory is there, a crash is neither
\* lost nor found twice, in whatever order processes come and go.
THEOREM CrashesTold == Spec => []RecoveryTold
PROOF
  <1>1. LifeInv => RecoveryTold
    BY Zenon DEF LifeInv, RecoveryTold, CalmInv, Told
  <1> QED BY <1>1, LifeInvInit, LifeInvStep, PTL DEF Spec

=============================================================================
