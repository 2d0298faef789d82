---------------------------- MODULE SessionList ----------------------------
(***************************************************************************)
(* The list of monitored sessions (src/session.c).                         *)
(*                                                                         *)
(* All processes map one file.  It holds a header (count, first_offset)    *)
(* and records of different sizes, linked in both directions by relative   *)
(* offsets; a new record goes into the first gap that is large enough.     *)
(* Every operation holds the write lock of the file.  Sizes and offsets    *)
(* are counted in units, so that the names of a long record may lie where  *)
(* another record began.                                                   *)
(***************************************************************************)
EXTENDS Integers, FiniteSets, FiniteSetsExt

CONSTANTS
  Procs,       \* processes
  Handles,     \* session structures of the processes
  Dummies,     \* those with status NC_SESSION_STATUS_DUMMY
  IdOf,        \* session id of a structure
  SizeOf,      \* size of its record
  HomeOf,      \* the process that creates it
  Head,        \* size of the header, before the first record
  Size,        \* session_list->size, the size of the file
  Load,        \* the structures that are used, by the value of keepalive
  Start,       \* processes that run at the beginning; the others are new PIDs
  NoId, NoProc \* contents of unused memory

ASSUME ListAssumption ==
  /\ Dummies \subseteq Handles
  /\ SizeOf \in [Handles -> Nat \ {0}]
  /\ HomeOf \in [Handles -> Procs]
  /\ Head \in Nat /\ Size \in Nat
  /\ \A h \in Handles : Head + SizeOf[h] <= Size
  /\ \A h \in Handles : IdOf[h] # NoId
  /\ NoProc \notin Procs
  /\ Start \subseteq Procs
  /\ Load \in [BOOLEAN -> SUBSET Handles]

VARIABLES
  keepalive,    \* NC_INIT_KEEPALIVECHECK in nc_init_flags
  rec,          \* the mapped file, as a record at each offset
  count,        \* session_list->count
  first_offset, \* session_list->first_offset
  hstate,       \* structures: none, open, freed, lost (process died)
  monitored,    \* session->monitored
  stats,        \* session->stats: the offset of its record, or -1 (own memory)
  home,         \* the process that holds the structure
  up,           \* running processes
  locker,       \* the process that keeps the write lock between two steps, or none
  cursor,       \* where its alive check is
  undefined     \* history: a wrong link was followed, or the file was left

listVars == <<rec, count, first_offset>>
sessVars == <<keepalive, hstate, monitored, stats, home, up>>
checkVars == <<locker, cursor>>
vars == <<keepalive, rec, count, first_offset, hstate, monitored, stats, home, up,
          locker, cursor, undefined>>

Offsets == 0 .. Size - 1

\* memory that was never written, and memory with the names of a record
Blank ==
  [prev |-> 0, next |-> 0, size |-> 0, active |-> "0", scounter |-> 0, id |-> NoId, pid |-> NoProc]
Text == [Blank EXCEPT !.active = "text"]

\* the offsets that the loops over the list visit
Walk ==
  LET after[n \in Offsets] ==
        IF n = 0 THEN {first_offset}
        ELSE LET known == after[n - 1]
             IN known \cup {o + rec[o].next : o \in known}
  IN  after[Size - 1]
Listed == IF count > 0 THEN Walk ELSE {}

\* memory m after the record of h has been written at o; the field active
\* keeps what was there for a dummy session
Written(m, o, h, prev, next) ==
  {[x \in Offsets |->
      IF x = o
      THEN [prev |-> prev, next |-> next, size |-> SizeOf[h],
            active |-> a, scounter |-> 1, id |-> IdOf[h], pid |-> home[h]]
      ELSE IF o < x /\ x < o + SizeOf[h] THEN Text ELSE m[x]] :
   a \in IF h \notin Dummies THEN {"1"}
         ELSE IF m[o].active = "text" THEN {"0", "1", "text"} ELSE {m[o].active}}

(***************************************************************************)
(* nc_session_monitor                                                      *)
(***************************************************************************)
\* The structure is created in a running process that is not waiting for
\* the lock (the alive check of another process holds it).
Enters(h) ==
  /\ ~undefined
  /\ locker = NoProc
  /\ hstate[h] = "none" /\ h \in Load[keepalive]
  /\ home[h] \in up

Connect(h, o) ==
  /\ monitored' = [monitored EXCEPT ![h] = TRUE]
  /\ stats' = [stats EXCEPT ![h] = o]

Opened(h) ==
  /\ hstate' = [hstate EXCEPT ![h] = "open"]
  /\ UNCHANGED <<keepalive, home, up, checkVars>>

\* mutant: the process of the real session is not stored
MonitorAgainKeepsPid(h) ==
  /\ Enters(h)
  /\ \E o \in Listed :
       /\ rec[o].id = IdOf[h]
       /\ \/ h \in Dummies \/ rec[o].active = "0"
       /\ rec' = [rec EXCEPT ![o].scounter = @ + 1,
                             ![o].active = IF h \in Dummies THEN @ ELSE "1"]
       /\ Connect(h, o)
  /\ Opened(h)
  /\ UNCHANGED <<count, first_offset, undefined>>

\* there is a record with this id
MonitorAgain(h) ==
  /\ Enters(h)
  /\ \E o \in Listed :
       /\ rec[o].id = IdOf[h]
       /\ \/ /\ h \in Dummies
             /\ rec' = [rec EXCEPT ![o].scounter = @ + 1]
             /\ Connect(h, o)
          \/ /\ h \notin Dummies /\ rec[o].active = "0"
             /\ rec' = [rec EXCEPT ![o].scounter = @ + 1, ![o].active = "1", ![o].pid = home[h]]
             /\ Connect(h, o)
          \/ /\ h \notin Dummies /\ rec[o].active = "1"
             /\ rec' = [rec EXCEPT ![o].pid = home[h]]
             /\ UNCHANGED <<monitored, stats>>
          \/ /\ h \notin Dummies /\ rec[o].active = "text"
             /\ UNCHANGED <<rec, monitored, stats>>
  /\ Opened(h)
  /\ UNCHANGED <<count, first_offset, undefined>>

\* mutant: the search for a record with the same id is left out
NotSearched(h) == Enters(h)

IsNew(h) == Enters(h) /\ \A o \in Listed : rec[o].id # IdOf[h]

Added(h, o) ==
  /\ count' = count + 1
  /\ Connect(h, o)
  /\ Opened(h)
  /\ undefined' = (Head + o + SizeOf[h] > Size)

MonitorFirst(h) ==
  /\ IsNew(h)
  /\ count = 0
  /\ rec' \in Written(rec, 0, h, 0, 0)
  /\ first_offset' = 0
  /\ Added(h, 0)

\* the gap is in the beginning; the link back from the old first record is
\* not set
MonitorHead(h) ==
  /\ IsNew(h)
  /\ count # 0
  /\ first_offset >= SizeOf[h]
  /\ rec' \in Written(rec, 0, h, 0, first_offset)
  /\ first_offset' = 0
  /\ Added(h, 0)

\* The search stops at the first of these.  The offset of a record in the
\* file is Head larger than the one that is compared with the file's size.
NoSpace(o, h) == o + rec[o].size + SizeOf[h] > Size
\* mutant: the record itself is not counted
GapUncounted(o, h) == rec[o].next >= SizeOf[h] + 1
Gap(o, h) == rec[o].next >= SizeOf[h] + rec[o].size
Stops(h) == {o \in Walk : NoSpace(o, h) \/ Gap(o, h) \/ rec[o].next = 0}

Searches(h, o) ==
  /\ IsNew(h)
  /\ count # 0
  /\ first_offset < SizeOf[h]
  /\ o = Min(Stops(h))

MonitorFails(h) ==
  /\ \E o \in Walk : Searches(h, o) /\ NoSpace(o, h)
  /\ Opened(h)
  /\ UNCHANGED <<listVars, monitored, stats, undefined>>

MonitorGap(h) ==
  \E o \in Walk :
    LET prev == rec[o].size
        next == rec[o].next - rec[o].size
    IN  /\ Searches(h, o) /\ ~NoSpace(o, h) /\ Gap(o, h)
        /\ rec' \in Written([rec EXCEPT ![o].next = prev, ![o + rec[o].next].prev = next],
                            o + prev, h, prev, next)
        /\ Added(h, o + prev)
        /\ UNCHANGED first_offset

MonitorLast(h) ==
  \E o \in Walk :
    LET prev == rec[o].size
    IN  /\ Searches(h, o) /\ ~NoSpace(o, h) /\ ~Gap(o, h) /\ rec[o].next = 0
        /\ rec' \in Written([rec EXCEPT ![o].next = prev], o + prev, h, prev, 0)
        /\ Added(h, o + prev)
        /\ UNCHANGED first_offset

nc_session_monitor(h) ==
  \/ MonitorAgain(h) \/ MonitorFirst(h) \/ MonitorHead(h)
  \/ MonitorFails(h) \/ MonitorGap(h) \/ MonitorLast(h)

(***************************************************************************)
(* Removal                                                                 *)
(***************************************************************************)
\* record o is unlinked from memory m; the last record is its own successor
nc_session_monitor_remove(o, m) ==
  LET r == m[o]
      m1 == IF r.prev = 0 THEN m
            ELSE [m EXCEPT ![o - r.prev].next = IF r.next = 0 THEN 0 ELSE @ + r.next]
  IN  /\ rec' = [m1 EXCEPT ![o + r.next].prev = IF r.prev = 0 THEN 0 ELSE @ + r.prev]
      /\ first_offset' = IF r.prev = 0 THEN first_offset + r.next ELSE first_offset
      /\ count' = count - 1
      /\ undefined' = (o \notin Listed \/ (r.prev = 0 /\ o # first_offset))

Dies(p) ==
  /\ up' = up \ {p}
  /\ hstate' = [h \in Handles |-> IF hstate[h] = "open" /\ home[h] = p THEN "lost" ELSE hstate[h]]

\* mutant: the record goes with the first user that leaves
FreeFirst(h) ==
  LET mine == {o \in Listed : rec[o].id = IdOf[h]} IN
  /\ ~undefined
  /\ locker = NoProc
  /\ hstate[h] = "open"
  /\ hstate' = [hstate EXCEPT ![h] = "freed"]
  /\ IF monitored[h] /\ mine # {}
     THEN \E o \in mine : nc_session_monitor_remove(o, rec)
     ELSE UNCHANGED <<listVars, undefined>>
  /\ stats' = [stats EXCEPT ![h] = -1]
  /\ UNCHANGED <<keepalive, monitored, home, up, checkVars>>

\* the record of the session loses one user and goes with the last
nc_session_free(h) ==
  LET mine == {o \in Listed : rec[o].id = IdOf[h]} IN
  /\ ~undefined
  /\ locker = NoProc
  /\ hstate[h] = "open"
  /\ hstate' = [hstate EXCEPT ![h] = "freed"]
  /\ IF monitored[h] /\ mine # {}
     THEN \E o \in mine :
            LET m == [rec EXCEPT ![o].scounter = @ - 1] IN
            IF m[o].scounter = 0
            THEN nc_session_monitor_remove(o, m)
            ELSE rec' = m /\ UNCHANGED <<count, first_offset, undefined>>
     ELSE UNCHANGED <<listVars, undefined>>
  /\ stats' = [stats EXCEPT ![h] = -1]
  /\ UNCHANGED <<keepalive, monitored, home, up, checkVars>>

\* free(session->stats) where session->stats points into the mapped file
FreesMapped(h) ==
  /\ hstate[h] = "open" /\ monitored[h] /\ stats[h] # -1
  /\ count > 0 /\ \A o \in Listed : rec[o].id # IdOf[h]

\* the other outcome of such a call: the process aborts, with the write lock
FreeAborts(h) ==
  /\ ~undefined
  /\ locker = NoProc
  /\ FreesMapped(h)
  /\ locker' = home[h]
  /\ Dies(home[h])
  /\ UNCHANGED <<keepalive, listVars, monitored, stats, home, cursor, undefined>>

(***************************************************************************)
(* nc_session_monitor_alive_check: one step per record, under the lock     *)
(***************************************************************************)
CheckStart(p) ==
  /\ ~undefined
  /\ keepalive
  /\ p \in up
  /\ locker = NoProc
  /\ locker' = p
  /\ cursor' = first_offset
  /\ UNCHANGED <<listVars, sessVars, undefined>>

CheckRecord ==
  /\ ~undefined
  /\ locker \in up
  /\ IF rec[cursor].pid \in up
     THEN UNCHANGED <<listVars, undefined>>
     ELSE nc_session_monitor_remove(cursor, [rec EXCEPT ![cursor].scounter = 0])
  /\ IF rec'[cursor].next = 0
     THEN locker' = NoProc /\ cursor' = 0
     ELSE cursor' = cursor + rec'[cursor].next /\ UNCHANGED locker
  /\ UNCHANGED sessVars

(***************************************************************************)
(* Processes                                                               *)
(***************************************************************************)
\* The process dies.  When it does so with the write lock, in the alive check
\* or within another operation, the lock stays taken, nobody gets to the list
\* again, and the model ends.
Crash(p) ==
  /\ ~undefined
  /\ locker \in up \cup {NoProc}
  /\ p \in up
  /\ Dies(p)
  /\ locker' \in {locker} \cup (IF locker = NoProc THEN {p} ELSE {})
  /\ UNCHANGED <<keepalive, listVars, monitored, stats, home, cursor, undefined>>

\* daemon(): q goes on with the structures of p, which ends.  It calls
\* nc_session_monitor again as it should, which returns at once for a
\* structure that is already monitored.
Daemonize(p, q) ==
  /\ ~undefined
  /\ p \in up /\ locker # p
  /\ q \notin Start \cup up /\ \A h \in Handles : home[h] # q
  /\ \A h \in Handles : home[h] = p /\ hstate[h] = "open" => monitored[h]
  /\ up' = (up \ {p}) \cup {q}
  /\ home' = [h \in Handles |-> IF home[h] = p THEN q ELSE home[h]]
  /\ UNCHANGED <<keepalive, listVars, hstate, monitored, stats, checkVars, undefined>>

Init ==
  /\ keepalive \in BOOLEAN
  /\ rec = [o \in Offsets |-> Blank]
  /\ count = 0
  /\ first_offset = 0
  /\ hstate = [h \in Handles |-> "none"]
  /\ monitored = [h \in Handles |-> FALSE]
  /\ stats = [h \in Handles |-> -1]
  /\ home = HomeOf
  /\ up = Start
  /\ locker = NoProc
  /\ cursor = 0
  /\ undefined = FALSE

Next ==
  \/ \E h \in Handles : nc_session_monitor(h) \/ nc_session_free(h) \/ FreeAborts(h)
  \/ \E p \in Procs : CheckStart(p) \/ Crash(p)
  \/ CheckRecord
  \/ \E p, q \in Procs : Daemonize(p, q)

Spec == Init /\ [][Next]_vars

(***************************************************************************)
(* Properties                                                              *)
(***************************************************************************)
\* L is a list of disjoint records in the order of their offsets; a link
\* back leads to the predecessor, or is zero
Linked(L) ==
  /\ count = Cardinality(L)
  /\ \A o \in L :
       LET after == {x \in L : x > o}
           before == {x \in L : x < o}
           r == rec[o]
       IN  /\ r.size > 0 /\ Head + o + r.size <= Size
           /\ IF after = {} THEN r.next = 0 ELSE o + r.next = Min(after) /\ r.next >= r.size
           /\ IF before = {} THEN o = first_offset /\ r.prev = 0
                            ELSE r.prev = 0 \/ o - r.prev = Max(before)

\* nc_session_monitor and nc_session_monitor_remove keep the records of all
\* processes disjoint, inside the file, and linked in both directions,
\* whatever sizes come and go and whichever gaps are used again.  (A link
\* back may be zero, because nc_session_monitor does not set the one of the
\* record it inserts before; the list is no longer followed once a removal
\* went by such a link or a record was written beyond the file.)
ListSound == ~undefined => Linked(Listed)

\* "find possible duplicity of the record": no two records have one session
\* id, although real and dummy sessions of several processes share a record.
UniqueIds ==
  ~undefined => \A o, x \in Listed : rec[o].id = rec[x].id => o = x

Users(o) == {h \in Handles : hstate[h] \in {"open", "lost"} /\ monitored[h] /\ stats[h] = o}

\* "number of sessions connected with this record": while no alive check is
\* made, a monitored session is connected to the record with its own id,
\* and every record counts just the sessions connected to it.
ConnectedToOwnRecord ==
  ~undefined /\ ~keepalive =>
    /\ \A h \in Handles : hstate[h] = "open" /\ monitored[h] =>
         stats[h] \in Listed /\ rec[stats[h]].id = IdOf[h]
    /\ \A o \in Listed : rec[o].scounter = Cardinality(Users(o))

\* the record of a session that goes on in a running process stays
Kept(h) ==
  /\ hstate[h] = "open" /\ monitored[h] /\ home[h] \in up
  /\ hstate' = hstate /\ stats[h] \in Listed /\ ~undefined'
  => stats[h] \in Listed'

\* The alive check, which "checks if the process holding the session is still
\* alive" (netconf.h), removes no record of a real session whose process
\* runs, also when a dummy session in another process made the record, as
\* long as no process has changed its PID.
LiveSessionsKept ==
  [][\A h \in Handles \ Dummies : home = HomeOf => Kept(h)]_vars

\* The same for a process that got a new PID: it "is supposed to call
\* nc_session_monitor() againg" (netconf.h).
DaemonSessionsKept ==
  [][\A h \in Handles \ Dummies : Kept(h)]_vars

=============================================================================
