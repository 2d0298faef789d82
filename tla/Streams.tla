------------------------------ MODULE Streams ------------------------------
(***************************************************************************)
(* Event streams of notifications.c: one file of events and one file of    *)
(* rules for each stream, shared by processes.  Threads of a process share *)
(* its list of opened streams under streams_mut; the processes share the   *)
(* files under lockf, which belongs to a process and not to a thread.      *)
(*                                                                         *)
(* An events file is a sequence of units: the header, then three units for *)
(* each record, as three calls of write store it: the length, the time and *)
(* the text.  An offset counts units.  Read as a length, any other unit    *)
(* gives a number larger than every file: Far.  A write of which the       *)
(* system takes only a part counts as done and leaves a torn unit.         *)
(***************************************************************************)
EXTENDS Events, Naturals

CONSTANTS
  Loads,        \* the situations examined: files, threads and their calls, faults
  ThreadIds,    \* every thread of some situation
  Far,          \* an offset behind the end of every file
  LastTime      \* the clock stops here

VARIABLES
  load,         \* the situation of this behaviour
  files,        \* stream -> the units of its events file, NONE without a file
  rules,        \* stream -> the event names of its rules file
  flock,        \* stream -> the process that holds lockf on the events file
  list,         \* process -> its opened streams, the newest first
  config,       \* process -> whether ncntf_config is set
  mutex,        \* process -> the thread that holds streams_mut
  th,           \* thread -> its call in progress
  log,          \* history: stream -> the records completely written
  now, fault

vars == <<load, files, rules, flock, list, config, mutex, th, log, now, fault>>
shared == <<files, rules, flock, log>>

BASE == "NETCONF"
Threads == DOMAIN load.threads
Streams == DOMAIN load.files
Procs == DOMAIN load.ready
Proc(t) == load.threads[t].proc
Job(t) == load.threads[t].jobs[th[t].n]
Busy(t) == th[t].n <= Len(load.threads[t].jobs)

Header(replay) == [k |-> "head", replay |-> replay]
Record(e, time) == <<[k |-> "len"], [k |-> "time", time |-> time], [k |-> "text", event |-> e]>>
Hole == [k |-> "hole"]
Torn == [k |-> "torn"]

\* A record as it was written: the unit r.torn of it, 0 for none, only in part.
Written(r) == [i \in 1..3 |-> IF i = r.torn THEN Torn ELSE Record(r.event, r.time)[i]]

\* A write at a position: a file that was cut meanwhile is filled with zeros.
PutAt(file, pos, unit) ==
  [i \in 1..(IF pos > Len(file) THEN pos ELSE Len(file)) |->
     IF i = pos THEN unit ELSE IF i <= Len(file) THEN file[i] ELSE Hole]

Cut(file, len) == SubSeq(file, 1, IF len < Len(file) THEN len ELSE Len(file))

Idle == [pc |-> "idle", n |-> 1, todo |-> <<>>, s |-> NONE, off |-> 0, unit |-> 0, torn |-> 0,
         cur |-> 0, eof |-> 0, given |-> <<>>, from |-> 0, sure |-> TRUE, lost |-> FALSE]

\* Return to the caller, who goes on to the thread's next call.
Return(t) ==
  th' = [th EXCEPT ![t] = [@ EXCEPT !.pc = "idle", !.n = @ + 1, !.todo = <<>>,
                                    !.s = NONE, !.off = 0, !.unit = 0, !.torn = 0]]
Goto(t, pc) == th' = [th EXCEPT ![t].pc = pc]

MutexFree(t) == mutex[Proc(t)] = NONE
TakeMutex(t) == mutex' = [mutex EXCEPT ![Proc(t)] = t]
DropMutex(t) == mutex' = [mutex EXCEPT ![Proc(t)] = NONE]

Calls(t, job) == Busy(t) /\ th[t].pc = "idle" /\ Job(t).job = job
At(t, pc) == th[t].pc = pc

Fault(kind) == /\ kind \in load.faults
               /\ fault = NONE
               /\ fault' = kind

(***************************************************************************)
(* The list of streams.                                                    *)
(***************************************************************************)
Opened(s, file) == [name |-> s, replay |-> file[1].replay, data |-> 1]
HasHeader(file) == file # NONE /\ file # <<>> /\ file[1].k = "head"
InList(l, s) == \E i \in DOMAIN l : l[i].name = s

\* read_fileheader and map_rules for one file.
read_fileheader(l, s) ==
  IF HasHeader(files[s]) THEN <<Opened(s, files[s])>> \o l ELSE l

\* A stream that is not in the list may have been created meanwhile.
ncntf_stream_get(l, s) ==
  IF InList(l, s) \/ s \notin Streams THEN l ELSE read_fileheader(l, s)

StreamOf(l, s) == l[CHOOSE i \in DOMAIN l : l[i].name = s]

ncntf_event_isallowed(l, s, name) ==
  s = BASE \/ (InList(ncntf_stream_get(l, s), s) /\ name \in ToSet(rules[s]))

(***************************************************************************)
(* ncntf_init, ncntf_stream_new and ncntf_close.                           *)
(***************************************************************************)
\* The directory is read once; the files in it are opened one after another.
ncntf_streams_init(t) ==
  /\ Calls(t, "init")
  /\ \/ /\ config[Proc(t)]
        /\ Return(t)
        /\ UNCHANGED mutex
     \/ /\ ~config[Proc(t)]
        /\ MutexFree(t)
        /\ TakeMutex(t)
        /\ th' = [th EXCEPT ![t].pc = "scan",
                            ![t].todo = SetToSeq({s \in Streams : files[s] # NONE})]
  /\ UNCHANGED <<load, shared, list, config, now, fault>>

ScanFile(t) ==
  /\ At(t, "scan")
  /\ th[t].todo # <<>>
  /\ list' = [list EXCEPT ![Proc(t)] = read_fileheader(@, Head(th[t].todo))]
  /\ th' = [th EXCEPT ![t].todo = Tail(@)]
  /\ UNCHANGED <<load, shared, config, mutex, now, fault>>

ScanEnd(t) ==
  /\ At(t, "scan")
  /\ th[t].todo = <<>>
  /\ config' = [config EXCEPT ![Proc(t)] = TRUE]
  /\ DropMutex(t)
  /\ IF InList(list[Proc(t)], BASE) THEN Return(t) ELSE Goto(t, "base")
  /\ UNCHANGED <<load, shared, list, now, fault>>

\* The stream to make: the application's, or the base stream at the end of init.
Wanted(t) ==
  IF Job(t).job = "init" THEN [name |-> BASE, replay |-> TRUE]
  ELSE [name |-> Job(t).stream, replay |-> Job(t).replay]

\* The records known to be stored: those behind a torn header are given up.
Known(s) == IF files[s] \notin {NONE, <<>>} /\ files[s][1] = Torn THEN <<>> ELSE log[s]

\* Only the process's own list is asked; the file is opened with O_TRUNC.
ncntf_stream_new(t) ==
  /\ Calls(t, "create") \/ At(t, "base")
  /\ \/ /\ ~config[Proc(t)]
        /\ Return(t)
        /\ UNCHANGED <<files, log, mutex>>
     \/ /\ config[Proc(t)]
        /\ MutexFree(t)
        /\ IF InList(list[Proc(t)], Wanted(t).name)
           THEN /\ Return(t)
                /\ UNCHANGED <<files, log, mutex>>
           ELSE /\ files' = [files EXCEPT ![Wanted(t).name] = <<>>]
                /\ log' = [log EXCEPT ![Wanted(t).name] = Known(Wanted(t).name)]
                /\ TakeMutex(t)
                /\ Goto(t, "head")
  /\ UNCHANGED <<load, rules, flock, list, config, now, fault>>

\* The header and the rules file, then the stream joins the list, also with a
\* torn header, which nobody can read afterwards.
write_fileheader(t) ==
  /\ At(t, "head")
  /\ LET s == Wanted(t).name
         head == Header(Wanted(t).replay)
     IN \/ /\ \/ files' = [files EXCEPT ![s] = PutAt(@, 1, head)] /\ UNCHANGED fault
              \/ files' = [files EXCEPT ![s] = PutAt(@, 1, Torn)] /\ Fault("short")
           /\ list' = [list EXCEPT ![Proc(t)] = <<Opened(s, <<head>>)>> \o @]
        \/ /\ Fault("write")
           /\ files' = [files EXCEPT ![s] = <<>>]
           /\ UNCHANGED list
  /\ DropMutex(t)
  /\ Return(t)
  /\ UNCHANGED <<load, rules, flock, log, config, now>>

\* Closing the files drops the process's locks.  The application has ended its
\* other calls: nothing in the code waits for them.
ncntf_close(t) ==
  /\ Calls(t, "close")
  /\ \A u \in Threads \ {t} : Proc(u) = Proc(t) => th[u].pc = "idle"
  /\ config' = [config EXCEPT ![Proc(t)] = FALSE]
  /\ list' = [list EXCEPT ![Proc(t)] = <<>>]
  /\ flock' = [s \in Streams |-> IF flock[s] = Proc(t) THEN NONE ELSE flock[s]]
  /\ Return(t)
  /\ UNCHANGED <<load, files, rules, log, mutex, now, fault>>

(***************************************************************************)
(* ncntf_stream_allow_events: neither streams_mut nor lockf is taken.      *)
(***************************************************************************)
FindRulesEnd(t) ==
  /\ Calls(t, "allow")
  /\ LET job == Job(t)
         l == ncntf_stream_get(list[Proc(t)], job.stream)
     IN /\ list' = [list EXCEPT ![Proc(t)] = l]
        /\ IF ncntf_event_isallowed(l, job.stream, job.name) \/ ~InList(l, job.stream)
           THEN Return(t)
           ELSE th' = [th EXCEPT ![t].pc = "rule", ![t].off = Len(rules[job.stream])]
  /\ UNCHANGED <<load, shared, config, mutex, now, fault>>

\* strcpy to the end found before: what was added behind it meanwhile is gone.
AddRule(t) ==
  /\ At(t, "rule")
  /\ rules' = [rules EXCEPT ![Job(t).stream] = Append(Cut(@, th[t].off), Job(t).name)]
  /\ Return(t)
  /\ UNCHANGED <<load, files, flock, log, list, config, mutex, now, fault>>

(***************************************************************************)
(* ncntf_event_store.                                                      *)
(***************************************************************************)
ncntf_event_new(t) ==
  /\ Calls(t, "store")
  /\ IF ~config[Proc(t)] \/ _event_new(Job(t).call) = NONE
     THEN Return(t) /\ UNCHANGED mutex
     ELSE /\ MutexFree(t)
          /\ TakeMutex(t)
          /\ th' = [th EXCEPT ![t].pc = "store", ![t].todo = list[Proc(t)]]
  /\ UNCHANGED <<load, shared, list, config, now, fault>>

Takes(t, s) ==
  /\ s.replay
  /\ ncntf_event_isallowed(list[Proc(t)], s.name, _event_new(Job(t).call).name)

LockFor(t, s) ==
  /\ flock[s] \in {NONE, Proc(t)}
  /\ flock' = [flock EXCEPT ![s] = Proc(t)]

StoreInStream(t) ==
  /\ At(t, "store")
  /\ th[t].todo # <<>>
  /\ LET s == Head(th[t].todo)
     IN IF Takes(t, s)
        THEN /\ LockFor(t, s.name)
             /\ th' = [th EXCEPT ![t].pc = "write", ![t].s = s.name,
                                 ![t].off = Len(files[s.name]), ![t].unit = 1]
        ELSE /\ th' = [th EXCEPT ![t].todo = Tail(@)]
             /\ UNCHANGED flock
  /\ UNCHANGED <<load, files, rules, log, list, config, mutex, now, fault>>

StoreReturns(t) ==
  /\ At(t, "store")
  /\ th[t].todo = <<>>
  /\ DropMutex(t)
  /\ Return(t)
  /\ UNCHANGED <<load, shared, list, config, now, fault>>

NextStream(t) == th' = [th EXCEPT ![t].pc = "store", ![t].todo = Tail(@), ![t].s = NONE,
                                  ![t].off = 0, ![t].unit = 0, ![t].torn = 0]

\* One unit, whole or in part: only -1 is a failure, so the others follow.
WriteRecord(t) ==
  /\ At(t, "write")
  /\ \E torn \in {th[t].torn, th[t].unit} :
       LET s == th[t].s
           i == th[t].unit
           r == [event |-> _event_new(Job(t).call), time |-> Job(t).time, torn |-> torn]
       IN /\ IF torn = i THEN Fault("short") ELSE UNCHANGED fault
          /\ files' = [files EXCEPT ![s] = PutAt(@, th[t].off + i, Written(r)[i])]
          /\ IF i < 3
             THEN /\ th' = [th EXCEPT ![t].unit = i + 1, ![t].torn = torn]
                  /\ UNCHANGED <<flock, log>>
             ELSE /\ NextStream(t)
                  /\ flock' = [flock EXCEPT ![s] = NONE]
                  /\ log' = [log EXCEPT ![s] = Append(@, r)]
  /\ UNCHANGED <<load, rules, list, config, mutex, now>>

\* A write fails, also after one that was done in part: the disk is full.
NoSpace(t) == Fault("write") \/ (th[t].torn # 0 /\ UNCHANGED fault)

WriteFails_uncut(t) ==
  /\ At(t, "write")
  /\ NoSpace(t)
  /\ flock' = [flock EXCEPT ![th[t].s] = NONE]
  /\ NextStream(t)
  /\ UNCHANGED <<load, files, rules, log, list, config, mutex, now>>

\* The record is cut off again; the caller is told nothing of it.
WriteFails(t) ==
  /\ At(t, "write")
  /\ NoSpace(t)
  /\ files' = [files EXCEPT ![th[t].s] = Cut(@, th[t].off)]
  /\ flock' = [flock EXCEPT ![th[t].s] = NONE]
  /\ NextStream(t)
  /\ UNCHANGED <<load, rules, log, list, config, mutex, now>>

(***************************************************************************)
(* ncntf_dispatch_send with the iteration over a stream.  Each thread has  *)
(* its position in the stream (cur) and the end the file had when the      *)
(* iteration started (eof, 0 once the replay is over).  The session's side *)
(* of it is in module Session.                                             *)
(***************************************************************************)
Sub(t) == ncntf_subscription_get_params(Job(t).sub)

ncntf_subscription_check(t) ==
  /\ Calls(t, "send")
  /\ config[Proc(t)]
  /\ MutexFree(t)
  /\ LET l == ncntf_stream_get(list[Proc(t)], Sub(t).stream)
     IN /\ list' = [list EXCEPT ![Proc(t)] = l]
        /\ IF ~InList(l, Sub(t).stream) \/ TimesError(Sub(t), now) # NONE
           THEN Return(t)
           ELSE Goto(t, "start")
  /\ UNCHANGED <<load, shared, config, mutex, now, fault>>

\* The records a file of that length has, one in progress included.
RecordsIn(len) == (len + 1) \div 3

\* The end of the file is taken without lockf: another process may be writing.
ncntf_stream_iter_start(t) ==
  /\ At(t, "start")
  /\ MutexFree(t)
  /\ LET s == StreamOf(list[Proc(t)], Sub(t).stream)
         end == Len(files[s.name])
     IN th' = [th EXCEPT ![t] = [@ EXCEPT !.pc = "next", !.cur = s.data, !.eof = end,
                 !.given = <<>>, !.lost = FALSE, !.from = RecordsIn(end),
                 !.sure = (end = s.data + 3 * RecordsIn(end))]]
  /\ UNCHANGED <<load, shared, list, config, mutex, now, fault>>

\* iter_finish, also after an error; the caller goes on without a stop time or
\* before it.
Finished(t, at) == [at EXCEPT !.cur = 0, !.eof = 0]
GoesOn(t) == Sub(t).stop = NONE \/ Sub(t).stop > now
NullReturned(t, at) ==
  th' = [th EXCEPT ![t] = IF GoesOn(t) THEN [at EXCEPT !.pc = "next"]
                          ELSE [Finished(t, at) EXCEPT !.pc = "idle", !.n = @ + 1]]

Holds(t) == mutex[Proc(t)] = t

\* A subscription without a start time begins at the end of the file.
AtStart(t) ==
  IF Sub(t).start = NONE /\ th[t].eof # 0
  THEN [th[t] EXCEPT !.cur = th[t].eof, !.eof = 0] ELSE th[t]

ReplayOver_past(t) ==
  /\ Sub(t).start # NONE
  /\ StreamOf(list[Proc(t)], Sub(t).stream).replay
  /\ th[t].eof # 0
  /\ th[t].cur > th[t].eof

ReplayOver(t) ==
  /\ Sub(t).start # NONE
  /\ StreamOf(list[Proc(t)], Sub(t).stream).replay
  /\ th[t].eof # 0
  /\ th[t].cur >= th[t].eof

Give(at, sub, e) ==
  [at EXCEPT !.pc = "next", !.given = IF PassesFilter(sub, e) THEN Append(@, e) ELSE @]

\* One turn of the loop up to the lock: the end of the replay, nothing to read,
\* or a record to read.
ncntf_stream_iter_next(t) ==
  /\ (At(t, "next") /\ MutexFree(t)) \/ (At(t, "check") /\ Holds(t))
  /\ IF ReplayOver(t)
     THEN /\ th' = [th EXCEPT ![t] = Give([@ EXCEPT !.eof = 0], Sub(t), ReplayComplete)]
          /\ DropMutex(t)
     ELSE IF AtStart(t).cur = Len(files[Sub(t).stream])
     THEN /\ NullReturned(t, AtStart(t))
          /\ DropMutex(t)
     ELSE /\ th' = [th EXCEPT ![t] = [AtStart(t) EXCEPT !.pc = "read"]]
          /\ TakeMutex(t)
  /\ UNCHANGED <<load, shared, list, config, now, fault>>

\* The reads of one turn, under lockf and with streams_mut held.
FileOf(t) == files[Sub(t).stream]
UnitAt(t, i) == FileOf(t)[th[t].cur + i]
CanRead(t) == At(t, "read") /\ flock[Sub(t).stream] \in {NONE, Proc(t)}
IsRecord(t) ==
  /\ th[t].cur + 3 <= Len(FileOf(t))
  /\ UnitAt(t, 1).k = "len" /\ UnitAt(t, 2).k = "time" /\ UnitAt(t, 3).k = "text"
AtEnd(t) ==
  th[t].cur < Len(FileOf(t)) => UnitAt(t, 1).k = "len" /\ th[t].cur + 3 > Len(FileOf(t))
Wants(t) == InWindow(Sub(t), UnitAt(t, 2).time)
Unlocked(t) == flock' = [flock EXCEPT ![Sub(t).stream] = NONE]
Past(t) == [th[t] EXCEPT !.cur = @ + 3]

ReadWanted(t) ==
  /\ CanRead(t) /\ IsRecord(t) /\ Wants(t)
  /\ th' = [th EXCEPT ![t] = Give(Past(t), Sub(t), UnitAt(t, 3).event)]
  /\ Unlocked(t)
  /\ DropMutex(t)
  /\ UNCHANGED <<load, files, rules, log, list, config, now, fault>>

ReadUnwanted_kept(t) ==
  /\ CanRead(t) /\ IsRecord(t) /\ ~Wants(t)
  /\ th' = [th EXCEPT ![t] = [Past(t) EXCEPT !.pc = "check"]]
  /\ flock' = [flock EXCEPT ![Sub(t).stream] = Proc(t)]
  /\ UNCHANGED <<load, files, rules, log, list, config, mutex, now, fault>>

ReadUnwanted_again(t) ==
  /\ CanRead(t) /\ IsRecord(t) /\ ~Wants(t)
  /\ th' = [th EXCEPT ![t].pc = "check"]
  /\ Unlocked(t)
  /\ UNCHANGED <<load, files, rules, log, list, config, mutex, now, fault>>

\* Out of the times asked for: on to the next record, streams_mut still held.
ReadUnwanted(t) ==
  /\ CanRead(t) /\ IsRecord(t) /\ ~Wants(t)
  /\ th' = [th EXCEPT ![t] = [Past(t) EXCEPT !.pc = "check"]]
  /\ Unlocked(t)
  /\ UNCHANGED <<load, files, rules, log, list, config, mutex, now, fault>>

\* The end of the file: the iteration is finished with lockf still held.
ReadFails(t) ==
  /\ CanRead(t) /\ AtEnd(t)
  /\ NullReturned(t, [Finished(t, th[t]) EXCEPT !.lost = TRUE])
  /\ flock' = [flock EXCEPT ![Sub(t).stream] = Proc(t)]
  /\ DropMutex(t)
  /\ UNCHANGED <<load, files, rules, log, list, config, now, fault>>

\* Not the beginning of a record: the length and the time read are both huge.
\* Or a torn record: the length read leads past its end.  The text is no XML
\* document and is skipped.
Unasked(t) ==
  IF UnitAt(t, 1).k = "len" /\ UnitAt(t, 2).k = "time" THEN ~Wants(t) ELSE Sub(t).stop # NONE
ReadAstray(t) ==
  /\ CanRead(t) /\ ~AtEnd(t) /\ ~IsRecord(t)
  /\ LET away == [th[t] EXCEPT !.cur = Far, !.lost = TRUE]
     IN IF Unasked(t)
        THEN /\ th' = [th EXCEPT ![t] = [away EXCEPT !.pc = "check"]]
             /\ UNCHANGED mutex
        ELSE /\ th' = [th EXCEPT ![t] = [away EXCEPT !.pc = "next"]]
             /\ DropMutex(t)
  /\ Unlocked(t)
  /\ UNCHANGED <<load, files, rules, log, list, config, now, fault>>

\* The session ends: ntf_stop is seen before the next event is asked for.
SessionEnds(t) ==
  /\ At(t, "next")
  /\ t \in load.ends
  /\ th' = [th EXCEPT ![t] = [Finished(t, @) EXCEPT !.pc = "idle", !.n = @ + 1]]
  /\ UNCHANGED <<load, shared, list, config, mutex, now, fault>>

Tick ==
  /\ now < LastTime
  /\ now' = now + 1
  /\ UNCHANGED <<load, shared, list, config, mutex, th, fault>>

(***************************************************************************)
(* The specification.                                                      *)
(***************************************************************************)
Init ==
  /\ load \in Loads
  /\ files = load.files
  /\ rules = load.rules
  /\ flock = [s \in Streams |-> NONE]
  /\ config = load.ready
  /\ list = [p \in Procs |->
               IF ~load.ready[p] THEN <<>>
               ELSE SetToSeq({Opened(s, files[s]) : s \in {x \in Streams : files[x] # NONE}})]
  /\ mutex = [p \in Procs |-> NONE]
  /\ th = [t \in Threads |-> Idle]
  /\ log = load.log
  /\ now = 1
  /\ fault = NONE

\* The steps that may wait for another process, and those that do not.
LockStep(t) ==
  StoreInStream(t) \/ ReadWanted(t) \/ ReadUnwanted(t) \/ ReadFails(t) \/ ReadAstray(t)

OwnStep(t) ==
  \/ ncntf_streams_init(t) \/ ScanFile(t) \/ ScanEnd(t)
  \/ ncntf_stream_new(t) \/ write_fileheader(t) \/ ncntf_close(t)
  \/ FindRulesEnd(t) \/ AddRule(t)
  \/ ncntf_event_new(t) \/ StoreReturns(t) \/ WriteRecord(t) \/ WriteFails(t)
  \/ ncntf_subscription_check(t) \/ ncntf_stream_iter_start(t) \/ ncntf_stream_iter_next(t)

\* The lock this store waits for was left behind by a subscriber of another
\* process whose read failed.
LockLeft(t) ==
  /\ At(t, "store")
  /\ th[t].todo # <<>>
  /\ \E u \in Threads : th[u].lost /\ Proc(u) # Proc(t) /\ flock[Head(th[t].todo).name] = Proc(u)

\* Every call has ended, or waits for such a lock, or for an ncntf_init that
\* nobody calls any more.
Ended ==
  /\ \A t \in Threads :
       (th[t].pc = "idle" /\ (Busy(t) => ~config[Proc(t)])) \/ LockLeft(t)
  /\ UNCHANGED vars

Next ==
  \/ \E t \in Threads : OwnStep(t) \/ LockStep(t) \/ SessionEnds(t)
  \/ Tick
  \/ Ended

\* A waiting thread gets the mutex or the lock again and again: the readers
\* sleep between two turns (NCNTF_DISPATCH_SLEEP).  Time passes.
Fairness ==
  /\ \A t \in ThreadIds : /\ SF_vars(t \in Threads /\ OwnStep(t))
                         /\ SF_vars(t \in Threads /\ LockStep(t))
  /\ WF_vars(Tick)

Spec == Init /\ [][Next]_vars /\ Fairness

(***************************************************************************)
(* Properties.                                                             *)
(***************************************************************************)
Whole(recs) == FoldLeft(LAMBDA f, r : f \o Written(r), <<>>, recs)
Writing(s) == \E t \in Threads : (At(t, "write") /\ th[t].s = s)
                                \/ (At(t, "head") /\ Wanted(t).name = s)

\* ncntf_event_store: while nobody writes to it, an events file is its header
\* followed by the records of the events stored in it, in the order in which
\* they were stored, also when writes of several processes alternate and when
\* one of them fails half way with -1.  Records and header are whole but for the
\* one write of which the system took only a part: the code takes it for done.
\* Behind a torn header the records are there until the stream is made again.
RecordsWhole ==
  \A s \in Streams : files[s] \notin {NONE, <<>>} /\ ~Writing(s) =>
     /\ HasHeader(files[s]) \/ (fault = "short" /\ files[s][1] = Torn)
     /\ Tail(files[s]) = Whole(log[s])
     /\ fault # "short" => \A i \in DOMAIN log[s] : log[s][i].torn = 0

Reading(t) == th[t].pc \in {"next", "check", "read"}

\* The events of the records from a to b that a subscription asks for.
Asks(sub, recs, a, b) ==
  LET wanted(r) == InWindow(sub, r.time) /\ PassesFilter(sub, r.event)
      chosen == SelectSeq(SubSeq(recs, a, b), wanted)
  IN [i \in DOMAIN chosen |-> chosen[i].event]

Owed(t) ==
  LET sub == Sub(t)
      recs == log[sub.stream]
      read == (th[t].cur - 1) \div 3
      from == th[t].from
  IN CASE sub.start = NONE /\ th[t].eof # 0 -> <<>>
       [] sub.start = NONE /\ th[t].eof = 0 -> Asks(sub, recs, from + 1, read)
       [] sub.start # NONE /\ th[t].eof # 0 -> Asks(sub, recs, 1, read)
       [] OTHER -> Asks(sub, recs, 1, from) \o <<ReplayComplete>>
                     \o Asks(sub, recs, from + 1, read)

\* ncntf_dispatch_send: a subscriber is given every event it asked for once
\* and in the order of the stream, replayComplete between the events stored
\* before and after its start, and is never led astray, unless a write failed
\* or it subscribed without a start time while another process was writing.
DeliveredInOrder ==
  \A t \in Threads :
     Reading(t) /\ fault = NONE /\ (th[t].sure \/ Sub(t).start # NONE) =>
       /\ ~th[t].lost
       /\ th[t].given = Owed(t)

\* _event_new and ncntf_notif_get_type: the client is told the type of the
\* event, and a capability change tells the difference of the two lists, as
\* long as no URI in them begins with another one (UrisApart).
EventsTellChanges ==
  \A t \in Threads : Busy(t) /\ Job(t).job = "store" =>
     LET c == Job(t).call
         e == _event_new(c)
     IN e # NONE => /\ ncntf_notif_get_type(e) = c.kind
                    /\ c.kind = "cpblt-change" => TellsChange(c)

SomeLost == \E t \in Threads : th[t].lost
CaughtUp(t) == Reading(t) => th[t].lost \/ th[t].cur = Len(FileOf(t))

\* ncntf_stream_iter_next: a subscriber reads to the end of the stream again
\* and again, whatever is stored meanwhile by its own and by other processes,
\* unless it met something that is no record (lost).
CatchesUp ==
  \A t \in ThreadIds : []<>(t \in Threads => CaughtUp(t))

\* ncntf_event_store and the others: every call returns, no lock is left
\* behind, as long as no subscriber met an unexpected end of the file: such a
\* subscriber returns with the lock of the file (SomeLost).
StoresReturn ==
  (<>SomeLost) \/ \A t \in ThreadIds :
     <>[](t \in Threads /\ Busy(t) => Job(t).job = "send" \/ ~config[Proc(t)])
=============================================================================
