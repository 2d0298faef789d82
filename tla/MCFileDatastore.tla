-------------------------- MODULE MCFileDatastore --------------------------
(***************************************************************************)
(* Instances of FileDatastore for TLC.                                     *)
(***************************************************************************)
EXTENDS FileDatastore, TLC

CONSTANTS p1, p2, t1, t2, s1, s2, n1, n2, main, backup

\* two processes with one thread each, or one process with two threads
MCTwoProcs == t1 :> p1 @@ t2 :> p2
MCOneProc == t1 :> p1 @@ t2 :> p1
MCSessTwoProcs == s1 :> p1 @@ s2 :> p2
MCSessOneProc == s1 :> p1 @@ s2 :> p1

Rq(op, s, tg, src, new, undo) ==
  [op |-> op, sid |-> s, tg |-> tg, src |-> src, new |-> new, undo |-> undo]

Plain(op, s, tg) == Rq(op, s, tg, "config", {}, "none")

Edit(s, tg, n) == Rq("editconfig", s, tg, "config", {n}, "none")

\* sessions of two processes change, lock, commit and close
ReqProcs ==
  {Edit(s1, "running", n1), Plain("lock", s1, "running"), Plain("unlock", s1, "running"),
   Plain("breaklocks", s1, "running"), Plain("getconfig", s1, "running"),
   Edit(s2, "candidate", n1), Plain("lock", s2, "candidate"),
   Rq("copyconfig", s2, "running", "candidate", {}, "none"),
   Plain("deleteconfig", s2, "candidate"), Plain("breaklocks", s2, "running")}

\* a session locks, unlocks and closes (no mutex) while another works in the
\* same process: four requests let file_sync refuse the unlock before the close
ReqThreads ==
  {Edit(s1, "candidate", n1), Plain("lockinfo", s1, "running"),
   Plain("lock", s2, "running"), Plain("lock", s2, "candidate"),
   Plain("unlock", s2, "running"), Plain("breaklocks", s2, "running")}

\* changes, some of them rolled back, while processes crash and start
ReqFaults ==
  {Edit(s1, "running", n1), Plain("lock", s1, "running"), Plain("breaklocks", s1, "running"),
   Rq("editconfig", s2, "running", "config", {n1}, "test"),
   Rq("editconfig", s2, "running", "config", {n1}, "rpc2all"),
   Plain("getconfig", s2, "running")}

\* an edit that ncds_apply_rpc2all undoes, and a lock
ReqRollback ==
  {Rq("editconfig", s1, "running", "config", {n1}, "rpc2all"), Plain("lock", s2, "running")}

\* a reader without the mutex, and changes
ReqMutex ==
  {Edit(s1, "running", n1), Plain("lockinfo", s2, "running"), Plain("lock", s2, "running")}

=============================================================================
