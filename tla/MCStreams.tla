----------------------------- MODULE MCStreams -----------------------------
(***************************************************************************)
(* Instances of Streams for TLC.                                           *)
(***************************************************************************)
EXTENDS Streams, TLC

CONSTANTS p1, p2

Generic(name, info) == [kind |-> "generic", content |-> Event(name, info)]
Store(call, time) == [job |-> "store", call |-> call, time |-> time]
Begin == [job |-> "init"]
Close == [job |-> "close"]
Create(s, replay) == [job |-> "create", stream |-> s, replay |-> replay]
Allow(s, name) == [job |-> "allow", stream |-> s, name |-> name]
Send(s, start, stop, filter) ==
  [job |-> "send", sub |-> [stream |-> s, start |-> start, stop |-> stop, filter |-> filter]]

Thread(p, jobs) == [proc |-> p, jobs |-> jobs]

\* a stream with records of the given events, each at its time
Recs(s) == [i \in DOMAIN s |-> [event |-> Event(s[i][1], s[i][2]), time |-> s[i][2], torn |-> 0]]
File(replay, recs) == <<Header(replay)>> \o Whole(recs)

Situation(threads, base, other, rule, ready, ends, bad) ==
  [threads |-> threads, ends |-> ends, faults |-> bad, ready |-> (p1 :> ready @@ p2 :> ready),
   files |-> BASE :> (IF ready THEN File(TRUE, base) ELSE NONE) @@ "s" :> other,
   rules |-> BASE :> <<>> @@ "s" :> rule,
   log |-> BASE :> base @@ "s" :> <<>>]

Old == Recs(<< <<"a", 1>>, <<"b", 2>> >>)
Shared(threads, bad) == Situation(threads, Old, NONE, <<>>, TRUE, {}, bad)

\* capability lists that nc_cpblts_add makes
Caps == {Cap(<<"x">>), Cap(<<"x", "1">>), Cap(<<"y">>), [name |-> <<"y">>, par |-> "q"]}
CapLists == {FoldLeft(nc_cpblts_add, <<>>, s) : s \in UNION {[1..n -> Caps] : n \in 0..2}}
CpbltCalls == {[kind |-> "cpblt-change", old |-> o, new |-> n, by |-> "server", session |-> NONE] :
                 o \in CapLists, n \in CapLists}
OtherCalls ==
  { [kind |-> "generic", content |-> NONE],
    [kind |-> "cfg-change", ds |-> "candidate", by |-> "server", session |-> NONE],
    [kind |-> "cfg-change", ds |-> "running", by |-> "user", session |-> NONE],
    [kind |-> "cfg-change", ds |-> "startup", by |-> "user", session |-> "sid"],
    [kind |-> "cpblt-change", old |-> <<>>, new |-> <<>>, by |-> "user", session |-> NONE],
    [kind |-> "session-start", session |-> NONE],
    [kind |-> "session-start", session |-> "sid"],
    [kind |-> "session-end", session |-> NONE, reason |-> "closed", killer |-> NONE],
    [kind |-> "session-end", session |-> "sid", reason |-> "killed", killer |-> "other"],
    [kind |-> "confirmed-commit"] }

MCLoads ==
  { \* one process makes the base stream and another one
    Situation(1 :> Thread(p1, <<Store(Generic("a", 0), 1), Create("s", TRUE), Begin, Begin, Create("s", TRUE),
                                Create("s", TRUE), Allow("s", "a"), Allow("s", "a"),
                                Allow("none", "a"), Store(Generic("a", 1), 2), Close, Begin>>)
              @@ 2 :> Thread(p1, <<Send("s", 1, 2, NONE)>>),
              <<>>, NONE, <<>>, FALSE, {}, {"write", "short"}),
    \* a writer in one process, two subscribers in the other
    Shared(1 :> Thread(p1, <<Store(Generic("c", 3), 1), Store(Generic("a", 4), 2)>>)
           @@ 2 :> Thread(p2, <<Send(NONE, 2, NONE, NONE)>>)
           @@ 3 :> Thread(p2, <<Send(BASE, NONE, NONE, NONE)>>), {}),
    \* writers in both processes, a subscriber with a stop time
    Shared(1 :> Thread(p1, <<Store(Generic("c", 3), 3)>>)
           @@ 2 :> Thread(p2, <<Store(Generic("a", 4), 1)>>)
           @@ 3 :> Thread(p2, <<Send(BASE, 1, 2, {"a", "c"})>>), {"write"}),
    \* writes done in part: writers in both processes, a subscriber behind one
    Shared(1 :> Thread(p1, <<Store(Generic("c", 3), 3)>>)
           @@ 2 :> Thread(p2, <<Store(Generic("a", 4), 1)>>), {"short"}),
    Shared(1 :> Thread(p1, <<Store(Generic("c", 3), 1), Store(Generic("a", 4), 2)>>)
           @@ 2 :> Thread(p2, <<Send(BASE, 1, 2, NONE)>>), {"short"}),
    \* two streams; rules added by two processes; a stream without replay
    Situation(1 :> Thread(p1, <<Allow("s", "a"), Store(Generic("a", 3), 1)>>)
              @@ 2 :> Thread(p2, <<Allow("s", "c"), Store(Generic("c", 4), 1)>>)
              @@ 3 :> Thread(p2, <<Send("s", 1, NONE, NONE)>>),
              <<>>, File(TRUE, <<>>), <<>>, TRUE, {3}, {}),
    Situation(1 :> Thread(p1, <<Store(Generic("a", 3), 1)>>)
              @@ 2 :> Thread(p2, <<Send("s", NONE, 2, NONE), Send("s", 2, 1, NONE), Send("s", 3, NONE, NONE),
                                   Send("none", 1, NONE, NONE), Send("s", 1, 2, NONE)>>),
              <<>>, File(FALSE, <<>>), <<"a">>, TRUE, {}, {}) }
  \cup {Shared(1 :> Thread(p1, <<Store(c, 1)>>), {}) : c \in CpbltCalls \cup OtherCalls}
=============================================================================
