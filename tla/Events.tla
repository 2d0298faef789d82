------------------------------- MODULE Events -------------------------------
(***************************************************************************)
(* The events of notifications.c: what _event_new makes of its parameters, *)
(* what a client reads back from a notification, and the checks of a       *)
(* <create-subscription>.  An event is its element's name with the part of *)
(* its content that tells events apart.  A time is a number, -1 is NONE.   *)
(***************************************************************************)
EXTENDS Hello

Event(name, info) == [name |-> name, info |-> info]
ReplayComplete == Event("replayComplete", NONE)

FirstMatch_whole(list, cap) == IF cap \in ToSet(list) THEN cap ELSE NONE

\* The lengths compared: the URI up to the "?".  The first capability found
\* may only begin with that URI, and then nothing is told of it.
FirstMatch(list, cap) ==
  LET hits == {i \in DOMAIN list : Matches(list[i], cap)}
  IN IF hits = {} THEN NONE ELSE list[CHOOSE i \in hits : \A j \in hits : i <= j]

Deleted(old, new) == {c \in ToSet(old) : FirstMatch(new, c) = NONE}

Modified(old, new) ==
  {c \in ToSet(new) : LET was == FirstMatch(old, c)
                      IN was # NONE /\ was.name = c.name /\ was # c}

Added(old, new) == {c \in ToSet(new) : FirstMatch(old, c) = NONE}

\* Who made the change: the server, or a user whose session must be given.
ByUnknown(c) == c.by = "user" /\ c.session = NONE
By(c) == IF c.by = "user" THEN c.session ELSE "server"

\* The content for each type of event, NONE where a parameter is missing.
CfgChange(c) ==
  IF c.ds \notin {"startup", "running"} \/ ByUnknown(c) THEN NONE
  ELSE Event("netconf-config-change", <<c.ds, By(c)>>)

CpbltChange(c) ==
  IF ByUnknown(c) THEN NONE
  ELSE Event("netconf-capability-change",
             [by |-> By(c), added |-> Added(c.old, c.new),
              modified |-> Modified(c.old, c.new), deleted |-> Deleted(c.old, c.new)])

SessionStart(c) ==
  IF c.session = NONE THEN NONE ELSE Event("netconf-session-start", c.session)

SessionEnd(c) ==
  IF c.session = NONE THEN NONE
  ELSE Event("netconf-session-end",
             <<c.session, c.reason, IF c.reason = "killed" THEN c.killer ELSE NONE>>)

_event_new(c) ==
  CASE c.kind = "generic" -> c.content
    [] c.kind = "cfg-change" -> CfgChange(c)
    [] c.kind = "cpblt-change" -> CpbltChange(c)
    [] c.kind = "session-start" -> SessionStart(c)
    [] c.kind = "session-end" -> SessionEnd(c)
    [] OTHER -> NONE

\* The type a client is told, by the name of the first element that is not the
\* eventTime.
ncntf_notif_get_type(e) ==
  CASE e = NONE -> "error"
    [] e.name = "replayComplete" -> "replay-complete"
    [] e.name = "notificationComplete" -> "ntf-complete"
    [] e.name = "netconf-config-change" -> "cfg-change"
    [] e.name = "netconf-capability-change" -> "cpblt-change"
    [] e.name = "netconf-session-start" -> "session-start"
    [] e.name = "netconf-session-end" -> "session-end"
    [] OTHER -> "generic"

(***************************************************************************)
(* A subscription: stream, startTime, stopTime and the names a filter      *)
(* keeps (NONE is no filter).                                              *)
(***************************************************************************)
ncntf_subscription_get_params(rpc) ==
  [rpc EXCEPT !.stream = IF rpc.stream = NONE THEN "NETCONF" ELSE rpc.stream]

\* The tests of the times; the stream's existence is tested by the caller.
TimesError(sub, now) ==
  CASE sub.stop # NONE /\ sub.start = NONE -> "missing startTime"
    [] sub.stop # NONE /\ sub.start > sub.stop -> "bad stopTime"
    [] sub.start # NONE /\ sub.start > now -> "bad startTime"
    [] OTHER -> NONE

InWindow(sub, time) ==
  /\ sub.start # NONE => sub.start <= time
  /\ sub.stop # NONE => time <= sub.stop

PassesFilter(sub, e) == e = ReplayComplete \/ sub.filter = NONE \/ e.name \in sub.filter

(***************************************************************************)
(* What a capability change must tell: applied to the old list it gives    *)
(* the new one.  Two URIs one of which begins with the other are not told  *)
(* apart by the search, and are left out.                                  *)
(***************************************************************************)
NamesOf(caps) == {c.name : c \in caps}
UrisApart(caps) == \A a, b \in NamesOf(caps) : IsPrefix(a, b) => a = b

TellsChange(c) ==
  LET e == _event_new(c)
      old == ToSet(c.old)
      kept == {x \in old \ e.info.deleted : x.name \notin NamesOf(e.info.modified)}
  IN UrisApart(old \cup ToSet(c.new)) =>
       /\ kept \cup e.info.modified \cup e.info.added = ToSet(c.new)
       /\ NamesOf(e.info.added) \cap NamesOf(old) = {}
=============================================================================
