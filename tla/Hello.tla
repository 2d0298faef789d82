------------------------------- MODULE Hello -------------------------------
(***************************************************************************)
(* Capability lists (session.c) and the hello exchange (transport.c).      *)
(* A capability is a record: its name, a sequence of segments (a URI is    *)
(* compared by prefix in this code), and the parameters after the "?".     *)
(* Two base capabilities decide the protocol version, hence the framing.   *)
(***************************************************************************)
EXTENDS Naturals, Sequences, SequencesExt

CONSTANT NONE

V10 == 0
V11 == 1
VUNK == 2

Cap(name) == [name |-> name, par |-> NONE]
BASE10 == Cap(<<"base", "1.0">>)
BASE11 == Cap(<<"base", "1.1">>)
NOTIFICATION == Cap(<<"notification">>)
WITHDEFAULTS == Cap(<<"with-defaults">>)
Bases == {BASE10, BASE11}

\* The names the comparisons with strncmp(list[i], s, strlen(s)) accept.
Matches(cap, wanted) == IsPrefix(wanted.name, cap.name)

\* nc_cpblts_add: the first capability that starts with the new one's name is
\* replaced by it, whatever its parameters.
nc_cpblts_add(list, cap) ==
  LET hits == {i \in DOMAIN list : Matches(list[i], cap)}
  IN IF hits = {} THEN Append(list, cap)
     ELSE [list EXCEPT ![CHOOSE i \in hits : \A j \in hits : i <= j] = cap]

\* The parameters are meant to be cut here too, but "p = 0" clears the pointer
\* and not the character: with parameters the whole string is compared.
Asked(cap, wanted) ==
  /\ Matches(cap, wanted)
  /\ wanted.par = NONE \/ (cap.name = wanted.name /\ cap.par = wanted.par)

nc_cpblts_get(list, cap) ==
  LET hits == {i \in DOMAIN list : Asked(list[i], cap)}
  IN IF hits = {} THEN NONE
     ELSE list[CHOOSE i \in hits : \A j \in hits : i <= j]

nc_cpblts_enabled(list, cap) == \E i \in DOMAIN list : Asked(list[i], cap)

\* nc_cpblts_remove: the last item takes the place of the removed one.
nc_cpblts_remove(list, cap) ==
  LET hits == {i \in DOMAIN list : Asked(list[i], cap)}
      first == CHOOSE i \in hits : \A j \in hits : i <= j
  IN IF hits = {} THEN list
     ELSE SubSeq([list EXCEPT ![first] = list[Len(list)]], 1, Len(list) - 1)

\* The list a side offers when the application gives none: what the flags of
\* nc_init enable, then the models of the datastores.
nc_session_get_cpblts_default(flags, models) ==
  LET on(flag, cap) == IF flag \in flags THEN <<cap>> ELSE <<>>
  IN FoldLeft(nc_cpblts_add, <<>>,
       <<BASE10, BASE11>> \o on("notif", NOTIFICATION)
         \o on("wd", WITHDEFAULTS) \o models)

\* _nc_session_accept puts the modes into the with-defaults capability and adds
\* the models of the datastores.
AcceptCpblts(list, basic, modes, models) ==
  LET wd == [name |-> WITHDEFAULTS.name, par |-> [basic |-> basic, also |-> modes]]
      announced == IF nc_cpblts_get(list, WITHDEFAULTS) # NONE /\ basic # "notset"
                   THEN nc_cpblts_add(list, wd) ELSE list
  IN FoldLeft(nc_cpblts_add, announced, models)

\* parse_wdcap looks for the mode names as substrings: "report-all" is also
\* found inside "report-all-tagged".
parse_wdcap(list) ==
  LET cap == nc_cpblts_get(list, WITHDEFAULTS)
      said == {cap.par.basic} \cup cap.par.also
  IN IF cap = NONE \/ cap.par = NONE THEN [basic |-> "notset", modes |-> {}]
     ELSE [basic |-> cap.par.basic,
           modes |-> said \cup (IF "report-all-tagged" \in said
                                THEN {"report-all"} ELSE {})]

(***************************************************************************)
(* The hello messages.                                                     *)
(***************************************************************************)
\* An empty list makes no message, and neither does a server without an id.
nc_msg_client_hello(caps) ==
  IF caps = <<>> THEN NONE ELSE [kind |-> "hello", caps |-> caps, sid |-> NONE]

nc_msg_server_hello(caps, sid) ==
  LET msg == nc_msg_client_hello(caps)
  IN IF msg = NONE \/ sid = NONE THEN NONE ELSE [msg EXCEPT !.sid = sid]

\* A side that has an id already (the server) refuses a hello that brings one.
nc_parse_hello(msg, sid) ==
  IF msg.sid # NONE /\ sid # NONE THEN <<>> ELSE msg.caps

BaseKept_unchecked(server, client) == server

BaseKept(server, client) == SelectSeq(server, LAMBDA c : c \notin Bases \/ c \in ToSet(client))

VersionOf(list) ==
  CASE BASE11 \in ToSet(list) -> V11
    [] BASE10 \in ToSet(list) -> V10
    [] OTHER -> VUNK

\* The server's capabilities hold, a base one only when the client has it too.
nc_accept_server_cpblts(server, client) ==
  LET kept == BaseKept(server, client)
  IN [caps |-> IF VersionOf(kept) = VUNK THEN <<>> ELSE kept,
      version |-> VersionOf(kept)]
=============================================================================
