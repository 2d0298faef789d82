----------------------------- MODULE MCSession -----------------------------
(***************************************************************************)
(* Instances of Session for TLC.                                           *)
(***************************************************************************)
EXTENDS Session

CONSTANTS c1, c2

\* a server that offers what nc_session_get_cpblts_default lists, with the
\* with-defaults modes of _nc_session_accept
ServerOffer ==
  AcceptCpblts(nc_session_get_cpblts_default({"notif", "wd"}, <<>>),
               "explicit", {"report-all-tagged", "trim"}, <<Cap(<<"model">>)>>)
NewServer == nc_cpblts_remove(ServerOffer, BASE10)
ClientOffer == nc_session_get_cpblts_default({"notif"}, <<>>)
Silent == nc_cpblts_remove(ServerOffer, NOTIFICATION)

Load(client, server, transport, n1, n2, ntfs, bad) ==
  [client |-> client, server |-> server, transport |-> transport, callback |-> transport = "fd",
   calls |-> c1 :> n1 @@ c2 :> n2, events |-> ntfs, faults |-> bad]

MCLoads ==
  { \* two callers and a listener
    Load(ClientOffer, ServerOffer, "ssh", 1, 1, 0, {"write"}),
    \* a caller, the listener and notifications
    Load(ClientOffer, ServerOffer, "ssh", 1, 0, 2, {}),
    Load(ClientOffer, ServerOffer, "ssh", 1, 0, 1, {"drop", "write"}),
    \* two callers over file descriptors
    Load(ClientOffer, Silent, "fd", 1, 1, 0, {"poll", "write"}),
    Load(ClientOffer, Silent, "fd", 2, 1, 0, {"drop"}),
    \* the older version
    Load(<<BASE10>>, Silent, "ssh", 1, 0, 0, {"timeout", "drop", "poll"}),
    \* no version in common
    Load(<<BASE10>>, NewServer, "ssh", 1, 0, 0, {"timeout", "drop", "poll"}) }

\* the instance for the dispatch functions
Dispatching == {Load(ClientOffer, ServerOffer, "ssh", 1, 0, 1, {"drop", "write"})}
=============================================================================
