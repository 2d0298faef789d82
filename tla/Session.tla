------------------------------ MODULE Session ------------------------------
(***************************************************************************)
(* One NETCONF session seen from both ends (session.c, transport.c and the *)
(* dispatch functions of notifications.c).  In the client, threads call    *)
(* nc_session_send_recv while one thread runs ncntf_dispatch_receive; in   *)
(* the server, the main thread answers while one thread runs               *)
(* ncntf_dispatch_send.  The threads of a side share the session           *)
(* structure, its two queues and its recursive mutexes.  mut_channel is    *)
(* held over one message only, so sending and receiving a message is one   *)
(* step here, unless the message is torn: then the reader keeps the mutex. *)
(* mut_channel_flag makes a receiver let a waiting sender go first: that   *)
(* order is one of those explored.                                         *)
(***************************************************************************)
EXTENDS Hello, FiniteSets

CONSTANTS
  Callers,       \* client threads that call nc_session_send_recv
  Main,          \* the caller that connects and closes
  Loads          \* what a behaviour has: the capabilities each side offers, the
                 \* client's transport, whether it set process_error_reply,
                 \* bounds on calls and events, and the faults of which one may
                 \* happen ("timeout" only when nc_hello_timeout was called)

ASSUME MainAssumption == Main \in Callers
ASSUME LoadsAssumption ==
  \A l \in Loads : /\ l.calls \in [Callers -> Nat] /\ l.events \in Nat
                   /\ l.faults \subseteq {"poll", "write", "timeout", "drop"}
                   /\ l.transport \in {"ssh", "fd"}

VARIABLES
  sess,       \* the nc_session structure of each side
  mutex,      \* owner and depth of mut_session, mut_ntf, mut_mqueue, mut_equeue
  wire,       \* messages on their way to a side; the thread that waits for the
              \* rest of one, with mut_channel
  gone,       \* whether the other end of a side's channel is closed
  th,         \* the threads
  load,       \* one of Loads
  rpcs,       \* how many <rpc> the client has written
  answers,    \* what the last call of a caller returned, and for which <rpc>
  events,     \* notifications the server has written
  delivered,  \* notifications given to process_ntf, in order
  fault       \* what has gone wrong outside the library, or NONE

vars == <<sess, mutex, wire, gone, th, load, rpcs, answers, events, delivered, fault>>

Listener == "listener"
Server == "server"
Notifier == "notifier"
Threads == Callers \cup {Listener, Server, Notifier}
Side(t) == IF t \in {Server, Notifier} THEN "server" ELSE "client"
Peer(s) == IF s = "client" THEN "server" ELSE "client"

NewSession == [status |-> "working", version |-> V10, caps |-> <<>>, wd |-> {},
               transport |-> "fd", msgid |-> 1, queue_msg |-> <<>>, queue_event |-> <<>>,
               freed |-> FALSE, ntf_active |-> FALSE, ntf_stop |-> FALSE]
NewThread == [pc |-> "idle", ret |-> "idle", id |-> 0, rpc |-> 0, got |-> NONE,
              queue |-> <<>>, calls |-> 0]
Free == [owner |-> NONE, depth |-> 0]

Init ==
  /\ load \in Loads
  /\ sess = [s \in {"client", "server"} |->
               [NewSession EXCEPT !.transport = IF s = "client" THEN load.transport ELSE "fd"]]
  /\ mutex = [s \in {"client", "server"} |->
                [m \in {"session", "ntf", "mqueue", "equeue"} |-> Free]]
  /\ wire = [s \in {"client", "server"} |-> [msgs |-> <<>>, reader |-> NONE]]
  /\ gone = [s \in {"client", "server"} |-> FALSE]
  /\ th = [t \in Threads |->
             [NewThread EXCEPT !.pc = CASE t \in {Main, Server} -> "hello"
                                        [] t \in {Listener, Notifier} -> "new"
                                        [] OTHER -> "idle"]]
  /\ rpcs = 0 /\ events = 0 /\ delivered = <<>> /\ fault = NONE
  /\ answers = [c \in Callers |-> [type |-> "none", rpc |-> 0, asked |-> 0]]

(***************************************************************************)
(* Mutexes, all PTHREAD_MUTEX_RECURSIVE.                                   *)
(***************************************************************************)
CanLock(t, m) == mutex[Side(t)][m].owner \in {NONE, t}

Locked(x, t) == [owner |-> t, depth |-> x.depth + 1]
Unlocked(x) == IF x.depth = 1 THEN Free ELSE [x EXCEPT !.depth = @ - 1]

Lock(t, m) ==
  /\ CanLock(t, m)
  /\ mutex' = [mutex EXCEPT ![Side(t)][m] = Locked(@, t)]

Unlock(t, ms) ==
  mutex' = [mutex EXCEPT ![Side(t)] =
              [m \in DOMAIN @ |-> IF m \in ms THEN Unlocked(@[m]) ELSE @[m]]]

Goto(t, pc) == th' = [th EXCEPT ![t].pc = pc]
GotoClose(t, ret) == th' = [th EXCEPT ![t].pc = "close", ![t].ret = ret]
At(t, pc) == th[t].pc = pc

\* One thing goes wrong outside the library.
Fault(kind) == fault = NONE /\ kind \in load.faults /\ fault' = kind

Open(s) == sess[s].status \in {"working", "closing"}

(***************************************************************************)
(* nc_session_send: the message is written whole, or the session turns out *)
(* to be closed, or the channel is and the session is closed, or writing   *)
(* fails: before the first byte (poll) or after it, which leaves a torn    *)
(* message, and in neither case is the session closed.                     *)
(***************************************************************************)
Message(s, kind, id, rpc) ==
  [kind |-> kind, frame |-> IF sess[s].version = V11 THEN V11 ELSE V10,
   id |-> id, rpc |-> rpc]
Torn == [kind |-> "torn", frame |-> V10, id |-> NONE, rpc |-> 0]

Written(s, m) == wire' = [wire EXCEPT ![Peer(s)].msgs = Append(@, m)]

nc_session_send(s, m, result) ==
  \/ /\ result = "invalid" /\ ~Open(s)
     /\ UNCHANGED <<wire, fault>>
  \/ /\ result = "dropped" /\ Open(s) /\ gone[s]
     /\ UNCHANGED <<wire, fault>>
  \/ /\ result = "sent" /\ Open(s) /\ ~gone[s] /\ wire[s].reader = NONE
     /\ Written(s, m) /\ UNCHANGED fault
  \/ /\ result = "failed" /\ Open(s) /\ ~gone[s] /\ wire[s].reader = NONE
     /\ \/ Fault("poll") /\ UNCHANGED wire
        \/ Fault("write") /\ Written(s, Torn)

(***************************************************************************)
(* nc_session_receive, up to the point where it closes the session.  An    *)
(* end of file shows first on a file descriptor (POLLHUP), last on an SSH  *)
(* channel.  A message framed for the other version cannot be read: the    *)
(* v1.1 reader fails at once, the v1.0 reader waits for an end mark that   *)
(* does not come, as it does behind a torn message.                        *)
(***************************************************************************)
MsgType(m) ==
  CASE m.kind \in {"reply", "error", "malformed-reply"} -> "REPLY"
    [] m.kind \in {"notif", "complete"} -> "NOTIFICATION"
    [] m.kind \in {"rpc", "close"} -> "RPC"
    [] m.kind = "hello" -> "HELLO"

\* Bytes that do not come: until the end of file, the reader waits.
Unfinished(s) == [type |-> IF gone[s] THEN "malformed" ELSE "blocked", rest |-> wire[s].msgs]

\* Behind a torn message the next one is read as its rest.
nc_session_read_len(s) ==
  LET q == wire[s].msgs
  IN IF Len(q) > 1 THEN [type |-> "malformed", rest |-> Tail(Tail(q))] ELSE Unfinished(s)

\* v1.0: everything up to the end mark.
nc_session_read_until(s) ==
  LET q == wire[s].msgs IN
  CASE Head(q).kind = "torn" -> nc_session_read_len(s)
    [] Head(q).kind # "torn" /\ Head(q).frame = V10 ->
         [type |-> MsgType(Head(q)), rest |-> Tail(q)]
    [] OTHER -> Unfinished(s)

\* v1.1: chunks, each behind its length.
ReadChunks(s) ==
  LET q == wire[s].msgs IN
  CASE Head(q).kind = "torn" -> nc_session_read_len(s)
    [] Head(q).kind # "torn" /\ Head(q).frame = V11 ->
         [type |-> MsgType(Head(q)), rest |-> Tail(q)]
    [] OTHER -> [type |-> "malformed", rest |-> Tail(q)]

nc_session_receive(s) ==
  LET q == wire[s].msgs IN
  CASE ~Open(s) -> [type |-> "invalid", rest |-> q]
    [] Open(s) /\ gone[s] /\ (sess[s].transport = "fd" \/ q = <<>>) ->
         [type |-> "dropped", rest |-> q]
    [] Open(s) /\ ~gone[s] /\ q = <<>> -> [type |-> "wouldblock", rest |-> q]
    [] OTHER -> CASE sess[s].version = V10 -> nc_session_read_until(s)
                  [] sess[s].version = V11 -> ReadChunks(s)
                  [] OTHER -> [type |-> "malformed", rest |-> Tail(q)]

MayRead(t) == wire[Side(t)].reader \in {NONE, t}

\* What was read leaves the channel, and mut_channel is unlocked.
Take(s, r) == wire' = [wire EXCEPT ![s] = [msgs |-> r.rest, reader |-> NONE]]

(***************************************************************************)
(* The hello exchange: nc_client_handshake, nc_server_handshake.           *)
(***************************************************************************)
Connected == sess["client"].caps # <<>>
Caps(s) == IF s = "client" THEN load.client ELSE load.server
SidOf(s) == IF s = "server" THEN 1 ELSE NONE
HelloOf(s) == IF s = "server" THEN nc_msg_server_hello(Caps(s), SidOf(s))
              ELSE nc_msg_client_hello(Caps(s))

SendHello(t) ==
  LET s == Side(t) IN
  /\ At(t, "hello")
  /\ \E result \in {"sent", "dropped", "failed"} :
       /\ nc_session_send(s, HelloOf(s) @@ Message(s, "hello", NONE, 0), result)
       /\ CASE result = "sent" -> Goto(t, "hello2")
            [] result = "dropped" -> GotoClose(t, "hellofail")
            [] result = "failed" -> Goto(t, "hellofail")
  /\ UNCHANGED <<sess, mutex, gone, load, rpcs, answers, events, delivered>>

nc_handshake(t) ==
  LET s == Side(t)
      r == nc_session_receive(s)
      theirs == nc_parse_hello(Head(wire[s].msgs), SidOf(s))
      agreed == IF s = "client" THEN nc_accept_server_cpblts(theirs, Caps(s))
                                ELSE nc_accept_server_cpblts(Caps(s), theirs)
  IN /\ At(t, "hello2") /\ MayRead(t)
     /\ \/ /\ r.type = "HELLO"
           /\ Take(s, r)
           /\ sess' = IF theirs = <<>> THEN sess
                      ELSE [sess EXCEPT ![s].version = agreed.version, ![s].caps = agreed.caps,
                                        ![s].wd = parse_wdcap(agreed.caps)]
           /\ Goto(t, CASE agreed.caps = <<>> -> "hellofail"
                        [] s = "client" -> "idle"
                        [] OTHER -> "s_recv")
           /\ UNCHANGED fault
        \/ /\ r.type \in {"dropped", "malformed"}
           /\ Take(s, r)
           /\ IF r.type = "dropped" THEN GotoClose(t, "hellofail")
              ELSE th' = [th EXCEPT ![t].pc = "malformed", ![t].ret = "hellofail"]
           /\ UNCHANGED <<sess, fault>>
        \/ /\ r.type \in {"REPLY", "NOTIFICATION", "RPC"}
           /\ Take(s, r) /\ Goto(t, "hellofail") /\ UNCHANGED <<sess, fault>>
        \/ /\ r.type = "wouldblock" /\ Fault("timeout")
           /\ Goto(t, "hellofail") /\ UNCHANGED <<sess, wire>>
  /\ UNCHANGED <<mutex, gone, load, rpcs, answers, events, delivered>>

\* _nc_session_connect and _nc_session_accept close and free the session;
\* nc_session_connect_inout frees it, and its caller closes the descriptors.
HandshakeFailed(t) ==
  /\ At(t, "hellofail")
  /\ IF t = Main /\ sess["client"].transport = "fd"
     THEN gone' = [gone EXCEPT !["server"] = TRUE] /\ Goto(t, "over")
     ELSE GotoClose(t, IF t = Main THEN "over" ELSE "exit") /\ UNCHANGED gone
  /\ UNCHANGED <<sess, mutex, wire, load, rpcs, answers, events, delivered, fault>>

(***************************************************************************)
(* nc_session_send_recv.                                                   *)
(***************************************************************************)
Usable == Connected /\ th[Main].pc # "over" /\ th[Main].ret # "over"

Return(t, type, rpc) ==
  /\ answers' = [answers EXCEPT ![t] = [type |-> type, rpc |-> rpc, asked |-> th[t].rpc]]
  /\ th' = [th EXCEPT ![t] = [NewThread EXCEPT !.calls = th[t].calls]]

\* nc_session_send_rpc: the message-id is taken under mut_session.
SendRpc(t) ==
  /\ At(t, "idle") /\ Usable /\ th[t].calls < load.calls[t]
  /\ \/ /\ Open("client") /\ CanLock(t, "session")
        /\ sess' = [sess EXCEPT !["client"].msgid = @ + 1]
        /\ rpcs' = rpcs + 1
        /\ th' = [th EXCEPT ![t].pc = "send", ![t].id = sess["client"].msgid,
                            ![t].rpc = rpcs + 1, ![t].calls = @ + 1, ![t].queue = <<>>]
        /\ answers' = [answers EXCEPT ![t] = [type |-> "waiting", rpc |-> 0, asked |-> rpcs + 1]]
     \/ /\ ~Open("client")
        /\ th' = [th EXCEPT ![t].calls = @ + 1]
        /\ answers' = [answers EXCEPT ![t].type = "unknown"]
        /\ UNCHANGED <<sess, rpcs>>
  /\ UNCHANGED <<mutex, wire, gone, load, events, delivered, fault>>

WriteRpc(t) ==
  /\ At(t, "send")
  /\ \E result \in {"sent", "invalid", "dropped", "failed"} :
       /\ nc_session_send("client", Message("client", "rpc", th[t].id, th[t].rpc), result)
       /\ CASE result = "sent" -> Goto(t, "lookup")
            [] result = "dropped" -> GotoClose(t, "unsent")
            [] OTHER -> Goto(t, "unsent")
  /\ UNCHANGED <<sess, mutex, gone, load, rpcs, answers, events, delivered>>

\* The id is given back, whatever other threads took in between.
GiveBackId(t) ==
  /\ At(t, "unsent") /\ CanLock(t, "session")
  /\ sess' = [sess EXCEPT !["client"].msgid = @ - 1]
  /\ Return(t, "unknown", 0)
  /\ UNCHANGED <<mutex, wire, gone, load, rpcs, events, delivered, fault>>

nc_msgid_compare_any(id1, id2) == id2 # NONE

\* nc_msgid_compare: a message without an id equals none.
nc_msgid_compare(id1, id2) == id1 # NONE /\ id2 # NONE /\ id1 = id2

\* Look into the queue; when the reply is not there, hide the queue.
LookUp(t) ==
  LET q == sess["client"].queue_msg
      mine == {i \in DOMAIN q : nc_msgid_compare(th[t].id, q[i].id)}
      first == CHOOSE i \in mine : \A j \in mine : i <= j
  IN /\ At(t, "lookup") /\ CanLock(t, "mqueue")
     /\ IF mine # {}
        THEN /\ sess' = [sess EXCEPT !["client"].queue_msg = RemoveAt(q, first)]
             /\ Return(t, q[first].kind, q[first].rpc)
        ELSE /\ sess' = [sess EXCEPT !["client"].queue_msg = <<>>]
             /\ th' = [th EXCEPT ![t].pc = "recv", ![t].queue = q]
             /\ UNCHANGED answers
     /\ UNCHANGED <<mutex, wire, gone, load, rpcs, events, delivered, fault>>

(***************************************************************************)
(* nc_session_recv_reply with timeout -1: mut_mqueue is held while the     *)
(* thread waits.  A message popped after nc_session_close freed the queue  *)
(* is freed memory: it may still hold the reply, or the process fails.     *)
(***************************************************************************)
LockQueue(t) ==
  /\ At(t, "recv") /\ Lock(t, "mqueue") /\ Goto(t, "recv1")
  /\ UNCHANGED <<sess, wire, gone, load, rpcs, answers, events, delivered, fault>>

\* A reply is for this call, or goes to the private queue.
Compare(t, msg) ==
  th' = IF nc_msgid_compare(th[t].id, msg.id)
        THEN [th EXCEPT ![t].pc = "finish", ![t].got = msg]
        ELSE [th EXCEPT ![t].pc = "recv", ![t].queue = Append(@, msg)]

PopReply(t) ==
  LET q == sess["client"].queue_msg IN
  /\ At(t, "recv1") /\ q # <<>>
  /\ \/ /\ sess' = [sess EXCEPT !["client"].queue_msg = Tail(q)]
        /\ Compare(t, Head(q))
     \/ /\ sess["client"].freed
        /\ Goto(t, "crashed") /\ UNCHANGED sess
  /\ Unlock(t, {"mqueue"})
  /\ UNCHANGED <<wire, gone, load, rpcs, answers, events, delivered, fault>>

Got(t, kind, rpc) ==
  th' = [th EXCEPT ![t].pc = "finish", ![t].got = [kind |-> kind, rpc |-> rpc]]

nc_session_recv_reply(t) ==
  LET r == nc_session_receive("client")
      msg == Head(wire["client"].msgs)
  IN /\ At(t, "recv1") /\ sess["client"].queue_msg = <<>> /\ MayRead(t)
     /\ Take("client", r)
     /\ \/ /\ r.type = "REPLY" /\ (msg.kind = "reply" \/ ~load.callback)
           /\ Compare(t, msg) /\ Unlock(t, {"mqueue"})
        \/ /\ r.type = "REPLY" /\ msg.kind # "reply" /\ load.callback
           /\ Got(t, "none", msg.rpc) /\ Unlock(t, {"mqueue"})
        \/ /\ r.type = "NOTIFICATION"
           /\ th' = [th EXCEPT ![t].pc = "enqueue", ![t].got = msg]
           /\ UNCHANGED mutex
        \/ /\ r.type = "invalid"
           /\ Got(t, "unknown", 0) /\ Unlock(t, {"mqueue"})
        \/ /\ r.type \in {"dropped", "malformed"}
           /\ th' = [th EXCEPT ![t].pc = IF r.type = "dropped" THEN "close" ELSE "malformed",
                               ![t].ret = "unknown"]
           /\ UNCHANGED mutex
     /\ UNCHANGED <<sess, gone, load, rpcs, answers, events, delivered, fault>>

EnqueueEvent_lost(t) ==
  /\ At(t, "enqueue") /\ CanLock(t, "equeue")
  /\ Unlock(t, {"mqueue"}) /\ th' = [th EXCEPT ![t].pc = "recv", ![t].got = NONE]
  /\ UNCHANGED <<sess, wire, gone, load, rpcs, answers, events, delivered, fault>>

\* A notification goes to the end of the other queue, under its mutex.
EnqueueEvent(t) ==
  /\ At(t, "enqueue") /\ CanLock(t, "equeue")
  /\ sess' = [sess EXCEPT !["client"].queue_event = Append(@, th[t].got)]
  /\ Unlock(t, {"mqueue"}) /\ th' = [th EXCEPT ![t].pc = "recv", ![t].got = NONE]
  /\ UNCHANGED <<wire, gone, load, rpcs, answers, events, delivered, fault>>

\* The session was closed on the way.
RecvUnknown(t) ==
  /\ At(t, "unknown")
  /\ Unlock(t, {"mqueue"}) /\ Got(t, "unknown", 0)
  /\ UNCHANGED <<sess, wire, gone, load, rpcs, answers, events, delivered, fault>>

\* The private queue becomes the session's: what is there by now is lost.
FinishCall(t) ==
  /\ At(t, "finish")
  /\ IF th[t].queue # <<>>
     THEN /\ CanLock(t, "mqueue")
          /\ sess' = [sess EXCEPT !["client"].queue_msg = th[t].queue]
     ELSE UNCHANGED sess
  /\ Return(t, th[t].got.kind, th[t].got.rpc)
  /\ UNCHANGED <<mutex, wire, gone, load, rpcs, events, delivered, fault>>

\* The rest of a torn message does not come: the thread keeps mut_channel.
BlockedRead(t) ==
  LET s == Side(t) IN
  /\ \/ th[t].pc \in {"hello2", "s_recv"}
     \/ At(t, "recv1") /\ sess[s].queue_msg = <<>>
  /\ wire[s].reader = NONE /\ nc_session_receive(s).type = "blocked"
  /\ wire' = [wire EXCEPT ![s].reader = t]
  /\ UNCHANGED <<sess, mutex, gone, th, load, rpcs, answers, events, delivered, fault>>

(***************************************************************************)
(* The end of nc_session_receive for a message that cannot be read: with   *)
(* v1.1 and no SSH session of its own the side sends an error first.       *)
(***************************************************************************)
Malformed(t) ==
  LET s == Side(t) IN
  /\ At(t, "malformed")
  /\ \/ /\ sess[s].version = V11 /\ sess[s].transport = "fd"
        /\ CanLock(t, "session")
        /\ \E result \in {"sent", "invalid", "dropped", "failed"} :
             nc_session_send(s, Message(s, "malformed-reply", NONE, 0), result)
     \/ /\ ~(sess[s].version = V11 /\ sess[s].transport = "fd")
        /\ UNCHANGED <<wire, fault>>
  /\ Goto(t, "close")
  /\ UNCHANGED <<sess, mutex, gone, load, rpcs, answers, events, delivered>>

(***************************************************************************)
(* nc_session_close, in the thread that calls it; th[t].ret is where the   *)
(* thread goes on.  mut_session is held throughout.                        *)
(***************************************************************************)
CloseReturn(t) ==
  th' = [th EXCEPT ![t].pc = th[t].ret, ![t].ret = IF @ = "over" THEN @ ELSE "idle"]

CloseLock(t) ==
  /\ At(t, "close")
  /\ \/ /\ sess[Side(t)].status = "working"
        /\ Lock(t, "session") /\ Goto(t, "x_stop") /\ UNCHANGED sess
     \/ /\ sess[Side(t)].status # "working" /\ CanLock(t, "session")
        /\ sess' = [sess EXCEPT ![Side(t)].status = "closed"]
        /\ CloseReturn(t) /\ UNCHANGED mutex
  /\ UNCHANGED <<wire, gone, load, rpcs, answers, events, delivered, fault>>

\* ncntf_dispatch_stop asks the dispatch function to stop and waits for it.  Then
\* the session's locks in the datastores are broken, and the client tells the
\* server, over an SSH channel that is still open.
CloseBody(t) ==
  LET s == Side(t)
      tell == s = "client" /\ sess[s].transport = "ssh" /\ ~gone[s]
  IN /\ sess' = [sess EXCEPT ![s].status = IF tell THEN "closing" ELSE @]
     /\ Goto(t, IF tell THEN "x_tell" ELSE "x_free")

ncntf_dispatch_stop(t) ==
  LET s == Side(t) IN
  /\ CanLock(t, "ntf")
  /\ \/ /\ At(t, "x_stop") /\ sess[s].ntf_active
        /\ sess' = [sess EXCEPT ![s].ntf_stop = TRUE]
        /\ Goto(t, "x_wait")
     \/ /\ th[t].pc \in {"x_stop", "x_wait"} /\ ~sess[s].ntf_active
        /\ CloseBody(t)
  /\ UNCHANGED <<mutex, wire, gone, load, rpcs, answers, events, delivered, fault>>

\* announce_nc_session_closing: send close-session, then wait at most ten
\* seconds for one message, whatever it is.
SendCloseSession(t) ==
  /\ At(t, "x_tell")
  /\ \E result \in {"sent", "dropped", "failed"} :
       /\ nc_session_send("client", Message("client", "close", sess["client"].msgid, 0), result)
       /\ Goto(t, IF result = "sent" THEN "x_told" ELSE "x_free")
       /\ sess' = [sess EXCEPT !["client"].msgid = IF result = "sent" THEN @ + 1 ELSE @]
  /\ UNCHANGED <<mutex, gone, load, rpcs, answers, events, delivered>>

AwaitCloseReply(t) ==
  LET r == nc_session_receive("client") IN
  /\ At(t, "x_told") /\ CanLock(t, "mqueue")
  /\ \/ /\ sess["client"].queue_msg # <<>>
        /\ sess' = [sess EXCEPT !["client"].queue_msg = Tail(@)]
        /\ UNCHANGED wire
     \/ /\ sess["client"].queue_msg = <<>> /\ MayRead(t) /\ r.type # "blocked"
        /\ r.type = "NOTIFICATION" => CanLock(t, "equeue")
        /\ Take("client", r)
        /\ sess' = [sess EXCEPT !["client"].queue_event =
                      IF r.type = "NOTIFICATION" THEN Append(@, Head(wire["client"].msgs)) ELSE @]
  /\ Goto(t, "x_free")
  /\ UNCHANGED <<mutex, gone, load, rpcs, answers, events, delivered, fault>>

\* The client frees its SSH channel, which the server sees; the messages of the
\* queues are freed, but the queues still point to them.
CloseFree(t) ==
  LET s == Side(t) IN
  /\ At(t, "x_free")
  /\ gone' = [gone EXCEPT !["server"] = @ \/ (s = "client" /\ sess[s].transport = "ssh")]
  /\ sess' = [sess EXCEPT ![s].freed = TRUE, ![s].status = "closed"]
  /\ Unlock(t, {"session"}) /\ CloseReturn(t)
  /\ UNCHANGED <<wire, load, rpcs, answers, events, delivered, fault>>

\* The application closes the session when no call is under way; a listener
\* may be running.
FreeSession ==
  /\ At(Main, "idle") /\ Usable
  /\ \A c \in Callers : At(c, "idle")
  /\ IF sess["client"].status # "closed" THEN GotoClose(Main, "over")
     ELSE Goto(Main, "over")
  /\ UNCHANGED <<sess, mutex, wire, gone, load, rpcs, answers, events, delivered, fault>>

\* Over file descriptors it is the application that closes them.
CloseDescriptors ==
  /\ At(Main, "over") /\ ~gone["server"]
  /\ gone' = [gone EXCEPT !["server"] = TRUE]
  /\ UNCHANGED <<sess, mutex, wire, th, load, rpcs, answers, events, delivered, fault>>

(***************************************************************************)
(* ncntf_dispatch_receive: mut_ntf is held over nc_session_recv_notif.     *)
(***************************************************************************)
StartListening ==
  /\ At(Listener, "new") /\ Usable /\ sess["client"].status = "working"
  /\ nc_cpblts_enabled(sess["client"].caps, NOTIFICATION)
  /\ CanLock(Listener, "ntf") /\ ~sess["client"].ntf_active
  /\ sess' = [sess EXCEPT !["client"].ntf_active = TRUE, !["client"].ntf_stop = FALSE]
  /\ Goto(Listener, "l_loop")
  /\ UNCHANGED <<mutex, wire, gone, load, rpcs, answers, events, delivered, fault>>

\* notificationComplete ends the loop.
Deliver(msg) ==
  /\ delivered' = Append(delivered, msg)
  /\ sess' = [sess EXCEPT !["client"].ntf_stop = @ \/ msg.kind = "complete"]

\* nc_session_recv_notif with timeout 0, which holds mut_equeue.
PopEvent ==
  LET q == sess["client"].queue_event IN
  /\ q # <<>>
  /\ delivered' = Append(delivered, Head(q))
  /\ sess' = [sess EXCEPT !["client"].queue_event = Tail(q),
                          !["client"].ntf_stop = @ \/ Head(q).kind = "complete"]
  /\ UNCHANGED <<wire, mutex, th>>

Hold(t, ms) ==
  mutex' = [mutex EXCEPT ![Side(t)] =
              [m \in DOMAIN @ |-> IF m \in ms THEN Locked(@[m], t) ELSE @[m]]]

nc_session_recv_notif ==
  LET r == nc_session_receive("client")
      msg == Head(wire["client"].msgs)
  IN /\ sess["client"].queue_event = <<>> /\ MayRead(Listener)
     /\ Take("client", r)
     /\ \/ /\ r.type = "REPLY"
           /\ th' = [th EXCEPT ![Listener].pc = "l_append", ![Listener].got = msg,
                               ![Listener].queue = sess["client"].queue_msg]
           /\ Hold(Listener, {"ntf", "equeue"})
           /\ UNCHANGED <<sess, delivered>>
        \/ /\ r.type = "NOTIFICATION"
           /\ Deliver(msg) /\ UNCHANGED <<mutex, th>>
        \/ /\ r.type \in {"dropped", "malformed"}
           /\ th' = [th EXCEPT ![Listener].pc = IF r.type = "dropped" THEN "close" ELSE "malformed",
                               ![Listener].ret = "l_unknown"]
           /\ Hold(Listener, {"ntf", "equeue"})
           /\ UNCHANGED <<sess, delivered>>

\* The listener waits for the rest of a torn message, with its mutexes.
ListenBlocked ==
  LET r == nc_session_receive("client") IN
  /\ \/ /\ At(Listener, "l_loop") /\ sess["client"].status = "working"
        /\ CanLock(Listener, "ntf") /\ ~sess["client"].ntf_stop
        /\ CanLock(Listener, "equeue") /\ sess["client"].queue_event = <<>>
        /\ wire["client"].reader = NONE /\ r.type = "blocked"
        /\ wire' = [wire EXCEPT !["client"].reader = Listener]
        /\ Hold(Listener, {"ntf", "equeue"}) /\ Goto(Listener, "l_blocked")
     \/ /\ At(Listener, "l_blocked") /\ r.type # "blocked"
        /\ Take("client", r)
        /\ th' = [th EXCEPT ![Listener].pc = "malformed", ![Listener].ret = "l_unknown"]
        /\ UNCHANGED mutex
  /\ UNCHANGED <<sess, gone, load, rpcs, answers, events, delivered, fault>>

\* A round of the loop.  Nobody keeps mut_equeue from it for long, so the round
\* is one step unless a reply was read or the session has to be closed.
Listen ==
  /\ At(Listener, "l_loop")
  /\ \/ /\ sess["client"].status # "working"
        /\ Goto(Listener, "l_end") /\ UNCHANGED <<sess, mutex, wire, delivered>>
     \/ /\ sess["client"].status = "working"
        /\ CanLock(Listener, "ntf") /\ sess["client"].ntf_stop
        /\ Goto(Listener, "l_end") /\ UNCHANGED <<sess, mutex, wire, delivered>>
     \/ /\ sess["client"].status = "working"
        /\ CanLock(Listener, "ntf") /\ ~sess["client"].ntf_stop
        /\ CanLock(Listener, "equeue")
        /\ PopEvent \/ nc_session_recv_notif
  /\ UNCHANGED <<gone, load, rpcs, answers, events, fault>>

\* A reply is linked behind the last one seen, without mut_mqueue.  That one may
\* be in a caller's private queue by now, or taken: then the reply is lost.
LinkBehind(q, last, msg) ==
  IF last \in ToSet(q)
  THEN Append(SubSeq(q, 1, CHOOSE i \in DOMAIN q : q[i] = last), msg)
  ELSE q

AppendReply_lost ==
  /\ At(Listener, "l_append")
  /\ th' = [th EXCEPT ![Listener].pc = "l_loop", ![Listener].got = NONE, ![Listener].queue = <<>>]
  /\ Unlock(Listener, {"ntf", "equeue"})
  /\ UNCHANGED <<sess, wire, gone, load, rpcs, answers, events, delivered, fault>>

AppendReply ==
  LET seen == th[Listener].queue
      msg == th[Listener].got
      link(q) == LinkBehind(q, Last(seen), msg)
  IN /\ At(Listener, "l_append")
     /\ IF seen = <<>>
        THEN /\ sess' = [sess EXCEPT !["client"].queue_msg = <<msg>> \o @]
             /\ th' = [th EXCEPT ![Listener].pc = "l_loop", ![Listener].got = NONE]
        ELSE /\ sess' = [sess EXCEPT !["client"].queue_msg = link(@)]
             /\ th' = [t \in Threads |->
                         IF t = Listener
                         THEN [th[t] EXCEPT !.pc = "l_loop", !.got = NONE, !.queue = <<>>]
                         ELSE [th[t] EXCEPT !.queue = link(@)]]
     /\ Unlock(Listener, {"ntf", "equeue"})
     /\ UNCHANGED <<wire, gone, load, rpcs, answers, events, delivered, fault>>

ListenFailed ==
  /\ At(Listener, "l_unknown")
  /\ sess' = [sess EXCEPT !["client"].ntf_stop = TRUE]
  /\ Unlock(Listener, {"ntf", "equeue"}) /\ Goto(Listener, "l_loop")
  /\ UNCHANGED <<wire, gone, load, rpcs, answers, events, delivered, fault>>

ListenEnd ==
  /\ At(Listener, "l_end") /\ CanLock(Listener, "ntf")
  /\ sess' = [sess EXCEPT !["client"].ntf_active = FALSE]
  /\ Goto(Listener, "returned")
  /\ UNCHANGED <<mutex, wire, gone, load, rpcs, answers, events, delivered, fault>>

(***************************************************************************)
(* The server: a loop over nc_session_recv_rpc and nc_session_send_reply   *)
(* that ends when the session is closed, and the end of its process.       *)
(***************************************************************************)
nc_session_recv_rpc ==
  LET r == nc_session_receive("server") IN
  /\ At(Server, "s_recv") /\ MayRead(Server)
  /\ Take("server", r)
  /\ \/ /\ r.type = "RPC"
        /\ th' = [th EXCEPT ![Server].pc = "s_reply", ![Server].got = Head(wire["server"].msgs)]
     \/ /\ r.type \in {"REPLY", "HELLO"}
        /\ UNCHANGED th
     \/ /\ r.type = "invalid"
        /\ Goto(Server, "exit")
     \/ /\ r.type \in {"dropped", "malformed"}
        /\ th' = [th EXCEPT ![Server].pc = IF r.type = "dropped" THEN "close" ELSE "malformed",
                            ![Server].ret = "exit"]
  /\ UNCHANGED <<sess, mutex, gone, load, rpcs, answers, events, delivered, fault>>

\* The reply carries the message-id of the request, under mut_session.
nc_session_send_reply ==
  LET rpc == th[Server].got IN
  /\ At(Server, "s_reply") /\ CanLock(Server, "session")
  /\ \E kind \in IF rpc.kind = "close" THEN {"reply"} ELSE {"reply", "error"},
        result \in {"sent", "invalid", "dropped", "failed"} :
       /\ nc_session_send("server", Message("server", kind, rpc.id, rpc.rpc), result)
       /\ IF result = "dropped"
          THEN Lock(Server, "session") /\ GotoClose(Server, "s_unlock")
          ELSE /\ UNCHANGED mutex
               /\ IF rpc.kind = "close" THEN GotoClose(Server, "exit") ELSE Goto(Server, "s_recv")
  /\ UNCHANGED <<sess, gone, load, rpcs, answers, events, delivered>>

UnlockServer ==
  /\ At(Server, "s_unlock") /\ Unlock(Server, {"session"}) /\ Goto(Server, "exit")
  /\ UNCHANGED <<sess, wire, gone, load, rpcs, answers, events, delivered, fault>>

Exit ==
  /\ At(Server, "exit")
  /\ th' = [th EXCEPT ![Server].pc = "exited", ![Notifier].pc = "exited"]
  /\ gone' = [gone EXCEPT !["client"] = TRUE]
  /\ UNCHANGED <<sess, mutex, wire, load, rpcs, answers, events, delivered, fault>>

(***************************************************************************)
(* ncntf_dispatch_send.                                                    *)
(***************************************************************************)
StartNotifying ==
  /\ At(Notifier, "new") /\ load.events > 0 /\ sess["server"].caps # <<>> /\ sess["server"].status = "working"
  /\ nc_cpblts_enabled(sess["server"].caps, NOTIFICATION)
  /\ CanLock(Notifier, "ntf") /\ ~sess["server"].ntf_active
  /\ sess' = [sess EXCEPT !["server"].ntf_active = TRUE]
  /\ Goto(Notifier, "n_loop")
  /\ UNCHANGED <<mutex, wire, gone, load, rpcs, answers, events, delivered, fault>>

\* The next event of the stream, or the stop time is reached.
NextEvent ==
  /\ At(Notifier, "n_loop") /\ CanLock(Notifier, "ntf")
  /\ \/ sess["server"].ntf_stop /\ Goto(Notifier, "n_end")
     \/ ~sess["server"].ntf_stop /\ events < load.events /\ Goto(Notifier, "n_have")
     \/ ~sess["server"].ntf_stop /\ Goto(Notifier, "n_end")
  /\ UNCHANGED <<sess, mutex, wire, gone, load, rpcs, answers, events, delivered, fault>>

\* Under mut_session: ntf_stop is looked at again (only a thread that keeps
\* mut_session sets it), then nc_session_send_notif.  When that closes the
\* session, ncntf_dispatch_stop waits for this very thread.
nc_session_send_notif ==
  /\ At(Notifier, "n_have") /\ CanLock(Notifier, "session") /\ CanLock(Notifier, "ntf")
  /\ ~sess["server"].ntf_stop
  /\ \E result \in {"sent", "invalid", "dropped", "failed"} :
       /\ nc_session_send("server", Message("server", "notif", NONE, events + 1), result)
       /\ events' = IF result = "sent" THEN events + 1 ELSE events
       /\ IF result = "dropped"
          THEN Lock(Notifier, "session") /\ GotoClose(Notifier, "n_loop")
          ELSE Goto(Notifier, "n_loop") /\ UNCHANGED mutex
  /\ UNCHANGED <<sess, gone, load, rpcs, answers, delivered>>

EndNotifying ==
  /\ At(Notifier, "n_end") /\ CanLock(Notifier, "ntf")
  /\ sess' = [sess EXCEPT !["server"].ntf_active = FALSE]
  /\ IF sess["server"].ntf_stop THEN Goto(Notifier, "returned") /\ UNCHANGED mutex
     ELSE Lock(Notifier, "ntf") /\ Goto(Notifier, "n_complete")
  /\ UNCHANGED <<wire, gone, load, rpcs, answers, events, delivered, fault>>

\* notificationComplete, with mut_ntf held; on a failure the function returns
\* without unlocking it.
SendComplete ==
  /\ At(Notifier, "n_complete") /\ CanLock(Notifier, "session")
  /\ \E result \in {"sent", "invalid", "dropped", "failed"} :
       /\ nc_session_send("server", Message("server", "complete", NONE, events + 1), result)
       /\ CASE result = "sent" -> Unlock(Notifier, {"ntf"}) /\ Goto(Notifier, "returned")
            [] result = "dropped" -> Lock(Notifier, "session") /\ GotoClose(Notifier, "n_failed")
            [] OTHER -> UNCHANGED mutex /\ Goto(Notifier, "returned")
       /\ events' = IF result = "sent" THEN events + 1 ELSE events
  /\ UNCHANGED <<sess, gone, load, rpcs, answers, delivered>>

CompleteFailed ==
  /\ At(Notifier, "n_failed") /\ Unlock(Notifier, {"session"}) /\ Goto(Notifier, "returned")
  /\ UNCHANGED <<sess, wire, gone, load, rpcs, answers, events, delivered, fault>>

(***************************************************************************)
(* The connection breaks.                                                  *)
(***************************************************************************)
Drop ==
  /\ gone' = [s \in DOMAIN gone |-> TRUE]
  /\ Fault("drop")
  /\ UNCHANGED <<sess, mutex, wire, th, load, rpcs, answers, events, delivered>>

Closing(t) ==
  CloseLock(t) \/ ncntf_dispatch_stop(t) \/ CloseFree(t)

CallerStep(t) ==
  \/ SendHello(t) \/ nc_handshake(t) \/ HandshakeFailed(t)
  \/ WriteRpc(t) \/ GiveBackId(t) \/ LookUp(t) \/ LockQueue(t) \/ PopReply(t)
  \/ nc_session_recv_reply(t) \/ EnqueueEvent(t) \/ RecvUnknown(t)
  \/ FinishCall(t) \/ BlockedRead(t) \/ Malformed(t)
  \/ Closing(t) \/ SendCloseSession(t) \/ AwaitCloseReply(t)

ListenerStep ==
  \/ Listen \/ AppendReply \/ ListenFailed \/ ListenEnd
  \/ ListenBlocked \/ Malformed(Listener) \/ Closing(Listener)

ServerStep ==
  \/ SendHello(Server) \/ nc_handshake(Server) \/ HandshakeFailed(Server)
  \/ nc_session_recv_rpc \/ nc_session_send_reply \/ UnlockServer \/ Exit
  \/ BlockedRead(Server) \/ Malformed(Server) \/ Closing(Server)

NotifierStep ==
  \/ NextEvent \/ nc_session_send_notif
  \/ EndNotifying \/ SendComplete \/ CompleteFailed \/ Closing(Notifier)

Next ==
  \/ \E c \in Callers : CallerStep(c) \/ SendRpc(c)
  \/ ListenerStep \/ ServerStep \/ NotifierStep
  \/ FreeSession \/ CloseDescriptors \/ StartListening \/ StartNotifying \/ Drop

Spec == Init /\ [][Next]_vars

\* Threads run.  A caller gets a mutex the dispatch thread lets go again and
\* again, because that thread sleeps between two rounds (NCNTF_DISPATCH_SLEEP).
FairSpec ==
  /\ Spec
  /\ \A c \in Callers : SF_vars(CallerStep(c))
  /\ WF_vars(ListenerStep) /\ WF_vars(ServerStep) /\ WF_vars(NotifierStep)

(***************************************************************************)
(* Properties.                                                             *)
(***************************************************************************)
\* The hello exchange (nc_handshake, nc_accept_server_cpblts): when both sides
\* have finished it they speak the highest version both offered and read the
\* with-defaults modes the server announced; and no side ever meets a message it
\* cannot frame, unless the transport failed or a side gave up on the hello.
SameProtocol ==
  /\ sess["client"].caps # <<>> /\ sess["server"].caps # <<>> =>
       LET both == ToSet(load.client) \cap ToSet(load.server) \cap Bases
           said == nc_cpblts_get(load.server, WITHDEFAULTS)
       IN /\ sess["client"].version = sess["server"].version
          /\ sess["client"].version = IF BASE11 \in both THEN V11 ELSE V10
          /\ both # {}
          /\ said # NONE => /\ sess["client"].wd = sess["server"].wd
                            /\ sess["client"].wd.basic = said.par.basic
                            /\ said.par.also \subseteq sess["client"].wd.modes
  /\ \A t \in Threads : At(t, "malformed") => fault # NONE

\* nc_session_send_recv returns the reply to the request that was given to it,
\* whichever thread read it and whichever queue it lay in, as long as no send
\* failed (then nc_session_send_rpc gives an id back that may be used twice).
OwnReply ==
  \A c \in Callers :
    answers[c].type \in {"reply", "error"} =>
      answers[c].rpc = answers[c].asked \/ fault \in {"poll", "write"}

Numbers(q) == [i \in DOMAIN q |-> q[i].rpc]
Notifications(q) == Numbers(SelectSeq(q, LAMBDA m : m.kind \in {"notif", "complete"}))

\* Threads that wait for replies and the thread that waits for notifications read
\* from one channel: every notification the server wrote is in one place, on the
\* wire, with a thread that is about to queue it, in queue_event or delivered,
\* as long as the client's session is open and the transport works.
NotificationsOnce ==
  LET held == {c \in Callers : At(c, "enqueue")}
      all == Notifications(wire["client"].msgs) \o Notifications(sess["client"].queue_event)
               \o Notifications(delivered)
      places(n) == Cardinality({i \in DOMAIN all : all[i] = n})
                     + Cardinality({c \in held : th[c].got.rpc = n})
  IN sess["client"].status = "working" /\ fault = NONE /\ th[Main].pc # "over" =>
       \A n \in 1..events : places(n) = 1

InCall(c) == th[c].pc \notin {"idle", "over", "hello", "hello2", "hellofail"} /\ th[c].ret # "over"
OneAtATime == Cardinality({c \in Callers : InCall(c)}) <= 1

\* While callers take turns and the transport works, every nc_session_send_recv
\* returns, also when the listener reads its reply (nc_session_recv_notif).
CallsReturn ==
  [](OneAtATime /\ fault = NONE) =>
    \A c \in Callers : At(c, "send") ~> At(c, "idle")

\* ncntf_dispatch_receive and ncntf_dispatch_send stop "when the session is
\* terminated" (notifications.c): here, once the other end is gone.
DispatchStops ==
  /\ gone["client"] ~> th[Listener].pc \in {"new", "returned"}
  /\ gone["server"] ~> th[Notifier].pc \in {"new", "returned", "exited"}

=============================================================================
