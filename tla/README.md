# A TLA+ model of libnetconf

libnetconf implements the NETCONF protocol (RFC 6241) for servers and clients in C.
A server is usually several processes, each serving NETCONF sessions with several threads.
They share configuration files, named semaphores, a shared memory segment and event files,
and no process is in charge. This directory models that shared state, checks it with TLC and
proves the main results with TLAPS.

## 1. Inventory

Paths are relative to `src/src/`.

| Part | Source | State | Operations |
|---|---|---|---|
| File datastore | `datastore/file/datastore_file.c` | the XML file, a named semaphore, per process a parsed copy, the time of the last access, a copy for rollback, the flag `holding_lock` | lock, unlock, lockinfo, getconfig, copyconfig, deleteconfig, editconfig, rollback, init, free |
| RPC dispatch | `datastore.c` | the list of datastores, a mutex per datastore | `ncds_apply_rpc`, `ncds_apply_rpc2all`, `ncds_rollback`, `ncds_break_locks` |
| transAPI | `transapi/*.c`, part of `datastore.c` | tree of changes with marks, callbacks of modules | `transapi_running_changed`, revert, the file monitoring thread |
| edit-config, with-defaults | `datastore/edit_config.c`, `with_defaults.c` | none (functions on XML trees) | `edit_config`, `ncdflt_default_values` |
| Custom and empty datastores | `datastore/custom`, `datastore/empty` | none | calls of application functions |
| Library start and stop | `internal.c` | shared memory: table of applications, session counter | `nc_init`, `nc_close`, `nc_shared_cleanup` |
| Session monitoring | `session.c` | list of records linked by offsets in a mapped file | `nc_session_monitor`, remove, alive check |
| Session messages | `session.c` | queues of replies and notifications, message id, status | send, receive, `nc_session_send_recv`, close |
| Handshake, call home | `transport.c` | capabilities, protocol version | hello exchange, accept, call-home loop |
| Transports | `ssh.c`, `tls.c` | library handles | read, write |
| Notifications | `notifications.c` | stream files, offsets per thread, subscription flags | store, iterate, dispatch, stop |
| Access control | `nacm.c` | cached rules | refresh, check operation, data, notification |
| Messages and errors | `messages.c`, `error.c` | none (functions on messages) | build, read, merge |
| Callbacks, URL | `callbacks.c`, `url.c` | none of interest | setters, transfers |

How the parts meet: a session receives an RPC (session.c), NACM attaches its rules,
`ncds_apply_rpc2all` hands it to each datastore in turn, `ncds_apply_rpc` takes the mutex of the
datastore and calls its function table, and the file datastore takes the semaphore shared with
the other processes. A change of running then goes through transAPI to the device, and through
notifications to the subscribers. A session that ends calls `ncds_break_locks`, which does not
take the mutex.

What is hard: copies of the file in several processes kept coherent by time stamps in whole
seconds; one flag for all threads of a process; truncation and rewriting of a file others may
read; processes that die while they hold the semaphore or NETCONF locks; undoing a change
after it was published; lists of offsets in shared memory; threads that wait for replies
another thread has read. `PROJECT.json` lists these hazards by line.

What must be right, besides: a caller gets the reply to its own request; a subscriber gets each
event once; the rules decide who may do what; an edit does what it says; only a process that is
alone cleans up what all share. For the datastores: access to a file is serialized; no update of any process is lost; NETCONF
locks are exclusive and end with their session; what was acknowledged is stored; every
semaphore is given back.

## 2. Plan

| Module | Subject | State |
|---|---|---|
| `DatastoreDocs`, `Datastore`, `FileDatastore` | the file datastore, its abstract specification, refinement | checked, proved |
| `ApplyRpc` | an RPC over several datastores, rollback when one fails, transAPI as an actor | checked, proved |
| `TransApi`, `DeviceOutcomes` | callback order, marks and revert on small trees; what the caller may rely on | checked |
| `ConfigDocs`, `EditConfig`, `EditReference`, `WithDefaults`, `XmlDiff` | edits, defaults and differences of configurations, against reference definitions | checked |
| `Messages`, `Nacm`, `Requests` | requests from the client's call to the server's handler and back, access control | checked |
| `Hello`, `Session` | capabilities, handshake, framing, queues, dispatch of notifications, closing | checked |
| `Events`, `Streams` | the library's events, stream files, replay, subscriptions | checked |
| `Lifecycle` | `nc_init`, `nc_close`, crashes, the table of applications | checked, proved |
| `SessionList` | records and offsets of the monitoring list | checked |

To come: proofs for the session list and the order of callbacks in `TransApi`. The algorithms on trees are
recursive and stay with TLC. Runs use two or three actors, and each bound is a named constant.

## 3. Modules

**DatastoreDocs** holds the document (the content and the lock of each of running, startup and
candidate, and the `modified` mark of the candidate) and what each `ncds_file_*` operation does
to it: the set of its possible outcomes, each with the resulting document, whether `file_sync`
follows, and the reply. Configuration data is a set of nodes. An edit adds nodes, removes nodes
or fails; a copy may fail where parsing or NACM can refuse it, and leaves out any of the nodes of its
source (`Copied`), because NACM silently omits those the session may not read; only a copy from running to
startup or of the data of the request is whole.

**Datastore** is the abstract specification: one document, and every request applies to it at
one instant.

**FileDatastore** is the detailed one. Its variables carry the names of the C fields (`xml`,
`last_access`, `xml_rollback`, `holding_lock`); `dslock` is the mutex `ds->lock`, `dsnodes`
tells whether the node pointers still point into `xml`. An operation is a thread passing through
`pc` values:

| `pc` | Actions | Code |
|---|---|---|
| idle | `Begin` | entry of `ncds_apply_rpc` (with the mutex), `ncds_break_locks`, `get_lockinfo` (without) |
| wait | `LOCK`, `LockTimeout` | macro `LOCK` |
| body | `OperateOnCopy`, `ReloadCopy`, `file_rollback_restore`, `OperateFails` | the operation and the start of `file_reload` |
| reload | `OperateOnFile`, `OperateFails` | the rest of `file_reload`, and the operation |
| sync, dump, stamp | `SyncTruncate`, `SyncRefused`, `SyncDump`, `SyncDumpFails`, `SyncStamp` | `file_sync` |
| post, clear | `UNLOCKPost`, `UNLOCKClear` | macro `UNLOCK`, and what the caller does next (`Finish`) |

`ncds_file_init`, `InitFrame`, `ncds_file_free` and `Crash` are the steps of a process. A file is
absent, empty, torn (contents that do not parse) or complete; the document in the record of a
torn or empty file is the last complete one. Some choices to know of:

- An undefined use of node pointers into a freed document has two outcomes (the write follows or
  not) and the reply "undefined".
- `dirty` and `raced` are history variables. `dirty[p]` says that the copy of `p` holds a change
  that `file_sync` refused. `raced` collects the files into which a starting process wrote
  during an operation of another. Properties exempt exactly these cases where the code does not
  protect them; two configurations show what happens in others (section 4).
- `sess` is history as well. A session whose lock or unlock was answered with a failure is
  "unsure", and "lost" when it closes: `file_sync` may have refused what the copy already says
  (section 5). The code does not tell these sessions from others.
- A session makes one request at a time, as the message loop of a server does.
- The clock does not go back. The first process to start recreates the semaphores
  (`nc_shared_cleanup`). `ncds_file_init` reads the file in one step.
- `Start` is the set of processes already up, with a complete file.

**MCFileDatastore** gives the constants their values. The proofs are in five modules, each of
which extends the one before: **FileDatastore_types** (the inductive invariant, types),
**FileDatastore_frames** (what steps leave alone, time, flag, semaphore), **FileDatastore_copies**
(the copies), **FileDatastore_proofs** (the theorems, refinement) and **FileDatastore_locks** (locks of closed
sessions). **Lifecycle_proofs** and **ApplyRpc_proofs** have the proofs of their components.

**SessionList** is the list of monitored sessions. `rec` is the mapped file, seen as a record at
each offset, with the fields of `struct session_list_item` that matter; a removed record keeps its
contents, and the names of a long record are text to a record that begins there later. `Walk` is
what the loops over the list visit. Offsets are relative as in the code, and
the header has its size `Head`. `nc_session_monitor` is split by its branches: `MonitorAgain` (there
is a record with the id), `MonitorFirst`, `MonitorHead`, `MonitorGap`, `MonitorLast`,
`MonitorFails`. All operations hold the write lock of the file, so each is one step, except
the alive check: processes come and go while it looks at one record after the other (`CheckStart`,
`CheckRecord`, with `locker` and `cursor`). Choices to know of:

- `undefined` is a history variable: a removal followed a link that was wrong, or a record was
  written beyond the file. From there on the list is not followed, and the properties say
  nothing.
- `free` of a pointer into the mapped file has two outcomes: nothing visible, or the process
  aborts and the write lock stays taken (`FreeAborts`).
- A dummy session does not set `active`; where names lay before, the value is arbitrary.
- `keepalive` is the flag `NC_INIT_KEEPALIVECHECK`, chosen at the beginning; `Load` says which
  structures are used with and without it.
- A process gets a new PID at most once (`Daemonize`), and then calls `nc_session_monitor` for its
  sessions as netconf.h asks; that call returns at once.

**TransApi** is `transapi_running_changed`. Its input is a tree of differences (`diff`: parents,
operations, and which nodes have a callback). The recursion is a cursor: `cur` is the node it is
at, and `at` says whether it is at the node's own callback or at its children.

| Part | Actions | Code |
|---|---|---|
| apply | `ApplyRoot`, `ApplyChild`, `CallSucceeds`, `CallFails`, `NoCallback`, `KidsDone`, `RootsApplied` | `transapi_apply_callbacks_recursive` and its parts `_own`, `_children` |
| revert | `RevertRoot`, `RevertChild`, `RevertSkips`, `RevertNotFound`, `RevertSucceeds`, `RevertFails`, `RevertKidsDone`, `RootsReverted` | the same for `transapi_revert_callbacks_recursive` |

`Priority`, `Chain` and `HasPriorities` are what `xmldiff_set_priorities` writes into the tree. The
device is external: a callback configures the elements it is responsible for (`Owned`), a
removal all that is below, and a callback that fails configures nothing. Under stop-on-error
the revert only edits a document that `ncds_apply_transapi` frees unread, so it is left out.

**DeviceOutcomes** is the contract between the two neighbours: the pairs of result and device that
`transapi_running_changed` can leave. `TransApi` is shown to keep to it (`ResultTellsDevice`);
`ApplyRpc` takes any pair from it. It is exact on one point a caller might overlook: success under
continue-on-error says nothing about the device.

**ApplyRpc** is one request on its way through the datastores.

| `pc` | Actions | Code |
|---|---|---|
| idle | `Receive` | entry of `ncds_apply_rpc2all` |
| next | `SkipInternal`, `NextStore`, `AllDone` | its loop over the list |
| operate | one action per operation of NETCONF | the `switch` in `ncds_apply_rpc` |
| validation | `EditValidated` | validation after an edit, and the undo of a test-only edit |
| transapi, rewrite | `RunningChanged`, `NoTransapi`, `Rewrite` | `ncds_apply_transapi` |
| merge | `Merge` | the inner loop over the internal datastores |
| return | `Return` | `nc_reply_merge`, error-option |
| rollback, undo, undone | `RollbackStore`, `UndoOnDevice`, `UndoRewritten`, `RolledBack` | the rollback loop |
| replied | `Replied` | return to the server |

The file operations are those of `DatastoreDocs`; `saved` is `xml_rollback`. Choices to know of:

- One thread, as datastore.h asks of callers of `ncds_apply_rpc2all`, and no other process: these are
  the subject of `FileDatastore`. Semaphore timeouts and failed writes are left to it as well.
- Every root of a change has a callback; a module without one for a change is never told of it.
- `{Mixed}` is a device that callbacks left neither in the old nor in the new configuration.
- `before`, `replies`, `meddled`, `refused` and `strayed` are history variables. `meddled`: a module set
  `config_modified` and so stored a configuration of its own. `refused`: the device could not undo a
  change. `strayed`: datastores the rollback loop changed although the request had not. The
  properties exempt these; `MCApplyRpc_rollback` shows the last.
- A request names the datastores its data belong to (`for`); an empty `<config>` concerns all.
- Reading requests answer with data or an error, without content.
- `CopyToUrl` downloads the file and uploads it with this datastore's part. A download that fails is taken for an
  empty file: the other parts become `{Dropped}`, and the reply is ok.

**ConfigDocs** represents a configuration as a sequence of nodes in document order, each with its path (list
entries by key), its value and, in an edit, its operation and `insert`. **WithDefaults** is the
search for default nodes through containers, lists and choices in each mode; **XmlDiff** compares two
configurations by the kinds of their nodes. **EditConfig** runs one `<edit-config>`: check, compact, then
the phases delete, remove, replace, create, merge in the order of the code, one element per step;
then the documents transAPI compares and what is stored. **EditReference** says what an edit asks for at
once for the whole edit, and states the properties. Errors and the double free of `edit_create_lists`
(`pc = "crashed"`) are outcomes. `get_ref_list` reads and frees pointers that only a key predicate sets: for a position or a
malformed predicate the insert works, is refused or brings the process down (`wild`, `Outcomes`). An edit has no operation below a delete or a remove, and an item of a leaf-list has its
value.

**Messages** has the builders of requests, the functions that read them, replies, their merging, and
errors; a message is a record of its elements. **Nacm** has the reading of the rules (a value that does not
parse ends the reading, and what came before it stays), the user's rule lists and the decisions.
**Requests** composes them with the checks of `nc_session_send_rpc` and `nc_session_recv_rpc`:

| `pc` | Actions | Code |
|---|---|---|
| build, send | the application's call, `nc_session_send_rpc` | `nc_rpc_*`, capability checks |
| received, checked | `nacm_start`, `recv_check`, `recv_assign` | `nc_session_recv_rpc` |
| handler, answered | `Handle`, `rpc2all_merge` | `ncds_apply_rpc2all`, `nc_reply_merge` |

Meanwhile `OtherProcessEdits` changes the NACM datastore, and time passes in seconds. The refresh asks
`was_changed`, whose times any other reload moves too.

**Hello** has capability lists (a name is a sequence of segments, because the code compares
prefixes), the hello messages and the choice of the version. **Session** is one session from both
ends: client threads in `nc_session_send_recv`, a client thread in `ncntf_dispatch_receive`, a server
thread that answers, a server thread in `ncntf_dispatch_send`. The recursive mutexes `mut_session`, `mut_ntf`,
`mut_mqueue`, `mut_equeue` have owner and depth; a message is sent or received in one step, because
`mut_channel` is held over it, unless it is torn. One fault may happen: a failed poll, a failed write, a hello
timeout, a connection that drops. A `load` gives capabilities, transport, numbers of calls and events,
and which faults are possible.

**Events** builds the library's own events and reads them back. **Streams** has the files: an events file is
its header and three units per record, as three calls of `write` make them; `flock` is `lockf`, which belongs to a process,
`mutex` is `streams_mut` of a process. A thread makes a sequence of calls: init, create, allow, store, send (a
subscription) and close. `log` (what was completely written), `from`, `sure`, `lost` and `given` (per subscriber) are history.
`sure` is false for a subscriber that started while another process wrote; `lost` is true for one that met the
end of the file inside a record, or something that is no record. A `write` fails, or is done in part (`Torn`): the code tests
for -1 only, so that the torn unit stays in the file.

**Lifecycle** has the shared memory segment under its key, which survives its processes, the table of
applications and the read-write lock in it, and processes that start, close, fail to start or are killed at any step:

| `pc` | Actions | Code |
|---|---|---|
| out, attach | `OpenMemory`, `Attach` | `shmget`, `shmat` |
| setup, enter | `SetUp`, `Decide` | clearing the table, making the lock; taking it, `nc_apps_check`, who is first |
| clean, start | `Register`, `StartSubsystems`, `StartFails` | `nc_shared_cleanup(0)`, `nc_apps_add`, the subsystems |
| running, remove | `nc_close`, `nc_shared_cleanup` | the last one removes everything, without the lock |

`due` counts crashes not yet reported, and goes with the segment; `forgotten` has the commands of those crashes. `calm` is false once a start or a crash met the making or the removal of
a segment, or the table was full; nothing in the code protects these cases (below), and the
properties are stated for histories without them. A process is over when `nc_close` has detached it.

## 4. Runs

| Run | Instance | Shows |
|---|---|---|
| `file_procs` | two processes, one thread each, 3 requests, 3 seconds | serialization, coherent copies, no lost update, locks respected, and refinement of `Datastore` |
| `file_threads` | one process, two threads, some operations without the mutex, 4 requests, with fairness | locks end with their session; semaphores are returned and a closing session finishes |
| `file_faults` | one process up and one starting, one fault (crash or failed write), two starts, a backup file, rolled back edits | acknowledged changes stored, and a complete file across faults |
| `list` | two processes and a new PID, five session structures with records of one or two units, a file of five; with the alive check four of them | the list stays sorted, disjoint and linked; ids are unique; each record counts its sessions; live sessions stay |
| `tapi_all` | every tree and forest of three changes, any of them with callbacks, both orders, three error options, one callback that fails to undo | order of the callbacks, a failure stops the calls below the same root (the next root is still applied), the undo is complete and calls nothing that was not called, the result tells the device |
| `rpc_all` | list of two user datastores with modules, NACM and the empty datastore; 45 requests, two in a row | the reply tells what the datastores hold; rollback-on-error undoes all or nothing and stop-on-error stops; the device follows running; a URL gets the data of all, but for parts that a failed download dropped |
| `trees` | a container with a leaf, a choice, a list, a leaf-list and a container; five configurations; edits of one or two nodes with every operation, insert and default operation, refused accesses | with the exceptions below: an edit does what RFC 6241 says; entries stand where they were asked for; the differences tell the change; defaults change nothing |
| `requests` | three sessions, three NACM configurations (rules, one that does not parse, switched off), every builder with small sets of arguments, two datastores | a request is read as it was built; with the exceptions below, decisions follow the first matching rule; the client learns every datastore's answer |
| `session` | seven loads: two callers, a listener, two notifications, both transports and versions, one fault | both ends speak one version; a caller gets its own reply; a notification is in one place; calls return |
| `streams` | two processes, three threads, two streams, one failed or short write, and one load per kind of event | files are whole records but for the one that a short write tore; a subscriber gets each event once and in order; events tell the change; subscribers catch up and stores return |
| `lifecycle` | two servers of one command, a single-layer agent, two starts each, a table of three | while `calm`, only a process that is alone cleans up; a process is told of a crash of its command exactly when there was one since the segment was made that no start has found |

What the properties leave out (a name is that of the definition or the variable the property uses for it):

| Property | Exception | Because the code |
|---|---|---|
| `EditIsAsAsked`, `InsertedWhereAsked` | `LeafMerged` | joins the two texts when a leaf is merged explicitly |
| | `KeylessParent` | makes a missing list entry above an operation without its key |
| | `RemoveInReplace` | stores an element to be removed when the default operation is replace |
| `EditIsAsAsked` | `DefaultRefused` | finds no default in a YIN model (`get_default_value`), so that the delete and the create of defaults that "MUST succeed" in the modes report-all and trim are refused |
| | `PositionGiven` | uses pointers that were never set for an insert beside a position |
| `EditIsAsAsked`, `InsertedWhereAsked` | `BadInsert` | looks for the instance after other operations were carried out: the edit may be refused, or the entry stand elsewhere |
| `InsertedWhereAsked` | edits that place two entries (`Placed`) | carries them out one after the other; only the order of the other entries is checked |
| `DiffTellsChanges` | `AfterRemoved` | tells an entry with changes that stands behind a removed one as removed and changed |
| `DefaultsAreNeutral` | `OutsideDefaultCase` | trims the only leaf of another case, which brings the default case back |
| `DecisionFollowsRules` | `Misjudged`: close-session, delete-config, kill-session | asks NACM before `nc_rpc_assign_op`, so the special cases for them in nacm.c never apply |
| | `Marked` | never finds the node that a default-deny-all belongs to (`compare_node_to_model`) |
| `RequestReadAsBuilt` | no edit-config and validate from a URL | (not modelled) |
| `CallOrder` | other roots (`FailureStops`) | goes on with the next root |
| `UrlHasAll` | `Dropped` | takes a download that failed for an empty file |
| `RecordsWhole` | one torn unit after `fault = "short"` | takes a short write for a whole one |
| `DeliveredInOrder` | `fault`; a start without a start time during a write (`sure`) | leaves a failed or short write in the file, or starts a subscriber inside a record |
| `EventsTellChanges` | `UrisApart` | takes a URI for another one that it begins with |
| `CatchesUp`, `StoresReturn` | `lost`, `SomeLost` | returns from a failed read with the lock of the file |
| `CleanupAlone`, `RecoveryTold` | `calm` | has no protection against a start during the making or the removal of the segment |
| `RecoveryTold` | crashes before the segment was made (`forgotten`) | forgets crashes with the segment |

Two processes are enough for each interference the code allows: one writes, the other holds a
copy. Three requests give a copy, a foreign write and a use of the copy; the threads of one process need four (section 5). Three seconds give a
write in the second of an access, before it and after it. For the list, a file of five units holds
three or four records, so that a record can go from the beginning, the middle and the end, a
new one fits exactly, leaves a gap or finds no space, and the header matters. Three
changes give siblings, a chain, and a root besides a subtree; a failure can come before, between and
after them. Two requests give `ApplyRpc` an older copy for the rollback, a candidate to commit, a
lock of another session and a device left behind by an earlier failure. Two callers and a listener give each
thread that reads the channel a message meant for another one, and two events give an order. Two subscribers
of one process share its mutex and its file locks, with a writer in the other process. Three processes with two starts give
a crash, a survivor and a newcomer of the same and of another command, and fill the table. Deadlock is not checked
for the file datastore, the list, the session and `Lifecycle`, which stop when requests, structures, calls or starts
are used up; the other modules say when they are done, and deadlock is checked.

Fairness. In `FileDatastore` (`FairSpec`) a thread that has begun an operation continues while it can: no operation
waits inside the critical section for anything but the file, and `sem_timedwait` has a
time limit. In `Session` the listener and the server's threads run (weak fairness). A caller of `Session` and a thread of `Streams` that
wait for a mutex or a file lock get it if it is free again and again (strong fairness): the dispatch functions that take and release it in a
loop sleep between two rounds (`NCNTF_DISPATCH_SLEEP`, 10 ms). In `Streams` time passes. No fairness is
assumed for requests, faults or processes.

One run checks a statement of the sources that TLC finds violated: `session_dispatch`. The dispatch functions
stop "when the session is terminated" (notifications.c). They do not always:
the listener that itself reads the end of the channel calls `nc_session_close` and waits there for itself;
a closer holds `mut_session` and wants `mut_ntf` while the listener holds `mut_ntf` and wants `mut_session`; a notifier with an event
in hand waits for `mut_session`, which the closer keeps.

Ten more configurations, which are not among the runs, make TLC refute a statement in a few seconds; the last one has two, both
shown with `-continue`:

| Configuration | Statement | What happens |
|---|---|---|
| `MCFileDatastore_rollback` | a lock gives exclusive write access | a rollback writes an old document over a lock taken since |
| `MCFileDatastore_mutex` | the mutex serializes access to the datastore | `file_reload` copies the mutex and writes it back unlocked under its owner |
| `MCSessionList_fork` | a process with a new PID is to call `nc_session_monitor` again | that call returns at once, and the alive check removes the session |
| `MCTransApi_continue` | "continue with processing next change, but remember that we have failed" | the parent of the failed node succeeds, and the failure is lost |
| `MCApplyRpc_rollback` | "rollback previously changed datastores" | a datastore the request did not concern goes back before an older change |
| `MCRequests_rules` | "it wasn't, we have up to date configuration data" (nacm.c) | a get-config reloads the NACM datastore, which hides the change of another process from the refresh |
| `MCApplyRpc_url` | after a copy to a URL answered ok the file has the data of all datastores | a download fails, and only one datastore's part is uploaded |
| `MCLifecycle_forgotten` | recovery is returned "when after last init and before this init this application crashed" (netconf.h) | the segment goes with the last `nc_close`, and the crash with it |
| `MCRequests_comments` | "close-session is always permitted", "deny delete-config and kill-session" (nacm.c) | NACM is asked before the operation is known |
| `MCEditConfig_comments` | "A valid 'delete' operation attribute ... MUST succeed" (edit_config.c); "Element was removed from configuration" (transapi.h) | the default is not found; a changed entry behind a removed one has the flag |

The models also exhibit the following. Datastores and dispatch of requests:

- After a rollback the node pointers point into the freed document until the file is next read (the
  reply "undefined"). The copy of the mutex may also come back locked after its owner left.
- "unlock forgotten locks if any" in `ncds_file_init` clears the copy only; the first reload brings the
  lock of a crashed process back. A process that starts while another one is in `file_sync` finds
  the file empty, and its frame damages the document being written.
- Data from a URL copied to a URL: each datastore overwrites the part of the one before. Data of the
  request copied to a URL are always refused. A test-only edit of a session without `:validate` (constant `Validate`) is
  kept. A commit leaves the candidate marked modified, so that it cannot be locked.
- An explicit merge of a leaf under the default operation none joins the two texts. A merge adds missing
  children at the end, whatever `insert` says, and stores the attributes. An access refused under a default replace
  is not noticed, and the loop does not end. The handling of a wrong `insert` can free the list of keys twice.

Session list:

- A record put before the first one leaves that one with `offset_prev` 0, the mark
  of the first. A session whose record was removed frees its pointer into the mapped file.
- The alive check of an empty list removes what is not there, and `count` becomes -1. The test for
  space does not count the header, so that the last record can end beyond the file. Both
  set `undefined`. A record made by a dummy session keeps the flag `active` of a removed record in its place.

Requests and sessions:

- NACM decides while the operation is unknown: a close-session may be denied, and kill-session and delete-config are
  permitted where no rule matches and the default permits. A default-deny-all in a model has no effect.
- Of several access operations in a rule only the first counts. A second `nc_rpc_capability_attr` adds a second element. The parameter
  `bad-attribute` of an error is lost in parsing.
- Two callers of `nc_session_send_recv` at once may each read the other's reply into a queue of their own and wait
  forever, and the queue put back last overwrites the other. A failed send gives its message id back, which may then be used
  twice. `CallsReturn` speaks of callers that take turns, and `OwnReply` of sessions without a failed send.
- A capability replaces every one whose name starts with its own; `report-all` is found in `report-all-tagged`.

Event streams:

- `ncntf_stream_iter_start` takes the end of the file without the lock; a subscriber that starts during a write of another process
  begins inside a record, delivers nothing from there on, and keeps the file locked when it meets the end.
- Two processes that make a stream at once: the second truncates the file of the first. Rules of two processes
  overwrite each other. A stream without replay never gets an event. A store whose write failed reports success.
- A short write is not noticed. Its torn record stays: a subscriber that gets there reads on in the wrong place.

Start and stop:

- A process that attaches before the creator has cleared the table is wiped out of it, and is running when the creator
  cleans up. A process that starts between the decision of the last one to remove everything and the removal loses the sessions file and the
  semaphores, and the segment stays with one participant too many.
- The first process breaks locks and copies startup after it has released the lock: a second one may have started and
  taken locks since. An eleventh process is not in the table, and the others do not know of it. A process killed
  with the lock stops all others. With a crashed process of the same command in the table, `nc_close` may delete
  that entry instead of its own. A start that fails after it was told of a crash takes the report with it.

## 5. Proofs

### File datastore

`FileDatastore_locks` and the modules it extends prove, for any numbers of processes, threads, sessions, files, requests,
faults and any time bound, from the assumptions `DocsAssumption` and `ConstantsAssumption` and what a theorem names itself:

- `TypeCorrect`: `Spec => []TypeOK`. That the semaphore stays in {0, 1} is the interesting part:
  `ncds_file_free` posts it when `holding_lock` is set.
- `Mutex`: `Spec => []MutualExclusion`.
- `CopyCurrent`: `Spec => []CopyIsCurrent`.
- `UpdatesKept`: `Spec => NoLostUpdate`.
- `LocksKept`: `Spec => LocksRespected`.
- `AcknowledgedStored`: `Spec => []AcknowledgedIsStored`.
- `SettledComplete`: `Spec => []SettledFileIsComplete`.
- `Refinement`: `Steady => (Spec => ImplementsDatastore)`. `Steady` asks for one thread per process, no
  rollbacks, no faults and no process that starts later. Each of these lets the code leave the abstract
  specification: another thread clears `holding_lock` before a `file_sync`, a rollback restores a whole
  document, a failed write leaves a torn file, a starting process writes a frame without `LOCK`.
- `LocksReleased`: `NoUndo => (Spec => [](raced = {} => LockOwnersAreOpen))`. A rollback brings back the locks of its old
  document, hence `NoUndo`; threads, faults, crashes and starts are all allowed.

The first five follow from one inductive invariant, `IndInv`. `CopyIsCurrent` speaks of a thread that is in
the critical section; to be inductive it must hold for every process at every time, so `Fresh`
says that a copy `file_reload` would keep is current, except while a change waits for its
`file_sync`. A write of another process preserves it because that write carries the present
time, and no `last_access` is later than the present (`Times`). The stamp at the end of
`file_sync` preserves it because the copy has just been written and nobody else could write since
(`Stamping`, `MutualExclusion`). `Pending` carries the result of the operation from the change of
the copy to the dump, which gives `NoLostUpdate`, and with a lemma on outcomes
`LocksRespected`. `HoldingInv` says that a set `holding_lock` belongs to a thread that has yet to
clear it, so that `ncds_file_free`, which needs all threads idle, never posts. `ActiveUp` ties threads to running
processes. The lemmas are one per conjunct and, under it, one step per action that can disturb
it.

`AcknowledgedStored` and `SettledComplete` add what a thread between the dump and the post knows of its file. `Refinement` maps
the document to the one in the main file; only `SyncDump` changes it, and `Pending` says that it is then a result of the
operation. `LocksReleased` has an invariant of its own, `LockInv`, because a lock that is gone from the file may come back from a copy.
`Owned` speaks of every copy that will be used or written (`Kept`), `Agree` says that these copies and the file
have the same locks of open sessions, and `Breaking` follows `ncds_break_locks` from target to target.

The attempt to prove `LockOwnersAreOpen` as it was first stated, without "unsure", failed for a reason in the code, and TLC then
found the behaviour: a session locks running; one thread is in `UNLOCK`, after the post and before it clears
`holding_lock`; another thread unlocks for the session, and `file_sync` refuses because the flag is gone. The session is told of the failure. The file still has the lock but
the copy has not, so that `ncds_break_locks` finds nothing to unlock, and the session closes with its lock in the file. The statement now excepts
sessions that were told so. Lock, unlock, a foreign lockinfo and the close are four requests, so `file_threads` allows four.

### Start and stop

`Lifecycle_proofs` proves for any processes, commands, size of the table and numbers of starts, from `LifecycleAssumption` (the bounds are
naturals, and `NONE` is no process, segment or entry):

- `CleanupIsAlone`: `Spec => []CleanupAlone`.
- `CrashesTold`: `Spec => []RecoveryTold`.

The invariant is `LifeInv`: types, and, while `calm`, that all use one segment (`OneSegment`), that a segment is
empty until its maker has decided (`Making`), that who decides holds the lock and is alone if it is the first (`Deciding`), that each working
process has its own entry in the table (`Entries`), and that `due` counts the entries of crashed processes (`Counting`). The last is what makes
`RecoveryTold` inductive: `nc_apps_check` removes one entry per start, and `due` goes down by one with it. When the segment is removed the table
and `due` go together, which is why the theorem speaks of crashes since the segment was made.

### A request over all datastores

`ApplyRpc_proofs` proves for any list of datastores, sets of modules and validators, requests and number of requests, from `ApplyRpcAssumption`:

- `UrlComplete`: `Spec => []UrlHasAll`. Each part of the remote file is whole, or was dropped by a failed download.
- `ErrorOption`: `NoBlindTests => (Spec => []ErrorOptionKept)`.
- `DeviceKeepsUp`: `NoBlindTests => (Spec => []DeviceFollows)`.
- `RepliesTrue`: `NoBlindTests => (Spec => []ReplyTellsStores)`.

`ApplyRpcAssumption` says, of the list, that no datastore is in it twice, and, of requests, what `ncds_apply_rpc` accepts: an edit has
its data in the request or at a URL, and only copies and deletions have a URL as target. `NoBlindTests` excludes test-only edits without `:validate`. It is needed: such an
edit is applied and the device is not told (datastore.c looks at the test-option only with `:validate`), and TLC refutes `DeviceFollows` without it.

The invariant has five parts: `Types`; `Places`, where the loops are; `Merging`, which datastores have replied and what the merged replies tell
of them; `Documents`, what is known of each datastore; `Uploaded`, the same for the remote file. `Documents` is the substance.
Of a datastore that has replied (`After`) it says that the reply is true, that the device has its running configuration, and that the
saved document is the one before the request whenever a rollback may still come. That last clause, `Undoable`, is why the rollback loop restores what it should, several
steps and several datastores later. `Between` says the same of the datastore in work, by the place in `ncds_apply_rpc`, and
`RollingBack` of those already rolled back and those still to come.

### What is proved and what is not

TLC checks the invariants of all three components on instances before the proofs do so in general. `tlapm` takes from one to thirteen minutes for each module from nothing.

Only model-checked, and why:

- all liveness properties (`SemaphoreReturned`, `CloseCompletes` and those of `Session` and `Streams`): fairness is out of the prover's reach;
- the modules on trees, whose definitions are recursive: `EditReference`, with `WithDefaults` and `XmlDiff`;
- `SessionList`, where walking the linked list is an induction over data, with `LiveSessionsKept`;
- `TransApi`, `Requests`, `Session` and `Streams`: not attempted.

## 6. Not modelled

`PROJECT.json` has a component for each part. Not modelled:

- the transports `ssh.c` and `tls.c`, connecting and call home: input and output through other libraries;
- the custom and empty datastores and the setters of callbacks: no state;
- the loading and compiling of data models (`ncds_new`, `ncds_consolidate`, features, augments, `yinparser.c`): a long sequence of
  XML transformations by one thread at start, with nothing that interleaves;
- the thread that monitors files for transAPI modules: to the datastores it is one more caller;
- accessors, duplication, dump and free of messages, errors and sessions; statistics.

In the file datastore: `ncds_file_set_path` (the path is a constant), a backup file that parses but has a different structure, a clock
that is set back, and `fopen` failing in `file_reload`. In the session list: the statistics in a record, and the test for
an id in use that precedes `nc_session_monitor`. In the trees: namespaces, and models that augment each other. In access control: XPath beyond
paths of names. In sessions: timeouts of callers. In the streams: a process killed inside a call, which would leave a torn record that nothing
repairs, and the status document. In start and stop: the build with POSIX shared memory, and a PID that is used
again by the same command.
