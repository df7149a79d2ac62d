# Nano PoW Server: a TLA+ model of the work server

The server accepts requests for proof of work over HTTP and WebSockets, keeps
them in a priority queue, has a pool of threads work them off on a set of
devices, and sends the results back. This directory models the parts of it in
which several threads, clients and connections meet. Line numbers refer to the
sources under `src/`; `PROJECT.json` lists, definition by definition, the lines
each one stands for.

## The system

| Component | Where | State | Operations |
|---|---|---|---|
| Work handler | `workserver/work_handler.{hpp,cpp}` | `jobs`, `active_jobs`, `completed_jobs`, one mutex each, the thread pool, `job_id_dispenser` | `handle_request_async` (work_generate, work_validate, work_cancel), `handle_queue_request`, `handle_queue_delete_request`, the lambda posted to the pool |
| Device registry | `work_handler.hpp:120-151, 227-235` | an atomic busy flag per device | `aquire_first_available_device`, `release` |
| Job and job queue | `work_handler.hpp:44-113, 173-220` | the jobs' order | comparator, removal, the three containers |
| HTTP session | `webserver.hpp:415-835` | the connection, the response queue, `client_keepalive` | `read`, `on_read`, `on_write`, `on_timer`, `write_json_response`, `queue::operator ()` |
| WebSocket session | `webserver.hpp:206-410` | the send queue, the ping state, the timer | accept, read, write, ping, timer |
| Listener, web server | `webserver.hpp:838-1029` | acceptor, IO threads | `on_accept`, `start`, `stop`, destruction |
| Routing, static pages | `webserver.hpp:627-665, 708-834, 965-996` | endpoints (fixed after start) | `on_read`'s dispatch, `handle_request` |
| Program entry | `entry/nano_pow_server.cpp` | none between starts but the configuration file | generate, configure, serve; `stop` calls `std::exit` |
| Configuration | `workserver/config.hpp` | values (fixed after start) | read, override, export |
| Numbers | `workserver/util.hpp` | the bytes of a number | hex and multiplier conversions |
| Admin web UI | `public/app.js`, `app_queue.js` | timers, requests under way, what is shown | status poll, queue poll, spinner, alerts, menu |

How they interact:

* The web server runs one `io_context` on several IO threads. Each session has
  a strand, so its own completion handlers run one at a time; those of
  different sessions run concurrently.
* A session's `on_read` calls the endpoint's handler on the IO thread, and that
  calls the work handler. So any number of `handle_request_async` and queue
  requests run at the same time, on shared state under the three mutexes.
* `work_generate` queues a job and posts a lambda to the pool. A pool thread
  runs the lambda, which takes the job on *top* of the queue, claims a device,
  solves the job, and calls the response handler of the request it was *posted
  for*.
* The response handler is the session's: `write_json_response` stores the
  response in the session's queue and may start writing it. From the pool this
  runs outside the session's strand. A WebSocket session posts it to its strand.
* `main` reads the configuration once, builds the work handler and the web
  server from it, and destroys them when `start` returns: the web server with
  its `io_context` first, then the work handler with its pool.
* The UI talks to the server through the same endpoints as any client.

What makes it hard: the two halves of `work_generate` (queue a job, post a
lambda) and of the lambda (take a job, answer a request) are separate steps
that interleave with those of others; cancelling removes jobs but not lambdas;
the device search is a sequence of atomic exchanges; `active_jobs` holds
references to stack variables; a queue request nests three locks and gives one
up early; ids wrap; the response queue is used from inside and outside the strand; an
accept loop that fails sleeps in a handler; the process can end while threads
and lambdas are at work; and in the UI timers and results overtake each other.
`PROJECT.json` lists the hazards, each at its line.

What makes each component correct:

* work handler: each request is answered exactly once, a queued job always has
  a lambda to come for it, a job is worked on once, the lists of a queue request
  agree, no lock is held for ever;
* devices: a search never runs off the end, no device is lost or shared;
* HTTP session: one read and one write at a time, responses in the order of the
  requests and within the limit, reading resumes, every request is served;
* WebSocket session: one write at a time, messages in the order they were given,
  a silent peer is disconnected and one that is heard of is kept;
* web server: waiting clients are accepted, a signal ends the process, nothing
  is destroyed while a thread of the web server uses it;
* configuration, routing, program: the server does what the user's file and
  command line say, documented requests reach their handlers, and nobody gets
  more than was allowed;
* UI: it tells in time whether the server is there, and shows its queue.

## Modules

| Module | Models | Used by |
|---|---|---|
| `DevicePool` | the devices; a thread's search is one step per exchange | `WorkHandler` (as `Dev == INSTANCE DevicePool`) |
| `JobQueue` | operators on jobs and their containers | `WorkHandler` |
| `WorkHandler` | all requests and the pool | |
| `HttpSession` | one connection, its client, and the pool's calls into it | |
| `WebSocketSession` | one WebSocket connection from `do_accept` on, and its peer | |
| `WorkService` | what a work service promises, with no threads or locks | `WorkHandler` (refinement) |
| `OrderedDelivery` | a channel that delivers in order, each message once | `HttpSession`, `WebSocketSession` (refinement) |
| `WebServer` | the process: `main`, the listener, the IO threads, the pool, signals | |
| `Numbers` | the bytes and hexadecimal text of numbers | `Config` |
| `Config` | reading and writing the configuration | `Program` |
| `Routing` | what becomes of a request | `Program` |
| `Program` | `main` over several starts with an edited configuration file | |
| `WebUI` | the page in a browser, and the server as far as it sees it | |
| `MC*` | the instances TLC explores | |
| `*_proofs` | the theorems | |

**`DevicePool`.** `busy` is the flags, `cursor[w]` the element thread `w` tests
next and `held[w]` what it has claimed. `StartScan`, `TestAndSet` and `Release`
are the start of `find_if`, one evaluation of its predicate (`try_aquire`), and
`release`.

**`JobQueue`.** A job is a record of the request it was made for, the hash, the
priority and the id. The request is a ghost: no operator reads it, the
properties do. `std::priority_queue::top` is any element no other is ordered
before (`Tops`), and the operations of `std::set` work up to equivalence, so
that the model stays right when two jobs compare equal. Start and end times,
difficulty and results are left out: nothing decides by them.

**`WorkHandler`.** A step is one atomic operation or one critical section. For
a request `r`: `Receive`; `CreateJob` (the device check, the id and the
fields); `PushJob` (the critical section with the limit); `Post`;
`AnswerAtOnce`; `CancelWork`; `ClearQueue`; and the four steps of a queue
request, `QueueLockJobs`, `QueueLockActive`, `QueueCopyJobs`, `QueueReply`. For
a pool thread `w`: `Take`, `NoJobsAvailable` or `PopJob`, `Acquire` (one
exchange each), `Activate`, `Solve`, `ReleaseDevice`, `LockActive`, `Complete`.
A mutex variable holds its owner between steps; where a critical section is one
step, its guard is that the mutex is free. `replies[r]` is what the response
handler of `r` was called with, `worked[r]` whose job the work it was sent
belongs to, `listing[r]` what a queue request was told. A field that is missing
or malformed is the value `BadHash`. The device variables change by the actions
of `DevicePool`; that the lambda uses them as it should is not given by that,
and `DevicesInUse` states it: a device is busy exactly while a lambda is between
its claim and the release.

`WorkService` is what all this is for: requests arrive, jobs are accepted,
refused, removed or worked on, and answers of the right kind are sent once. A
job *waits*, seen from there, from the moment it is queued until its work has
been sent, so the steps of the lambda in between are invisible; "no jobs
available" is owed to one removed job each, and an error about devices is not an
answer it knows. `Service` in `WorkHandler` is the mapping; whose work a
request is sent is left open there, because the code leaves it open (`own_work`).

**`HttpSession`.** Requests are `page` (answered inside `on_read`), `work`
(answered later by the pool), `upgrade` (to an existing WebSocket path) and
`denied` (to another path). `on_read` is cut where it touches the response
queue: storing (`ReadPage`), "is it the only one" (`StartFirst`), "is it full"
(`Pipeline`). `on_write` is cut at the erase (`OnWrite`, `StartNext`), and the
pool's call likewise (`PoolStore`, `PoolStart`), so that the two can interleave
as the code lets them. A write ends in `Deliver` or `WriteFails`; `Lost` is the
break of a connection and also the hour's timer. `ReadUpgrade` moves the socket
to a `websocket_session` whose `do_accept` writes the answer to the upgrade at
once (`accepting`), whatever responses are being written or to come; that write
ends in `Accepted`, after which `WebSocketSession` has the connection, or in
`AcceptFails`. It is an operation on the socket, and an answer, like any other:
`OneOperationEachWay`, `ResponsesInOrder` and `EveryRequestServed` count it.
Memory effects of simultaneous access to the vector are not modelled, only the
logical interleavings. The
session implements `OrderedDelivery` from the requests it reads to the responses
the client gets, as the WebSocket session does for the messages given to it.

The parameter `Client` says how the client uses the connection. A `pipelining`
client sends at will. A `sequential` one waits for each response. One that
keeps its work requests `separate` sends a work request only as the first on a
connection and nothing else until it is answered; an upgrade it asks for when
nothing is outstanding, and no request follows that; other requests it pipelines
freely. One that is `upgrading` does the same, but sends its upgrade behind
requests that are not answered. The session's promises hold for the `separate`
client (`http_session`). For the others they do not, as the run `http_assert`
and two further configurations show.

**`WebSocketSession`.** It assumes that no HTTP response is left to be written
when the socket is moved, which `OneOperationEachWay` gives for `separate`
clients. Every handler runs in the strand, so an action is a
whole handler: `Accept`, `ReadMessage`, `ReadControl`, `ReadClose`, `ReadFails`,
`Enqueue` (the lambda `write_response` posts), `OnWritten` and `SendFails` (the
completion handler after a success and a failure), `on_timer`, `on_ping`. The
only thing done outside it is the posting (`write_response`). A message is
its number. `Sent` and `DeadlinePasses` are the environment: the peer takes a
write, fifteen seconds go by. Setting the deadline cancels a pending wait,
which queues the timer's handler (`SetDeadline`); in `do_accept` that happens
at once, so `Init` starts with the handler queued. `quiet` is a ghost: how many
deadlines have passed since the peer was heard of. The string given to
`async_write` is a local of `write_queued_messages` (line 244) and is gone when
a write has to wait, so what the peer gets may be `Garbled` in place of the
message: the properties speak of which message is sent, not of its bytes.

**`WebServer`.** `main` is the place of the main thread in `main ()` and
`start ()`, `io[t]` that of each thread in `ioc.run ()`; thread 0 is the main
one. The listener is `Listen` (its failures leave no socket, one that is not
bound, or one that listens), `Accept`, `MakeSession`, `NoEndpoint`,
`AcceptFails` and `Awake`. `OnSignal` calls `ioc.stop ()`, after which every
`run` returns at the end of its handler. `DestroyWs`, `StopPool` and `JoinPool`
follow the order of destruction of the locals of `main ()` and of the members
of the two classes. Of sessions and lambdas only what outlives or crashes the
process is kept. The arithmetic of `reserve (thread_count - 1)` and of the
loop's `capacity () - 1` is that of unsigned integers, `WordSpace` of them.

**`Numbers`, `Config`, `Routing`, `Program`.** Pure operators, and one state
machine that composes them. `Numbers` is exact for any width; signs and the
`0x` that the stream operator also takes are left out. A configuration document
in `Config` is the values and devices it gives, if it is TOML at all. `merge` is
cpptoml's rule that of a value given twice the first counts, key by key also for
a single device that the command line and the file both give; a table there and
an array of tables in the file are an error (`Clash`). `read` is the
constructor. A value of another type counts as none, for a setting, a key of a
device and the difficulty alike (`value_or`), and `throws` is what ends the
constructor: a text that does not parse, a number the C++ type cannot hold (a
negative one among them), a difficulty that is empty, too wide or not a number,
a device that is neither a table nor tables or is of an unknown type.
`export_documented`
gives a document with no values and one device table, since every line but the
headers is commented out. `Routing` decides as `on_read` and `handle_request`
do, on the whole target for endpoints and on its path for upgrades. In
`Program` the user generates a file, removes comment signs, edits, and starts
the program with overrides; it serves a request, stops, or fails to start.

**`WebUI`.** Callbacks run one at a time. A request is sent, reaches the server
(which is up or down then), and its callback runs; the last two may happen in
any order between requests. `steady` is a ghost clock, the ticks since the
server last came or went. The status poll is timed, in units of its shortest
interval; all other timers may end at any moment, so what is shown of them does
not depend on their lengths. `failed` is a ghost.

Definitions that follow the words "Faulty variant" are not part of the model.
Each is a changed form of the action below it, with a defect the code might
have had; `PROJECT.json` names the property that catches it.

## Runs

| Run | Checks | What it shows |
|---|---|---|
| `device_pool` | `DeviceInv`, `DeviceAvailable` | with a thread per device no search runs off the end |
| `work_handler` | eleven properties, among them one reply at most, no stranded job, no device lost, a job is worked on once, the lists are consistent and never refer to a job that is gone; the refinement of `WorkService` | safety for every kind of request, also when ids repeat |
| `work_handler_live` | `EveryRequestAnswered` | progress, with jobs cancelled meanwhile, and of a server without devices |
| `http_session` | six properties, among them the refinement of `OrderedDelivery` | ordering, limit, keep-alive and progress of a session, up to and with the answer to an upgrade |
| `ws_session` | six properties, among them the refinement of `OrderedDelivery` | one write at a time, order, no message left unsent while the connection lasts; the timer closes silent connections and no live ones |
| `web_server` | `TypeOK`, `EndsInOrder`, `SignalEndsServer`, `ClientsAccepted` | from start to exit, for every thread setting and outcome of listening |
| `configured_server` | `NothingUnwanted`, `DocumentedRequestsHandled`, `SettingsObeyed`, `GeneratedFileIsNeutral`, `TypeOK` | from a configuration file to the answer a request gets |
| `web_ui` | `FeedbackInTime`, `SpinnerMeansWaiting`, `MessagesGoAway`, `ListingCatchesUp`, `TypeOK` | what the page shows follows what the server is |
| `own_work` (violated) | `OwnWork` | the work of one request is sent to another |
| `http_assert` (violated) | `QueueNotEmptyOnWrite` | a response written twice, the assertion in `on_write` fails |
| `accept_gone` (violated) | `RunsUntilToldTo` | a client that leaves before it is looked at ends the process |
| `clean_shutdown` (violated) | `CleanShutdown` | a lambda at work uses what has been destroyed |

The four violated runs are differences between the code and what it says of
itself; `PROJECT.json` quotes the lines. In short:

* `own_work`: r1 queues its job, r2 queues and posts, a thread runs r2's lambda
  and takes r1's job. Through HTTP the client has no way to tell, as the
  response does not carry the hash. With priorities the same happens even to
  two requests that do not overlap in their handlers.
* `http_assert`: the response of a work request is stored by the pool between
  the erase in `on_write` and its look at what is left. The request was the
  client's second on a connection it keeps alive; it need not pipeline. The
  same interleavings can write responses out of order, start two writes on the
  socket, or start none for a response that then waits for ever (with two work
  requests in flight); `ResponsesInOrder`, `OneOperationEachWay` and
  `EveryRequestServed` fail for such clients as well.
* `accept_gone`: `remote_endpoint ()` throws in `on_accept`, on a thread that
  catches nothing, or out of `start ()`.
* `clean_shutdown`: after a signal `main` destroys the `io_context` and the
  members of the work handler; the pool, whose `stop ()` does not wait, is
  joined last, and until then a lambda goes on.

### Further configurations

Five differences of the same kind have a configuration each, which TLC refutes,
and are not among the runs:

* `MCWorkHandlerFIFO.cfg` (`FIFOWithinPriority`): `work_handler.hpp:41` calls
  the queue FIFO within a priority; the id that orders jobs is taken before the
  queue's lock, so a job can be queued in front of an earlier one.
* `MCHttpSessionLimit.cfg` (`QueueWithinLimit`, for a client that pipelines):
  `webserver.hpp:424` calls the limit the maximum number of responses queued;
  it does not count responses that are still to come.
* `MCHttpSessionUpgrade.cfg` (`OneOperationEachWay`, for a client that sends an
  upgrade behind other requests): `webserver.hpp:667` reads on so that clients
  can pipeline, but the answer to the upgrade (line 271) is written while a
  response is, or before it; `ResponsesInOrder` and `EveryRequestServed` fail for
  this client as well.
* `MCWebSocketSessionPing.cfg` (`OnePingAtATime`): `webserver.hpp:315` says that
  a ping that never completed closes the connection. A peer that sends but does
  not take what it is sent keeps a ping waiting; its next message resets the
  ping state, and the next expiry pings again.
* `MCWebServerThreads.cfg` (`RequestedThreads`): `webserver.hpp:1009` speaks of
  the requested number of threads; one fewer runs, and for a setting of one the
  unsigned difference wraps around.

Differences that are plain from the text, which no run is needed for:
`README.md:50` names the default configuration file `nano-pow-server.toml`, the
program looks for `config-nano-pow-server.toml` (`nano_pow_server.cpp:27`); the
exported configuration has `device_id` and `platform_id`, the reader knows
`device` and `platform` (`config.hpp:124-125, 205-206`), and documents a `gpu`
with no memory where the default is a `cpu` with 2048 MB (`config.hpp:52-57,
204-207`); `app.js:141` speaks of a back-off to no more than 3 s, and it
reaches 4.8 s; `app.js:69` promises an alert a duration, and an earlier alert's
timer, or the next poll of the queue, hides it sooner.

### Bounds

* `device_pool`: four threads and devices. A search that is overtaken needs a
  thread that releases behind it and one that claims ahead; four leave room for
  that twice. The theorem covers every number.
* `work_handler`: three requests, two threads, two hashes, two priorities, a
  limit of two jobs and a buffer of two completed jobs. Three requests make a
  job, the lambda of another, and a third party that cancels, clears or lists;
  they reach the limit, and three orphaned lambdas. Requests and threads are
  interchangeable, so the safety runs use symmetry; the liveness runs do not.
  There are two ids for three jobs, so that ids repeat among jobs that exist
  together, as they do in the code after 2^32 requests. `ActiveJobsComplete`
  is claimed until an id is given out twice (`IdsUnique`): after that an
  active job can be missing from the list.
* `work_handler_live`: one hash, three operations and a buffer of one completed
  job: progress depends on jobs and lambdas meeting, not on hashes. The same run
  has a server with no devices, all operations, and no right to clear the queue.
* `http_session`: four requests and a limit of two. The queue fills, reading
  stops, resumes, and a request is left to be read. The code's limit of eight
  differs in length only.
* `ws_session`: three messages, so that two wait behind the one being written.
  `MaxPings` bounds how many pings pile up while the peer is being heard; one
  that is silent gets at most one more, so its value only matters to
  `MCWebSocketSessionPing`. The number of deadlines is not bounded.
* `web_server`: settings from none to four threads where the system gives three,
  so that the loop ends, wraps around, and is refused a thread; two clients and
  one pool thread, so that one lambda works while another waits. Signals and
  failing accepts are not bounded.
* `configured_server`: numbers two bytes wide, so that a text can be as wide,
  narrower, too wide, empty, or no number. Two edits between starts, one flag for
  each access rule, four command lines, of which one takes back, one is mistyped
  and gives a key of the device, and one does not parse; devices of known,
  unknown and mistyped types and with a number out of range: every branch of
  `merge`, `read` and `throws` is met. A request leaves nothing behind
  for the next, so one per start is enough. `MaxEdits` is the one bound.
* `web_ui`: two requests overtake each other, two timers hide what is shown
  later. One loop stands for several, since its timer may end at any time.
  `Settled` bounds the ghost clock and is when the page must be right.
  `Latency` is what is assumed of the network, without which nothing can be
  promised in time: two ticks, more than the shortest interval, so that pings
  overlap and end out of order. The
  poll and the rest of the page share only the server, so `MCWebUI` moves one
  and leaves the other at rest.
* Requests are never retried by the model: a retry is one more request.

### Fairness

`WorkHandler`: each
request's handler and each pool thread runs when it can (weak fairness per
thread: the operating system schedules it, and with finitely many requests a
mutex it waits for is free from some time on); clients may stop at any time, so
`Receive` is not fair. `HttpSession`: the strand's handlers, the pool and the
writes under way run when they can; the client's steps and the loss of the
connection are not fair. `WebSocketSession`: time passes, queued handlers run,
and the peer takes a write in the end; nothing is asked of its messages or of
the pings. A queued handler of a strand is run by some IO thread of the
`io_context`. `WebServer`: threads run; strong fairness of `OnSignal` and
`Accept` says that the `io_context`, whose queue of ready handlers is served in
order, does not pass one over for ever while other handlers come and go, and
that accepting on a listening socket succeeds in the end. Nothing is asked of
clients, signals or failures. `WebUI`: timers end, and a request ends, with an
answer or a failure; the server owes nothing, and `ListingCatchesUp` asks
nothing of a page whose server does not come back. `DevicePool` and `Program`
have safety properties only.

Deadlock is checked in all runs but those of the sessions, since a session
ends. `Quiescent` in `WorkHandler` is the server waiting for more requests,
`Ended` in `WebServer` the process that is gone.

## Proofs

Every invariant and every refinement that a run checks is proved, for all
values of the constants, or for those a theorem names. The assumptions on the
constants say what the code ensures or what a thing is:

* `DevicePoolAssumption`, `JobQueueAssumption`, `WorkHandlerAssumption`: the pool
  has one thread per device (`work_handler.cpp:21`), priorities are numbers and 0
  is one of them, ids are numbers modulo `IdSpace`, requests and threads are
  different things, and so are a kind of request and the value for none.
* `HttpSessionAssumption`, `WebSocketSessionAssumption`: bounds are numbers, the
  limit of the queue is not 0 (`webserver.hpp:442`), and a garbled message is
  none of those given to the session.
* `WebServerAssumption`: thread settings are unsigned integers, of which there
  are more than the system gives threads.
* `NumbersAssumption`, `ProgramAssumption`: a number has a byte at least; what
  the user writes has the form of a document (settings the reader knows, texts of
  characters, device tables as the key `device` says), and the command line
  gives no array of devices.
* `WebUIAssumption`: a first interval of at least one tick, and listings are not
  states of a request.

Each invariant below is the conjunction of what a property says and of what it
takes to make that inductive.

* `DevicePool_proofs`. `DeviceInvariant` and `DeviceAlwaysAvailable`. That no
  search runs off the end is not inductive. `NoCrowding` makes it so: the
  threads that are at or beyond device `d`, searching or holding, are at most
  as many as the devices from `d` on. A thread moves past `d` only when `d` is
  busy; its holder is then among those at or beyond `d` and not among those
  beyond, so one place beyond `d` is free. At the end there are no places, so
  nobody is there.
* `WorkHandler_proofs`, in five parts.
  *The queue*: `StrictWeakOrder`, the comparator meets what the standard
  containers require; `TopUnique`, with distinct ids there is no choice.
  *Types and devices*: `TypeCorrect` through `TypeInv`, which adds what a
  handler knows at each place (a job is made only of a hash that parsed; a
  thread has a job and a handler exactly in the states that use them).
  `NoDeviceLeaks` through `HeldInv`: a thread holds a device exactly between the
  end of its search and the release, and the flags are those of the devices
  held. The steps of `DevicePool` keep its invariant here too, hence
  `NoClientSeesDeviceError`.
  *Replies*: `NobodyAnsweredTwice` through `RepliesInv`: a request that is not
  answered yet is in one place only, in its handler, in the pool's queue (once),
  or with one thread. `NoJobStranded`: jobs are counted against the requests
  whose lambda is still to pop; inductive given `RepliesInv`, without which one
  request could be counted twice.
  *Locks*: `MutualExclusion`, and `NoDanglingJob`, which does not assume that
  ids are distinct: erasing by equivalence may remove another thread's entry,
  which never leaves a dangling one.
  *Jobs*: `JobsWorkedOnce` through `JobsInv`: the job of a request is in the
  queue, with a thread, or done, and only requests that were accepted have one.
  `ActiveJobsListed` adds that ids in use are distinct (`IdsKept`) while no id
  has been given out twice. `ListsDisjoint` through `ListingInv`: a queue
  request gives up the queue's mutex before it reads the other two lists; what
  it copied may leave the queue then, but cannot get into the lists whose
  mutexes it holds.
* `WorkHandlerService_proofs`. `ServiceImplemented`: every step of `WorkHandler`
  is an action of `WorkService` or changes nothing a client sees. The invariant
  it needs, `ServiceInv`, counts: the accepted requests whose job no thread has
  taken are as many as the lambdas to come and those that came too late. So a
  lambda that finds the queue empty owes its "no jobs available" to a job that
  was removed and for which nobody has been told.
* `WebSocketSession_proofs`. `WritesOneAtATime` through `WriteInv` (the write
  under way, or the one whose handler is to run, is for the front of the queue);
  `SessionDelivers`, the refinement of `OrderedDelivery`, through `InTransit`
  (while the stream is open, what was given is what was delivered, then the
  queue, then what is posted); `LivePeerSpared`, an action property, through
  `TimerInv` (an expired deadline and a ping under way stand for a deadline of
  silence each, and together for two); `SessionTypeCorrect`.
* `HttpSession_proofs`. `HttpTypeCorrect` holds for every client. The others are
  about a client that keeps its work requests `separate`, as in the run:
  `OperationsOneByOne`, `LimitKept`, `ClosedAsAsked` and `HttpDeliversInOrder`,
  the refinement; for other clients they are not claimed. They share `UsageInv`,
  whose parts need each other: what the pool may find when it stores
  (`WorkInv`), when reading is stopped (`ReadInv`), which response is being
  written (`WriteInv`), and that the queue holds the responses to the requests
  that follow those answered (`QueueInv`). `AnswerInv` adds the upgrade: while its
  answer is being written every earlier request has been answered, and nothing
  else is being written. They ask for a limit of two at
  least. The code's is 8 (`webserver.hpp:425`), but its assertion allows 1 (line
  442), and with 1 even this client makes the session read twice at a time: the
  pool's answer fills the queue while a read goes on, and `on_write`, finding
  the queue was full, starts another.
* `WebServer_proofs`. `ServerTypeCorrect`, where the count of threads still to
  start wraps around for the settings 0 and 1, and `OrderlyEnd`, through where
  each thread can be for each place of `main` (`PlaceInv`) and how `main` got
  there (`EndInv`).
* `Program_proofs`. First the numbers. `HexRoundTrip`: to any text of digits, of
  any length up to the size of the number and for any size, `to_hex` of what
  `from_hex` stored is that text with zeros before it. The places of a number
  read back as the number (`ReadBack`), digits that are read are written again
  (`WriteBack`), and a byte is two digits (`BytesOfDigits`). Then the program.
  `AccessAsAllowed`, `DocumentedHandled`, `SettingsAsWritten`,
  `GeneratedIsNeutral` and `ProgramTypeCorrect`, through `ProgramInv`: the
  configuration in use is what the constructor reads from the file and the
  command line (`ConfRead`), a reply is one the routing gives (`Answered`), and
  files and command lines stay documents while a generated file gives defaults
  only, however it is uncommented (`FileInv`). `DevicesMerged` says what a device
  given in both has, key by key.
* `WebUI_proofs`. `PageSaysSoInTime` for any interval, back-off limit and
  latency. `OutdatedAreOld`: a ping that will bring the result from before a
  change is as old as the change. `FeedbackComing`: from then on the page is
  right, or a ping that will make it so was sent in time, or is to be sent in
  time. That the interval cannot be doubled beyond what `Doubled` says needs
  that this recursive function exists (`DoubledExists`). The proof does not go
  through for a bound of one latency, with which the property had been stated,
  and TLC refutes that for a latency of two ticks: the ping sent before the
  change may end last, and the one sent a pause later takes its own time.
  `SpinnerExplained` through `SpinnerInv`, and `PageTypeCorrect`.

The numbers and the back-off are recursive functions, so their proofs use
induction. It is that a set of natural numbers that is not empty has a least
element (`LeastNumber`, from the well-foundedness of `<`); `UpTo` and
`StepsExist` turn it into induction up to a bound, and into the existence of a
function that is computed step by step. `LeastNumber` is stated in both modules
that use it.

Model-checked only, being liveness, which the prover does not reach:
`EveryRequestAnswered`, `EveryRequestServed`, `EveryResponseSent`,
`SilentPeerClosed`, `SignalEndsServer`, `ClientsAccepted`, `MessagesGoAway`,
`ListingCatchesUp`. The safety refinements above do not include the fairness of
the abstract specifications, which have none.

`tlapm M.tla` checks a proof module, `tlc -config X.cfg M` a run.

## Plan

1. Devices, jobs, work handler, with their first theorems; HTTP session. *Done.*
2. `WebSocketSession`: posting to the strand, the send queue, write errors, the
   ping and timer state machine. *Done.*
3. The abstract specifications `WorkService`, implemented by `WorkHandler`, and
   `OrderedDelivery`, implemented by both sessions. *Done.*
4. `WebServer`; `Numbers`, `Config`, `Routing` and `Program`; `WebUI`. *Done.*
5. Proofs of the work handler's safety, of the three refinements, of the
   sessions, the web server, the program with its numbers, and the page. *Done.*
6. Further theorems about the operators (the order in which `Tops` serves jobs
   over several pops, what `SetErase` and `PushBack` keep), and what holds of the
   four violated properties under conditions on the clients.

## Not modelled

* The solver (the code has a mock of it), logging, JSON and the wording of
  responses. `mock_work_generation_delay` is time, and time is not modelled.
* The values the lambda writes to its job without a lock while a queue request
  reads them (`work_handler.cpp:258-282`): a data race on values on which no
  decision depends.
* Exceptions other than those the handlers throw themselves. One thrown between
  claiming and releasing a device would leave it busy.
* The multipliers (`util.hpp:89-100`): binary floats of 100 digits, which decide
  nothing that is modelled. A multiplier can exceed what a difficulty holds.
* TCP, Beast and cpptoml, except for what the code relies on; it is in the
  definitions `PROJECT.json` marks external. Of documents left out: a table such
  as `server` that is given as a scalar, and `[[device]]` on the command line.
* The UI's router (`app_router.js`), which is adapted from another project, the
  layout of the tables, the Node.js sample, the unit tests, build scripts and
  CI: no state of the server.
