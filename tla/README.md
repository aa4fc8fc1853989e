# TLA+ models of the NFP example applications

NFP is a user-space network stack on top of ODP. This repository has the
declarations of its library (`include/api`), whose implementation is delivered
as a binary, and the applications that use it (`example`). The code that can be
modelled from source is that of the applications: how they start and stop the
stack and their threads, how their worker threads move packets and events, and
what they do with sockets, callbacks and descriptors. The library and ODP appear
in the models as the applications use them and are marked external.

## Parts of the system

| Part | Source | State and operations | Hard part | Model |
|---|---|---|---|---|
| Start-up and shutdown | `example/*/app_main.c`, `common/linux_sigaction.c`, `nfp_init.h`, `nfp_thread_proc.h` | resources, threads, the processing state; initialise, create, stop, join, terminate | a failure in the middle; signals; threads that outlive what they use | `Lifecycle`, `AppMains` |
| Dispatch loops | `fpm_direct`, `webserver2`, `udp_fwd_socket`, `udp_term_socket`, `classifier`, `ioctl_test`, `fpm_power`, `tcpperf` | input queues, scheduler, burst, packet vector, pending output | bursts against vector size, stop in mid-round, forgotten flushes | `Dispatch`, `Dispatchers` |
| Power saving | `fpm_power/app_main.c` | interrupts, idle time, polling | lost wake-ups | `PowerSave` |
| HTTP server | `webserver/httpd.c` | connection table, select set, epoll set | stale slots, full table, clean-up | `Webserver` |
| UDP forwarder | `udp_fwd_socket/udp_fwd_socket.c` | sockets, remote address shared with workers | publication without a lock | `UdpFwd` |
| libc wrappers | `netwrap_crt/*.c` | which descriptors are NFP's, pointers to libc, the flag of `fork()` | calls that fall into the constructor; partial sends; two threads in one wrapper | `Netwrap` |
| Callback server | `webserver2/httpd2.c` | a callback that answers a request and frees its packet | waiting for room in a callback; failures half-way | `PacketHooks` |
| UDP termination, classifier channel | `udp_term_socket.c`, `classifier_term.c`, `classifier_main.c` | a bounded channel between callbacks or a dispatcher and a thread | who owns a packet; a full channel | `PacketHooks` |
| UDP echo | `udpecho/udp_server.c` | a callback that sends its packet back | who owns a packet | `PacketHooks` |
| Socket tests | `socket/*.c` | 109 suites of two threads over two sockets | a failed test and its waiting peer; descriptors on error paths | `SocketOps`, `SocketTests`, `SocketSuite`, `OrderlySockets` |
| Multicast, ioctl test | `mcast.c`, `ioctl_test.c` | the end of the test thread | a wait that does not see a stop request | `AppMains`; the tests are straight lines |
| Multi-process | `multiprocess_main.c` | forked children | failure in a child | parent only |
| TCP throughput | `tcpperf/app_main.c` | packet input thread | a receive error | `Dispatchers`; client and server not modelled |
| Command line | `common/cli_arg_parse.c` and the `parse_args()` functions | strings | | not modelled |
| Library, build files, scripts, IPsec/VNF recipes, header tests | `include/api`, `scripts`, `test` | none in source | | not modelled |

`PROJECT.json` lists these parts with their files, the hazards with their lines,
and for every definition the lines it stands for.

## The modules

**LifecycleOps, Lifecycle, AppMains.** A process is a `main()` thread that makes
the calls of its *line*, the threads it creates, the processing state, Ctrl+C and
the shutdown command of the CLI. `AppMains` holds the `main()` functions of
thirteen applications as sequences of calls (`Acquire`, `Release`, `Create`,
`Join`, `Stop`, `Use`, ...), each with the calls of its failure branch; when a
call fails (`MainFail`) the rest of the line is replaced by that branch.
Resources are NFP itself, the parsed arguments, sockets, channels, scheduler
groups and classes of service. `Use(g, r)` says that from here on the threads of
group `g` work on `r`. A thread enters its loop, or aborts in its set-up, at any
time after its creation, and leaves once processing is stopped.

**OrderlyLifecycle, LifecycleProofs.** The discipline that makes a `main()` safe,
stated on its lines of calls alone (`Orderly`, `Tidy`), and the proof that it is
enough.

**Dispatch, Dispatchers, DispatchProofs.** One worker thread and its loop: test the processing
state, fetch events from the scheduler, poll the input queues one after the
other, collect packets in the vector, flush, force out what the stack holds back.
`Dispatchers` describes the loops of the applications as records that select
the steps a loop has. One TLA+ step is one call of ODP or of the stack; packets
arrive, events are posted and processing is stopped between any two of them.
The loops of `tcpperf` poll `exit_threads` instead of the processing state; its signal
handler and its ending threads set it (`ExitThreads`), the shutdown command of the CLI
does not.
`Taken` is the sequence of the packets the worker has taken, in the order in which they
reach the stack: those handed over, then the vector, then the burst. `Got(src)` are the
numbers of those that came from one queue or from the scheduler.

**PowerSave, PowerSaveProofs.** A worker of `fpm_power`: polling, the idle time,
clearing, enabling, waiting for and disabling the receive interrupts, one queue
at a time. `LevelQueues` are the queues whose device raises the interrupt when it is
enabled and the queue already holds packets; the other devices only announce
packets that arrive afterwards.

**Webserver, WebserverProofs.** The server thread in its select and its epoll mode, with peers
that connect, send, close or reset at any time. Descriptors are numbers, because
`nfds` compares them, and are allocated arbitrarily. `failed` is the end of a
thread that did not reach its loop. `nfp_close()` is taken to succeed in the end;
`nfp_get_processing_state()` cannot fail after initialisation.

**UdpFwd, UdpFwdProofs.** `udp_fwd_cfg()` and `udp_fwd_cleanup()` in the main thread, assignment
by assignment, against workers that test the processing state once a round (`LoopTest`,
`EndRound`) and read the remote address field by field. When the configuration fails
`main()` stops processing (`StopAfterFailure`) and cleans up after the join; until the
workers see it they go on. `cfg` is what `udp_fwd_cfg()` has returned.
Both ways of forwarding are there: the socket callback, and the packet hooks that
`app_main.c` has in a comment.

**PacketOwner, PacketHooks, PacketHooksProofs.** `PacketOwner` is what the API promises
about packets: at any time each has one owner (the pool, the stack, the
channel, a worker or the receiving thread, or `"lost"`), and it changes hands only along a few
ways. `PacketHooks` has the code: the callbacks of `udpecho`, `udp_term_socket` and
`webserver2`, the classification dispatcher of `classifier`, and the threads
`termination_channel()` and `termination_posix()`. A step is one call of the library
with the code up to the next one. `Owner` computes from the variables who holds a
packet, by the place a worker is at and the local variable that is live there;
under it `PacketHooks` implements `PacketOwner` (`PacketsOwned`). `FailCodes` are the
negative results of `nfp_channel_send()`; `lost` collects what `channel_packet_input()`
neither sends nor frees after one that it does not take for a failure. The checks of
arguments at the start of the receiving threads are left out. `ss->pkt` is looked at
for receive events only; the events of one TCP connection come one at a time;
`nfp_udp_packet_sendto()` takes its packet over. These are external.

**Netwrap, NetwrapProofs.** The overloaded socket calls, made by two threads while the
constructor runs. Wrappers that make one call are one step; `accept4`, `writev`,
`sendfile64`, `select` and `fork` are several. `misrouted` records arguments that went to the
implementation that did not make them: the descriptor a wrapper tests, or the second one of
`epoll_ctl()`, which goes along untested. A descriptor that `accept()` or `accept4()` drops
because its peer's address is of neither family has the owner `"forgotten"` (`Forgets`).
Error numbers and the layout of addresses are left out. The descriptors of libc are below
`sd_offset`, as `NetwrapAssumption` says; the limit on open files has to ensure it. A program does not
close a descriptor that another of its threads is using, each thread sends a file of its own, and `dlsym()` finds what libc
has.

**SocketOps, SocketTests, SocketSuite.** A test function is a straight line of
calls with an error path behind each: `SocketTests` writes every one of them
down in the vocabulary of `SocketOps`, with the table of suites of `main()`, and
`SocketSuite` runs them: `main()`, `run_suite()` and `end_suite()`, two threads,
the callbacks of signal events, and a socket layer that is external. A step of a
thread is one call with the test of its result and the error path. In the layer
some free descriptor is given out (TLC takes the lowest), what is sent is delivered at once, a
receive takes what is there up to its size, or from a stream perhaps only one of the sizes in
`Cuts` unless it waits for all, and a failed close still releases. An address that an
earlier suite has bound and connected may still be in use (`Lingers`, TIME_WAIT) for a
bind without the options `NFP_SO_REUSEADDR` and `NFP_SO_REUSEPORT` (`BindReuse` is one with them).
Sleeps order nothing, so that orders the tests exclude only by sleeping do occur.
The sockets block, so `EINPROGRESS` does not come up. Other socket options are left
out. The tests are those of a build with IPv6.

**OrderlySockets, SocketSuiteProofs.** What keeps the descriptors of a test in order,
stated on its line of calls alone (`Orderly`, `OrderlyInit`, `Tidy`), and what the tests of
a suite may send each other so that it fits their buffers (`Room`); and the proof that
it is enough. `MCSocketSuite` brings it together with the tables of `SocketTests`.

`MC*` modules give the constants their values; operators with a suffix
(`Poll_OffByOne`) are faulty variants that show that a property can fail.

## What the runs check

| Run | Question | Result |
|---|---|---|
| `lifecycle` | does a thread ever work on something released; is anything released that is not held | no, in the thirteen orderly configurations (`MCOrderlyApps`) |
| | does `main()` give everything back and join every thread on every path | yes in `fpm`, `webserver`, `webserver2`, the POSIX mode of `classifier`, `multiprocess` (`MCTidyApps`) |
| | does a stop request end the application | yes where threads poll the processing state (`MCStoppableApps`) |
| | do the assumptions of the proofs hold of these `main()` functions | yes |
| `lifecycle_release` | as the first, for the channel modes of `udp_term_socket` and `classifier` | violated |
| `lifecycle_terminate` | is `nfp_terminate()` called once by `fpm_direct`, `udp_fwd_socket`, `netwrap_proc` | violated |
| `lifecycle_multicast` | does a stop request end `multicast` | violated |
| `dispatch` | packets and events in order, each once; nothing left in burst, vector or stack when the loop ends; every packet delivered, pending output sent, the loop ends once what it polls is set | holds (the second and the pending output for loops that flush; the end unless the loop blocks in the scheduler) |
| `power` | no lost wake-up, packets received, sleep when idle, stop noticed | holds; for edge-triggered queues only that the next interrupt serves them |
| `webserver` | table, select set and epoll set agree; all is closed at the end; requests are served (select) | holds |
| `udp_fwd_share` | no use after free, sockets closed, late packets go to the remote | holds; after a failed configuration they go to no address |
| `udp_fwd_remote` | every packet goes to the remote | violated during configuration |
| `hooks` | does every packet have one owner and change hands as the API allows; do packets come back, callbacks return, connections get closed | yes, but for a vector refused with a code other than -1, and unless all workers wait in a callback |
| `netwrap` | does each descriptor go to its maker; is a pointer called before it is looked up; is data sent once; are descriptors leaked, options read back, children ready; do calls end | holds, with the exceptions below |
| `sockets` | are descriptors used while open and closed at the end; who may wait for ever; do buffers hold what arrives; do the suites succeed and end when no call fails | holds, with the exceptions below |
| | do the assumptions of the proofs hold of these suites | yes |

TLC reports the shortest counterexample of a run with several applications; each
of the others is seen by giving `Apps` its name alone.

The violated properties are what a line of the documentation, of a header or of
a comment says; `findings` in `PROJECT.json` quotes it.

Left out of what is checked, because the code does not have the property:
the shutdown command of the CLI does not end the loops of `tcpperf`, which poll
`exit_threads` (`Stopped` in `LoopStops`); `udpecho` closes its socket twice when its configuration fails after the socket
was created; the event dispatchers of `udp_fwd_socket`, `udp_term_socket` and
`ioctl_test` do not force out what a timer made the stack send, and the first
two block in `odp_schedule(ODP_SCHED_WAIT)`; a receive error of `tcpperf` drops
the packets in the vector and ends the application; the epoll loop of the web
server keeps the slot of a connection whose `nfp_recv()` failed, and its listening
socket stays open when `nfp_epoll_create()` fails (`failed`, outside `ExitClosesAll`).
Of the applications outside `MCTidyApps`, `fpm_direct`, `fpm_power`, `udp_fwd_socket`,
`udp_term_socket`, the channel mode of `classifier` and `netwrap_proc` return from some
failure branch with a thread not joined or a resource not given back; `multicast`
and `ioctl_test` leave nothing behind, but join their test thread also when its
creation failed.

Six socket tests return from a path without closing what they opened (`Leaky`), and
`select_recv_tcp()` writes its terminating zero behind a full buffer: `DescriptorsClosed`
and `TerminatorFits` name them. A test fails without a failing call when its
`nfp_select()` times out, its peer closes early, a message comes in parts or a shutdown is refused
(`excused`), and `getsockname_bind()` with TCP may find its address in use, as it comes after
connections on it and does not set the reuse options (`Exposed` in `OnlyExcusedFail`).

A packet that comes after `udp_fwd_cfg()` has failed, before the workers stop, is
forwarded with a null address; the packet hooks would dereference it (`LateToRemote`).
`nfp_send()` in the callback of `webserver2` waits for
acknowledgements that only another worker takes in: when all wait (`AllWait`) none does, which
`PacketsReturn`, `CallbacksReturn` and `RequestsClosed` except. The thread of `classifier` in its
POSIX mode ends when `nfp_recv()` fails, after which the socket's packets stay where they are.
`channel_packet_input()` takes only -1 for a failure of `nfp_channel_send()`, where the API
allows any negative result: another one is cut to 16 bits and taken for the number sent, and
the packets before that index are lost (`Forgotten`).

`epoll_ctl()` tests its first descriptor only; a descriptor of the other implementation is
passed on with it (the second element of `misrouted`, outside `RoutedToMaker`). `accept()` and
`accept4()` return -1 without closing the connection when the address of its peer is of neither
family (`Forgets`, excepted in `NoLeak`). The constructor of `netwrap_crt`
announces itself before it has looked up anything: until it has, `socket()` and the
read of `sendfile64()` call a null pointer (the exceptions in `LookedUp`). Of two
`fork()` calls that overlap, one goes straight to libc and its child lacks the local resources of
NFP (`alone` in `ChildReady`).

## Bounds

* Lifecycle: two workers, so that one can fail to be created after the other; one
  thread of each other kind; the `main()` functions are complete. At most one call
  of `main()` fails, as the branches themselves check no results.
* Dispatch: two queues, bursts of 2, a vector of 2, 3 packets and 2 events, four of
  them at most. A burst then fills a vector in the middle, the vector carries over from queue to
  queue, and a queue can hold more than a burst.
* PowerSave: two queues, the second level-triggered, bursts of 2, 3 packets per queue.
* Webserver: 3 slots, 3 descriptors, 3 connections, batches of 3 events. With epoll the
  table is full with the listening socket and two connections while a third waits, and
  a batch can hold an event of each; with select a third connection waits for a descriptor.
* UdpFwd: two workers, two sockets and a port without one.

* PacketHooks: two workers, two packets, a channel of two, `nfp_channel_recv()` of two
  at a time, a vector of two, two connections, a file of two parts and a send buffer
  of one, so that both workers can wait for room; failures of -1, of -2, which is beyond the
  vector, and of -65535, which 16 bits make the index 1. The channel may take any prefix of what it has room for, so that senders find
  it closed to them, and a vector is taken in part, without a third packet to fill it;
  a file waits for room.
* Netwrap: two threads, one descriptor of libc and two of NFP, two calls of one thread and
  one of the other,
  which is enough for two calls to overlap after one that made a descriptor; parts of
  2, 0 and 1 bytes for `writev()`; a file of 3, a buffer of 2, counts of 1 and 3 and an offset of 1
  for `sendfile64()`; at
  most one poll before the timeout of `select()`, none, or no timeout.
* SocketSuite: all suites, one after the other, with at most two failing calls: one
  in each thread, or one in a thread and one in what main() does. A part of a stream has
  3 bytes (`Cuts`), less than any text and buffer. Eight
  descriptors are more than two tests and what leaky ones left behind need.

Four runs switch the deadlock check off because the system may stop. A dispatcher may wait
in the scheduler forever; a socket test may wait for a peer that failed; the
applications of `hooks` may be stopped with all packets in the pool; the calls of `netwrap` are
bounded and a `select()` may have nothing to wait for.

## Fairness

A thread that can make a step makes one: workers run on cores of their own, and
the calls they make return. `PowerSave` also lets time pass (`Elapse`). Nothing is
assumed of peers, packets, signals, failures, or the configuration of an address
that `mcasttest()` waits for. The web server's waits return after 200 ms.
In `PacketHooks` peers acknowledge, and an acknowledgement waits in the queue of a worker that
serves it in order: it is taken in if workers are idle again and again (strong fairness of
`Acknowledge`, for each connection). The stack transmits what it was given, and `nfp_recv()`
and `nfp_channel_recv()` do not fail for ever while a packet waits (strong fairness of
`posix_recv` and `channel_recv` when they take one); nothing makes `nfp_send()` fail. In `Netwrap` a call under way goes on, and
NFP takes data again some time after `NFP_EAGAIN`. In `SocketSuite` main() and the two threads run;
nothing is assumed of the thread that calls the callbacks of signal events.

## What is proved

Each proof goes the same way: the properties that the runs check are not inductive,
as they do not say how the code got where it is; `IInv` adds what makes them so;
`Init => IInv` and `IInv /\ [Next]_vars => IInv'` are proved action by action; the
theorems follow from `Spec => []IInv`. TLC confirms every `IInv` on the instance of the
run as well (that of Netwrap with a finite range for the first byte of what was sent,
where the invariant has all integers; that of SocketSuite with a few lengths of buffers, those
of the tests among them, where it has all). The theorems are about any values of the constants
that satisfy the named assumptions, which the runs evaluate on theirs.

| Module | Proved beside the inductive invariant | Assumptions |
|---|---|---|
| `LifecycleProofs` | `TypeOK`, `NoUseAfterRelease`, `ReleaseHeldOnly`, `CleanExit`, `JoinMadeOnly` | `ThreadsAssumption`, `ResourcesAssumption`, `CodeAssumption`, `OrderlyAssumption`, `TidyAssumption` |
| `DispatchProofs` | `InOrder`, `NothingLeftBehind` | `DispatchAssumption`, `KindsAssumption` |
| `PowerSaveProofs` | `TypeOK`, `SleeperWakes` | `QueuesAssumption`, `BoundsAssumption`, `DeviceAssumption` |
| `WebserverProofs` | `TableExact`, `NoStaleEvent`, `ExitClosesAll` | `TableAssumption` |
| `UdpFwdProofs` | `ForwardsForSockets`, `NoUseAfterFree`, `LateToRemote`, `SocketsClosed` | `ForwarderAssumption` |
| `PacketHooksProofs` | `TypeOK`, `PacketsOwned` (the refinement of `PacketOwner`), `NothingLost` | `HooksAssumption` |
| `NetwrapProofs` | `RoutedToMaker`, `NoLeak`, `OptionReadBack`, `DataOnce`, `ChildReady`, `LookedUp` | `NetwrapAssumption` |
| `SocketSuiteProofs` | `UsesOpen`, `DescriptorsClosed`, `TerminatorFits` | `BoundsAssumption`, `SuitesAssumption`, `OrderlyAssumption`, `InitAssumption`, `TidyAssumption`, `RoomAssumption` |

**Lifecycle.** `IInv` (in `OrderlyLifecycle`) says that the position in the line of
calls determines the state: what is held is what was acquired and not yet released
(`HeldInv`), a thread that exists was created by an earlier call (`MadeInv`), a joined
group has no live threads (`JoinInv`), and live threads have what was handed to them
(`UseInv`). The discipline then excludes a release while a thread that uses the
resource has not been joined. For `JoinMadeOnly` a second step adds `FullInv`: a group
whose creation succeeded is there in full until it is joined; `Tidy` says that a line
joins only such groups. `MCOrderlyLifecycle` has TLC evaluate the assumptions on the
real `main()` functions, so that the theorems apply to them.

**Dispatch.** Any queues, number of packets, burst, vector and any kinds of loops in
which polling collects what events collect (`KindsAssumption`, true of the records of
`Dispatchers`). `IInv` says what the worker may hold at each place of its round
(`PlaceInv`: a vector is never full between two packets, and is empty outside the places that
fill it), how many packets it can have received (`RoundInv`), when the stack holds
nothing back (`PendingInv`), and that what was taken from a source is exactly the
first part of what came from it (`Sorted`, `QueueInv`, `EventInv`). Every action either
leaves `Taken` as it is (packets move from the burst to the vector to the stack), or
appends to it what comes next from one source (`TakenMore`).

**PowerSave.** Any number of queues, any `LevelQueues`, burst and packets. `WakeInv`
says that the queues dealt with so far stay announced while the remaining interrupts
are enabled.

**Webserver.** Any size of the table and of a batch, any number of descriptors and
connections. `IInv` says what each place of each mode implies for the
registrations and the batch (`ModeInv`, `QuietInv`), where the listening socket is
(`ServerInv`), that table and open descriptors agree (`TableInv`), and that a batch
holds a slot once (`BatchInv`): without the last an event could find its slot emptied.

**UdpFwd.** Any number of workers and sockets, both ways of forwarding. `IInv` ties the
sockets and the fields of the remote address to the place of the main thread in
`udp_fwd_cfg()` and the clean-up (`SocksInv`, `StoreInv`, `RaddrInv`), and says that the
workers are gone when the clean-up begins (`JoinedInv`) and that a packet that came
after the configuration finds the address complete, or none at all if it failed
(`LateInv`). The join is all the synchronisation the argument uses.

**PacketHooks.** Any workers, packets, connections and sizes. That a packet has one
owner is not inductive: whether a step hands the right packet on depends on what the
worker's local variables hold at that point. `IInv` adds that the variable live at a
worker's place holds a packet where the code relies on one (`LocalsOK`), that no packet
occurs twice in the socket buffer, the channel, a vector or the receiver's table
(`Distinct`), and that each packet has exactly one holder (`OneHolder`). For every
action the proof says which packets move from which place to which (`Moves`), and
derives the abstract step and the next `OneHolder` from that. The set of lost packets is
a holder like the others; `NothingLost` says that it stays empty if -1 is the only code
that `nfp_channel_send()` fails with.

**Netwrap.** Any number of threads, descriptors, parts of a `writev()`, sizes of the
file and the buffer. `IInv` says that a descriptor's number tells who made it, if anybody still has it (`OwnInv`), that
what `accept4()` is about to return is in no other hands (`AcceptInv`), which pointers are
there by which stage of the constructor (`LookInv`), how many bytes a call has sent at
each point of its loops and which (`DataInv`), and whose the flag of `fork()` is
(`ForkInv`). The bytes before a part of a `writev()` are a recursive function (`Before`);
that it exists and is monotonic is proved by induction with the least-number principle, as a
statement about a set of numbers.

**SocketSuite.** Any table of suites, size of the descriptor table and number of failing
calls, under a discipline on the lines of calls: a line fills a descriptor in once and
closes it once, uses none that it has closed, closes on an error path only what it
holds there (`Orderly`), leaves the two sockets of the suite to `end_suite()`
(`OrderlyInit`), and, unless it is named in `Leaky`, holds nothing wherever it may return
(`Tidy`). TLC evaluates the discipline on all tests of the example, so that the
theorems apply to them with any number of failing calls, where the run has two. That a test uses
open sockets only is not inductive: the socket could be one that the other thread, a
closed listener or the end of an earlier suite takes away. `IInv` says that the place of
`main()` tells which threads run (`Phases`); that the names a thread has filled in and
not closed hold -1 or open sockets of its own, no two the same one (`OwnInv`); that a name not yet filled
in is -1, or the suite's socket for the parameter of a test (`UnsetInv`); that a connection
not yet accepted waits in one open listener, once, is held by nobody and belongs to the maker of the
listener (`PendInv`); and that an open socket is held, waits, or was made by a leaky test (`OpenInv`).
Closing takes the waiting connections along, which is why `PendInv` is needed:
a close never reaches a socket in other hands. `ListInv` counts the address lists.

Where a test writes its terminating zero depends on what the other thread sent, as several
tests receive into all of the buffer. `RoomAssumption` says what makes that right: a test asks
for less than its buffer, or all texts of its suite are shorter and no two run together,
because the suite uses datagrams only, or sends once and has no callback; the test in
`Overrun` is neither. `DataInv` is a second invariant, inductive together with `IInv`: what is
open was made by this suite or an earlier one, and a socket of this suite holds less at a
time than the buffers take (`Carries`), a stream nothing before the one send (`SuiteInv`); what a
test received last leaves room (`GotInv`). Suites do not mix: only the
threads of the current suite send, and a callback hands on what its own socket got.

The type invariants are proved: as theorems of their own for Lifecycle, PowerSave and
PacketHooks, which no run checks again, and as a conjunct of `InOrder`, `TableExact`,
`ForwardsForSockets`, `RoutedToMaker` and `UsesOpen`.

Only model-checked:

* All liveness properties (`StopEnds`, `PacketsDelivered`, `PendingSent`, `LoopStops`,
  `PacketsReceived`, `SleepsWhenIdle`, `WorkerStops`, `InterruptServesAll`, `RequestServed`,
  `PacketsReturn`, `CallbacksReturn`, `RequestsClosed`, `CallsEnd`, `SuitesFinish`): fairness is
  outside the reach of the proof system.
* `StuckOnlyIfPeerFailed` and `OnlyExcusedFail` of `SocketSuite`. They relate the number of
  connections, texts and bytes that one test of a suite produces to those that the other waits
  for. This differs from suite to suite, and sums over the lines of both tests; no condition on
  one line alone implies it. TLC runs all 109 suites, so that only the number of failing calls
  is a bound.

## Not modelled

* The library, ODP and libc: no source here. What the applications use of them is
  in the models and marked external.
* The command line: strings handled by one thread before anything else runs. So are
  the assignment of cores and queues to workers, and all printing.
* `tcpperf` apart from its input thread: client and server are loops around one
  blocking call each, whose throughput is all they measure; the statistics
  thread prints.
* The children of `multiprocess`: they run the library's dispatcher on state in
  ODP's shared memory.
* The tests of `multicast`, `ioctl_test` and `classifier/udp_test.c`: one thread that
  makes calls whose results the library alone determines. Their start and end are in
  `AppMains`.
* The translation of error numbers and addresses in `netwrap_crt`.
* IPsec and VNF recipes, build files, scripts, header tests: no running code.
