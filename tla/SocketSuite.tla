---------------------------- MODULE SocketSuite ----------------------------
(***************************************************************************)
(* The socket example: main() takes one suite after the other, runs its    *)
(* init function, starts two threads that run a test each, joins them and  *)
(* closes the two sockets of the suite.  The tests meet only through the   *)
(* sockets of the library, which is modelled from how they use it.         *)
(*                                                                         *)
(* A step of a thread is one call of a test with the code up to the next   *)
(* call: the test of its result and, when it failed, the closes of the     *)
(* error path and the return.                                              *)
(***************************************************************************)
EXTENDS SocketOps, Functions

CONSTANTS Suites,     \* the table of main(): an init function and two tests each
          Leaky,      \* the tests with a path that forgets a descriptor
          Overrun,    \* the tests whose buffer is too short for its terminator
          Exposed,    \* the tests that bind an address which may be in TIME_WAIT
          Cuts,       \* how much of a stream a receive may find, besides all
          MaxSock,    \* size of the descriptor table
          MaxFaults   \* how many calls of the library may fail

ASSUME BoundsAssumption ==
  MaxSock \in Nat \ {0} /\ MaxFaults \in Nat /\ Cuts \subseteq Nat \ {0}

VARIABLES suite,   \* the suite main() is at: its number and functions
          at,      \* where main() is in it
          th,      \* main() in the init function, and the two threads
          sock,    \* the descriptor table of the library
          lists,   \* address lists handed out and not freed
          faults   \* calls that have failed

vars == <<suite, at, th, sock, lists, faults>>

Fds == 1..MaxSock

Threads == {"t1", "t2"}

Slot == [main |-> 1, t1 |-> 2, t2 |-> 3]

\* Who made a socket: the suite and the thread.
Nobody == <<0, "">>

Free ==
  [open |-> FALSE, fam |-> 0, kind |-> "", by |-> Nobody, bound |-> NoAddr,
   dest |-> NoAddr, peer |-> 0, listening |-> FALSE, q |-> <<>>, pend |-> <<>>,
   bytes |-> 0, eof |-> FALSE, hook |-> "", ev |-> <<>>]

\* 0 is the descriptor -1.  excused: a call failed, found its peer gone or
\* received a part of a message, for a reason that only the sleeps and time-outs
\* of the tests exclude, or one that is left to the library.
Idle ==
  [st |-> "idle", ip |-> 1, env |-> [n \in Names |-> 0], got |-> 0, sum |-> 0,
   sel |-> {}, ret |-> 0, excused |-> FALSE]

\* An entry of the table of main(): the init function and the two tests.
Load(n) == [num |-> n, code |-> Suites[n]]

Init ==
  /\ suite = Load(1)
  /\ at = "start"
  /\ th = [t \in DOMAIN Slot |-> Idle]
  /\ sock = [fd \in Fds |-> Free]
  /\ lists = 0
  /\ faults = 0

-----------------------------------------------------------------------------
(* The threads.                                                            *)

Prog(t) == suite.code[Slot[t]]

Cur(t) == Prog(t)[th[t].ip]

At(t, op) == th[t].st = "run" /\ Cur(t).op = op

Fd(t) == th[t].env[Cur(t).fd]

\* A thread that starts, or has returned from a call, at instruction ip.
Ready(t, r) == [r EXCEPT !.st = IF r.ip > Len(Prog(t)) THEN "done" ELSE "run"]

Pass(t, r) == th' = [th EXCEPT ![t] = Ready(t, [r EXCEPT !.ip = @ + 1])]

\* Closing a socket takes the connections that wait in it along.
Closed(s, fds) ==
  LET dead == fds \union UNION {Range(s[fd].pend) : fd \in fds \ {0}}
  IN  [fd \in Fds |->
         CASE fd \in dead -> Free
           [] fd \notin dead /\ s[fd].peer \in dead \ {0} ->
                [s[fd] EXCEPT !.peer = 0, !.eof = TRUE]
           [] OTHER -> s[fd]]

\* The call of t fails and leaves the sockets as s.
Fail(t, r, s) ==
  IF Cur(t).must
  THEN /\ th' = [th EXCEPT ![t] = [r EXCEPT !.st = "done", !.ret = Cur(t).ret]]
       /\ sock' = Closed(s, {th[t].env[n] : n \in Range(Cur(t).undo)})
  ELSE Pass(t, r) /\ sock' = s

\* The calls that can fail whatever their arguments.
Fallible ==
  {"socket", "bind", "listen", "connect", "accept", "send", "reply", "recv",
   "select", "shutdown", "close", "sigevent", "call", "peername", "notconn",
   "getaddrinfo"}

Fault(t) ==
  /\ th[t].st = "run" /\ Cur(t).op \in Fallible
  /\ faults < MaxFaults
  /\ faults' = faults + 1
  /\ Fail(t, th[t], IF Cur(t).op = "close" THEN Closed(sock, {Fd(t)}) ELSE sock)
  /\ UNCHANGED <<suite, at, lists>>

\* A call on the descriptor -1.
BadFd(t) ==
  /\ th[t].st = "run" /\ Cur(t).fd # "" /\ Cur(t).op # "isset"
  /\ Fd(t) = 0
  /\ Fail(t, th[t], sock)
  /\ UNCHANGED <<suite, at, lists, faults>>

On(t, op) == At(t, op) /\ Fd(t) # 0

OnlySock == UNCHANGED <<suite, at, lists, faults>>

-----------------------------------------------------------------------------
(* The calls.                                                              *)

FreeFds(s) == {fd \in Fds : ~s[fd].open}

\* Which of several descriptors it is, is up to the library.
Some(fds) == CHOOSE fd \in fds : TRUE

nfp_socket(t) ==
  /\ At(t, "socket")
  /\ FreeFds(sock) # {}
  /\ LET fd == Some(FreeFds(sock))
     IN  /\ sock' = [sock EXCEPT ![fd] =
                       [Free EXCEPT !.open = TRUE, !.fam = Cur(t).addr.fam,
                                    !.kind = Cur(t).kind, !.by = <<suite.num, t>>]]
         /\ Pass(t, [th[t] EXCEPT !.env[Cur(t).to] = fd])
  /\ OnlySock

\* A packet to b reaches a socket bound to a.
Covers(a, b) ==
  a.fam = b.fam /\ a.port = b.port /\ (a.ip = b.ip \/ "any" \in {a.ip, b.ip})

BoundTo(kind, addr) ==
  {fd \in Fds : sock[fd].open /\ sock[fd].kind = kind /\ Covers(sock[fd].bound, addr)}

\* An earlier suite has bound addr and connected it: the library may still hold
\* it in TIME_WAIT.
Lingers(addr) ==
  \E n \in 1..(suite.num - 1) :
    /\ \E ins \in Range(Suites[n][1]) : ins.op = "socket" /\ ins.kind = "stream"
    /\ \E ins \in Range(Suites[n][1]) : ins.op = "bind" /\ Covers(ins.addr, addr)
    /\ \E i \in 2..3 : \E ins \in Range(Suites[n][i]) : ins.op = "connect"

\* The address is in use, or may be so because of an earlier connection.
InUse(t) == BoundTo(sock[Fd(t)].kind, Cur(t).addr) # {}

MayBeInUse(t) ==
  \/ InUse(t)
  \/ sock[Fd(t)].kind = "stream" /\ Cur(t).kind # "reuse" /\ Lingers(Cur(t).addr)

nfp_bind(t) ==
  /\ On(t, "bind")
  /\ \/ /\ ~InUse(t)
        /\ Pass(t, th[t]) /\ sock' = [sock EXCEPT ![Fd(t)].bound = Cur(t).addr]
     \/ MayBeInUse(t) /\ Fail(t, th[t], sock)
  /\ OnlySock

nfp_listen(t) ==
  /\ On(t, "listen")
  /\ Pass(t, th[t])
  /\ sock' = [sock EXCEPT ![Fd(t)].listening = TRUE]
  /\ OnlySock

\* A stream connection comes with the socket at its other end, which waits
\* in the listening socket; a listening socket with a callback has an event.
nfp_connect(t) ==
  LET addr == Cur(t).addr
      servers == {fd \in BoundTo("stream", addr) : sock[fd].listening}
  IN  /\ On(t, "connect")
      /\ IF sock[Fd(t)].kind = "dgram"
         THEN Pass(t, th[t]) /\ sock' = [sock EXCEPT ![Fd(t)].dest = addr]
         ELSE IF servers = {}
         THEN Fail(t, th[t], sock)
         ELSE /\ FreeFds(sock) # {}
              /\ LET srv == Some(servers)
                     fd == Some(FreeFds(sock))
                 IN  sock' = [sock EXCEPT
                       ![Fd(t)].dest = addr, ![Fd(t)].peer = fd,
                       ![srv].pend = Append(@, fd),
                       ![srv].ev = IF sock[srv].hook = "" THEN sock[srv].ev
                                   ELSE Append(sock[srv].ev, 0),
                       ![fd] = [Free EXCEPT !.open = TRUE, !.fam = addr.fam,
                                  !.kind = "stream", !.by = sock[srv].by,
                                  !.dest = addr, !.peer = Fd(t)]]
              /\ Pass(t, th[t])
      /\ OnlySock

nfp_accept(t) ==
  /\ On(t, "accept")
  /\ sock[Fd(t)].pend # <<>>
  /\ LET fd == Head(sock[Fd(t)].pend)
     IN  /\ sock' = [sock EXCEPT ![Fd(t)].pend = Tail(@), ![fd].by = <<suite.num, t>>]
         /\ Pass(t, [th[t] EXCEPT !.env[Cur(t).to] = fd])
  /\ OnlySock

\* What arrives at a socket with a callback is an event for the workers.
Arrive(s, fd, len) ==
  IF s[fd].hook # "" THEN [s EXCEPT ![fd].ev = Append(@, len)]
  ELSE IF s[fd].kind = "dgram" THEN [s EXCEPT ![fd].q = Append(@, len)]
  ELSE [s EXCEPT ![fd].bytes = @ + len]

\* The peer of a stream may have closed it: the call fails, or it succeeds
\* and what it sends is lost.
SendOn(t, len) ==
  LET s == sock[Fd(t)]
      dest == IF Cur(t).addr = NoAddr THEN s.dest ELSE Cur(t).addr
      gone == [th[t] EXCEPT !.excused = TRUE]
  IN  CASE s.kind = "dgram" /\ dest # NoAddr ->
             /\ Pass(t, th[t])
             /\ sock' = IF BoundTo("dgram", dest) = {} THEN sock
                        ELSE Arrive(sock, Some(BoundTo("dgram", dest)), len)
        [] s.kind # "dgram" /\ s.dest # NoAddr /\ s.peer = 0 ->
             \/ Fail(t, gone, sock)
             \/ Pass(t, gone) /\ sock' = sock
        [] s.kind # "dgram" /\ s.dest # NoAddr /\ s.peer # 0 ->
             Pass(t, th[t]) /\ sock' = Arrive(sock, s.peer, len)
        [] OTHER -> Fail(t, th[t], sock)

nfp_send(t) == On(t, "send") /\ SendOn(t, Cur(t).len) /\ OnlySock

Reply_(t) == On(t, "reply") /\ SendOn(t, th[t].got) /\ OnlySock

\* How many bytes a receive returns, and whether it returns at all.
Available(t) ==
  LET s == sock[Fd(t)]
  IN  IF s.kind = "stream" THEN s.bytes ELSE IF s.q = <<>> THEN 0 ELSE Head(s.q)

CanReceive(t) ==
  \/ sock[Fd(t)].eof
  \/ Available(t) >= IF Cur(t).kind = "waitall" THEN Cur(t).len ELSE 1

\* All that there is and fits; of a stream, perhaps only a part that has come
\* in so far, unless the call waits for all.
Most(t) == IF Available(t) < Cur(t).len THEN Available(t) ELSE Cur(t).len

Sizes(t) ==
  {Most(t)} \union
  {n \in Cuts : /\ n < Most(t)
                /\ sock[Fd(t)].kind = "stream" /\ Cur(t).kind # "waitall"}

Takes(t, got) ==
  /\ Pass(t, [th[t] EXCEPT !.got = got, !.sum = @ + got,
                           !.excused = @ \/ got = 0 \/ got < Most(t)])
  /\ sock' = CASE Cur(t).kind = "peek" \/ got = 0 -> sock
               [] Cur(t).kind # "peek" /\ got > 0 /\ sock[Fd(t)].kind = "stream" ->
                    [sock EXCEPT ![Fd(t)].bytes = @ - got]
               [] OTHER -> [sock EXCEPT ![Fd(t)].q = Tail(@)]

\* Mutant: the size asked for is taken for what was received.
nfp_recv_Full(t) ==
  On(t, "recv") /\ CanReceive(t) /\ Takes(t, Cur(t).len) /\ OnlySock

nfp_recv(t) ==
  /\ On(t, "recv") /\ CanReceive(t)
  /\ \E got \in Sizes(t) : Takes(t, got)
  /\ OnlySock

Check(t) ==
  /\ At(t, "check")
  /\ IF CASE Cur(t).kind = "last" -> th[t].got = Cur(t).len
          [] Cur(t).kind = "sum" -> th[t].sum = Cur(t).len
          [] Cur(t).kind = "some" -> th[t].got > 0
     THEN Pass(t, th[t]) /\ sock' = sock
     ELSE Fail(t, th[t], sock)
  /\ OnlySock

Terminator(t) ==
  /\ At(t, "terminate")
  /\ Pass(t, th[t])
  /\ UNCHANGED sock /\ OnlySock

\* What select() may wait for, and what of it can be read.
Readable(t) ==
  {n \in {Cur(t).fd, Cur(t).kind} \ {""} :
     LET s == sock[th[t].env[n]]
     IN  s.pend # <<>> \/ s.q # <<>> \/ s.bytes > 0 \/ s.eof}

\* A time-out is a failure where the result has to be 1; select_recv_udp_2()
\* goes on with the empty set.
nfp_select(t) ==
  /\ On(t, "select")
  /\ IF Readable(t) # {} \/ Cur(t).kind # ""
     THEN Pass(t, [th[t] EXCEPT !.sel = Readable(t)]) /\ sock' = sock
     ELSE Fail(t, [th[t] EXCEPT !.excused = TRUE], sock)
  /\ OnlySock

NFP_FD_ISSET(t) ==
  /\ At(t, "isset")
  /\ IF Cur(t).fd \in th[t].sel
     THEN Pass(t, th[t]) /\ sock' = sock
     ELSE Fail(t, [th[t] EXCEPT !.excused = TRUE], sock)
  /\ OnlySock

\* The library may refuse to shut down a socket that is not connected.
nfp_shutdown(t) ==
  /\ On(t, "shutdown")
  /\ \/ Pass(t, th[t]) /\ sock' = sock
     \/ /\ sock[Fd(t)].dest = NoAddr
        /\ Fail(t, [th[t] EXCEPT !.excused = TRUE], sock)
  /\ OnlySock

nfp_close(t) ==
  /\ On(t, "close")
  /\ Pass(t, th[t])
  /\ sock' = Closed(sock, {Fd(t)})
  /\ OnlySock

nfp_socket_sigevent(t) ==
  /\ On(t, "sigevent")
  /\ Pass(t, th[t])
  /\ sock' = [sock EXCEPT ![Fd(t)].hook = Cur(t).kind]
  /\ OnlySock

nfp_getpeername(t) ==
  /\ On(t, "peername") \/ On(t, "notconn")
  /\ IF (Cur(t).op = "peername") = (sock[Fd(t)].dest # NoAddr)
     THEN Pass(t, th[t]) /\ sock' = sock
     ELSE Fail(t, th[t], sock)
  /\ OnlySock

\* nfp_getsockname() and the queries of the library.
Answer(t) ==
  /\ At(t, "call")
  /\ Cur(t).fd # "" => Fd(t) # 0
  /\ Pass(t, th[t])
  /\ UNCHANGED sock /\ OnlySock

nfp_getaddrinfo(t) ==
  /\ At(t, "getaddrinfo") /\ lists' = lists + 1
  /\ Pass(t, th[t])
  /\ UNCHANGED <<suite, at, sock, faults>>

nfp_freeaddrinfo(t) ==
  /\ At(t, "freeaddrinfo") /\ lists' = lists - 1
  /\ Pass(t, th[t])
  /\ UNCHANGED <<suite, at, sock, faults>>

Step(t) ==
  \/ nfp_socket(t) \/ nfp_bind(t) \/ nfp_listen(t) \/ nfp_connect(t)
  \/ nfp_accept(t) \/ nfp_send(t) \/ Reply_(t) \/ nfp_recv(t) \/ Check(t)
  \/ Terminator(t) \/ nfp_select(t) \/ NFP_FD_ISSET(t) \/ nfp_shutdown(t)
  \/ nfp_close(t) \/ nfp_socket_sigevent(t) \/ nfp_getpeername(t) \/ Answer(t)
  \/ nfp_getaddrinfo(t) \/ nfp_freeaddrinfo(t)
  \/ BadFd(t)

-----------------------------------------------------------------------------
(* The callbacks, which a worker of the library runs on an event.          *)

Event(fd, notify) == sock[fd].hook = notify /\ sock[fd].ev # <<>>

\* The packet is the worker's no more: freed, or at least marked invalid.
Consume(fd) == sock' = [sock EXCEPT ![fd].ev = Tail(@)]

\* It is left to the worker, which queues it at the socket.
Leave(fd) ==
  LET s == [sock EXCEPT ![fd].ev = Tail(@), ![fd].hook = ""]
  IN  sock' = [Arrive(s, fd, Head(sock[fd].ev)) EXCEPT ![fd].hook = sock[fd].hook]

\* An address of the wrong length leaves the packet to the worker.
WrongAddress(fd) == Leave(fd) /\ faults < MaxFaults /\ faults' = faults + 1

notify_udp_ipv4(fd) ==
  /\ Event(fd, "notify_udp_ipv4")
  /\ \/ Consume(fd) /\ UNCHANGED faults
     \/ WrongAddress(fd)
  /\ UNCHANGED <<suite, at, th, lists>>

\* It marks the packet invalid as well, without having freed it.
notify_udp_ipv6(fd) ==
  /\ Event(fd, "notify_udp_ipv6")
  /\ \/ Consume(fd) /\ UNCHANGED faults
     \/ WrongAddress(fd)
  /\ UNCHANGED <<suite, at, th, lists>>

notify_tcp_rcv(fd) ==
  /\ Event(fd, "notify_tcp_rcv")
  /\ Leave(fd)
  /\ UNCHANGED <<suite, at, th, lists, faults>>

notify_tcp_accept(fd) ==
  /\ Event(fd, "notify_tcp_accept")
  /\ Consume(fd)
  /\ UNCHANGED <<suite, at, th, lists, faults>>

Worker ==
  \E fd \in Fds :
    \/ notify_udp_ipv4(fd) \/ notify_udp_ipv6(fd)
    \/ notify_tcp_rcv(fd) \/ notify_tcp_accept(fd)

-----------------------------------------------------------------------------
(* main() and the suite framework.                                         *)

CreateAt == [t1 |-> "create t1", t2 |-> "create t2"]

JoinAt == [t1 |-> "join t1", t2 |-> "join t2"]

Globals == [t1 |-> "fd_thread1", t2 |-> "fd_thread2"]

\* Both descriptors are -1 until the init function sets them.
init_suite ==
  /\ at = "start" /\ at' = "init"
  /\ th' = [th EXCEPT !["main"] = Ready("main", Idle)]
  /\ UNCHANGED <<suite, sock, lists, faults>>

InitDone ==
  /\ at = "init" /\ th["main"].st = "done"
  /\ at' = IF th["main"].ret = 0 THEN "create t1" ELSE "end"
  /\ UNCHANGED <<suite, th, sock, lists, faults>>

\* run_suite() does not look at the result of nfp_thread_create().
nfp_thread_create(t) ==
  /\ at = CreateAt[t]
  /\ at' = IF t = "t1" THEN "create t2" ELSE "join t1"
  /\ \/ /\ th' = [th EXCEPT ![t] =
                    Ready(t, [Idle EXCEPT !.env["fd"] = th["main"].env[Globals[t]]])]
        /\ UNCHANGED faults
     \/ /\ faults < MaxFaults /\ faults' = faults + 1
        /\ th' = [th EXCEPT ![t] = [Idle EXCEPT !.st = "absent"]]
  /\ UNCHANGED <<suite, sock, lists>>

SuiteFds == {th["main"].env[n] : n \in Range(Globals)}

\* Mutant: the sockets are closed when the first thread is joined.
nfp_thread_join_Closes(t) ==
  /\ at = JoinAt[t] /\ th[t].st \in {"done", "absent"}
  /\ at' = IF t = "t1" THEN "join t2" ELSE "end"
  /\ sock' = Closed(sock, SuiteFds)
  /\ UNCHANGED <<suite, th, lists, faults>>

\* Joining the uninitialized handle of a thread that was not created is
\* undefined: it returns, or the program ends there.
nfp_thread_join(t) ==
  /\ at = JoinAt[t]
  /\ \/ /\ th[t].st \in {"done", "absent"}
        /\ at' = IF t = "t1" THEN "join t2" ELSE "end"
     \/ /\ th[t].st = "absent"
        /\ at' = "crashed"
  /\ UNCHANGED <<suite, th, sock, lists, faults>>

\* Mutant: the second socket is forgotten.
end_suite_One ==
  /\ at = "end"
  /\ sock' = Closed(sock, {th["main"].env["fd_thread1"]})
  /\ th' = [t \in DOMAIN Slot |-> Idle]
  /\ IF suite.num = Len(Suites)
     THEN at' = "done" /\ UNCHANGED suite
     ELSE at' = "start" /\ suite' = Load(suite.num + 1)
  /\ UNCHANGED <<lists, faults>>

end_suite ==
  /\ at = "end"
  /\ sock' = Closed(sock, SuiteFds)
  /\ th' = [t \in DOMAIN Slot |-> Idle]
  /\ IF suite.num = Len(Suites)
     THEN at' = "done" /\ UNCHANGED suite
     ELSE at' = "start" /\ suite' = Load(suite.num + 1)
  /\ UNCHANGED <<lists, faults>>

Main ==
  \/ init_suite \/ Step("main") \/ InitDone
  \/ \E t \in Threads : nfp_thread_create(t) \/ nfp_thread_join(t)
  \/ end_suite

Next ==
  \/ Main
  \/ \E t \in Threads : Step(t)
  \/ \E t \in DOMAIN Slot : Fault(t)
  \/ Worker

\* The operating system schedules every thread that can run; nothing makes a
\* call fail.
Fairness == WF_vars(Main) /\ \A t \in Threads : WF_vars(Step(t))

Spec == Init /\ [][Next]_vars /\ Fairness

-----------------------------------------------------------------------------
(* Properties.                                                             *)

Places ==
  {"start", "init", "end", "done", "crashed"} \union Range(CreateAt) \union Range(JoinAt)

\* The state is well formed: the suite is one of the table of main(), every
\* descriptor a thread holds is -1 or in the table of the library.
TypeOK ==
  /\ suite.num \in DOMAIN Suites /\ at \in Places /\ faults \in 0..MaxFaults
  /\ lists \in 0..2
  /\ \A t \in DOMAIN Slot :
       /\ th[t].st \in {"idle", "run", "done", "absent"} /\ th[t].ret \in {-1, 0}
       /\ th[t].env \in [Names -> Fds \union {0}]
       /\ th[t].st = "run" => th[t].ip \in DOMAIN Prog(t)
  /\ \A fd \in Fds :
       /\ sock[fd].peer \in Fds \union {0} /\ sock[fd].bytes \in Nat
       /\ Range(sock[fd].pend) \subseteq Fds

\* A test never works on a descriptor that has been closed under it, or that
\* another suite has left: end_suite() closes the two sockets of a suite only
\* when no thread can still use them, and the error paths close nothing twice.
UsesOpen ==
  /\ TypeOK
  /\ \A t \in DOMAIN Slot :
       th[t].st = "run" /\ Cur(t).fd # "" /\ Fd(t) # 0
         => sock[Fd(t)].open /\ sock[Fd(t)].by[1] = suite.num

\* A suite leaves no descriptor and no address list behind, whichever call
\* failed, the leaky tests apart.
DescriptorsClosed ==
  at \in {"start", "done"} =>
    /\ lists = 0
    /\ \A fd \in Fds : sock[fd].open =>
         Suites[sock[fd].by[1]][Slot[sock[fd].by[2]]] \in Leaky

Other == [t1 |-> "t2", t2 |-> "t1"]

Blocked(t) ==
  \/ On(t, "accept") /\ sock[Fd(t)].pend = <<>>
  \/ On(t, "recv") /\ ~CanReceive(t)

\* A test that can wait for ever, and with it the nfp_thread_join() of
\* run_suite(), waits for a peer that failed or was never created; it never
\* waits for more than a peer that succeeded has sent.
StuckOnlyIfPeerFailed ==
  \A t \in Threads :
    Blocked(t) /\ th[Other[t]].st \in {"done", "absent"} /\ at \in Range(JoinAt)
      => th[Other[t]].st = "absent" \/ th[Other[t]].ret = -1

\* buf[len] = 0 stays within the buffer for everything the peer may send, the
\* tests whose buffer is too short apart.
TerminatorFits ==
  \A t \in Threads :
    At(t, "terminate") /\ Prog(t) \notin Overrun => th[t].got < Cur(t).len

\* When no call fails, a test fails only by a time-out of its select, by the
\* peer closing the connection early, by a message that comes in parts, or by a
\* refused shutdown.  The addresses, the lengths and the sockets that earlier
\* suites left never make one fail, nor do the addresses of earlier connections:
\* the init functions set the reuse options or come before the first connection,
\* and only the exposed tests do neither.
OnlyExcusedFail ==
  \A t \in DOMAIN Slot :
    faults = 0 /\ th[t].ret = -1 => th[t].excused \/ Prog(t) \in Exposed

\* When no call fails, main() gets through all the suites.
SuitesFinish == <>(at = "done" \/ faults > 0)

=============================================================================
