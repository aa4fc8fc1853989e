--------------------------- MODULE OrderlySockets ---------------------------
(***************************************************************************)
(* What it takes for the tests to keep their descriptors in order, as      *)
(* assumptions on the lines of calls alone.  TLC evaluates them on the     *)
(* suites of SocketTests; SocketSuiteProofs derives what holds of every    *)
(* execution, whichever calls fail and however the threads interleave.     *)
(***************************************************************************)
EXTENDS SocketSuite

\* The calls that work on a descriptor, and all of them.
OnFd ==
  {"bind", "listen", "connect", "accept", "send", "reply", "recv", "select",
   "isset", "shutdown", "close", "sigevent", "peername", "notconn"}

Ops == OnFd \cup {"socket", "check", "terminate", "call", "getaddrinfo", "freeaddrinfo"}

Kinds ==
  {"", "dgram", "stream", "reuse", "peek", "waitall", "last", "sum", "some", "fd3",
   "notify_udp_ipv4", "notify_udp_ipv6", "notify_tcp_rcv", "notify_tcp_accept"}

Address == [fam : Nat, ip : {"none", "local", "any", "loop"}, port : Nat]

Instr ==
  [op : Ops, fd : Names \cup {""}, to : Names \cup {""}, kind : Kinds,
   addr : Address, len : Nat, undo : Seq(Names), ret : {-1, 0}, must : BOOLEAN]

\* The descriptors that the calls of line p before position i have filled in,
\* have closed, and have filled in and not closed.
Filled(p, i) == {p[j].to : j \in {k \in DOMAIN p : k < i}} \ {""}

Shut(p, i) == {p[j].fd : j \in {k \in DOMAIN p : k < i /\ p[k].op = "close"}}

Held(p, i) == Filled(p, i) \ Shut(p, i)

\* A line of calls fills a descriptor in once and closes it once, uses none it
\* has closed, and closes on an error path only what it holds.  The parameter
\* is not replaced without a look at the result.  A list of addresses is freed
\* by the next call.
Orderly(p) ==
  \A i \in DOMAIN p :
    /\ p[i].op \in OnFd => p[i].fd # ""
    /\ p[i].fd # "" => p[i].op \in OnFd \cup {"call"}
    /\ p[i].to # "" <=> p[i].op \in {"socket", "accept"}
    /\ p[i].to \notin Filled(p, i)
    /\ p[i].fd \notin Shut(p, i)
    /\ p[i].op = "close" => p[i].fd \in Held(p, i) /\ p[i].undo = <<>>
    /\ p[i].to = "fd" \/ p[i].op = "getaddrinfo" => p[i].must
    /\ Range(p[i].undo) \subseteq Held(p, i)
    /\ p[i].op = "getaddrinfo" => i + 1 \in DOMAIN p /\ p[i + 1].op = "freeaddrinfo"
    /\ p[i].op = "freeaddrinfo" => i - 1 \in DOMAIN p /\ p[i - 1].op = "getaddrinfo"

\* An init function fills in the two descriptors that end_suite() closes, and
\* closes none itself.
OrderlyInit(p) ==
  \A i \in DOMAIN p :
    /\ p[i].op # "close" /\ p[i].undo = <<>>
    /\ p[i].to \in {"", "fd_thread1", "fd_thread2"}

\* A test that returns holds nothing: at its end, and wherever a call may make
\* it return.
Tidy(p) ==
  /\ Held(p, Len(p) + 1) = {}
  /\ \A i \in DOMAIN p :
       p[i].must /\ p[i].op \notin {"terminate", "freeaddrinfo"} =>
         \A x \in Held(p, i) :
           x \in Range(p[i].undo) \/ (p[i].op = "close" /\ x = p[i].fd)

ASSUME SuitesAssumption ==
  Suites \in Seq([1..3 -> Seq(Instr)]) /\ Suites # <<>>

ASSUME OrderlyAssumption ==
  \A n \in DOMAIN Suites : \A i \in 1..3 : Orderly(Suites[n][i])

ASSUME InitAssumption == \A n \in DOMAIN Suites : OrderlyInit(Suites[n][1])

ASSUME TidyAssumption ==
  \A n \in DOMAIN Suites : \A i \in 2..3 : Suites[n][i] \in Leaky \/ Tidy(Suites[n][i])

-----------------------------------------------------------------------------
(* The inductive invariant.                                                *)

ThreadRec ==
  [st : {"idle", "run", "done", "absent"}, ip : Nat \ {0},
   env : [Names -> Fds \cup {0}], got : Nat, sum : Nat, sel : SUBSET (Names \cup Kinds),
   ret : {-1, 0}, excused : BOOLEAN]

Makers == Nat \X (DOMAIN Slot \cup {""})

SockRec ==
  [open : BOOLEAN, fam : Nat, kind : Kinds, by : Makers,
   bound : Address, dest : Address, peer : Fds \cup {0}, listening : BOOLEAN,
   q : Seq(Nat), pend : Seq(Fds), bytes : Nat, eof : BOOLEAN, hook : Kinds, ev : Seq(Nat)]

Types ==
  /\ suite.num \in DOMAIN Suites /\ suite = Load(suite.num)
  /\ at \in Places /\ faults \in 0..MaxFaults
  /\ th \in [DOMAIN Slot -> ThreadRec]
  /\ sock \in [Fds -> SockRec]

\* Where main() is tells which threads can be running.
Phases ==
  /\ \A t \in DOMAIN Slot : th[t].st = "run" => th[t].ip \in DOMAIN Prog(t)
  /\ th["main"].st = "run" => at = "init"
  /\ at \notin {"start", "init", "done"} => th["main"].st = "done"
  /\ at \in {"start", "done"} => th["main"].st = "idle"
  /\ at \in {"start", "init", "create t1", "done"} => th["t1"].st = "idle"
  /\ at \in {"start", "init", "create t1", "create t2", "done"} => th["t2"].st = "idle"
  /\ at \in {"join t2", "end"} => th["t1"].st # "run"
  /\ at = "end" => th["t2"].st # "run"

\* The descriptors a thread still holds; what the init function leaves is held
\* for the suite.
Live(t) == th[t].st = "run" \/ (t = "main" /\ th[t].st = "done")

Mine(t) == IF Live(t) THEN Held(Prog(t), th[t].ip) ELSE {}

\* A held descriptor is -1 or an open socket made by the thread, and two names
\* never hold the same one.
Owns(t, x, fd) ==
  /\ sock[fd].open /\ sock[fd].by = <<suite.num, t>>
  /\ \A y \in Mine(t) : th[t].env[y] = fd => y = x

OwnInv ==
  \A t \in DOMAIN Slot : \A x \in Mine(t) : th[t].env[x] # 0 => Owns(t, x, th[t].env[x])

\* A name not filled in yet is -1, or the parameter of a test, which is the
\* descriptor the init function left for it.
UnsetInv ==
  \A t \in DOMAIN Slot : Live(t) =>
    \A x \in Names \ Filled(Prog(t), th[t].ip) :
      th[t].env[x] = IF t # "main" /\ x = "fd" THEN th["main"].env[Globals[t]] ELSE 0

\* A connection that waits to be accepted waits in one open socket, once, and
\* nobody holds it or connects to it; it belongs to whoever made that socket.
WaitsIn(fd, srv, i) ==
  /\ sock[srv].open /\ sock[fd].open /\ sock[fd].by = sock[srv].by
  /\ sock[fd].pend = <<>> /\ ~sock[fd].listening
  /\ \A t \in DOMAIN Slot : \A x \in Mine(t) : th[t].env[x] # fd
  /\ \A srv2 \in Fds : \A j \in DOMAIN sock[srv2].pend :
       sock[srv2].pend[j] = fd => srv2 = srv /\ j = i

PendInv ==
  \A srv \in Fds : \A i \in DOMAIN sock[srv].pend : WaitsIn(sock[srv].pend[i], srv, i)

Waits(fd) == \E srv \in Fds : \E i \in DOMAIN sock[srv].pend : sock[srv].pend[i] = fd

\* An open socket is held, waits to be accepted, or was made by a leaky test.
OpenInv ==
  \A fd \in Fds : sock[fd].open =>
    /\ sock[fd].by \in (DOMAIN Suites) \X (DOMAIN Slot)
    /\ \/ Suites[sock[fd].by[1]][Slot[sock[fd].by[2]]] \in Leaky
       \/ \E t \in DOMAIN Slot : \E x \in Mine(t) : th[t].env[x] = fd
       \/ Waits(fd)

\* The address lists in use are those that the next call of a thread frees.
Frees(t) == IF At(t, "freeaddrinfo") THEN 1 ELSE 0

ListInv == lists = Frees("main") + Frees("t1") + Frees("t2")

\* The inductive invariant behind UsesOpen and DescriptorsClosed: the position
\* of a thread in its line of calls tells which sockets it holds.
IInv ==
  /\ Types /\ Phases /\ OwnInv /\ UnsetInv /\ PendInv /\ OpenInv /\ ListInv

-----------------------------------------------------------------------------
(* What the tests of a suite send each other, and the terminators of the   *)
(* texts they receive.                                                     *)

Sending == {"send", "reply"}

\* Sizes of buffers.
Lens == Nat \ {0}

\* The texts that suite n sends are shorter than c.
SendsBelow(n, c) ==
  \A s \in 1..3 : \A i \in DOMAIN Suites[n][s] :
    Suites[n][s][i].op = "send" => Suites[n][s][i].len < c

\* Suite n uses datagrams only; it sends at most once, and has no callback.
Datagrams(n) ==
  \A s \in 1..3 : \A i \in DOMAIN Suites[n][s] :
    Suites[n][s][i].op = "socket" => Suites[n][s][i].kind = "dgram"

OneSend(n) ==
  /\ \A s \in 1..3 : \A i \in DOMAIN Suites[n][s] : Suites[n][s][i].op # "sigevent"
  /\ \A s, r \in 1..3 : \A i \in DOMAIN Suites[n][s] : \A j \in DOMAIN Suites[n][r] :
       Suites[n][s][i].op \in Sending /\ Suites[n][r][j].op \in Sending => s = r /\ i = j

\* No call of suite n finds c bytes or more at once: each text is shorter, and
\* no two run together in a stream.
Whole(n, c) == SendsBelow(n, c) /\ (Datagrams(n) \/ OneSend(n))

\* What test s of suite n receives with one call is less than c: it asks for
\* less, or there is never more.
Room(n, s, c) ==
  \/ \A i \in DOMAIN Suites[n][s] : Suites[n][s][i].op = "recv" => Suites[n][s][i].len < c
  \/ Whole(n, c)

ASSUME RoomAssumption ==
  \A n \in DOMAIN Suites : \A s \in 2..3 : \A i \in DOMAIN Suites[n][s] :
    Suites[n][s][i].op = "terminate" =>
      \/ Suites[n][s] \in Overrun
      \/ Suites[n][s][i].len \in Lens /\ Room(n, s, Suites[n][s][i].len)

\* Some thread is past a call that sends.
Sent == \E t \in DOMAIN Slot : \E i \in DOMAIN Prog(t) : i < th[t].ip /\ Prog(t)[i].op \in Sending

Below(q, c) == \A i \in DOMAIN q : q[i] < c

\* What a socket of suite n holds at a time is less than the buffers take.
Carries(n, s) ==
  /\ Datagrams(n) => s.kind = "dgram"
  /\ OneSend(n) => s.hook = ""
  /\ \A c \in Lens : Whole(n, c) => Below(s.q, c) /\ Below(s.ev, c) /\ s.bytes < c

\* What is open was made by this suite or an earlier one; a stream of a suite
\* that sends once is empty until then.
SuiteInv ==
  \A fd \in Fds : sock[fd].open =>
    /\ sock[fd].by[1] <= suite.num /\ (at = "start" => sock[fd].by[1] < suite.num)
    /\ sock[fd].by[1] = suite.num =>
         Carries(suite.num, sock[fd]) /\ (OneSend(suite.num) => Sent \/ sock[fd].bytes = 0)

GotInv ==
  \A t \in DOMAIN Slot :
    /\ th[t].st = "idle" => th[t].ip = 1
    /\ \A c \in Lens : Room(suite.num, Slot[t], c) => th[t].got < c

DataInv == at # "done" => SuiteInv /\ GotInv

=============================================================================
