----------------------------- MODULE SocketOps -----------------------------
(***************************************************************************)
(* The vocabulary in which the tests of the socket example are written     *)
(* down.  A test is a straight line of calls on descriptors; a call that   *)
(* fails makes the test close the descriptors of its error path and        *)
(* return.  Sleeps order nothing and are left out.  The code ignores the   *)
(* results of nfp_setsockopt(); that an address may be reused is noted     *)
(* with the bind that the options are for.                                 *)
(***************************************************************************)
EXTENDS Sequences, Integers

\* An address: family, which address of the host, and the port as an offset
\* from TEST_PORT.
Addr(fam, ip, port) == [fam |-> fam, ip |-> ip, port |-> port]

NoAddr == Addr(0, "none", 0)

Local4(port) == Addr(4, "local", port)
Local6(port) == Addr(6, "local", port)
Any4(port) == Addr(4, "any", port)
Any6(port) == Addr(6, "any", port)
Loop4(port) == Addr(4, "loop", port)
Loop6(port) == Addr(6, "loop", port)

\* op    the call
\* fd    the local variable that holds the descriptor it works on
\* to    the local variable that receives the new descriptor
\* kind  SOCK_DGRAM or SOCK_STREAM, the flags, or the callback, of the call
\* addr  the address it is given
\* len   the bytes it sends, may receive or is expected to have received
\* undo  the descriptors closed before the return when it fails
\* ret   what the test returns then
\* must  whether its result is tested at all
Ins(op, fd) ==
  [op |-> op, fd |-> fd, to |-> "", kind |-> "", addr |-> NoAddr, len |-> 0,
   undo |-> <<>>, ret |-> -1, must |-> TRUE]

\* The descriptors of a test: its parameter and its locals.  The two that an
\* init function fills in are called fd_thread1 and fd_thread2.
Names == {"fd", "fd_accepted", "fd2", "fd3", "fd_thread1", "fd_thread2"}

\* The error path of a call: what it closes.
Undo(ins, names) == [ins EXCEPT !.undo = names]

\* A call whose result is not looked at.
Ignored(ins) == [ins EXCEPT !.must = FALSE]

-----------------------------------------------------------------------------

Socket(to, fam, kind) ==
  [Ins("socket", "") EXCEPT !.to = to, !.addr = Addr(fam, "none", 0), !.kind = kind]

Bind(fd, addr) == [Ins("bind", fd) EXCEPT !.addr = addr]

\* After NFP_SO_REUSEADDR and NFP_SO_REUSEPORT.
BindReuse(fd, addr) == [Bind(fd, addr) EXCEPT !.kind = "reuse"]

Listen(fd) == Ins("listen", fd)

\* EINPROGRESS counts as success in most tests; these sockets block, so that
\* nfp_connect() does not report it.
Connect(fd, addr) == [Ins("connect", fd) EXCEPT !.addr = addr]

Accept(fd) == [Ins("accept", fd) EXCEPT !.to = "fd_accepted"]

\* nfp_send(), nfp_sendto() and nfp_sendmsg(); NoAddr is the connected peer.
SendTo(fd, addr, len) == [Ins("send", fd) EXCEPT !.addr = addr, !.len = len]

Send(fd, len) == SendTo(fd, NoAddr, len)

\* Send back what was received last.
Reply(fd, addr) == [Ins("reply", fd) EXCEPT !.addr = addr]

\* nfp_recv(), nfp_recvfrom() and nfp_recvmsg() into len bytes.
Recv(fd, len) == [Ins("recv", fd) EXCEPT !.len = len]

RecvPeek(fd, len) == [Recv(fd, len) EXCEPT !.kind = "peek"]

RecvAll(fd, len) == [Recv(fd, len) EXCEPT !.kind = "waitall"]

\* buf[len] = 0 in a buffer of the given size.
Terminate(size) == [Ins("terminate", "") EXCEPT !.len = size]

\* The last receive got len bytes; all of them together did; it got some.
Got(len) == [Ins("check", "") EXCEPT !.kind = "last", !.len = len]

GotInAll(len) == [Got(len) EXCEPT !.kind = "sum"]

GotSome == [Got(1) EXCEPT !.kind = "some"]

\* Wait, with a time-out, until the descriptor or fd3 can be read.
Select(fd) == Ins("select", fd)

Select2(fd) == [Select(fd) EXCEPT !.kind = "fd3"]

IsSet(fd) == Ins("isset", fd)

Shutdown(fd) == Ins("shutdown", fd)

Close(fd) == Ins("close", fd)

\* nfp_socket_sigevent() with a callback.
SigEvent(fd, notify) == [Ins("sigevent", fd) EXCEPT !.kind = notify]

GetSockName(fd) == Ins("call", fd)

GetPeerName(fd) == Ins("peername", fd)

\* nfp_getpeername() that has to report ENOTCONN.
NotConnected(fd) == Ins("notconn", fd)

\* An answer of the library that is tested: the size of an address.
AnswerOk == Ins("call", "")

\* A query that needs no descriptor; a test whose query fails returns 0.
Query == [Ins("call", "") EXCEPT !.ret = 0]

\* nfp_getaddrinfo() hands out a list, nfp_freeaddrinfo() takes it back.
GetAddrInfo == [Ins("getaddrinfo", "") EXCEPT !.ret = 0]

FreeAddrInfo == Ins("freeaddrinfo", "")

Repeat(n, calls) ==
  [i \in 1..(n * Len(calls)) |-> calls[((i - 1) % Len(calls)) + 1]]

=============================================================================
