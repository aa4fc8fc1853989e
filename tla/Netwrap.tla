------------------------------- MODULE Netwrap -------------------------------
(***************************************************************************)
(* The library netwrap_crt, which overloads the socket calls of a native   *)
(* program.  A wrapper passes a descriptor of at least sd_offset to NFP    *)
(* and any other to libc, through a pointer that the constructor, or the   *)
(* wrapper itself, looks up.  Threads exist while the constructor runs     *)
(* (netwrap_proc has started them), so that calls fall between its steps.  *)
(*                                                                         *)
(* Most wrappers are one step: a choice of the implementation, arguments   *)
(* that they refuse or convert, and the call.  Those that make several     *)
(* calls (accept4, writev, sendfile64, select, fork) are several steps.    *)
(* libc, NFP and the peers are external.                                   *)
(***************************************************************************)
EXTENDS Integers, Sequences

CONSTANTS
  Threads,
  sd_offset, MaxFd,  \* libc has descriptors 0..sd_offset-1, NFP the others
  Simple,            \* the wrappers of one step that are called
  Options,           \* the socket options that are set and read
  Iov,               \* the lengths of the parts that writev() is given
  BUF_SIZE, FileLen, Counts, Offsets,  \* sendfile64(): buffer and file;
                     \* counts and offsets that it is given
  Periods,           \* select(): polls until its timeout; -1: no timeout
  MaxCalls           \* bound: calls made by each thread

ASSUME NetwrapAssumption ==
  /\ sd_offset \in 1..MaxFd
  /\ Iov \in Seq(Nat) /\ BUF_SIZE \in Nat \ {0} /\ FileLen \in Nat
  /\ Counts \subseteq Nat /\ Periods \subseteq Nat \cup {-1}
  /\ Offsets \subseteq 0..FileLen
  /\ MaxFd \in Nat /\ MaxCalls \in [Threads -> Nat]

VARIABLES
  setup,      \* set-up functions that the constructor has called, or -1
  libc,       \* pointers that have been looked up
  owner,      \* who made a descriptor: "libc" or "nfp"; "none" if it is not
              \* open, "forgotten" if it is and accept() did not return it
  known,      \* descriptors that the program was given
  opt,        \* the option last set on an NFP socket, by its NFP name
  asked,      \* and by the name the program used
  fr,         \* the call a thread is in, with its local variables
  sent,       \* what NFP has taken of the data of a thread's last call
  ret,        \* what a thread's last call of writev, sendfile64, select
              \* or fork returned
  pos,        \* the position in the file that a thread sends
  ready,      \* NFP sockets that have something to read
  recursive,  \* the flag of fork()
  children,   \* processes made by fork()
  calls,
  misrouted,  \* arguments that went to the wrong implementation: "fd", by
              \* which a wrapper chooses it, and the other one of "epoll_ctl"
  null        \* pointers that were called and not looked up

sockets == <<owner, known, opt, asked, ready>>
data == <<sent, ret, pos>>
forks == <<recursive, children>>
faults == <<misrouted, null>>
vars == <<setup, libc, sockets, data, fr, forks, calls, faults>>

Fds == 0..MaxFd
LibcFds == 0..(sd_offset - 1)
NfpFds == sd_offset..MaxFd
Idle == [f |-> "idle"]

-----------------------------------------------------------------------------
\* The constructor, setup_wrappers().

Groups ==
  <<{},  \* setup_common_vars()
    {"socket", "shutdown", "close", "bind", "accept", "accept4", "listen",
     "connect", "read", "write", "recv", "send"},
    {"setsockopt", "getsockopt"}, {"ioctl"}, {"fork", "vfork"}, {"select"},
    {"writev"}, {"sendfile64", "sendfile_read"},
    {"epoll_create", "epoll_ctl", "epoll_wait"}>>

netwrap_constructor_called == setup >= 1
setup_fork_wrappers_called == setup >= 5
setup_epoll_wrappers_called == setup >= 9

\* setup_common_vars() fails when NFP has no parameters; nothing is set up.
setup_common_vars ==
  /\ setup = 0 /\ setup' \in {1, -1}
  /\ UNCHANGED <<libc, sockets, data, fr, forks, calls, faults>>

\* setup_sendfile_wrappers() is not called.
setup_wrappers_NoSendfile ==
  /\ setup \in 1..8
  /\ setup' = setup + 1
  /\ libc' = IF setup = 7 THEN libc ELSE libc \cup Groups[setup + 1]
  /\ UNCHANGED <<sockets, data, fr, forks, calls, faults>>

setup_wrappers ==
  /\ setup \in 1..8
  /\ setup' = setup + 1 /\ libc' = libc \cup Groups[setup + 1]
  /\ UNCHANGED <<sockets, data, fr, forks, calls, faults>>

IS_NFP_SOCKET_Above(fd) == netwrap_constructor_called /\ fd > sd_offset

IS_NFP_SOCKET(fd) == netwrap_constructor_called /\ fd >= sd_offset

\* LIBC_FUNCTION(), unless the pointer is known; dlsym() finds libc's own.
LIBC_FUNCTION(f) == libc' = libc \cup {f}

\* f is called through its pointer, with or without looking it up before.
Pointer(f) == null' = IF f \in libc THEN null ELSE null \cup {f}

Mistaken(arg, fd, to) == IF owner[fd] = to THEN {} ELSE {arg}
Routed(fd, to) == misrouted' = misrouted \cup Mistaken("fd", fd, to)

Call(t) == calls[t] < MaxCalls[t] /\ calls' = [calls EXCEPT ![t] = @ + 1]
Starts(t, frame) == fr[t] = Idle /\ fr' = [fr EXCEPT ![t] = frame]
Goes(t, frame) == fr' = [fr EXCEPT ![t] = frame]
Returns(t, v) ==
  fr' = [fr EXCEPT ![t] = Idle] /\ ret' = [ret EXCEPT ![t] = v]

\* The libc branch: the descriptor is none of NFP's.
Libc(f, fd) ==
  /\ ~IS_NFP_SOCKET(fd)
  /\ LIBC_FUNCTION(f) /\ Routed(fd, "libc") /\ UNCHANGED null

Nfp(fd) ==
  /\ IS_NFP_SOCKET(fd)
  /\ Routed(fd, "nfp") /\ UNCHANGED <<libc, null>>

Init ==
  /\ setup = 0 /\ libc = {}
  /\ owner = [fd \in Fds |-> "none"] /\ known = {}
  /\ opt = [fd \in NfpFds |-> 0] /\ asked = [fd \in NfpFds |-> "none"]
  /\ ready = {}
  /\ fr = [t \in Threads |-> Idle]
  /\ sent = [t \in Threads |-> <<>>] /\ ret = [t \in Threads |-> 0]
  /\ pos = [t \in Threads |-> 0]
  /\ recursive = 0 /\ children = {}
  /\ calls = [t \in Threads |-> 0] /\ misrouted = {} /\ null = {}

-----------------------------------------------------------------------------
\* Descriptors: socket(), epoll_create(), accept(), accept4() and close().

\* A new descriptor among fds, given to the program, or a failure.
Opened(fds, by) ==
  \/ \E fd \in fds :
       /\ owner[fd] = "none" /\ owner' = [owner EXCEPT ![fd] = by]
       /\ known' = known \cup {fd}
       /\ UNCHANGED <<opt, asked, ready>>
  \/ UNCHANGED sockets

\* Before the constructor, libc's; then NFP's for AF_INET and libc's for the
\* other domains, through a pointer that is not tested.
socket(t) ==
  /\ Call(t) /\ fr[t] = Idle
  /\ \/ /\ ~netwrap_constructor_called
        /\ LIBC_FUNCTION("socket") /\ Opened(LibcFds, "libc")
        /\ UNCHANGED null
     \/ /\ netwrap_constructor_called  \* domain # AF_INET
        /\ Pointer("socket") /\ UNCHANGED libc
        /\ IF "socket" \in libc THEN Opened(LibcFds, "libc")
           ELSE UNCHANGED sockets
     \/ /\ netwrap_constructor_called  \* domain = AF_INET
        /\ Opened(NfpFds, "nfp") /\ UNCHANGED <<libc, null>>
  /\ UNCHANGED <<setup, data, fr, forks, misrouted>>

epoll_create(t) ==
  /\ Call(t) /\ fr[t] = Idle
  /\ IF setup_epoll_wrappers_called
     THEN Opened(NfpFds, "nfp") /\ UNCHANGED libc
     ELSE LIBC_FUNCTION("epoll_create") /\ Opened(LibcFds, "libc")
  /\ UNCHANGED <<setup, data, fr, forks, faults>>

\* nfp_accept() makes a descriptor; the address of its peer is of neither
\* family, and the wrapper returns -1 without closing it.
Forgets ==
  /\ \E new \in NfpFds :
       owner[new] = "none" /\ owner' = [owner EXCEPT ![new] = "forgotten"]
  /\ UNCHANGED <<known, opt, asked, ready>>

\* An address without a length is refused.
accept(t) ==
  /\ Call(t) /\ fr[t] = Idle
  /\ \E fd \in known :
       \/ Libc("accept", fd) /\ Opened(LibcFds, "libc")
       \/ Nfp(fd) /\ Opened(NfpFds, "nfp")
       \/ Nfp(fd) /\ Forgets
  /\ UNCHANGED <<setup, data, fr, forks>>

accept4(t) ==
  /\ Call(t)
  /\ \E fd \in known :
       \/ /\ fr[t] = Idle
          /\ Libc("accept4", fd) /\ Opened(LibcFds, "libc") /\ UNCHANGED fr
       \/ /\ Nfp(fd)
          /\ \/ \E new \in NfpFds :
                  /\ owner[new] = "none"
                  /\ owner' = [owner EXCEPT ![new] = "nfp"]
                  /\ Starts(t, [f |-> "accept4", fd |-> new])
                  /\ UNCHANGED <<known, opt, asked, ready>>
             \/ fr[t] = Idle /\ UNCHANGED fr /\ Forgets
             \/ fr[t] = Idle /\ UNCHANGED <<fr, sockets>>
  /\ UNCHANGED <<setup, data, forks>>

\* The descriptor that could not be made non-blocking is forgotten.
Rejected_Open(new) == UNCHANGED owner

Rejected(new) == owner' = [owner EXCEPT ![new] = "none"]  \* nfp_close()

accept4_flags(t) ==
  /\ fr[t].f = "accept4" /\ Goes(t, Idle)
  /\ \/ known' = known \cup {fr[t].fd} /\ UNCHANGED owner
     \/ Rejected(fr[t].fd) /\ UNCHANGED known  \* nfp_ioctl(NFP_FIONBIO) fails
  /\ UNCHANGED <<setup, libc, opt, asked, ready, data, forks, calls, faults>>

\* No other thread is in a call on the descriptor.
Unused(fd) ==
  \A u \in Threads : fr[u].f \in {"writev", "sendfile64"} => fr[u].fd # fd

close(t) ==
  /\ Call(t) /\ fr[t] = Idle
  /\ \E fd \in known :
       /\ Unused(fd)
       /\ \/ Libc("close", fd) /\ UNCHANGED <<opt, asked, ready>>
          \/ /\ Nfp(fd) /\ ready' = ready \ {fd}
             /\ opt' = [opt EXCEPT ![fd] = 0]
             /\ asked' = [asked EXCEPT ![fd] = "none"]
       /\ owner' = [owner EXCEPT ![fd] = "none"] /\ known' = known \ {fd}
  /\ UNCHANGED <<setup, data, fr, forks>>

-----------------------------------------------------------------------------
\* Wrappers of one call that leave the descriptors as they are.

Passed(t, f) ==
  /\ f \in Simple /\ Call(t) /\ fr[t] = Idle
  /\ \E fd \in known : Libc(f, fd) \/ Nfp(fd)
  /\ UNCHANGED <<setup, sockets, data, fr, forks>>

\* NFP is not called for some arguments.
Refused(t, f) ==
  /\ f \in Simple /\ Call(t) /\ fr[t] = Idle
  /\ \E fd \in known : IS_NFP_SOCKET(fd)
  /\ UNCHANGED <<setup, libc, sockets, data, fr, forks, faults>>

\* As Passed, but NFP takes what there is to read.
Taken(t, f) ==
  /\ f \in Simple /\ Call(t) /\ fr[t] = Idle
  /\ \E fd \in known :
       \/ Libc(f, fd) /\ UNCHANGED ready
       \/ Nfp(fd) /\ ready' \in {ready, ready \ {fd}}
  /\ UNCHANGED <<setup, owner, known, opt, asked, data, fr, forks>>

shutdown(t) == Passed(t, "shutdown")
listen(t) == Passed(t, "listen")
write(t) == Passed(t, "write")
send(t) == Passed(t, "send")
read(t) == Taken(t, "read")
recv(t) == Taken(t, "recv")

\* No address (EFAULT), or not of the size of a sockaddr_in (EINVAL).
bind(t) == Passed(t, "bind") \/ Refused(t, "bind")

\* No address or a short one (EINVAL), or another family (EAFNOSUPPORT).
connect(t) == Passed(t, "connect") \/ Refused(t, "connect")

\* A request that is none of FIONREAD, FIONBIO and FIOASYNC (EINVAL).
ioctl(t) == Passed(t, "ioctl") \/ Refused(t, "ioctl")

\* epfd chooses the implementation; fd goes with it unchecked.
Registers(epfd, fd, to) ==
  misrouted' = misrouted \cup Mistaken("fd", epfd, to)
                         \cup Mistaken("epoll_ctl", fd, to)

epoll_ctl(t) ==
  /\ "epoll_ctl" \in Simple /\ Call(t) /\ fr[t] = Idle
  /\ \E epfd, fd \in known :
       \/ /\ ~IS_NFP_SOCKET(epfd)
          /\ LIBC_FUNCTION("epoll_ctl") /\ Registers(epfd, fd, "libc")
       \/ /\ IS_NFP_SOCKET(epfd)
          /\ Registers(epfd, fd, "nfp") /\ UNCHANGED libc
  /\ UNCHANGED <<setup, sockets, data, fr, forks, null>>

epoll_wait(t) == Passed(t, "epoll_wait")

\* A case that was copied and kept the value of the one before.
SetOption_Copied ==
  [SO_KEEPALIVE |-> 8, SO_SNDBUF |-> 4097, SO_RCVBUF |-> 4097]

\* The options of level SOL_SOCKET: the NFP_SO_ value for each name.
SetOption ==
  [SO_LINGER |-> 128, SO_DEBUG |-> 1, SO_KEEPALIVE |-> 8, SO_DONTROUTE |-> 16,
   SO_BROADCAST |-> 32, SO_REUSEADDR |-> 4, SO_REUSEPORT |-> 512,
   SO_OOBINLINE |-> 256, SO_TIMESTAMP |-> 1024, SO_SNDBUF |-> 4097,
   SO_RCVBUF |-> 4098, SO_SNDLOWAT |-> 4099, SO_RCVLOWAT |-> 4100,
   SO_SNDTIMEO |-> 4101, SO_RCVTIMEO |-> 4102]

GetOption ==
  [SO_LINGER |-> 128, SO_DEBUG |-> 1, SO_KEEPALIVE |-> 8, SO_DONTROUTE |-> 16,
   SO_BROADCAST |-> 32, SO_REUSEADDR |-> 4, SO_REUSEPORT |-> 512,
   SO_OOBINLINE |-> 256, SO_ACCEPTCONN |-> 2, SO_TIMESTAMP |-> 1024,
   SO_SNDBUF |-> 4097, SO_RCVBUF |-> 4098, SO_SNDLOWAT |-> 4099,
   SO_RCVLOWAT |-> 4100, SO_SNDTIMEO |-> 4101, SO_RCVTIMEO |-> 4102,
   SO_TYPE |-> 4104, SO_PROTOCOL |-> 4118, SO_ERROR |-> 4103]

\* A name that is not in the table is refused (EOPNOTSUPP).
setsockopt(t) ==
  /\ "setsockopt" \in Simple /\ Call(t) /\ fr[t] = Idle
  /\ \E fd \in known, o \in Options :
       \/ Libc("setsockopt", fd) /\ UNCHANGED <<opt, asked>>
       \/ /\ Nfp(fd) /\ o \in DOMAIN SetOption
          /\ opt' = [opt EXCEPT ![fd] = SetOption[o]]
          /\ asked' = [asked EXCEPT ![fd] = o]
  /\ UNCHANGED <<setup, owner, known, ready, data, fr, forks>>

getsockopt(t) == Passed(t, "getsockopt") \/ Refused(t, "getsockopt")

-----------------------------------------------------------------------------
\* writev(): each part is sent until NFP has taken all of it.

\* nfp_send() takes n of the bytes that come after the first `before'.
Takes(t, before, n) ==
  sent' = [sent EXCEPT ![t] = @ \o [k \in 1..n |-> before + k]]

\* The bytes that come before iov[i].iov_base in the data.
Before[i \in 1..(Len(Iov) + 1)] ==
  IF i = 1 THEN 0 ELSE Before[i - 1] + Iov[i - 1]

writev(t) ==
  /\ Call(t) /\ fr[t] = Idle
  /\ \E fd \in known :
       \/ Libc("writev", fd) /\ UNCHANGED <<fr, data>>
       \/ /\ Nfp(fd)
          /\ Starts(t, [f |-> "writev", fd |-> fd, i |-> 1, iov_snt |-> 0,
                        writev_sum |-> 0])
          /\ sent' = [sent EXCEPT ![t] = <<>>] /\ UNCHANGED <<ret, pos>>
  /\ UNCHANGED <<setup, sockets, forks>>

\* After NFP_EAGAIN the part is sent from its beginning.
Retry_Part(frame) == [frame EXCEPT !.iov_snt = 0]

Retry(frame) == frame

writev_send(t) ==
  /\ fr[t].f = "writev"
  /\ LET v == fr[t]
     IN  \/ /\ v.i > Len(Iov)
            /\ Returns(t, v.writev_sum) /\ UNCHANGED sent
         \/ /\ v.i <= Len(Iov) /\ v.iov_snt = Iov[v.i]
            /\ Goes(t, [v EXCEPT !.i = @ + 1, !.iov_snt = 0,
                                 !.writev_sum = @ + Iov[v.i]])
            /\ UNCHANGED <<sent, ret>>
         \/ /\ v.i <= Len(Iov)
            /\ \E n \in 1..(Iov[v.i] - v.iov_snt) :
                 /\ Takes(t, Before[v.i] + v.iov_snt, n)
                 /\ Goes(t, [v EXCEPT !.iov_snt = @ + n]) /\ UNCHANGED ret
         \/ /\ v.i <= Len(Iov) /\ v.iov_snt < Iov[v.i]
            /\ \/ Goes(t, Retry(v)) /\ UNCHANGED ret  \* 0, or NFP_EAGAIN
               \/ Returns(t, -1)
            /\ UNCHANGED sent
  /\ UNCHANGED <<setup, libc, sockets, pos, forks, calls, faults>>

-----------------------------------------------------------------------------
\* sendfile64(): reads BUF_SIZE bytes at a time and sends them.

sendfile64(t) ==
  /\ Call(t) /\ fr[t] = Idle
  /\ \E fd \in known :
       \/ Libc("sendfile64", fd) /\ UNCHANGED <<fr, data>>
       \/ /\ Nfp(fd)
          /\ \E count \in Counts, offset \in BOOLEAN :
             \E start \in IF offset THEN Offsets ELSE {pos[t]} :
               /\ Starts(t, [f |-> "sendfile64", fd |-> fd, count |-> count,
                             offset |-> offset, orig |-> pos[t],
                             processed |-> 0, size |-> 0, sum |-> 0])
               /\ pos' = [pos EXCEPT ![t] = start]
          /\ sent' = [sent EXCEPT ![t] = <<>>] /\ UNCHANGED ret
  /\ UNCHANGED <<setup, sockets, forks>>

\* The next read; at the end the position is put back if there is an offset.
sendfile64_read(t) ==
  /\ fr[t].f = "sendfile64" /\ fr[t].sum = fr[t].size
  /\ LET v == fr[t]
         processed == v.processed + v.size
         n == IF FileLen - pos[t] < BUF_SIZE THEN FileLen - pos[t]
                                             ELSE BUF_SIZE
         more == processed < v.count
     IN  /\ IF more THEN Pointer("sendfile_read") ELSE UNCHANGED null
         /\ \/ /\ ~more \/ n = 0
               /\ pos' = [pos EXCEPT ![t] = IF v.offset THEN v.orig ELSE @]
               /\ Returns(t, processed)
            \/ /\ more /\ n > 0
               /\ pos' = [pos EXCEPT ![t] = @ + n]
               /\ Goes(t, [v EXCEPT !.processed = processed, !.size = n,
                                    !.sum = 0])
               /\ UNCHANGED ret
            \/ more /\ Returns(t, -1) /\ UNCHANGED pos
  /\ UNCHANGED <<setup, libc, sockets, sent, forks, calls, misrouted>>

sendfile64_send(t) ==
  /\ fr[t].f = "sendfile64" /\ fr[t].sum < fr[t].size
  /\ LET v == fr[t]
         buff == pos[t] - v.size  \* the bytes before the one in buff[0]
     IN  \/ \E n \in 1..(v.size - v.sum) :
              /\ Takes(t, buff + v.sum, n)
              /\ Goes(t, [v EXCEPT !.sum = @ + n]) /\ UNCHANGED ret
         \/ Returns(t, -1) /\ UNCHANGED sent  \* not NFP_EWOULDBLOCK
  /\ UNCHANGED <<setup, libc, sockets, pos, forks, calls, faults>>

-----------------------------------------------------------------------------
\* select(): polls NFP with a timeout of zero until a socket is ready, the
\* period is over, or for ever.  Descriptors of libc in readfds do not count.

select(t) ==
  /\ Call(t) /\ fr[t] = Idle
  /\ \E fds \in SUBSET known \ {{}} :
     \E top \in fds :
       /\ \A fd \in fds : fd <= top
       /\ \/ Libc("select", top) /\ UNCHANGED fr
          \/ /\ Nfp(top)
             /\ \E period \in Periods :
                  Starts(t, [f |-> "select", fds |-> fds \cap NfpFds,
                             left |-> period])
          \/ Nfp(top) /\ UNCHANGED fr  \* no readfds: EBADF
  /\ UNCHANGED <<setup, sockets, data, forks>>

\* A poll that finds nothing does not use up the period.
Waited_Not(left) == left

Waited(left) == left - 1

select_poll(t) ==
  /\ fr[t].f = "select"
  /\ LET v == fr[t]
     IN  \/ v.fds \cap ready # {} /\ Goes(t, Idle)
         \/ /\ v.fds \cap ready = {} /\ v.left # -1
            /\ Goes(t, IF v.left = 0 THEN Idle
                       ELSE [v EXCEPT !.left = Waited(@)])
  /\ UNCHANGED <<setup, libc, sockets, data, forks, calls, faults>>

select_fail(t) ==
  /\ fr[t].f = "select" /\ Goes(t, Idle)
  /\ UNCHANGED <<setup, libc, sockets, data, forks, calls, faults>>

\* Data arrives on an NFP socket.
Arrives ==
  /\ \E fd \in NfpFds :
       owner[fd] = "nfp" /\ fd \notin ready /\ ready' = ready \cup {fd}
  /\ UNCHANGED <<setup, libc, owner, known, opt, asked, data, fr, forks, calls,
                 faults>>

-----------------------------------------------------------------------------
\* fork(): the flag recursive tells a call made by fork() itself, which goes
\* to libc, from one made by the program, whose child gets the resources of
\* NFP.  The flag is shared by the threads.

InFork(t) == fr[t].f = "fork"

\* Only the parent clears the flag.
Child_KeepsFlag(depth, alone) ==
  [wrapped |-> TRUE, inits |-> depth, recursive |-> recursive,
   alone |-> alone]

\* The child has a copy of the flag; it comes back from as many calls as the
\* thread was in, and each clears the flag and calls
\* nfp_init_local_resources().
Child(depth, alone) ==
  [wrapped |-> TRUE, inits |-> depth,
   recursive |-> IF depth = 0 THEN recursive ELSE 0, alone |-> alone]

fork(t) ==
  /\ Call(t)
  /\ IF setup_fork_wrappers_called
     THEN /\ fr[t] = Idle
          /\ fr' = [u \in Threads |->
               IF u = t THEN [f |-> "fork", at |-> "test", depth |-> 0,
                              alone |-> \A v \in Threads : ~InFork(v)]
               ELSE IF InFork(u) THEN [fr[u] EXCEPT !.alone = FALSE]
               ELSE fr[u]]
          /\ UNCHANGED <<libc, children>>
     ELSE /\ fr[t] = Idle /\ LIBC_FUNCTION("fork")
          /\ children' = children \cup
               {[wrapped |-> FALSE, inits |-> 0, recursive |-> recursive,
                 alone |-> TRUE]}
          /\ UNCHANGED fr
  /\ UNCHANGED <<setup, sockets, data, recursive, faults>>

\* Back from libc's fork(), to the program or to the fork() that called.
Forked(t) ==
  Goes(t, IF fr[t].depth = 0 THEN Idle ELSE [fr[t] EXCEPT !.at = "clear"])

fork_test(t) ==
  /\ InFork(t) /\ fr[t].at = "test"
  /\ \/ /\ recursive = 0
        /\ Goes(t, [fr[t] EXCEPT !.at = "set"]) /\ UNCHANGED children
     \/ /\ recursive = 1
        /\ \E failed \in BOOLEAN :
             /\ Forked(t)
             /\ children' = IF failed THEN children ELSE
                  children \cup {Child(fr[t].depth, fr[t].alone)}
  /\ UNCHANGED <<setup, libc, sockets, data, recursive, calls, faults>>

fork_set(t) ==
  /\ InFork(t) /\ fr[t].at = "set"
  /\ recursive' = 1
  /\ Goes(t, [fr[t] EXCEPT !.at = "test", !.depth = @ + 1])
  /\ UNCHANGED <<setup, libc, sockets, data, children, calls, faults>>

fork_clear(t) ==
  /\ InFork(t) /\ fr[t].at = "clear"
  /\ recursive' = 0
  /\ Goes(t, IF fr[t].depth = 1 THEN Idle
             ELSE [fr[t] EXCEPT !.depth = @ - 1])
  /\ UNCHANGED <<setup, libc, sockets, data, children, calls, faults>>

-----------------------------------------------------------------------------

Begin(t) ==
  \/ socket(t) \/ epoll_create(t) \/ accept(t) \/ accept4(t) \/ close(t)
  \/ shutdown(t) \/ listen(t) \/ write(t) \/ send(t) \/ read(t) \/ recv(t)
  \/ bind(t) \/ connect(t) \/ ioctl(t) \/ epoll_ctl(t) \/ epoll_wait(t)
  \/ setsockopt(t) \/ getsockopt(t)
  \/ writev(t) \/ sendfile64(t) \/ select(t) \/ fork(t)

Continue(t) ==
  \/ accept4_flags(t)
  \/ writev_send(t) \/ sendfile64_read(t) \/ sendfile64_send(t)
  \/ select_poll(t)
  \/ fork_test(t) \/ fork_set(t) \/ fork_clear(t)

Next ==
  \/ setup_common_vars \/ setup_wrappers \/ Arrives
  \/ \E t \in Threads : Begin(t) \/ Continue(t) \/ select_fail(t)

Spec == Init /\ [][Next]_vars

\* Threads run, and NFP takes data again after NFP_EAGAIN.
FairSpec == Spec /\ \A t \in Threads : WF_vars(Continue(t))

-----------------------------------------------------------------------------

\* Numbers of calls within the bound.
Budgets == {c \in [Threads -> Nat] : \A t \in Threads : c[t] <= MaxCalls[t]}

\* The values of the variables.
TypeOK ==
  /\ setup \in -1..9 /\ libc \subseteq UNION {Groups[g] : g \in 1..9}
  /\ owner \in [Fds -> {"none", "libc", "nfp", "forgotten"}]
  /\ known \subseteq Fds
  /\ \A fd \in NfpFds : opt[fd] \in Nat
  /\ ready \subseteq NfpFds
  /\ \A t \in Threads : ret[t] \in -1..(Before[Len(Iov) + 1] + FileLen)
  /\ pos \in [Threads -> 0..FileLen]
  /\ recursive \in {0, 1} /\ calls \in Budgets
  /\ misrouted \subseteq {"fd", "epoll_ctl"}

\* Every call goes to the implementation that made the descriptor it is about,
\* also while the constructor is half way.  One argument may go astray: the
\* descriptor that epoll_ctl() is to register, when the program registers a
\* descriptor of libc with NFP's epoll, or the reverse.
RoutedToMaker == TypeOK /\ "fd" \notin misrouted

\* A pointer is called only when it was looked up, with one exception: the
\* constructor announces itself before it looks up any, and until it has come
\* to them socket() and the read of sendfile64() do not test theirs.
LookedUp ==
  [][\A f \in null' \ null :
       \/ f = "socket" /\ setup = 1
       \/ f = "sendfile_read" /\ setup \in 1..7]_vars

\* A descriptor that NFP holds open is in the hands of the program, or of the
\* wrapper that is about to return it, with one exception: accept() and
\* accept4() forget one whose peer has an address of an unknown family.
NoLeak ==
  \A fd \in NfpFds : owner[fd] # "none" =>
    \/ fd \in known
    \/ \E t \in Threads : fr[t].f = "accept4" /\ fr[t].fd = fd
    \/ owner[fd] = "forgotten"

\* getsockopt() reads the NFP option that setsockopt() set under that name.
OptionReadBack ==
  \A fd \in NfpFds : asked[fd] # "none" => opt[fd] = GetOption[asked[fd]]

\* What NFP has taken of the data of writev() and sendfile64() is a prefix,
\* each byte once and in order, whatever is taken at a time and however often
\* NFP would block; it is all of it when they say so.
DataOnce ==
  \A t \in Threads :
    /\ \A k \in 1..Len(sent[t]) : sent[t][k] = sent[t][1] + k - 1
    /\ fr[t].f = "writev" /\ sent[t] # <<>> => sent[t][1] = 1
    /\ fr[t] = Idle /\ ret[t] > 0 => Len(sent[t]) = ret[t]

\* The child of a fork() that met no other has the resources of NFP, once,
\* and can fork in turn.  So has that of the next one: the flag is clear when
\* no thread is in fork(), however they overlapped and whichever failed.
ChildReady ==
  /\ \A c \in children :
       c.wrapped /\ c.alone => c.inits = 1 /\ c.recursive = 0
  /\ (\A t \in Threads : ~InFork(t)) => recursive = 0

\* A call ends, unless it is a select() without a timeout on sockets that
\* have nothing to read.
CallsEnd ==
  \A t \in Threads :
    fr[t] # Idle
      ~> \/ fr[t] = Idle
         \/ fr[t].f = "select" /\ fr[t].left = -1 /\ fr[t].fds \cap ready = {}
=============================================================================
