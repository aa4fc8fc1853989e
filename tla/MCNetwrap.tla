------------------------------ MODULE MCNetwrap ------------------------------
(***************************************************************************)
(* Two threads, one descriptor of libc and two of NFP.  One call makes a   *)
(* descriptor, or ends, and two more overlap; the threads are alike, so it *)
(* does not matter which makes two of the three.                           *)
(***************************************************************************)
EXTENDS Netwrap

MCSimple ==
  {"shutdown", "listen", "write", "send", "read", "recv", "bind", "connect",
   "ioctl", "epoll_ctl", "epoll_wait", "setsockopt", "getsockopt"}

MCIov == <<2, 0, 1>>
MCPeriods == {-1, 0, 1}
MCMaxCalls == [t1 |-> 2, t2 |-> 1]
=============================================================================
