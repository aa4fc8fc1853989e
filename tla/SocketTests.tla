---------------------------- MODULE SocketTests ----------------------------
(***************************************************************************)
(* The tests of the socket example, one definition per test and per init   *)
(* function, named as in the source, and the suites main() makes of them.  *)
(* The data is abstracted to its length; "fd" is the parameter of a test.  *)
(*                                                                         *)
(* A received text is terminated by buf[len] = 0.  The recvmsg tests that  *)
(* write it only when there is room have no such write in the model.       *)
(***************************************************************************)
EXTENDS SocketOps

\* strlen("socket_test"), strlen("sigevent_test"), strlen(tcp_buf),
\* TCP_CYCLES and the message of select_recv_udp_2().
TestLen == 11
SigeventLen == 13
TcpLen == 88
TcpCycles == 20
SocketTwoLen == 8

\* The iovecs of the recvmsg tests: RECVBUFF1_SIZE + RECVBUFF2_SIZE.
VecLen == 12

Accepted == <<"fd_accepted">>

CreateClose(fam, kind) == <<Socket("fd", fam, kind), Close("fd")>>

create_close_udp == CreateClose(4, "dgram")
create_close_udp_noproto == CreateClose(4, "dgram")
create_close_tcp == CreateClose(4, "stream")
create_close_tcp_noproto == CreateClose(4, "stream")
create_close_udp6 == CreateClose(6, "dgram")
create_close_udp6_noproto == CreateClose(6, "dgram")
create_close_tcp6 == CreateClose(6, "stream")
create_close_tcp6_noproto == CreateClose(6, "stream")

-----------------------------------------------------------------------------
(* The init functions.                                                     *)

TwoSockets(fam, kind) ==
  <<Socket("fd_thread1", fam, kind), Socket("fd_thread2", fam, kind)>>

TwoBound(kind, addr1, addr2) ==
  <<Socket("fd_thread1", addr1.fam, kind), Bind("fd_thread1", addr1),
    Socket("fd_thread2", addr2.fam, kind), Bind("fd_thread2", addr2)>>

TwoReused(addr1, addr2) ==
  <<Socket("fd_thread1", addr1.fam, "stream"), BindReuse("fd_thread1", addr1),
    Socket("fd_thread2", addr2.fam, "stream"), BindReuse("fd_thread2", addr2)>>

init_udp_create_socket == TwoSockets(4, "dgram")
init_tcp_create_socket == TwoSockets(4, "stream")
init_udp6_create_socket == TwoSockets(6, "dgram")
init_tcp6_create_socket == TwoSockets(6, "stream")

init_udp_bind_local_ip == TwoBound("dgram", Local4(0), Local4(1))
init_udp_bind_any == TwoBound("dgram", Any4(0), Any4(1))
init_udp6_bind_local_ip ==
  <<Socket("fd_thread1", 6, "dgram"), AnswerOk, Bind("fd_thread1", Local6(0)),
    Socket("fd_thread2", 6, "dgram"), Bind("fd_thread2", Local6(1))>>
init_udp6_bind_any == TwoBound("dgram", Any6(0), Any6(1))

init_udp_local_ip == TwoSockets(4, "dgram") \o <<Bind("fd_thread2", Local4(1))>>
init_udp_any == TwoSockets(4, "dgram") \o <<Bind("fd_thread2", Any4(1))>>
init_udp_loopback == TwoSockets(4, "dgram") \o <<Bind("fd_thread2", Loop4(1))>>
init_udp6_loopback == TwoSockets(6, "dgram") \o <<Bind("fd_thread2", Loop6(1))>>

\* The second one does not set the options.
init_tcp_bind_local_ip == TwoReused(Local4(0), Local4(1))
init_tcp6_bind_local_ip == TwoBound("stream", Local6(0), Local6(1))

init_tcp_bind_listen_local_ip ==
  TwoReused(Local4(0), Local4(1)) \o <<Listen("fd_thread2")>>
init_tcp_bind_listen_any ==
  TwoReused(Any4(0), Any4(1)) \o <<Listen("fd_thread2")>>
init_tcp6_bind_listen_local_ip ==
  TwoReused(Local6(0), Local6(1)) \o <<Listen("fd_thread2")>>
init_tcp6_bind_listen_any ==
  TwoReused(Any6(0), Any6(1)) \o <<Listen("fd_thread2")>>

-----------------------------------------------------------------------------
(* Bind, shutdown, connect and listen.                                     *)

bind_ip4_local_ip == <<Bind("fd", Local4(0))>>
bind_ip4_any == <<Bind("fd", Any4(1))>>
bind_ip6_local_ip == <<Bind("fd", Local6(0))>>
bind_ip6_any == <<Bind("fd", Any6(1))>>

shutdown_socket == <<Shutdown("fd")>>

connect_udp4 == <<Connect("fd", Local4(2))>>
connect_bind_udp4 == <<Bind("fd", Local4(1)), Connect("fd", Local4(3))>>
connect_shutdown_udp4 == connect_udp4 \o shutdown_socket
connect_shutdown_bind_udp4 == connect_bind_udp4 \o shutdown_socket
connect_udp6 == <<Connect("fd", Local6(2))>>
connect_bind_udp6 == <<Bind("fd", Local6(1)), Connect("fd", Local6(3))>>
connect_shutdown_udp6 == connect_udp6 \o shutdown_socket
connect_shutdown_bind_udp6 == connect_bind_udp6 \o shutdown_socket
connect_shutdown_udp6_any == <<Connect("fd", Any6(2)), Shutdown("fd")>>
connect_shutdown_bind_udp6_any ==
  <<Bind("fd", Any6(1)), Connect("fd", Any6(3)), Shutdown("fd")>>

listen_tcp == <<Listen("fd")>>

-----------------------------------------------------------------------------
(* UDP.                                                                    *)

send_ip4_udp_local_ip == <<Connect("fd", Local4(1)), Send("fd", TestLen)>>
sendto_ip4_udp_local_ip == <<SendTo("fd", Local4(0), TestLen)>>
send_ip4_udp_any == <<Connect("fd", Any4(1)), Send("fd", TestLen)>>
sendto_ip4_udp_any == <<SendTo("fd", Any4(0), TestLen)>>
send_ip6_udp_local_ip == <<Connect("fd", Local6(1)), Send("fd", TestLen)>>
sendto_ip6_udp_local_ip == <<SendTo("fd", Local6(0), TestLen)>>
send_ip6_udp_any == <<Connect("fd", Any6(1)), Send("fd", TestLen)>>
sendto_ip6_udp_any == <<SendTo("fd", Any6(0), TestLen)>>

send_udp_local_ip == <<SendTo("fd", Local4(1), TestLen)>>
send_udp_loopback == <<SendTo("fd", Loop4(1), TestLen)>>
send_udp_any == <<SendTo("fd", Any4(1), TestLen)>>
send_udp6_local_ip == <<SendTo("fd", Local6(1), TestLen)>>
send_udp6_any == <<SendTo("fd", Any6(1), TestLen)>>
send_udp6_loopback == <<SendTo("fd", Loop6(1), TestLen)>>

recv_udp == <<Recv("fd", 20), Terminate(20)>>
recvfrom_udp == <<Recv("fd", 20), Terminate(20), AnswerOk>>
recvfrom_udp_null_addr == <<Recv("fd", 20), Terminate(20)>>
recvfrom_udp6 == <<Recv("fd", 20), Terminate(20), AnswerOk>>

-----------------------------------------------------------------------------
(* TCP.                                                                    *)

connect_tcp4_local_ip == <<Connect("fd", Local4(1))>>
connect_tcp4_any == <<Connect("fd", Any4(1))>>
connect_tcp6_local_ip == <<Connect("fd", Local6(1))>>
connect_tcp6_any == <<Connect("fd", Any6(1))>>
connect_tcp_delayed_local_ip == <<Connect("fd", Local4(1))>>
connect_tcp6_delayed_local_ip == <<Connect("fd", Local6(1))>>

\* A wrong address length returns without closing the accepted socket.
accept_tcp4 == <<Accept("fd"), AnswerOk, Close("fd_accepted")>>

accept_tcp4_null_addr == <<Accept("fd"), Close("fd_accepted")>>
accept_tcp6 == <<Accept("fd"), AnswerOk, Close("fd_accepted")>>
accept_tcp6_null_addr == <<Accept("fd"), Close("fd_accepted")>>

_send_tcp4(addr, cycles) ==
  <<Connect("fd", addr)>> \o Repeat(cycles, <<Send("fd", TcpLen + 1)>>)

send_tcp4_local_ip == _send_tcp4(Local4(1), 1)
send_multi_tcp4_any == _send_tcp4(Any4(1), TcpCycles)
send_tcp4_any == _send_tcp4(Any4(1), 1)
send_tcp4_msg_waitall ==
  <<Connect("fd", Any4(1)), Send("fd", TcpLen), Send("fd", TcpLen)>>
send_tcp6_local_ip == <<Connect("fd", Local6(1)), Send("fd", TcpLen + 1)>>
send_tcp6_any == <<Connect("fd", Any6(1)), Send("fd", TcpLen + 1)>>
send_tcp4_2_local_ip == <<Connect("fd", Local4(1)), Send("fd", 6), Send("fd", 5)>>

\* Mutant: the terminating zero of the messages is forgotten.
_receive_tcp_NoZero(cycles) ==
  <<Accept("fd")>>
    \o Repeat(cycles,
         <<Undo(Recv("fd_accepted", IF cycles = 1 THEN 1024 ELSE TcpLen), Accepted),
           Terminate(1024), Undo(Got(TcpLen + 1), Accepted)>>)
    \o <<Close("fd_accepted")>>

\* Whole messages of TcpLen + 1 bytes, whatever the size asked for.
_receive_tcp(cycles) ==
  <<Accept("fd")>>
    \o Repeat(cycles,
         <<Undo(Recv("fd_accepted", IF cycles = 1 THEN 1024 ELSE TcpLen + 1), Accepted),
           Terminate(1024), Undo(Got(TcpLen + 1), Accepted)>>)
    \o <<Close("fd_accepted")>>

receive_tcp == _receive_tcp(1)
receive_multi_tcp == _receive_tcp(TcpCycles)
receive_tcp4_msg_waitall ==
  <<Accept("fd"), Undo(RecvAll("fd_accepted", 2 * TcpLen - 5), Accepted),
    Undo(Recv("fd_accepted", 5 + 128), Accepted),
    Undo(GotInAll(2 * TcpLen), Accepted), Close("fd_accepted")>>

accept_receive ==
  <<Accept("fd"), Undo(Recv("fd_accepted", 1024), Accepted), Terminate(1024),
    Close("fd_accepted")>>

-----------------------------------------------------------------------------
(* select and socket events.                                               *)

select_recv_udp == <<Select("fd"), IsSet("fd")>> \o recv_udp
select_recv_tcp ==
  <<Select("fd"), IsSet("fd"), Accept("fd"), Undo(Recv("fd_accepted", 20), Accepted),
    Terminate(20), Close("fd_accepted")>>

\* The two tests of the set return without closing fd2 and fd3.
select_recv_udp_2 ==
  LET both == <<"fd2", "fd3">>
  IN  <<Ignored(Socket("fd2", 4, "dgram")), Ignored(Socket("fd3", 4, "dgram")),
        Undo(Bind("fd3", Any4(2)), both),
        Undo(SendTo("fd2", Any4(2), SocketTwoLen), both),
        Undo(Select2("fd"), both), IsSet("fd"), IsSet("fd3"),
        Undo(Recv("fd", 20), both), Terminate(20),
        Undo(Recv("fd3", 20), both), Terminate(20),
        Ignored(Close("fd2")), Ignored(Close("fd3"))>>

recv_send_udp_local_ip == recv_udp \o <<Reply("fd", Local4(1))>>
recv_send_udp6_local_ip == recv_udp \o <<Reply("fd", Local6(1))>>
socket_sigevent_udp4 ==
  <<Ignored(SigEvent("fd", "notify_udp_ipv4")), SendTo("fd", Local4(0), SigeventLen)>>
socket_sigevent_udp6 ==
  <<Ignored(SigEvent("fd", "notify_udp_ipv6")), SendTo("fd", Local6(0), SigeventLen)>>

connect_recv_send_tcp_local_ip ==
  <<Connect("fd", Local4(1)), Recv("fd", 20), Reply("fd", NoAddr)>>
connect_recv_send_tcp6_local_ip ==
  <<Connect("fd", Local6(1)), Recv("fd", 20), Reply("fd", NoAddr)>>

\* Mutant: wait for the peer, which waits for this test.
socket_sigevent_tcp_rcv_WaitFirst ==
  <<Accept("fd"), Undo(Recv("fd_accepted", 20), Accepted),
    SigEvent("fd_accepted", "notify_tcp_rcv"), Send("fd_accepted", TestLen + 1),
    Ignored(Close("fd_accepted"))>>

\* A failing call after the accept leaves the accepted socket open.
socket_sigevent_tcp_rcv ==
  <<Accept("fd"), SigEvent("fd_accepted", "notify_tcp_rcv"),
    Send("fd_accepted", TestLen + 1), Ignored(Close("fd_accepted"))>>
socket_sigevent_tcp_accept ==
  <<SigEvent("fd", "notify_tcp_accept"), Accept("fd"), Close("fd_accepted")>>

-----------------------------------------------------------------------------
(* sendmsg and recvmsg.                                                    *)

sendmsg_ip4_udp_local_ip == <<SendTo("fd", Local4(1), 6)>>
sendmsg_multi_ip4_udp_local_ip == <<SendTo("fd", Local4(1), TestLen)>>
sendmsg_multi_ip6_udp_local_ip == <<SendTo("fd", Local6(1), TestLen)>>
connect_sendmsg_tcp_local_ip == <<Connect("fd", Local4(1)), Send("fd", 6)>>
connect_sendmsg_multi_tcp_local_ip == <<Connect("fd", Local4(1)), Send("fd", TestLen)>>
connect_sendmsg_multi_ipv6_tcp_local_ip ==
  <<Connect("fd", Local6(1)), Send("fd", TestLen)>>

recvmsg_udp == <<Recv("fd", 100), GotSome, AnswerOk>>
recvmsg_multi_udp == <<Recv("fd", VecLen), GotSome>>
\* Mutant: the peek takes the packet.
recvmsg_multi_peek_udp_Take ==
  <<Recv("fd", VecLen), GotSome, Recv("fd", VecLen), GotSome>>

recvmsg_multi_peek_udp ==
  <<RecvPeek("fd", VecLen), GotSome, Recv("fd", VecLen), GotSome>>

TakeVec == <<Undo(Recv("fd_accepted", VecLen), Accepted), Undo(GotSome, Accepted)>>

accept_recvmsg_tcp ==
  <<Accept("fd"), Undo(Recv("fd_accepted", 99), Accepted), Undo(GotSome, Accepted),
    Close("fd_accepted")>>
accept_recvmsg_multi_tcp == <<Accept("fd")>> \o TakeVec \o <<Close("fd_accepted")>>
accept_recvmsg_multi2_tcp ==
  <<Accept("fd")>> \o Repeat(2, TakeVec \o <<Terminate(100)>>) \o <<Close("fd_accepted")>>
accept_recvmsg_multi_peek_tcp ==
  <<Accept("fd"), Undo(RecvPeek("fd_accepted", VecLen), Accepted),
    Undo(GotSome, Accepted), Terminate(100)>>
    \o TakeVec \o <<Terminate(100), Close("fd_accepted")>>

-----------------------------------------------------------------------------
(* Names, addresses and services.                                          *)

getsockname_bind == <<Bind("fd", Local4(0)), GetSockName("fd"), AnswerOk>>
getsockname_not_bind == <<GetSockName("fd"), AnswerOk>>
getsockname_bind6 == <<Bind("fd", Local6(2)), GetSockName("fd"), AnswerOk>>
getsockname_not_bind6 == <<GetSockName("fd"), AnswerOk>>

getpeername_not_connect == <<NotConnected("fd")>>
getpeername_connect == <<Connect("fd", Local4(1)), GetPeerName("fd"), AnswerOk>>
getpeername_accept ==
  <<Accept("fd"), GetPeerName("fd_accepted"), AnswerOk, Ignored(Close("fd_accepted"))>>
getpeername_not_connect6 == <<NotConnected("fd")>>
getpeername_connect6 == <<Connect("fd", Local6(1)), GetPeerName("fd"), AnswerOk>>
getpeername_accept6 ==
  <<Accept("fd"), GetPeerName("fd_accepted"), AnswerOk, Ignored(Close("fd_accepted"))>>

null_function == <<>>
gai_strerror_print == <<>>

\* The tests differ in the hints they pass.
AddrInfo == <<GetAddrInfo, FreeAddrInfo>>

getaddrinfo_null_hints_null_host == AddrInfo
getaddrinfo_null_hints_num_host == AddrInfo
getaddrinfo_null_hints_num6_host == AddrInfo
getaddrinfo_ipv4_hints_null_host == AddrInfo
getaddrinfo_ipv6_hints_null_host == AddrInfo
getaddrinfo_ai_passive_hints_null_host == AddrInfo
getaddrinfo_ai_canonname_hints_num_host == AddrInfo
getaddrinfo_ipv6_ai_v4mapped_hints_num_host == AddrInfo
getaddrinfo_ai_numerichost_hints_num_host == AddrInfo
getaddrinfo_ai_addrconfig_hints_num_host == AddrInfo
getaddrinfo_localhost == AddrInfo
getaddrinfo_localhost_service == AddrInfo

getservbyname_null_type == <<Query>>
getservbyname_type == <<Query>>
getservbyport_null_type == <<Query>>
getservbyport_type == <<Query>>

\* The address is parsed, then asked about.
getnameinfo_ipv4_service_only == <<Query, Query, Query, Query>>
getnameinfo_ipv6_service_only == <<Query, Query, Query, Query>>
getnameinfo_ipv4_host_numeric_only == <<Query, Query>>
getnameinfo_ipv6_host_numeric_only == <<Query, Query>>
getnameinfo_ipv4_host_numeric_service == <<Query, Query>>
getnameinfo_ipv6_host_numeric_service == <<Query, Query>>

-----------------------------------------------------------------------------
(* The suites of main(): the init function and the two tests that run at   *)
(* the same time.  NULL is the missing init function.                      *)

NULL == <<>>

SetUpSuites ==
  <<<<NULL, create_close_udp, create_close_udp_noproto>>,
    <<NULL, create_close_tcp, create_close_tcp_noproto>>,
    <<NULL, create_close_udp6, create_close_udp6_noproto>>,
    <<NULL, create_close_tcp6, create_close_tcp6_noproto>>,
    <<init_udp_create_socket, bind_ip4_local_ip, bind_ip4_any>>,
    <<init_tcp_create_socket, bind_ip4_local_ip, bind_ip4_any>>,
    <<init_udp6_create_socket, bind_ip6_local_ip, bind_ip6_any>>,
    <<init_tcp6_create_socket, bind_ip6_local_ip, bind_ip6_any>>,
    <<init_udp_create_socket, shutdown_socket, shutdown_socket>>,
    <<init_tcp_create_socket, shutdown_socket, shutdown_socket>>,
    <<init_udp6_create_socket, shutdown_socket, shutdown_socket>>,
    <<init_tcp6_create_socket, shutdown_socket, shutdown_socket>>,
    <<init_udp_create_socket, connect_udp4, connect_bind_udp4>>,
    <<init_udp_create_socket, connect_shutdown_udp4, connect_shutdown_bind_udp4>>,
    <<init_udp6_create_socket, connect_udp6, connect_bind_udp6>>,
    <<init_udp6_create_socket, connect_shutdown_udp6, connect_shutdown_bind_udp6>>,
    <<init_udp6_create_socket, connect_shutdown_udp6_any, connect_shutdown_bind_udp6_any>>,
    <<init_udp_bind_local_ip, send_ip4_udp_local_ip, sendto_ip4_udp_local_ip>>,
    <<init_udp_bind_any, send_ip4_udp_any, sendto_ip4_udp_any>>,
    <<init_udp6_bind_local_ip, send_ip6_udp_local_ip, sendto_ip6_udp_local_ip>>,
    <<init_udp6_bind_any, send_ip6_udp_any, sendto_ip6_udp_any>>>>

UdpSuites ==
  <<<<init_udp_local_ip, send_udp_local_ip, recv_udp>>,
    <<init_udp_loopback, send_udp_loopback, recv_udp>>,
    <<init_udp_bind_local_ip, send_udp_local_ip, recvfrom_udp>>,
    <<init_udp_any, send_udp_any, recv_udp>>,
    <<init_udp_bind_any, send_udp_any, recvfrom_udp>>,
    <<init_udp_bind_any, send_udp_any, recvfrom_udp_null_addr>>,
    <<init_udp6_bind_local_ip, send_udp6_local_ip, recv_udp>>,
    <<init_udp6_bind_local_ip, send_udp6_local_ip, recvfrom_udp6>>,
    <<init_udp6_bind_any, send_udp6_any, recv_udp>>,
    <<init_udp6_bind_any, send_udp6_any, recvfrom_udp6>>,
    <<init_udp6_bind_any, send_udp6_any, recvfrom_udp_null_addr>>,
    <<init_udp6_loopback, send_udp6_loopback, recv_udp>>>>

TcpSuites ==
  <<<<init_tcp_bind_local_ip, listen_tcp, listen_tcp>>,
    <<init_tcp6_bind_local_ip, listen_tcp, listen_tcp>>,
    <<init_tcp_bind_listen_local_ip, connect_tcp4_local_ip, accept_tcp4>>,
    <<init_tcp_bind_listen_any, connect_tcp4_any, accept_tcp4>>,
    <<init_tcp_bind_listen_local_ip, connect_tcp4_local_ip, accept_tcp4_null_addr>>,
    <<init_tcp6_bind_listen_local_ip, connect_tcp6_local_ip, accept_tcp6>>,
    <<init_tcp6_bind_listen_any, connect_tcp6_any, accept_tcp6>>,
    <<init_tcp6_bind_listen_local_ip, connect_tcp6_local_ip, accept_tcp6_null_addr>>,
    <<init_tcp_bind_listen_local_ip, send_tcp4_local_ip, receive_tcp>>,
    <<init_tcp_bind_listen_any, send_tcp4_any, receive_tcp>>,
    <<init_tcp_bind_listen_any, send_multi_tcp4_any, receive_multi_tcp>>,
    <<init_tcp_bind_listen_any, send_tcp4_msg_waitall, receive_tcp4_msg_waitall>>,
    <<init_tcp6_bind_listen_local_ip, send_tcp6_local_ip, receive_tcp>>,
    <<init_tcp6_bind_listen_any, send_tcp6_any, receive_tcp>>>>

EventSuites ==
  <<<<init_udp_bind_local_ip, send_udp_local_ip, select_recv_udp>>,
    <<init_tcp_bind_listen_local_ip, send_tcp4_local_ip, select_recv_tcp>>,
    <<init_udp6_bind_local_ip, send_udp6_local_ip, select_recv_udp>>,
    <<init_tcp6_bind_listen_local_ip, send_tcp6_local_ip, select_recv_tcp>>,
    <<init_udp_bind_local_ip, send_udp_local_ip, select_recv_udp_2>>,
    <<init_udp_bind_local_ip, recv_send_udp_local_ip, socket_sigevent_udp4>>,
    <<init_udp6_bind_local_ip, recv_send_udp6_local_ip, socket_sigevent_udp6>>,
    <<init_tcp_bind_listen_local_ip, connect_recv_send_tcp_local_ip, socket_sigevent_tcp_rcv>>,
    <<init_tcp6_bind_listen_local_ip, connect_recv_send_tcp6_local_ip, socket_sigevent_tcp_rcv>>,
    <<init_tcp_bind_listen_local_ip, connect_tcp_delayed_local_ip, socket_sigevent_tcp_accept>>,
    <<init_tcp6_bind_listen_local_ip, connect_tcp6_delayed_local_ip, socket_sigevent_tcp_accept>>>>

MsgSuites ==
  <<<<init_udp_bind_local_ip, sendmsg_ip4_udp_local_ip, recv_udp>>,
    <<init_udp_bind_local_ip, sendmsg_multi_ip4_udp_local_ip, recv_udp>>,
    <<init_tcp_bind_listen_local_ip, connect_sendmsg_tcp_local_ip, accept_receive>>,
    <<init_tcp_bind_listen_local_ip, connect_sendmsg_multi_tcp_local_ip, accept_receive>>,
    <<init_udp6_bind_local_ip, sendmsg_multi_ip6_udp_local_ip, recv_udp>>,
    <<init_tcp6_bind_listen_local_ip, connect_sendmsg_multi_ipv6_tcp_local_ip, accept_receive>>,
    <<init_udp_bind_local_ip, send_udp_local_ip, recvmsg_udp>>,
    <<init_udp_bind_local_ip, send_udp_local_ip, recvmsg_multi_udp>>,
    <<init_udp_bind_local_ip, send_udp_local_ip, recvmsg_multi_peek_udp>>,
    <<init_udp6_bind_local_ip, send_udp6_local_ip, recvmsg_udp>>,
    <<init_udp6_bind_local_ip, send_udp6_local_ip, recvmsg_multi_udp>>,
    <<init_tcp_bind_listen_local_ip, send_tcp4_local_ip, accept_recvmsg_tcp>>,
    <<init_tcp_bind_listen_local_ip, send_tcp4_local_ip, accept_recvmsg_multi_tcp>>,
    <<init_tcp6_bind_listen_local_ip, send_tcp6_local_ip, accept_recvmsg_multi_tcp>>,
    <<init_tcp_bind_listen_local_ip, send_tcp4_local_ip, accept_recvmsg_multi2_tcp>>,
    <<init_tcp_bind_listen_local_ip, send_tcp4_local_ip, accept_recvmsg_multi_peek_tcp>>,
    <<init_tcp_bind_listen_local_ip, send_tcp4_2_local_ip, accept_recvmsg_tcp>>,
    <<init_tcp_bind_listen_local_ip, send_tcp4_2_local_ip, accept_recvmsg_multi_peek_tcp>>>>

NameSuites ==
  <<<<init_udp_create_socket, getsockname_not_bind, getsockname_bind>>,
    <<init_tcp_create_socket, getsockname_not_bind, getsockname_bind>>,
    <<init_udp6_create_socket, getsockname_not_bind6, getsockname_bind6>>,
    <<init_tcp6_create_socket, getsockname_not_bind6, getsockname_bind6>>,
    <<init_udp_create_socket, getpeername_not_connect, getpeername_connect>>,
    <<init_tcp_create_socket, getpeername_not_connect, getpeername_not_connect>>,
    <<init_tcp_bind_listen_local_ip, getpeername_connect, getpeername_accept>>,
    <<init_udp6_create_socket, getpeername_not_connect6, getpeername_connect6>>,
    <<init_tcp6_create_socket, getpeername_not_connect6, getpeername_not_connect6>>,
    <<init_tcp6_bind_listen_local_ip, getpeername_connect6, getpeername_accept6>>>>

AddrInfoSuites ==
  <<<<NULL, gai_strerror_print, gai_strerror_print>>,
    <<NULL, getaddrinfo_null_hints_null_host, null_function>>,
    <<NULL, getaddrinfo_null_hints_num_host, null_function>>,
    <<NULL, getaddrinfo_null_hints_num6_host, null_function>>,
    <<NULL, getaddrinfo_ipv4_hints_null_host, null_function>>,
    <<NULL, getaddrinfo_ipv6_hints_null_host, null_function>>,
    <<NULL, getaddrinfo_ai_passive_hints_null_host, null_function>>,
    <<NULL, getaddrinfo_ai_canonname_hints_num_host, null_function>>,
    <<NULL, getaddrinfo_ipv6_ai_v4mapped_hints_num_host, null_function>>,
    <<NULL, getaddrinfo_ai_numerichost_hints_num_host, null_function>>,
    <<NULL, getaddrinfo_ai_addrconfig_hints_num_host, null_function>>,
    <<NULL, getaddrinfo_localhost, null_function>>,
    <<NULL, getaddrinfo_localhost_service, null_function>>>>

ServiceSuites ==
  <<<<NULL, getservbyname_null_type, null_function>>,
    <<NULL, getservbyname_type, null_function>>,
    <<NULL, getservbyport_null_type, null_function>>,
    <<NULL, getservbyport_type, null_function>>,
    <<NULL, getnameinfo_ipv4_service_only, null_function>>,
    <<NULL, getnameinfo_ipv6_service_only, null_function>>,
    <<NULL, getnameinfo_ipv4_host_numeric_only, null_function>>,
    <<NULL, getnameinfo_ipv6_host_numeric_only, null_function>>,
    <<NULL, getnameinfo_ipv4_host_numeric_service, null_function>>,
    <<NULL, getnameinfo_ipv6_host_numeric_service, null_function>>>>

MainSuites ==
  SetUpSuites \o UdpSuites \o TcpSuites \o EventSuites
    \o MsgSuites \o NameSuites \o AddrInfoSuites \o ServiceSuites

\* The tests with a path that returns without closing what they opened: the
\* address checks after nfp_accept(), the calls after it in the event test,
\* and the tests of the set in select_recv_udp_2().
LeakyTests ==
  {accept_tcp4, accept_tcp6, getpeername_accept, getpeername_accept6,
   socket_sigevent_tcp_rcv, select_recv_udp_2}

\* Bound to an address of earlier connections without the options: the suite
\* of getsockname_bind() with TCP comes after those that connect.
ExposedTests == {getsockname_bind}

\* select_recv_tcp() receives 20 of 89 bytes into char buf[20].
OverrunTests == {select_recv_tcp}

=============================================================================
