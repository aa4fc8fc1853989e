------------------------------- MODULE UdpFwd -------------------------------
(***************************************************************************)
(* The UDP forwarder (udp_fwd_socket.c): udp_fwd_cfg() opens the sockets   *)
(* and fills in the remote address in the main thread, while the workers   *)
(* already run and forward to that address what arrives, either in         *)
(* notify(), the callback of the sockets, or in the packet hooks, the      *)
(* alternative that app_main.c has in a comment.  The two share raddr,     *)
(* sock_array and sock_array_size without a lock, so that the reads of a   *)
(* worker fall between any two writes of the main thread.                  *)
(***************************************************************************)
EXTENDS Naturals, FiniteSets

CONSTANTS
  Workers,     \* worker threads
  sock_count,  \* sockets to open
  Paths        \* how packets are forwarded: "notify", "hook"

ASSUME ForwarderAssumption ==
  /\ sock_count \in Nat \ {0}
  /\ Paths \subseteq {"notify", "hook"}

VARIABLES
  path,             \* the path that is compiled in
  pc,               \* where the main thread is
  cfg,              \* what udp_fwd_cfg() has returned: "none" yet, "ok", "failed"
  running,          \* the processing state
  socks,            \* ports (from TEST_LPORT) whose callback is registered
  sock_array_size,
  raddr,            \* the remote address: whether allocated, and its fields
  wpc, wport, wcfg, waddr,  \* a worker: where it is, its packet's port,
                            \* what cfg was when the packet came, and the
                            \* address it has read
  sent              \* what was forwarded: <<cfg, address, port>>

main == <<pc, cfg, socks, sock_array_size, raddr>>
worker == <<wpc, wport, wcfg, waddr, sent>>
vars == <<path, running, main, worker>>

Values == {"garbage", "zero", "remote", "none"}
Results == {"none", "ok", "failed"}
Ports == 0..sock_count  \* the last one has no socket
NoAddress == [ptr |-> "null", addr |-> "none", port |-> "none"]

Init ==
  /\ path \in Paths
  /\ pc = "alloc" /\ cfg = "none" /\ running = TRUE
  /\ socks = {} /\ sock_array_size = 0 /\ raddr = NoAddress
  /\ wpc = [w \in Workers |-> "test"]
  /\ wport = [w \in Workers |-> 0]
  /\ wcfg = [w \in Workers |-> "none"]
  /\ waddr = [w \in Workers |-> "none"]
  /\ sent = {}

-----------------------------------------------------------------------------

\* udp_fwd_cfg() returns -1.
CfgFails ==
  /\ pc' = "failed" /\ cfg' = "failed"
  /\ UNCHANGED <<socks, sock_array_size, raddr>>

AllocArray ==
  /\ pc = "alloc"
  /\ \/ CfgFails
     \/ /\ pc' = "open"
        /\ UNCHANGED <<cfg, socks, sock_array_size, raddr>>
  /\ UNCHANGED <<path, running, worker>>

\* The socket is live once nfp_socket_sigevent() has returned.
create_local_sock ==
  /\ pc = "open" /\ sock_array_size < sock_count
  /\ \/ CfgFails
     \/ /\ socks' = socks \cup {sock_array_size}
        /\ pc' = "store"
        /\ UNCHANGED <<cfg, sock_array_size, raddr>>
  /\ UNCHANGED <<path, running, worker>>

\* sock_array[sock_array_size] = sd; sock_array_size++
StoreSock ==
  /\ pc = "store"
  /\ sock_array_size' = sock_array_size + 1
  /\ pc' = "open"
  /\ UNCHANGED <<path, running, cfg, socks, raddr, worker>>

AllocRaddr ==
  /\ pc = "open" /\ sock_array_size = sock_count
  /\ \/ CfgFails
     \/ /\ raddr' = [ptr |-> "live", addr |-> "garbage", port |-> "garbage"]
        /\ pc' = "clear"
        /\ UNCHANGED <<cfg, socks, sock_array_size>>
  /\ UNCHANGED <<path, running, worker>>

ClearRaddr ==
  /\ pc = "clear"
  /\ raddr' = [raddr EXCEPT !.addr = "zero", !.port = "zero"]
  /\ pc' = "port"
  /\ UNCHANGED <<path, running, cfg, socks, sock_array_size, worker>>

\* Mutant: the address is taken to be complete before the port is set.
SetPort_Skip ==
  /\ pc = "port"
  /\ pc' = "addr"
  /\ UNCHANGED <<path, running, cfg, socks, sock_array_size, raddr, worker>>

SetPort ==
  /\ pc = "port"
  /\ raddr' = [raddr EXCEPT !.port = "remote"]
  /\ pc' = "addr"
  /\ UNCHANGED <<path, running, cfg, socks, sock_array_size, worker>>

SetAddr ==
  /\ pc = "addr"
  /\ raddr' = [raddr EXCEPT !.addr = "remote"]
  /\ pc' = "join" /\ cfg' = "ok"
  /\ UNCHANGED <<path, running, socks, sock_array_size, worker>>

\* main() calls nfp_stop_processing() when udp_fwd_cfg() has failed.
StopAfterFailure ==
  /\ pc = "failed"
  /\ running' = FALSE
  /\ pc' = "join"
  /\ UNCHANGED <<path, cfg, socks, sock_array_size, raddr, worker>>

\* nfp_thread_join() on the workers.
JoinWorkers ==
  /\ pc = "join"
  /\ \A w \in Workers : wpc[w] = "exited"
  /\ pc' = "free"
  /\ UNCHANGED <<path, running, cfg, socks, sock_array_size, raddr, worker>>

\* Mutant: the address is freed as soon as processing has stopped.
FreeRaddr_BeforeJoin ==
  /\ \/ /\ pc = "join" /\ ~running /\ raddr.ptr = "live"
        /\ raddr' = [raddr EXCEPT !.ptr = "freed"]
        /\ UNCHANGED pc
     \/ /\ pc = "free" /\ pc' = "close"
        /\ UNCHANGED raddr
  /\ UNCHANGED <<path, running, cfg, socks, sock_array_size, worker>>

FreeRaddr ==
  /\ pc = "free"
  /\ raddr' = IF raddr.ptr = "live" THEN [raddr EXCEPT !.ptr = "freed"] ELSE raddr
  /\ pc' = "close"
  /\ UNCHANGED <<path, running, cfg, socks, sock_array_size, worker>>

\* Mutant: the last socket is left out.
CloseSocks_OffByOne ==
  /\ pc = "close"
  /\ socks' = socks \ {p \in Ports : p + 1 < sock_array_size}
  /\ pc' = "end"
  /\ UNCHANGED <<path, running, cfg, sock_array_size, raddr, worker>>

CloseSocks ==
  /\ pc = "close"
  /\ socks' = socks \ {p \in Ports : p < sock_array_size}
  /\ pc' = "end"
  /\ UNCHANGED <<path, running, cfg, sock_array_size, raddr, worker>>

-----------------------------------------------------------------------------

\* Mutant: the bound of the ports is off by one.
Takes_OffByOne(p) ==
  \/ path = "notify" /\ p \in socks
  \/ path = "hook" /\ p <= sock_array_size

\* A packet for port p is forwarded: there is a socket whose callback is
\* called, or the hook finds the port among those of the sockets.
Takes(p) ==
  \/ path = "notify" /\ p \in socks
  \/ path = "hook" /\ p < sock_array_size

\* The test of is_running, before each round over the queues.
LoopTest(w) ==
  /\ wpc[w] = "test"
  /\ wpc' = [wpc EXCEPT ![w] = IF running THEN "round" ELSE "exited"]
  /\ UNCHANGED <<path, running, main, wport, wcfg, waddr, sent>>

\* A packet for port p arrives at worker w in its round, which is not cut
\* short when processing stops.  Packets that are not forwarded do not matter
\* here.
Receive(w, p) ==
  /\ wpc[w] = "round"
  /\ Takes(p)
  /\ wpc' = [wpc EXCEPT ![w] = "addr"]
  /\ wport' = [wport EXCEPT ![w] = p]
  /\ wcfg' = [wcfg EXCEPT ![w] = cfg]
  /\ UNCHANGED <<path, running, main, waddr, sent>>

\* The read of raddr->sin_addr.  The hooks dereference the pointer as it is;
\* nfp_udp_packet_sendto() gets a null pointer as destination.
ReadAddr(w) ==
  /\ wpc[w] = "addr"
  /\ waddr' = [waddr EXCEPT ![w] = raddr.addr]
  /\ wpc' = [wpc EXCEPT ![w] = IF path = "hook" /\ raddr.ptr = "null"
                                 THEN "crashed" ELSE "send"]
  /\ UNCHANGED <<path, running, main, wport, wcfg, sent>>

\* The read of raddr->sin_port, unless the pointer was null, and the packet is
\* sent.
Send(w) ==
  /\ wpc[w] = "send"
  /\ LET port == IF waddr[w] = "none" THEN "none" ELSE raddr.port
     IN  sent' = sent \cup {<<wcfg[w], waddr[w], port>>}
  /\ wpc' = [wpc EXCEPT ![w] = "round"]
  /\ UNCHANGED <<path, running, main, wport, wcfg, waddr>>

\* All the queues are served.
EndRound(w) ==
  /\ wpc[w] = "round"
  /\ wpc' = [wpc EXCEPT ![w] = "test"]
  /\ UNCHANGED <<path, running, main, wport, wcfg, waddr, sent>>

StopProcessing ==
  /\ running
  /\ running' = FALSE
  /\ UNCHANGED <<path, main, worker>>

Crashed == \E w \in Workers : wpc[w] = "crashed"

Next ==
  \/ AllocArray \/ create_local_sock \/ StoreSock \/ AllocRaddr \/ ClearRaddr
  \/ SetPort \/ SetAddr \/ StopAfterFailure \/ JoinWorkers \/ FreeRaddr
  \/ CloseSocks
  \/ \E w \in Workers :
       \/ \E p \in Ports : Receive(w, p)
       \/ LoopTest(w) \/ ReadAddr(w) \/ Send(w) \/ EndRound(w)
  \/ StopProcessing
  \/ (pc = "end" \/ Crashed) /\ UNCHANGED vars

Spec == Init /\ [][Next]_vars

-----------------------------------------------------------------------------

\* Every variable keeps its type; the array of sockets does not overflow.
TypeOK ==
  /\ path \in Paths /\ running \in BOOLEAN /\ cfg \in Results
  /\ pc \in {"alloc", "open", "store", "clear", "port", "addr", "failed", "join",
             "free", "close", "end"}
  /\ socks \subseteq 0..(sock_count - 1)
  /\ sock_array_size \in 0..sock_count
  /\ raddr \in [ptr : {"null", "live", "freed"}, addr : Values, port : Values]
  /\ wpc \in [Workers -> {"test", "round", "addr", "send", "exited", "crashed"}]
  /\ wport \in [Workers -> Ports] /\ wcfg \in [Workers -> Results]
  /\ waddr \in [Workers -> Values]
  /\ sent \subseteq Results \X Values \X Values

\* The hooks, which only look at sock_array_size, forward a packet only while
\* the socket of its port is open, as notify() does.
ForwardsForSockets ==
  /\ TypeOK
  /\ \A w \in Workers : wpc[w] \in {"addr", "send"} => wport[w] \in socks

\* udp_fwd_cleanup() does not free the remote address under a worker.
NoUseAfterFree ==
  raddr.ptr = "freed" => \A w \in Workers : wpc[w] \notin {"addr", "send"}

\* What arrives once udp_fwd_cfg() has returned 0 goes to the remote address
\* and port.  What arrives after it has failed, before main() has stopped the
\* workers or in a round that began before, goes to no address: notify()
\* passes a null pointer on.  The hooks dereference the null pointer at a
\* packet that came before udp_fwd_cfg() returned or after it failed, never
\* after a success.
LateToRemote ==
  /\ \A s \in sent :
       /\ s[1] = "ok" => s[2] = "remote" /\ s[3] = "remote"
       /\ s[1] = "failed" => s[2] = "none" /\ s[3] = "none"
  /\ \A w \in Workers : wpc[w] = "crashed" => wcfg[w] # "ok"

\* All the sockets that were opened are closed at the end, those of a
\* udp_fwd_cfg() that failed half-way included.
SocketsClosed == pc = "end" => socks = {}

\* Every packet is forwarded to the remote address, as the comment on raddr and
\* the description of the application have it.
ForwardedToRemote == \A s \in sent : s[2] = "remote" /\ s[3] = "remote"

=============================================================================
