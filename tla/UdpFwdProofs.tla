---------------------------- MODULE UdpFwdProofs ----------------------------
(***************************************************************************)
(* The safety of the UDP forwarder for any number of workers and sockets:  *)
(* the workers and the main thread share the sockets and the remote        *)
(* address without a lock, and the joins alone keep them apart.            *)
(***************************************************************************)
EXTENDS UdpFwd, TLAPS

\* A worker is between the arrival of a packet and its sending.
Forwards(w) == wpc[w] \in {"addr", "send"}

\* The callback of a port is registered just before the socket is counted, and
\* stays so until the clean-up.
SocksInv ==
  IF pc = "end" THEN socks = {}
  ELSE \A p \in Ports :
         p \in socks <=> \/ p < sock_array_size
                         \/ pc = "store" /\ p = sock_array_size

\* The array has room for the socket that is to be stored.
StoreInv == pc = "store" => sock_array_size < sock_count

\* Where main() is once udp_fwd_cfg() has returned.
Returned == {"failed", "join", "free", "close", "end"}

\* The address is filled in as far as udp_fwd_cfg() has come, and freed last.
RaddrInv ==
  /\ pc \in {"alloc", "open", "store"} => raddr = NoAddress
  /\ pc \in {"clear", "port", "addr"} => raddr.ptr = "live"
  /\ pc = "addr" => raddr.port = "remote"
  /\ cfg = "none" => pc \notin Returned
  /\ cfg = "ok" => /\ pc \in Returned /\ raddr.ptr # "null"
                   /\ raddr.addr = "remote" /\ raddr.port = "remote"
  /\ cfg = "failed" => pc \in Returned /\ raddr = NoAddress
  /\ raddr.ptr = "freed" => pc \in {"close", "end"}

\* The clean-up runs when the workers are gone.
JoinedInv ==
  pc \in {"free", "close", "end"} => \A w \in Workers : wpc[w] = "exited"

\* A packet that came after udp_fwd_cfg() finds the address complete, or none.
LateInv ==
  \A w \in Workers :
    /\ wcfg[w] = "ok" => cfg = "ok" /\ (wpc[w] = "send" => waddr[w] = "remote")
    /\ wcfg[w] = "failed" =>
         cfg = "failed" /\ (wpc[w] = "send" => waddr[w] = "none")

\* The inductive invariant.
IInv ==
  /\ ForwardsForSockets /\ SocksInv /\ StoreInv /\ RaddrInv /\ JoinedInv
  /\ LateInv /\ LateToRemote

-----------------------------------------------------------------------------

\* Initially there are no sockets, and no packets.
LEMMA InitIInv == Init => IInv
<1> SUFFICES ASSUME Init PROVE IInv
  OBVIOUS
<1>1. ForwardsForSockets
  BY ForwarderAssumption
  DEF Init, ForwardsForSockets, TypeOK, NoAddress, Values, Results, Ports
<1>2. SocksInv /\ StoreInv
  BY ForwarderAssumption DEF Init, SocksInv, StoreInv, Ports
<1>3. RaddrInv /\ JoinedInv /\ LateInv /\ LateToRemote
  BY DEF Init, RaddrInv, JoinedInv, LateInv, LateToRemote, Returned, NoAddress
<1> QED
  BY <1>1, <1>2, <1>3 DEF IInv

\* The steps of udp_fwd_cfg().
LEMMA ConfigStep ==
  ASSUME IInv, AllocArray \/ create_local_sock \/ StoreSock \/ AllocRaddr
               \/ ClearRaddr \/ SetPort \/ SetAddr
  PROVE  IInv'
<1> USE DEF Forwards, Returned
<1>1. /\ TypeOK /\ SocksInv /\ StoreInv /\ RaddrInv /\ JoinedInv /\ LateInv
      /\ LateToRemote /\ \A w \in Workers : Forwards(w) => wport[w] \in socks
  BY DEF IInv, ForwardsForSockets
<1>2. /\ pc \notin Returned /\ UNCHANGED <<path, worker>>
      /\ pc' \notin {"free", "close", "end"} /\ cfg = "none"
  BY DEF AllocArray, create_local_sock, StoreSock, AllocRaddr, ClearRaddr,
         SetPort, SetAddr, CfgFails, IInv, RaddrInv, ForwardsForSockets, TypeOK,
         Results
<1>3. /\ socks \subseteq socks' /\ RaddrInv'
      /\ raddr' \in [ptr : {"null", "live", "freed"}, addr : Values, port : Values]
  <2>1. /\ raddr \in [ptr : {"null", "live", "freed"}, addr : Values, port : Values]
        /\ raddr.ptr # "freed"
    BY <1>1, <1>2 DEF TypeOK, RaddrInv
  <2>2. CASE AllocRaddr /\ raddr' # raddr
    BY <1>2, <2>2 DEF AllocRaddr, CfgFails, RaddrInv, Values
  <2>3. CASE ClearRaddr
    BY <1>1, <1>2, <2>1, <2>3, Zenon DEF ClearRaddr, RaddrInv, Values
  <2>4. CASE SetPort
    BY <1>1, <1>2, <2>1, <2>4 DEF SetPort, RaddrInv, Values
  <2>5. CASE SetAddr
    BY <1>1, <1>2, <2>1, <2>5 DEF SetAddr, RaddrInv, Values
  <2>6. CASE AllocArray \/ create_local_sock \/ StoreSock
             \/ (AllocRaddr /\ raddr' = raddr)
    <3>1. /\ raddr' = raddr /\ pc \in {"alloc", "open", "store"}
          /\ \/ pc' \in {"open", "store"} /\ cfg' = "none"
             \/ pc' = "failed" /\ cfg' = "failed"
             \/ AllocRaddr
          /\ socks \subseteq socks'
      BY <1>2, <2>6
      DEF AllocArray, create_local_sock, StoreSock, AllocRaddr, CfgFails
    <3>2. raddr = NoAddress
      BY <1>1, <3>1 DEF RaddrInv
    <3>3. AllocRaddr => pc' = "failed" /\ cfg' = "failed"
      BY <3>1, <3>2 DEF AllocRaddr, CfgFails, NoAddress
    <3> QED
      BY <2>1, <3>1, <3>2, <3>3 DEF RaddrInv, NoAddress
  <2> QED
    BY <2>2, <2>3, <2>4, <2>5, <2>6
<1>4. TypeOK'
  <2>1. /\ pc' \in {"alloc", "open", "store", "clear", "port", "addr", "failed",
                "join"}
        /\ running' \in BOOLEAN /\ cfg' \in Results
    BY <1>1, Zenon DEF TypeOK, Results, AllocArray, create_local_sock, StoreSock,
         AllocRaddr, ClearRaddr, SetPort, SetAddr, CfgFails
  <2>2. socks' \subseteq 0..(sock_count - 1) /\ sock_array_size' \in 0..sock_count
    BY <1>1, ForwarderAssumption
    DEF TypeOK, StoreInv, AllocArray, create_local_sock, StoreSock,
        AllocRaddr, ClearRaddr, SetPort, SetAddr, CfgFails
  <2> QED
    BY <1>1, <1>2, <1>3, <2>1, <2>2 DEF TypeOK, worker
<1>5. ForwardsForSockets'
  BY <1>1, <1>2, <1>3, <1>4 DEF ForwardsForSockets, worker
<1>6. SocksInv' /\ StoreInv'
  BY <1>1, <1>2, ForwarderAssumption
  DEF TypeOK, SocksInv, StoreInv, Ports, AllocArray, create_local_sock, StoreSock,
      AllocRaddr, ClearRaddr, SetPort, SetAddr, CfgFails
<1>7. JoinedInv'
  BY <1>2 DEF JoinedInv
<1>8. LateInv' /\ LateToRemote'
  BY <1>1, <1>2, Zenon DEF LateInv, LateToRemote, worker, TypeOK
<1> QED
  BY <1>3, <1>5, <1>6, <1>7, <1>8 DEF IInv

\* main() stops the workers when udp_fwd_cfg() has failed.
LEMMA StopStep ==
  ASSUME IInv, StopAfterFailure
  PROVE  IInv'
<1>1. /\ pc = "failed" /\ pc' = "join" /\ running' \in BOOLEAN
      /\ UNCHANGED <<path, cfg, socks, sock_array_size, raddr, worker>>
  BY DEF StopAfterFailure
<1>2. ForwardsForSockets' /\ LateInv' /\ LateToRemote'
  BY <1>1, Zenon DEF IInv, ForwardsForSockets, TypeOK, LateInv, LateToRemote, worker
<1>3. SocksInv' /\ StoreInv'
  BY <1>1 DEF IInv, SocksInv, StoreInv
<1>4. RaddrInv' /\ JoinedInv'
  BY <1>1 DEF IInv, RaddrInv, JoinedInv, Returned
<1> QED
  BY <1>2, <1>3, <1>4 DEF IInv

\* The joins and udp_fwd_cleanup().
LEMMA CleanupStep ==
  ASSUME IInv, JoinWorkers \/ FreeRaddr \/ CloseSocks
  PROVE  IInv'
<1>1. /\ TypeOK /\ SocksInv /\ StoreInv /\ RaddrInv /\ JoinedInv /\ LateInv
      /\ LateToRemote
  BY DEF IInv, ForwardsForSockets
<1>2. /\ pc \in Returned /\ pc' \in {"free", "close", "end"}
      /\ UNCHANGED <<path, cfg, worker>>
      /\ \A w \in Workers : wpc[w] = "exited"
  BY <1>1 DEF JoinWorkers, FreeRaddr, CloseSocks, JoinedInv, Returned
<1>3. TypeOK'
  BY <1>1, <1>2
  DEF TypeOK, JoinWorkers, FreeRaddr, CloseSocks, worker
<1>4. ForwardsForSockets' /\ JoinedInv' /\ LateInv' /\ LateToRemote'
  BY <1>1, <1>2, <1>3
  DEF ForwardsForSockets, JoinedInv, LateInv, LateToRemote, Forwards, worker
<1>5. SocksInv' /\ StoreInv'
  <2>1. CASE CloseSocks
    <3>1. \A p \in socks : p \in Ports
      BY <1>1, ForwarderAssumption DEF TypeOK, Ports
    <3> QED
      BY <1>1, <2>1, <3>1 DEF SocksInv, StoreInv, CloseSocks
  <2>2. CASE JoinWorkers \/ FreeRaddr
    BY <1>1, <2>2 DEF SocksInv, StoreInv, JoinWorkers, FreeRaddr
  <2> QED
    BY <2>1, <2>2
<1>6. RaddrInv'
  <2>1. CASE FreeRaddr
    BY <1>1, <1>2, <2>1 DEF TypeOK, RaddrInv, FreeRaddr, Returned, NoAddress
  <2>2. CASE JoinWorkers \/ CloseSocks
    BY <1>1, <1>2, <2>2 DEF RaddrInv, JoinWorkers, CloseSocks, Returned
  <2> QED
    BY <2>1, <2>2
<1> QED
  BY <1>4, <1>5, <1>6 DEF IInv

\* A packet arrives at a worker.
LEMMA ReceiveStep ==
  ASSUME IInv, NEW w \in Workers, NEW p \in Ports, Receive(w, p)
  PROVE  IInv'
<1>1. /\ TypeOK /\ SocksInv /\ StoreInv /\ RaddrInv /\ JoinedInv /\ LateInv
      /\ LateToRemote /\ \A u \in Workers : Forwards(u) => wport[u] \in socks
  BY DEF IInv, ForwardsForSockets, Forwards
<1>2. /\ wpc[w] = "round" /\ Takes(p) /\ UNCHANGED <<path, running, main, waddr, sent>>
      /\ wpc' = [wpc EXCEPT ![w] = "addr"] /\ wport' = [wport EXCEPT ![w] = p]
      /\ wcfg' = [wcfg EXCEPT ![w] = cfg]
  BY DEF Receive
<1>3. pc \notin {"free", "close", "end"}
  BY <1>1, <1>2 DEF JoinedInv
<1>4. p \in socks
  BY <1>1, <1>2, <1>3 DEF Takes, SocksInv
<1>5. TypeOK'
  BY <1>1, <1>2 DEF TypeOK, main
<1>6. ForwardsForSockets'
  BY <1>1, <1>2, <1>4, <1>5 DEF ForwardsForSockets, TypeOK, Forwards, main
<1>7. SocksInv' /\ StoreInv' /\ RaddrInv' /\ JoinedInv' /\ LateToRemote'
  BY <1>1, <1>2, <1>3
  DEF TypeOK, SocksInv, StoreInv, RaddrInv, JoinedInv, LateToRemote, main
<1>8. LateInv'
  BY <1>1, <1>2 DEF LateInv, TypeOK, main
<1> QED
  BY <1>6, <1>7, <1>8 DEF IInv

\* A worker reads the address, sends its packet, or ends a round and
\* starts the next or leaves.
LEMMA WorkerStep ==
  ASSUME IInv, NEW w \in Workers, LoopTest(w) \/ ReadAddr(w) \/ Send(w) \/ EndRound(w)
  PROVE  IInv'
<1>1. /\ TypeOK /\ SocksInv /\ StoreInv /\ RaddrInv /\ JoinedInv /\ LateInv
      /\ LateToRemote /\ \A u \in Workers : Forwards(u) => wport[u] \in socks
  BY DEF IInv, ForwardsForSockets, Forwards
<1>2. UNCHANGED <<path, running, main, wport, wcfg>> /\ wpc[w] # "exited"
  BY DEF LoopTest, ReadAddr, Send, EndRound
<1>3. \A u \in Workers \ {w} : wpc'[u] = wpc[u] /\ waddr'[u] = waddr[u]
  BY <1>1 DEF TypeOK, LoopTest, ReadAddr, Send, EndRound
<1>4. Forwards(w)' => Forwards(w)
  BY <1>1 DEF TypeOK, Forwards, LoopTest, ReadAddr, Send, EndRound
<1>5. TypeOK'
  <2>1. /\ wpc' \in [Workers -> {"test", "round", "addr", "send", "exited", "crashed"}]
        /\ waddr' \in [Workers -> Values]
    BY <1>1 DEF TypeOK, LoopTest, ReadAddr, Send, EndRound
  <2>2. sent' \subseteq Results \X Values \X Values
    <3>1. wcfg[w] \in Results /\ waddr[w] \in Values /\ raddr.port \in Values
      BY <1>1 DEF TypeOK
    <3>2. /\ <<wcfg[w], waddr[w], raddr.port>> \in Results \X Values \X Values
          /\ <<wcfg[w], waddr[w], "none">> \in Results \X Values \X Values
      BY <3>1 DEF Values
    <3> QED
      BY <1>1, <3>2 DEF TypeOK, LoopTest, ReadAddr, Send, EndRound
  <2> QED
    BY <1>1, <1>2, <2>1, <2>2 DEF TypeOK, main
<1>6. ForwardsForSockets'
  BY <1>1, <1>2, <1>3, <1>4, <1>5 DEF ForwardsForSockets, Forwards, main
<1>7. SocksInv' /\ StoreInv' /\ RaddrInv'
  BY <1>1, <1>2 DEF SocksInv, StoreInv, RaddrInv, main
<1>8. JoinedInv'
  BY <1>1, <1>2 DEF JoinedInv, main
<1>9. LateInv'
  BY <1>1, <1>2, <1>3
  DEF LateInv, RaddrInv, NoAddress, TypeOK, main, LoopTest, ReadAddr, Send, EndRound
<1>10. LateToRemote'
  <2>1. wpc'[w] = "crashed" => wcfg[w] # "ok"
    BY <1>1 DEF TypeOK, LateInv, LateToRemote, RaddrInv, LoopTest, ReadAddr, Send, EndRound
  <2>2. \A u \in Workers : wpc'[u] = "crashed" => wcfg'[u] # "ok"
    BY <1>1, <1>2, <1>3, <2>1 DEF LateToRemote
  <2>3. CASE Send(w)
    <3> DEFINE port == IF waddr[w] = "none" THEN "none" ELSE raddr.port
    <3>1. /\ wcfg[w] = "ok" => waddr[w] = "remote" /\ port = "remote"
          /\ wcfg[w] = "failed" => waddr[w] = "none" /\ port = "none"
      BY <1>1, <2>3 DEF Send, LateInv, RaddrInv
    <3>2. sent' = sent \cup {<<wcfg[w], waddr[w], port>>}
      BY <2>3 DEF Send
    <3> HIDE DEF port
    <3> QED
      BY <1>1, <2>2, <3>1, <3>2 DEF LateToRemote
  <2>4. CASE LoopTest(w) \/ ReadAddr(w) \/ EndRound(w)
    BY <1>1, <2>2, <2>4 DEF LoopTest, ReadAddr, EndRound, LateToRemote
  <2> QED
    BY <2>3, <2>4
<1> QED
  BY <1>6, <1>7, <1>8, <1>9, <1>10 DEF IInv

\* Every step keeps the inductive invariant.
LEMMA StepIInv == IInv /\ [Next]_vars => IInv'
<1> SUFFICES ASSUME IInv, [Next]_vars PROVE IInv'
  OBVIOUS
<1>1. CASE StopProcessing \/ UNCHANGED vars
  <2>1. UNCHANGED <<path, main, worker>> /\ (running' \in BOOLEAN)
    BY <1>1, Zenon DEF StopProcessing, vars, IInv, ForwardsForSockets, TypeOK
  <2> QED
    BY <2>1 DEF IInv, ForwardsForSockets, TypeOK, SocksInv, StoreInv, RaddrInv,
                JoinedInv, LateInv, LateToRemote, Forwards, main, worker
<1> QED
  BY <1>1, ConfigStep, StopStep, CleanupStep, ReceiveStep, WorkerStep DEF Next

\* The inductive invariant holds throughout every execution.
THEOREM Invariance == Spec => []IInv
BY InitIInv, StepIInv, PTL DEF Spec

\* Neither the callback nor the hooks forward a packet for a port without an
\* open socket; the types are kept, so the array of sockets does not overflow.
THEOREM ForwardsForSocketsTheorem == Spec => []ForwardsForSockets
<1>1. IInv => ForwardsForSockets BY DEF IInv
<1> QED BY <1>1, Invariance, PTL

\* udp_fwd_cleanup() frees the remote address only when no worker is between
\* the arrival of a packet and its sending.
THEOREM NoUseAfterFreeTheorem == Spec => []NoUseAfterFree
<1>1. IInv => NoUseAfterFree
  BY DEF IInv, RaddrInv, JoinedInv, NoUseAfterFree
<1> QED BY <1>1, Invariance, PTL

\* What arrives once udp_fwd_cfg() has returned 0 goes to the remote address and
\* port, although the two are read one after the other and the workers go on
\* with their rounds when processing stops; what arrives after a failure goes to
\* none, and only without a success do the hooks dereference a null pointer.
THEOREM LateToRemoteTheorem == Spec => []LateToRemote
<1>1. IInv => LateToRemote BY DEF IInv
<1> QED BY <1>1, Invariance, PTL

\* udp_fwd_cleanup() closes the sockets that a failed udp_fwd_cfg() has opened,
\* as well as all the others.
THEOREM SocketsClosedTheorem == Spec => []SocketsClosed
<1>1. IInv => SocketsClosed BY DEF IInv, SocksInv, SocketsClosed
<1> QED BY <1>1, Invariance, PTL

=============================================================================
