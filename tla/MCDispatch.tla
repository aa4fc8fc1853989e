----------------------------- MODULE MCDispatch -----------------------------
(***************************************************************************)
(* Dispatch for the loops of the examples, on two input queues.            *)
(***************************************************************************)
EXTENDS Dispatch, Dispatchers

MCQueues == {"q1", "q2"}
MCPktin == <<"q1", "q2">>

\* Loops that poll, with and without the scheduler, and loops that only take
\* events.
MCPollers ==
  {fpm_direct_recv(b) : b \in BOOLEAN} \cup {fpm_direct_recv_single(b) : b \in BOOLEAN}
  \cup {webserver2_recv(b) : b \in BOOLEAN}
  \cup {webserver2_recv_single(b) : b \in BOOLEAN}
  \cup {udp_fwd_recv, udp_fwd_recv_single, udp_term_recv, udp_term_recv_single}

MCTcpperf == {pktio_recv(b) : b \in BOOLEAN}

MCEventLoops == {fpm_power_event_dispatcher, worker_dispatcher,
                 worker_classif_dispatcher}

\* Dispatchers that do not force out what a timer makes the stack send.
MCSilentLoops == {udp_fwd_event_dispatcher, udp_term_event_dispatcher,
                  app_dispatcher_thread}

MCAllKinds == MCPollers \cup MCTcpperf \cup MCEventLoops \cup MCSilentLoops
MCFlushingKinds == MCPollers \cup MCEventLoops
MCStoppingKinds == MCFlushingKinds \cup MCTcpperf \cup {app_dispatcher_thread}
=============================================================================
