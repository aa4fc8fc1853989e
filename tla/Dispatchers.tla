---------------------------- MODULE Dispatchers ----------------------------
(***************************************************************************)
(* The dispatch loops found in the examples, as kinds of Dispatch.         *)
(*   events     how many events a call of the scheduler fetches            *)
(*   wait       that call blocks until there is an event                   *)
(*   sometimes  it is made in some rounds only                             *)
(*   skip       without an event the loop starts again                     *)
(*   evvec      scheduled packets are collected in the vector              *)
(*   poll       packet input queues are polled                             *)
(*   vec        received packets are collected in the vector               *)
(*   send       when nfp_send_pending_pkt() is called: at the end of a     *)
(*              round, after a scheduled packet, after a timeout, after    *)
(*              events with a packet among them                            *)
(*   busy       not at the end of a round that received a full burst       *)
(*   err        a receive error ends the loop                              *)
(*   flag       it runs until exit_threads is set, not while *is_running   *)
(***************************************************************************)

Loop(events, poll, vec) ==
  [events |-> events, wait |-> FALSE, sometimes |-> FALSE, skip |-> FALSE,
   evvec |-> FALSE, poll |-> poll, vec |-> vec, send |-> {"loop"},
   busy |-> FALSE, err |-> FALSE, flag |-> FALSE]

\* Whether a loop calls the scheduler at all is an argument of its thread.
Timers(on) == IF on THEN "burst" ELSE "none"

\* fpm_direct; the first worker also processes the timers
fpm_direct_recv(process_timers) == Loop(Timers(process_timers), TRUE, TRUE)

fpm_direct_recv_single(process_timers) == Loop(Timers(process_timers), TRUE, FALSE)

\* webserver2 in direct mode
webserver2_recv(sched_process) == Loop(Timers(sched_process), TRUE, TRUE)

webserver2_recv_single(sched_process) == Loop(Timers(sched_process), TRUE, FALSE)

\* udp_fwd_socket
udp_fwd_recv == Loop("none", TRUE, TRUE)

udp_fwd_recv_single == Loop("none", TRUE, FALSE)

udp_fwd_event_dispatcher ==
  [Loop("one", FALSE, FALSE) EXCEPT !.wait = TRUE, !.send = {"pkt"}]

\* udp_term_socket
udp_term_recv == Loop("none", TRUE, TRUE)

udp_term_recv_single == Loop("none", TRUE, FALSE)

udp_term_event_dispatcher ==
  [Loop("one", FALSE, FALSE) EXCEPT !.wait = TRUE, !.send = {"pkt"}]

\* fpm_power; its receive loops are in PowerSave
fpm_power_event_dispatcher ==
  [Loop("burst", FALSE, FALSE) EXCEPT !.send = {"pkt", "tmo"}]

\* ioctl_test
app_dispatcher_thread ==
  [Loop("one", FALSE, FALSE) EXCEPT !.skip = TRUE, !.send = {"pkt"}]

\* classifier
worker_dispatcher == [Loop("burst", FALSE, FALSE) EXCEPT !.skip = TRUE]

worker_classif_dispatcher ==
  [Loop("burst", FALSE, FALSE) EXCEPT !.skip = TRUE, !.evvec = TRUE]

\* tcpperf
pktio_recv(multi) ==
  [Loop("all", TRUE, multi) EXCEPT !.sometimes = TRUE, !.busy = TRUE,
                                   !.err = TRUE, !.flag = TRUE,
                                   !.send = {"loop", "events"}]
=============================================================================
