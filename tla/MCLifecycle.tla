---------------------------- MODULE MCLifecycle ----------------------------
(***************************************************************************)
(* Lifecycle instantiated with the examples' own main() functions.         *)
(***************************************************************************)
EXTENDS Lifecycle, AppMains, TLC

MCCode ==
  [fpm |-> fpm(FALSE), fpm_perf |-> fpm(TRUE),
   fpm_direct |-> fpm_direct, fpm_power |-> fpm_power,
   udpecho |-> udpecho, udp_fwd |-> udp_fwd_socket,
   udp_term_posix |-> udp_term_socket(FALSE),
   udp_term_channel |-> udp_term_socket(TRUE),
   webserver |-> webserver,
   webserver2 |-> webserver2(FALSE), webserver2_direct |-> webserver2(TRUE),
   multicast |-> multicast, ioctl |-> ioctl_test,
   socket |-> socket_test,
   classifier_posix |-> classifier(FALSE),
   classifier_channel |-> classifier(TRUE),
   multiprocess |-> multiprocess, netwrap |-> netwrap_proc]

MCSingles == {"perf", "event", "disp", "term", "web", "mcast", "ioctl", "cls"}

MCResources == {"nfp", "args", "sd", "socks", "chn", "cos", "grp_w", "grp_c",
                "odp", "odp_local"}

MCApps == DOMAIN MCCode

\* The applications whose main() keeps the discipline of LifecycleOps.
MCOrderlyApps == MCApps \ {"udpecho", "udp_term_channel", "classifier_channel",
                           "netwrap"}

\* Of these, the ones that also leave nothing behind, whatever call fails.
MCTidyApps == {"fpm", "fpm_perf", "webserver", "webserver2",
               "webserver2_direct", "classifier_posix", "multiprocess", "socket"}

\* Applications all of whose threads look at the processing state between calls
\* that return by themselves.  Left out: mcasttest() waits for an address; the
\* dispatchers of udp_fwd_socket and udp_term_socket wait in odp_schedule()
\* and termination_posix() in nfp_recv(); the tests of multiprocess
\* and socket, run by main() itself, wait for their peer.
MCStoppableApps == MCApps \ {"multicast", "udp_fwd", "udp_term_posix",
                             "udp_term_channel", "multiprocess", "socket"}
=============================================================================
