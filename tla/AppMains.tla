------------------------------ MODULE AppMains ------------------------------
(***************************************************************************)
(* The main() functions of the NFP examples, each as the line of calls it  *)
(* makes (see LifecycleOps).  A call without lifecycle effect is a Call    *)
(* with the failure branch the code gives it; calls whose result the code  *)
(* ignores and that have no lifecycle effect do not appear.  An option     *)
(* that changes the line is a parameter.                                   *)
(***************************************************************************)
EXTENDS LifecycleOps

\* nfp_terminate(); parse_args_cleanup(); return
Fin == <<Release("nfp"), Release("args")>>

\* nfpexpl_sigaction_set(), parse_args(), nfp_initialize()
Begin == <<SigAction(<<>>),
           Acquire("args", <<>>),
           Acquire("nfp", <<Release("args")>>)>>

\* The creation of the workers; on failure the threads that were created are
\* stopped and joined.
StartWorkers(after) ==
  Create("workers", {"nfp"}, <<Stop, JoinMade("workers")>> \o after)

Given(cond, calls) == IF cond THEN calls ELSE <<>>

-----------------------------------------------------------------------------

fpm(perf_stat) ==
  LET quit == <<Stop, Join("workers")>> \o Fin
  IN  Begin
      \o <<Call(Fin),            \* nfp_get_default_worker_cpumask
           StartWorkers(Fin),
           Call(quit),           \* configure_interface_addresses
           Call(quit)>>          \* nfp_cli_process_file
      \o Given(perf_stat, <<Create("perf", {"nfp"}, quit)>>)
      \o <<Join("workers")>>
      \o Given(perf_stat, <<Join("perf")>>)
      \o Fin

fpm_direct ==
  LET quit == <<Stop, Join("workers")>> \o Fin
  IN  Begin
      \o <<Call(Fin),            \* validate_cores_settings
           Call(Fin),            \* configure_interfaces
           Call(Fin),            \* configure_workers_arg: pktio lookup
           Call(<<>>),           \* configure_workers_arg: exit(EXIT_FAILURE)
           StartWorkers(Fin),
           Call(quit),           \* configure_interface_addresses
           Call(quit),           \* nfp_cli_process_file
           Join("workers")>>
      \o Fin

fpm_power ==
  LET quit == <<Stop, Join("workers"), Join("event")>> \o Fin
  IN  Begin
      \o <<Call(Fin),            \* validate_cores_settings
           Call(Fin),            \* configure_interfaces
           Call(Fin),            \* configure_workers_arg: pktio lookup
           Call(<<>>),           \* configure_workers_arg: exit(EXIT_FAILURE)
           StartWorkers(Fin),
           Create("event", {"nfp"}, <<Stop, Join("workers")>> \o Fin),
           Call(quit),           \* configure_interface_addresses
           Call(quit),           \* nfp_cli_process_file
           Join("workers"), Join("event")>>
      \o Fin

\* udpecho_config() is called in line: when it fails after the socket was
\* created it has closed the socket and left its descriptor in udp_echo_cfg,
\* so that udpecho_cleanup() closes it again; main() goes on after the stop.
udpecho ==
  LET quit == <<Stop, Join("workers")>> \o Fin
      cleanup == <<Join("workers"), Release("sd")>> \o Fin
      badsd == <<Release("sd"), Stop>> \o cleanup
  IN  Begin
      \o <<Call(Fin),            \* nfp_get_default_worker_cpumask
           StartWorkers(Fin),
           Call(quit),           \* configure_interface_addresses
           Call(quit),           \* nfp_cli_process_file
           Acquire("sd", <<Stop, Join("workers")>> \o Fin),
           Call(badsd),          \* interface and address lookup
           Call(badsd),          \* nfp_bind
           Call(badsd),          \* nfp_socket_sigevent
           Use("workers", {"sd"})>>
      \o cleanup

udp_fwd_socket ==
  LET leave == <<Join("workers"), Join("disp")>>
      quit == <<Stop>> \o leave \o Fin
  IN  Begin
      \o <<Call(Fin),            \* num_workers < 1
           Call(Fin),            \* nfp_ifport_net_create
           Call(Fin),            \* odp_pktio_lookup
           Call(<<Release("args")>>),   \* too few pktin queues
           Call(Fin),            \* too few pktout queues
           StartWorkers(Fin),
           Create("disp", {"nfp"}, <<Stop, Join("workers")>> \o Fin),
           Call(quit),           \* configure_interface_addresses
           Call(quit),           \* nfp_cli_process_file
           Acquire("socks", <<Stop>> \o leave \o Fin),
           \* create_local_sock() of the next socket, or malloc() of raddr
           Use("workers", {"socks"}), Use("disp", {"socks"}),
           Call(<<Stop>> \o leave \o <<Release("socks")>> \o Fin)>>
      \o leave \o <<Release("socks")>> \o Fin

\* udp_socket_cfg() is called in line.  "end" is the label of the code, with
\* the socket and the channel that are still to be cleaned up there.
udp_term_socket(channel) ==
  LET end(sd, chn) ==
        Given(sd, <<Release("sd")>>) \o Given(chn, <<Release("chn")>>) \o Fin
      quit == <<Stop, Join("workers"), Join("disp")>> \o end(FALSE, FALSE)
      nosd == <<Stop, Join("disp"), Join("workers")>> \o end(FALSE, channel)
      rest == <<Join("workers"), Join("disp"), Join("term")>> \o end(TRUE, channel)
  IN  Begin
      \o <<Call(Fin),            \* num_workers < 1
           Call(Fin),            \* nfp_ifport_net_create, odp_pktio_lookup
           Call(Fin),            \* too few pktin or pktout queues
           StartWorkers(Fin),
           Create("disp", {"nfp"}, <<Stop, Join("workers")>> \o Fin),
           Call(quit),           \* configure_interface_addresses
           Call(quit)>>          \* nfp_cli_process_file
      \o Given(channel, <<Acquire("chn", Fin)>>)      \* goto end
      \o <<Acquire("sd", nosd),
           Call(nosd),           \* nfp_parse_ip_addr: the socket stays open
           Call(<<Release("sd")>> \o nosd)>>          \* nfp_bind
      \o Given(channel, <<Call(<<Release("sd")>> \o nosd),  \* nfp_socket_sigevent
                          Use("workers", {"sd", "chn"}),
                          Use("disp", {"sd", "chn"})>>)
      \o <<Create("term", {"nfp", IF channel THEN "chn" ELSE "sd"},
                  <<Stop, Join("disp"), Join("workers")>> \o end(TRUE, channel)),
           Await(rest)>>
      \o rest

webserver ==
  LET quit == <<Stop, Join("workers")>> \o Fin
  IN  Begin
      \o <<Call(Fin),            \* nfp_get_default_worker_cpumask
           StartWorkers(Fin),
           Call(quit),           \* configure_interface_addresses
           Call(quit),           \* nfp_cli_process_file
           Create("web", {"nfp"}, quit),
           Join("workers"), Join("web")>>
      \o Fin

\* The execution mode selects one interface set-up; each of its calls has the
\* same failure branch.
webserver2(direct_rss) ==
  LET quit == <<Stop, Join("workers")>> \o Fin
  IN  Begin
      \o <<Call(Fin),            \* validate_cores_settings
           Call(Fin)>>           \* create_interfaces_* / get_interfaces_id
      \o Given(direct_rss, <<Call(Fin)>>)   \* configure_workers_arg_direct_rss
      \o <<StartWorkers(Fin),
           Call(quit),           \* configure_interface_addresses
           Call(quit),           \* nfp_cli_process_file
           Call(quit),           \* setup_webserver
           Join("workers")>>
      \o Fin

-----------------------------------------------------------------------------

\* parse_args() of the next two exits by itself and its memory is never freed.
\* The result of nfp_multicast_thread() is ignored.
multicast ==
  LET rest == <<Join("workers"), Join("mcast"), Release("nfp")>>
  IN  <<SigAction(<<>>),
        Acquire("nfp", <<>>),
        Call(<<Release("nfp")>>),     \* nfp_get_default_worker_cpumask
        StartWorkers(<<Release("nfp")>>),
        Create("mcast", {"nfp"}, rest)>>
      \o rest

\* No signal handler; the result of the creation of the test is ignored.
ioctl_test ==
  LET rest == <<Join("workers"), Join("ioctl"), Release("nfp")>>
  IN  <<Acquire("nfp", <<>>),
        Call(<<Release("nfp")>>),     \* nfp_get_default_worker_cpumask
        StartWorkers(<<Release("nfp")>>),
        Create("ioctl", {"nfp"}, rest)>>
      \o rest

\* No signal handler either: the suites run in the main thread and in threads
\* it joins (see SocketSuite).
socket_test ==
  LET quit == <<Stop, Join("workers"), Release("nfp")>>
  IN  <<Acquire("nfp", <<>>),
        Call(<<Release("nfp")>>),     \* nfp_get_default_worker_cpumask
        StartWorkers(<<Release("nfp")>>),
        Call(quit),                   \* configure_interface_addresses
        Test>>
      \o quit

\* "end" and "join_workers" are the labels of the code, with what is held.
classifier(channel) ==
  LET end(grps, cos) ==
        Given(cos, <<Release("cos")>>) \o Given(grps > 0, <<Release("grp_w")>>)
        \o Given(grps > 1, <<Release("grp_c")>>) \o Fin
      join_workers(sd) ==
        Given(sd, <<Release("sd")>>) \o Given(channel, <<Release("chn")>>)
        \o <<Stop, Join("workers"), Join("cls")>> \o end(2, TRUE)
      rest == <<Join("term")>> \o join_workers(~channel)
  IN  Begin
      \o <<Call(end(0, FALSE)),              \* core_count < 4
           Acquire("grp_w", end(0, FALSE)),
           Acquire("grp_c", end(1, FALSE)),
           Call(end(2, FALSE)),              \* create_interfaces
           Acquire("cos", end(2, FALSE))>>
      \o Given(channel,
               <<Acquire("chn", <<Stop, Join("workers")>> \o end(2, TRUE))>>)
      \o <<Create("workers", {"nfp", "grp_w"},
                  <<Stop, JoinMade("workers")>> \o end(2, TRUE)),
           Create("cls", {"nfp", "grp_c"} \cup (IF channel THEN {"chn"} ELSE {}),
                  <<Stop, Join("workers")>> \o end(2, TRUE)),
           Call(join_workers(FALSE)),        \* configure_interface_addresses
           Call(join_workers(FALSE))>>       \* nfp_cli_process_file
      \o Given(~channel, <<Acquire("sd", join_workers(FALSE))>>)
      \o <<Create("term", {"nfp", IF channel THEN "chn" ELSE "sd"},
                  join_workers(~channel)),
           Await(rest)>>
      \o rest

\* The worker processes stand for the workers; the fork of all of them either
\* succeeds or fails.
multiprocess ==
  LET quit == <<Stop, Join("workers")>> \o Fin
  IN  Begin
      \o <<Call(Fin),            \* odp_cpumask_to_str
           Call(<<Stop>> \o Fin),            \* nfp_process_fork_n
           Ins("create", "workers", {"nfp"}, FALSE, <<>>),
           Call(quit),           \* configure_interface_addresses
           Call(quit),           \* nfp_cli_process_file
           Test>>                \* udp_test or tcp_test
      \o quit

-----------------------------------------------------------------------------

\* The destructor of the network wrapper, by the state the constructor left.
\* It resets nothing, so it does the same when it is called once more.
nfp_netwrap_main_dtor(state) ==
  <<Stop>>
  \o Given(state >= 4, <<Join("workers")>>)      \* NETWRAP_WORKERS_STARTED
  \o Given(state >= 3, <<Release("nfp")>>)       \* NETWRAP_NFP_INIT_GLOBAL
  \o Given(state >= 2, <<Release("odp_local")>>) \* NETWRAP_ODP_INIT_LOCAL
  \o Given(state >= 1, <<Release("odp")>>)       \* NETWRAP_ODP_INIT_GLOBAL

\* The constructor, the program it is loaded into, and the destructor at the
\* end of the process.
netwrap_proc ==
  LET exit(state) == nfp_netwrap_main_dtor(state)
      abort(state) ==
        <<Release("args")>> \o nfp_netwrap_main_dtor(state) \o exit(state)
      quit == <<Stop, Join("workers")>> \o abort(4)
  IN  <<Acquire("args", exit(0)),
        Acquire("odp", <<Release("args")>> \o exit(0)),
        Acquire("odp_local", abort(1)),
        Acquire("nfp", abort(2)),
        Call(abort(2)),          \* nfp_get_default_worker_cpumask
        Create("workers", {"nfp"}, <<Stop, JoinMade("workers")>> \o abort(3)),
        Call(quit),              \* configure_interface_addresses
        Call(quit),              \* nfp_cli_process_file
        Release("args")>>
      \o exit(4)

=============================================================================
