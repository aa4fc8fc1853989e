------------------------------ MODULE Lifecycle ------------------------------
(***************************************************************************)
(* The life of an NFP example process: its main() thread, the threads it   *)
(* creates, the processing state that stops them, Ctrl+C and the CLI       *)
(* shutdown command, and the resources that main() acquires and releases.  *)
(*                                                                         *)
(* main() follows Code[app] (see AppMains); the other threads interleave   *)
(* with it.  The NFP and ODP libraries are external.                       *)
(***************************************************************************)
EXTENDS LifecycleOps

CONSTANTS
  Apps,       \* the applications examined
  Code,       \* Code[a]: the calls of the main() of a
  TidyApps,   \* the ones whose main() is to leave nothing behind
  StoppableApps,  \* the ones all of whose threads poll the processing state
  Workers,    \* the threads of the group "workers"
  Singles,    \* the names of the groups that have one thread
  Resources   \* what main() acquires and releases

VARIABLES
  app,        \* which application this process runs
  failed,     \* the position of the call of main() that failed, 0 for none
  line,       \* the calls of main(): made up to pc, to be made from there
  pc,         \* the next call of main()
  res,        \* whether each resource is held
  thr,        \* where each thread is
  running,    \* the processing state, *nfp_get_processing_state()
  handler,    \* SIGINT is caught by nfpexpl_sigfunction_stop()
  killed      \* the process was ended by an uncaught SIGINT

vars == <<app, failed, line, pc, res, thr, running, handler, killed>>

Threads == Workers \cup Singles

Group(g) == IF g = "workers" THEN Workers ELSE {g} \cap Singles

\* mcasttest() waits for an interface address before its receive loop, and
\* does not look at the processing state while it does.
AddressWaiters == {"mcast"}

\* A thread whose function returns by itself: the ioctl test, which stops the
\* processing at its end.
Stoppers == {"ioctl"}

Live == {"started", "running"}

Made == Live \cup {"exited"}

Ended == killed \/ pc > Len(line)

-----------------------------------------------------------------------------

Init ==
  /\ app \in Apps
  /\ failed = 0
  /\ line = Code[app]
  /\ pc = 1
  /\ res = [r \in Resources |-> "none"]
  /\ thr = [t \in Threads |-> "none"]
  /\ running = FALSE
  /\ handler = FALSE
  /\ killed = FALSE

\* main() is about to make a call of the given kind.
At(op) == ~Ended /\ line[pc].op = op

Advance == pc' = pc + 1

MainCall ==
  /\ At("call")
  /\ Advance
  /\ UNCHANGED <<app, failed, line, res, thr, running, handler, killed>>

nfpexpl_sigaction_set ==
  /\ At("sigaction")
  /\ Advance
  /\ handler' = TRUE
  /\ UNCHANGED <<app, failed, line, res, thr, running, killed>>

\* nfp_initialize() starts the processing; the other resources do not touch it.
MainAcquire ==
  /\ At("acquire")
  /\ Advance
  /\ res' = [r \in Resources |-> IF r \in line[pc].res THEN "held" ELSE res[r]]
  /\ running' = (running \/ "nfp" \in line[pc].res)
  /\ UNCHANGED <<app, failed, line, thr, handler, killed>>

\* Mutant: the clean-up is entered once more.
MainRelease_Again ==
  /\ At("release")
  /\ pc' \in {pc, pc + 1}
  /\ res' = [r \in Resources |-> IF r \in line[pc].res THEN "freed" ELSE res[r]]
  /\ UNCHANGED <<app, failed, line, thr, running, handler, killed>>

\* Mutant: parse_args_cleanup() frees nothing.
MainRelease_KeepArgs ==
  /\ At("release")
  /\ Advance
  /\ res' = [r \in Resources |->
               IF r \in line[pc].res \ {"args"} THEN "freed" ELSE res[r]]
  /\ UNCHANGED <<app, failed, line, thr, running, handler, killed>>

MainRelease ==
  /\ At("release")
  /\ Advance
  /\ res' = [r \in Resources |-> IF r \in line[pc].res THEN "freed" ELSE res[r]]
  /\ UNCHANGED <<app, failed, line, thr, running, handler, killed>>

\* Mutant: the creation of the workers stops one short of the group.
nfp_thread_create_OneShort(t) ==
  /\ At("create")
  /\ t \in Group(line[pc].grp)
  /\ thr[t] \notin Made
  /\ thr' = [thr EXCEPT ![t] = "started"]
  /\ Advance
  /\ UNCHANGED <<app, failed, line, res, running, handler, killed>>

\* nfp_thread_create(): one thread at a time, any of which may be running
\* before the next one is created.
nfp_thread_create(t) ==
  /\ At("create")
  /\ t \in Group(line[pc].grp)
  /\ thr[t] \notin Made
  /\ thr' = [thr EXCEPT ![t] = "started"]
  /\ IF \A u \in Group(line[pc].grp) \ {t} : thr[u] \in Made
       THEN Advance
       ELSE UNCHANGED pc
  /\ UNCHANGED <<app, failed, line, res, running, handler, killed>>

MainUse ==
  /\ At("use")
  /\ Advance
  /\ UNCHANGED <<app, failed, line, res, thr, running, handler, killed>>

\* Mutant: a join that does not wait.
nfp_thread_join_NoWait ==
  /\ At("join") \/ At("joinmade")
  /\ Advance
  /\ thr' = [t \in Threads |->
               IF t \in Group(line[pc].grp) /\ thr[t] = "exited"
                 THEN "joined" ELSE thr[t]]
  /\ UNCHANGED <<app, failed, line, res, running, handler, killed>>

\* nfp_thread_join() returns when all threads have terminated.
nfp_thread_join ==
  /\ At("join") \/ At("joinmade")
  /\ \A t \in Group(line[pc].grp) : thr[t] \notin Live
  /\ Advance
  /\ thr' = [t \in Threads |->
               IF t \in Group(line[pc].grp) /\ thr[t] = "exited"
                 THEN "joined" ELSE thr[t]]
  /\ UNCHANGED <<app, failed, line, res, running, handler, killed>>

MainStop ==
  /\ At("stop")
  /\ Advance
  /\ running' = FALSE
  /\ UNCHANGED <<app, failed, line, res, thr, handler, killed>>

print_global_stats ==
  /\ At("await")
  /\ ~running
  /\ Advance
  /\ UNCHANGED <<app, failed, line, res, thr, running, handler, killed>>

\* main() itself runs a network test; when that ends is up to the peer.
MainTest ==
  /\ At("test")
  /\ Advance
  /\ UNCHANGED <<app, failed, line, res, thr, running, handler, killed>>

\* A call fails and main() turns to its failure branch.
MainFail ==
  /\ ~Ended
  /\ failed = 0
  /\ line[pc].may
  /\ failed' = pc
  /\ line' = Branch(line, pc)
  /\ Advance
  /\ UNCHANGED <<app, res, thr, running, handler, killed>>

-----------------------------------------------------------------------------

\* Ctrl+C.  The handler calls nfp_stop_processing(), which has no processing
\* to stop before nfp_initialize(); without a handler the process ends.
Sigint ==
  /\ ~Ended
  /\ \/ handler /\ running /\ running' = FALSE /\ UNCHANGED killed
     \/ ~handler /\ killed' = TRUE /\ UNCHANGED running
  /\ UNCHANGED <<app, failed, line, pc, res, thr, handler>>

\* The shutdown command of the CLI, enabled by default.
Shutdown ==
  /\ ~Ended
  /\ res["nfp"] = "held"
  /\ running
  /\ running' = FALSE
  /\ UNCHANGED <<app, failed, line, pc, res, thr, handler, killed>>

\* A thread function: its set-up, which may fail, and its loop.
ThreadEnter(t) ==
  /\ ~Ended
  /\ thr[t] = "started"
  /\ thr' = [thr EXCEPT ![t] = "running"]
  /\ UNCHANGED <<app, failed, line, pc, res, running, handler, killed>>

ThreadAbort(t) ==
  /\ ~Ended
  /\ thr[t] = "started"
  /\ thr' = [thr EXCEPT ![t] = "exited"]
  /\ UNCHANGED <<app, failed, line, pc, res, running, handler, killed>>

\* Mutant: perf_client() does not look at the processing state.
ThreadLeave_DeafPerf(t) ==
  /\ ~Ended
  /\ thr[t] = "running"
  /\ ~running \/ t \in Stoppers
  /\ thr' = [thr EXCEPT ![t] = IF t = "perf" THEN "running" ELSE "exited"]
  /\ running' = (running /\ t \notin Stoppers)
  /\ UNCHANGED <<app, failed, line, pc, res, handler, killed>>

ThreadLeave(t) ==
  /\ ~Ended
  /\ thr[t] = "running"
  /\ ~running \/ t \in Stoppers
  /\ thr' = [thr EXCEPT ![t] = "exited"]
  /\ running' = (running /\ t \notin Stoppers)
  /\ UNCHANGED <<app, failed, line, pc, res, handler, killed>>

\* The process is gone.
Gone == Ended /\ UNCHANGED vars

MainOk ==
  \/ MainCall \/ nfpexpl_sigaction_set \/ MainAcquire \/ MainRelease
  \/ \E t \in Threads : nfp_thread_create(t)
  \/ MainUse \/ nfp_thread_join \/ MainStop \/ print_global_stats

Next ==
  \/ MainOk
  \/ MainFail
  \/ MainTest
  \/ Sigint
  \/ Shutdown
  \/ \E t \in Threads : ThreadEnter(t) \/ ThreadAbort(t) \/ ThreadLeave(t)
  \/ Gone

Spec == Init /\ [][Next]_vars

\* main() and every thread keep being scheduled, and each call returns.  An
\* address waiter enters its loop only if somebody configures the address,
\* which nothing in the program guarantees.
Fairness ==
  /\ WF_vars(MainOk)
  /\ \A t \in Threads : WF_vars(ThreadLeave(t))
  /\ \A t \in Threads \ AddressWaiters : WF_vars(ThreadEnter(t))

FairSpec == Spec /\ Fairness

-----------------------------------------------------------------------------

\* Every variable keeps its type.
TypeOK ==
  /\ app \in Apps
  /\ failed \in {0} \cup FailPoints(Code[app])
  /\ line = Line(Code[app], failed)
  /\ pc \in 1..(Len(line) + 1) /\ failed < pc
  /\ res \in [Resources -> {"none", "held", "freed"}]
  /\ thr \in [Threads -> Made \cup {"none", "joined"}]
  /\ running \in BOOLEAN /\ handler \in BOOLEAN /\ killed \in BOOLEAN

\* Call j has handed its resources over; a creation does so thread by thread.
HandedBy(j) ==
  /\ j \in DOMAIN line
  /\ line[j].op = "create" \/ (line[j].op = "use" /\ j < pc)

\* No live thread ever works on a resource that main() does not hold: when a
\* failure branch or the ordinary shutdown calls nfp_terminate(), destroys a
\* channel or closes a socket, every thread it was handed to has exited.
NoUseAfterRelease ==
  ~killed =>
    \A j \in 1..pc :
      HandedBy(j) =>
        \A t \in Group(line[j].grp), r \in line[j].res :
          thr[t] \in Live => res[r] = "held"

\* Nothing is released twice or without having been acquired: nfp_terminate()
\* runs at most once, and only after nfp_initialize() succeeded.
ReleaseHeldOnly ==
  At("release") => \A r \in line[pc].res : res[r] = "held"

\* A table of threads is joined in full only if all of its threads were
\* created and none has been joined already.
JoinMadeOnly ==
  app \in TidyApps /\ At("join") => \A t \in Group(line[pc].grp) : thr[t] \in Made

\* When main() returns, everything it acquired has been given back and every
\* thread it created has been joined.
CleanExit ==
  (app \in TidyApps /\ Ended /\ ~killed) =>
    /\ \A r \in Resources : res[r] # "held"
    /\ \A t \in Threads : thr[t] \in {"none", "joined"}

\* include/api/nfp_init.h:820 on nfp_terminate(): "This function must be called
\* only once in an NFP control thread before exiting application."
TerminatedOnce ==
  /\ At("release") /\ "nfp" \in line[pc].res => res["nfp"] = "held"
  /\ Ended /\ ~killed => res["nfp"] # "held"

\* Once processing is stopped while NFP is up, the application comes to an
\* end: no join waits for a thread that does not notice.
StopEnds ==
  (app \in StoppableApps /\ res["nfp"] = "held" /\ ~running) ~> Ended

=============================================================================
