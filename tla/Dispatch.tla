------------------------------ MODULE Dispatch ------------------------------
(***************************************************************************)
(* The dispatch loops of the worker threads: a worker fetches events from  *)
(* the ODP scheduler, polls its packet input queues in bursts, collects    *)
(* packets in a packet vector and hands them to the NFP stack, and forces  *)
(* out what the stack left pending for transmission.  A kind (see          *)
(* Dispatchers) says which of these steps the loop of an application has.  *)
(*                                                                         *)
(* ODP, the stack and the packet vector's functions are external.          *)
(***************************************************************************)
EXTENDS Naturals, Sequences, FiniteSetsExt

CONSTANTS
  Kinds,      \* the kinds of loops examined
  Queues,     \* the packet input queues of the worker
  Pktin,      \* the order in which it polls them
  Burst,      \* PKT_BURST_SIZE
  VecSize,    \* NFP_PKT_VECTOR_SIZE
  MaxPkts,    \* bound: packets that arrive
  MaxEvents,  \* bound: events that the scheduler delivers
  MaxInputs   \* bound: packets and events together

ASSUME DispatchAssumption ==
  /\ Pktin \in Seq(Queues) /\ "sched" \notin Queues
  /\ Burst \in Nat \ {0} /\ VecSize \in Nat \ {0} /\ MaxEvents \in Nat

\* A loop that collects scheduled packets in the vector, and polls, collects
\* the packets that it receives too.
ASSUME KindsAssumption == \A k \in Kinds : k.evvec /\ k.poll => k.vec

VARIABLES
  kind,       \* the kind of this worker
  running,    \* the processing state
  exit_threads,  \* the flag that tcpperf ends its loops with
  pc,         \* where the loop is
  i,          \* the queue to be polled
  sum,        \* packets received in this round
  arrived,    \* packets that have arrived, by queue
  rx,         \* the packet input queues
  posted,     \* the types of the events given to the scheduler
  sched,      \* the events it holds
  evs,        \* events fetched, to be handled
  haspkts,    \* has_packets: one of the events of this round was a packet
  tbl,        \* pkt_tbl: packets received, to be handled
  vec,        \* the packet vector
  out,        \* the packets handed to the stack so far
  pending     \* the stack holds packets back for a full burst

worker == <<pc, i, sum, evs, haspkts, tbl, vec, out, pending>>
vars == <<kind, running, exit_threads, arrived, rx, posted, sched, worker>>

EventTypes == {"pkt", "tmo", "other"}

\* Scheduled packets are told from the received ones by their source.
Packet(src, n) == [src |-> src, n |-> n]

AtMost(n, s) == IF Len(s) < n THEN Len(s) ELSE n

Front(n, s) == SubSeq(s, 1, AtMost(n, s))

Behind(n, s) == SubSeq(s, AtMost(n, s) + 1, Len(s))

Init ==
  /\ kind \in Kinds
  /\ running = TRUE /\ exit_threads = FALSE
  /\ pc = "test" /\ i = 1 /\ sum = 0
  /\ arrived = [q \in Queues |-> 0]
  /\ rx = [q \in Queues |-> <<>>]
  /\ posted = <<>> /\ sched = <<>> /\ evs = <<>> /\ haspkts = FALSE
  /\ tbl = <<>> /\ vec = <<>> /\ out = <<>>
  /\ pending = FALSE

-----------------------------------------------------------------------------

\* nfp_packet_input(): the stack takes a packet.
nfp_packet_input(p) ==
  /\ out' = Append(out, p)
  /\ pending' \in {pending /\ "pkt" \notin kind.send, "pkt" \notin kind.send}
  /\ UNCHANGED vec

\* nfp_packet_input_multi(), nfp_pkt_vector_init()
FlushVector(v) ==
  /\ out' = out \o v
  /\ pending' \in {pending, TRUE}
  /\ vec' = <<>>

\* nfp_pkt_vector_add(), which fails on a full vector: the packet is freed.
CollectPacket(p) ==
  \/ /\ Len(vec) = VecSize
     /\ UNCHANGED <<vec, out, pending>>
  \/ /\ Len(vec) + 1 = VecSize
     /\ FlushVector(Append(vec, p))
  \/ /\ Len(vec) + 1 < VecSize
     /\ vec' = Append(vec, p)
     /\ UNCHANGED <<out, pending>>

\* What the loop reads has been set: the loops of tcpperf do not look at the
\* processing state.
Stopped == IF kind.flag THEN exit_threads ELSE ~running

\* Mutant: it is read once, before the loop.
LoopTest_Stale ==
  /\ pc = "test"
  /\ pc' = "sched"
  /\ i' = 1 /\ sum' = 0 /\ haspkts' = FALSE
  /\ UNCHANGED <<kind, running, exit_threads, arrived, rx, posted, sched,
                 evs, tbl, vec, out, pending>>

\* while (*is_running), and while (!exit_threads) in tcpperf
LoopTest ==
  /\ pc = "test"
  /\ pc' = IF Stopped THEN "done" ELSE "sched"
  /\ i' = 1 /\ sum' = 0 /\ haspkts' = FALSE
  /\ UNCHANGED <<kind, running, exit_threads, arrived, rx, posted, sched,
                 evs, tbl, vec, out, pending>>

NoSchedule ==
  /\ pc = "sched"
  /\ kind.events = "none" \/ kind.sometimes
  /\ pc' = "poll"
  /\ UNCHANGED <<kind, running, exit_threads, arrived, rx, posted, sched,
                 i, sum, evs, haspkts, tbl, vec, out, pending>>

\* odp_schedule() or odp_schedule_multi(); handle_timeouts() of tcpperf calls
\* it again after every event, until there is none.
Schedule ==
  LET n == IF kind.events = "burst" THEN Burst ELSE 1
  IN  /\ \/ pc = "sched" /\ kind.events # "none"
         \/ pc = "events" /\ kind.events = "all" /\ evs = <<>> /\ sched # <<>>
      /\ kind.wait => sched # <<>>
      /\ evs' = Front(n, sched)
      /\ sched' = Behind(n, sched)
      /\ pc' = IF kind.skip /\ sched = <<>> THEN "test" ELSE "events"
      /\ UNCHANGED <<kind, running, exit_threads, arrived, rx, posted,
                     i, sum, haspkts, tbl, vec, out, pending>>

HandleEvent ==
  LET ev == Head(evs)
  IN  /\ pc = "events"
      /\ evs # <<>>
      /\ evs' = Tail(evs)
      /\ haspkts' = (haspkts \/ ev.type = "pkt")
      /\ \/ /\ ev.type = "pkt"
            /\ IF kind.evvec THEN CollectPacket(Packet("sched", ev.n))
                             ELSE nfp_packet_input(Packet("sched", ev.n))
         \/ /\ ev.type = "tmo"      \* nfp_timer_handle()
            /\ pending' \in {pending /\ "tmo" \notin kind.send,
                             "tmo" \notin kind.send}
            /\ UNCHANGED <<vec, out>>
         \/ /\ ev.type = "other"    \* odp_event_free()
            /\ UNCHANGED <<vec, out, pending>>
      /\ UNCHANGED <<kind, running, exit_threads, arrived, rx, posted, sched,
                     pc, i, sum, tbl>>

EventsDone ==
  /\ pc = "events"
  /\ evs = <<>>
  /\ kind.events = "all" => sched = <<>>
  /\ pc' = "poll"
  /\ pending' = (pending /\ ~(haspkts /\ "events" \in kind.send))
  /\ UNCHANGED <<kind, running, exit_threads, arrived, rx, posted, sched,
                 i, sum, evs, haspkts, tbl, vec, out>>

-----------------------------------------------------------------------------

Polling == pc = "poll" /\ kind.poll /\ i <= Len(Pktin)

\* Mutant: the last queue is never polled.
PollsDone_OffByOne == pc = "poll" /\ (kind.poll => i >= Len(Pktin))

PollsDone == pc = "poll" /\ (kind.poll => i > Len(Pktin))

\* odp_pktin_recv().  A failure gives no packets: except in tcpperf it is as if
\* what is queued had not arrived yet.
Receive ==
  /\ Polling
  /\ tbl' = [k \in 1..AtMost(Burst, rx[Pktin[i]]) |->
               Packet(Pktin[i], rx[Pktin[i]][k])]
  /\ rx' = [rx EXCEPT ![Pktin[i]] = Behind(Burst, @)]
  /\ sum' = sum + Len(tbl')
  /\ pc' = "pkts"
  /\ UNCHANGED <<kind, running, exit_threads, arrived, posted, sched,
                 i, evs, haspkts, vec, out, pending>>

ReceiveError ==
  /\ Polling
  /\ kind.err
  /\ pc' = "done"
  /\ exit_threads' = TRUE
  /\ UNCHANGED <<kind, running, arrived, rx, posted, sched,
                 i, sum, evs, haspkts, tbl, vec, out, pending>>

HandlePacket ==
  /\ pc = "pkts"
  /\ tbl # <<>>
  /\ tbl' = Tail(tbl)
  /\ IF kind.vec THEN CollectPacket(Head(tbl)) ELSE nfp_packet_input(Head(tbl))
  /\ UNCHANGED <<kind, running, exit_threads, arrived, rx, posted, sched,
                 pc, i, sum, evs, haspkts>>

\* Mutant: the last packet of a burst is forgotten.
PacketsDone_OffByOne ==
  /\ pc = "pkts"
  /\ Len(tbl) <= 1
  /\ tbl' = <<>>
  /\ i' = i + 1
  /\ pc' = "poll"
  /\ UNCHANGED <<kind, running, exit_threads, arrived, rx, posted, sched,
                 sum, evs, haspkts, vec, out, pending>>

PacketsDone ==
  /\ pc = "pkts"
  /\ tbl = <<>>
  /\ i' = i + 1
  /\ pc' = "poll"
  /\ UNCHANGED <<kind, running, exit_threads, arrived, rx, posted, sched,
                 sum, evs, haspkts, tbl, vec, out, pending>>

\* Mutant: a vector that is not full waits for the next round.
Flush_FullOnly ==
  /\ PollsDone
  /\ pc' = "send"
  /\ UNCHANGED <<kind, running, exit_threads, arrived, rx, posted, sched,
                 i, sum, evs, haspkts, tbl, vec, out, pending>>

\* The rest of the vector, if NFP_PKT_VECTOR_HAS_DATA.
Flush ==
  /\ PollsDone
  /\ pc' = "send"
  /\ IF vec # <<>> THEN FlushVector(vec) ELSE UNCHANGED <<vec, out, pending>>
  /\ UNCHANGED <<kind, running, exit_threads, arrived, rx, posted, sched,
                 i, sum, evs, haspkts, tbl>>

\* Mutant: with packets pending, the queues are polled again until they fill a
\* burst.
Send_FullBurst ==
  /\ pc = "send"
  /\ IF pending /\ sum < Burst
     THEN pc' = "poll" /\ i' = 1 /\ sum' = 0 /\ UNCHANGED pending
     ELSE /\ pc' = "test"
          /\ pending' = (pending /\ "loop" \notin kind.send)
          /\ UNCHANGED <<i, sum>>
  /\ UNCHANGED <<kind, running, exit_threads, arrived, rx, posted, sched,
                 evs, haspkts, tbl, vec, out>>

\* nfp_send_pending_pkt() at the end of a round; tcpperf skips it while there
\* is more to receive.
Send ==
  /\ pc = "send"
  /\ pc' = "test"
  /\ pending' = (pending /\ ("loop" \notin kind.send
                             \/ (kind.busy /\ sum >= Burst)))
  /\ UNCHANGED <<kind, running, exit_threads, arrived, rx, posted, sched,
                 i, sum, evs, haspkts, tbl, vec, out>>

-----------------------------------------------------------------------------

Arrivals == MapThenSumSet(LAMBDA q : arrived[q], Queues)
MoreInputs == Arrivals + Len(posted) < MaxInputs

\* The network and the scheduler's producers.
Arrive(q) ==
  /\ Arrivals < MaxPkts /\ MoreInputs
  /\ arrived' = [arrived EXCEPT ![q] = @ + 1]
  /\ rx' = [rx EXCEPT ![q] = Append(@, arrived[q] + 1)]
  /\ UNCHANGED <<kind, running, exit_threads, posted, sched, worker>>

Post(t) ==
  /\ Len(posted) < MaxEvents /\ MoreInputs
  /\ posted' = Append(posted, t)
  /\ sched' = Append(sched, [type |-> t, n |-> Len(posted')])
  /\ UNCHANGED <<kind, running, exit_threads, arrived, rx, worker>>

\* nfp_stop_processing(), called by the signal handlers and by the shutdown
\* command of the CLI.
StopProcessing ==
  /\ running
  /\ running' = FALSE
  /\ UNCHANGED <<kind, exit_threads, arrived, rx, posted, sched, worker>>

\* The signal handler of tcpperf sets the flag before it stops processing, and
\* so does any of its threads that ends.  The shutdown command does not.
ExitThreads ==
  /\ kind.flag /\ ~exit_threads
  /\ exit_threads' = TRUE
  /\ UNCHANGED <<kind, running, arrived, rx, posted, sched, worker>>

Work ==
  \/ LoopTest \/ NoSchedule \/ Schedule \/ HandleEvent \/ EventsDone
  \/ Receive \/ HandlePacket \/ PacketsDone \/ Flush \/ Send

Exited == pc = "done" /\ UNCHANGED vars

Next ==
  \/ Work
  \/ ReceiveError
  \/ \E q \in Queues : kind.poll /\ Arrive(q)
  \/ \E t \in EventTypes : kind.events # "none" /\ Post(t)
  \/ StopProcessing \/ ExitThreads
  \/ Exited

Spec == Init /\ [][Next]_vars

\* The thread keeps being scheduled, on its own core.
FairSpec == Spec /\ WF_vars(Work)

-----------------------------------------------------------------------------

\* Every variable keeps its type.
TypeOK ==
  /\ kind \in Kinds /\ running \in BOOLEAN /\ exit_threads \in BOOLEAN
  /\ pending \in BOOLEAN /\ haspkts \in BOOLEAN
  /\ pc \in {"test", "sched", "events", "poll", "pkts", "send", "done"}
  /\ i \in 1..(Len(Pktin) + 1) /\ sum \in 0..(Burst * i)
  /\ \A q \in Queues : arrived[q] \in Nat /\ Len(rx[q]) <= arrived[q]
  /\ Len(posted) <= MaxEvents /\ Len(sched) <= Len(posted)
  /\ Len(evs) <= Burst /\ Len(tbl) <= Burst /\ Len(vec) <= VecSize

\* The packets that the worker has taken so far, in the order in which they
\* are handed to the stack.
Taken == out \o vec \o tbl

\* The numbers of those that came from src.
Got(src) == {Taken[k].n : k \in {j \in 1..Len(Taken) : Taken[j].src = src}}

\* The events still to be handled.
Left == evs \o sched

\* The packets of a queue reach the stack in the order they arrived, each
\* once: the worker has taken them in order, it has taken all but those that
\* are still queued, and those are queued in order.  In particular the vector
\* is never full when a packet is added, so none is freed.  The same holds of
\* the packets that come through the scheduler.
InOrder ==
  LET queued(q) == Len(rx[q])
      handled == Len(posted) - Len(Left)
  IN  /\ TypeOK
      /\ \A j, k \in 1..Len(Taken) :
           j < k /\ Taken[j].src = Taken[k].src => Taken[j].n < Taken[k].n
      /\ \A q \in Queues :
           /\ Got(q) = 1..(arrived[q] - queued(q))
           /\ \A k \in 1..queued(q) : rx[q][k] = arrived[q] - queued(q) + k
      /\ Got("sched") = {n \in 1..handled : posted[n] = "pkt"}
      /\ \A k \in 1..Len(Left) :
           Left[k] = [type |-> posted[handled + k], n |-> handled + k]

\* Loops that force out what the stack holds in whatever way it came about: at
\* the end of every round, or at once if nothing is collected in the vector.
Flushing ==
  /\ ~kind.err
  /\ \/ "loop" \in kind.send /\ ~kind.busy
     \/ {"pkt", "tmo"} \subseteq kind.send /\ ~kind.vec /\ ~kind.evvec

\* A worker that leaves its loop leaves nothing behind: no packet in its burst
\* or its vector, no event, and nothing the stack holds for a full burst.
NothingLeftBehind ==
  (Flushing /\ pc = "done") => /\ evs = <<>> /\ tbl = <<>> /\ vec = <<>>
                               /\ ~pending

\* Every packet that arrives while the loop goes on is handed to the stack.
PacketsDelivered ==
  \A q \in Queues :
    (rx[q] # <<>>) ~> (Stopped \/ (rx[q] = <<>> /\ tbl = <<>> /\ vec = <<>>))

\* What the stack holds back is forced out, also when no packet follows.
PendingSent == (Flushing /\ pending) ~> ~pending

\* A loop ends once what it reads is set, whatever is queued: the processing
\* state, with which all processing loops stop (include/api/nfp_init.h:886), or
\* in tcpperf exit_threads.  The shutdown command alone does not end the loops
\* of tcpperf, and loops that wait in the scheduler need an event to notice.
LoopStops == (~kind.wait /\ Stopped) ~> pc = "done"

=============================================================================
