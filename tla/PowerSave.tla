------------------------------ MODULE PowerSave ------------------------------
(***************************************************************************)
(* The receive loops of fpm_power.  A worker that has received nothing for *)
(* idle_tmo clears old RX interrupts, enables the interrupts of its input  *)
(* queues, sleeps until one comes, disables them and polls again.  Packets *)
(* arrive, time passes and processing is stopped at any moment.            *)
(*                                                                         *)
(* The packet vector of pkt_io_recv() is the subject of Dispatch; here a   *)
(* received packet is gone.  The device and ODP are external.              *)
(***************************************************************************)
EXTENDS Naturals

CONSTANTS
  num_pktin,      \* the number of input queues
  Burst,          \* PKT_BURST_SIZE
  MaxPkts,        \* bound: packets that arrive on a queue
  LevelQueues     \* the queues of level-triggered devices: enabling the
                  \* interrupt raises it if the queue already holds packets

ASSUME QueuesAssumption == num_pktin \in Nat \ {0}

ASSUME BoundsAssumption == Burst \in Nat \ {0} /\ MaxPkts \in Nat

ASSUME DeviceAssumption == LevelQueues \subseteq 1..num_pktin

VARIABLES
  pc,         \* where the worker is
  i,          \* the queue it is dealing with
  received,   \* pkt_sum # 0
  idle,       \* is_idling, and whether idle_tmo has passed since
  rx,         \* packets in each queue
  arrived,    \* packets that have arrived on each queue
  armed,      \* queues whose interrupt is enabled
  events,     \* queues with an interrupt event to be read
  running     \* the processing state

vars == <<pc, i, received, idle, rx, arrived, armed, events, running>>
env == <<rx, arrived, armed, events, running>>

Queues == 1..num_pktin

Locations == {"register", "test", "poll", "rest", "clear", "arm", "wait",
              "disarm", "done"}

\* Whether the interrupts are enabled when a device starts is up to its driver.
Init ==
  /\ pc = "register" /\ i = 1
  /\ received = FALSE /\ idle = "no"
  /\ rx = [q \in Queues |-> 0] /\ arrived = [q \in Queues |-> 0]
  /\ armed \in SUBSET Queues /\ events = {}
  /\ running = TRUE

-----------------------------------------------------------------------------

pktin_intr_wait_register ==
  /\ pc = "register"
  /\ \/ /\ i < num_pktin /\ i' = i + 1 /\ pc' = "register"
     \/ /\ i = num_pktin /\ i' = 1 /\ pc' = "test"
     \/ /\ i' = i /\ pc' = "done"
  /\ UNCHANGED <<received, idle, env>>

LoopTest ==
  /\ pc = "test"
  /\ pc' = IF running THEN "poll" ELSE "done"
  /\ i' = 1 /\ received' = FALSE
  /\ UNCHANGED <<idle, env>>

\* Mutant: the last queue is not polled.
Poll_OffByOne ==
  LET n == IF rx[i] < Burst THEN rx[i] ELSE Burst
  IN  /\ pc = "poll"
      /\ IF i < num_pktin
           THEN rx' = [rx EXCEPT ![i] = @ - n] /\ received' = (received \/ n > 0)
           ELSE UNCHANGED <<rx, received>>
      /\ IF i < num_pktin THEN i' = i + 1 /\ pc' = "poll"
                          ELSE i' = 1 /\ pc' = "rest"
      /\ UNCHANGED <<idle, arrived, armed, events, running>>

\* odp_pktin_recv() on one queue after the other
Poll ==
  LET n == IF rx[i] < Burst THEN rx[i] ELSE Burst
  IN  /\ pc = "poll"
      /\ rx' = [rx EXCEPT ![i] = @ - n]
      /\ received' = (received \/ n > 0)
      /\ IF i < num_pktin THEN i' = i + 1 /\ pc' = "poll"
                          ELSE i' = 1 /\ pc' = "rest"
      /\ UNCHANGED <<idle, arrived, armed, events, running>>

\* Mutant: every empty round restarts the idle time.
Rest_Restart ==
  /\ pc = "rest"
  /\ pc' = "test"
  /\ idle' = IF received THEN "no" ELSE "fresh"
  /\ UNCHANGED <<i, received, env>>

\* What the round has received decides.  idling_start is set when idling
\* begins and not again after a sleep.
Rest ==
  /\ pc = "rest"
  /\ \/ /\ received /\ idle' = "no" /\ pc' = "test"
     \/ /\ ~received /\ idle = "no" /\ idle' = "fresh" /\ pc' = "test"
     \/ /\ ~received /\ idle = "fresh" /\ idle' = "fresh" /\ pc' = "test"
     \/ /\ ~received /\ idle = "long" /\ idle' = "long" /\ pc' = "clear"
  /\ UNCHANGED <<i, received, env>>

\* odp_pktin_intr_wait() without waiting reads the events there are, and is
\* called until there are none, it fails, or processing is stopped.
loop_intr_clear ==
  /\ pc = "clear"
  /\ \/ running /\ events # {} /\ pc' = "clear" /\ events' = {}
     \/ (running => events = {}) /\ pc' = "arm" /\ UNCHANGED events
     \/ running /\ pc' = "arm" /\ UNCHANGED events      \* it fails
  /\ UNCHANGED <<i, received, idle, rx, arrived, armed, running>>

\* Mutant: the interrupt of the last queue is not enabled.
Enable_OffByOne ==
  /\ pc = "arm"
  /\ \/ /\ IF i < num_pktin
             THEN /\ armed' = armed \cup {i}
                  /\ events' = IF i \in LevelQueues /\ rx[i] > 0 THEN events \cup {i}
                                                            ELSE events
                  /\ i' = i + 1 /\ pc' = "arm"
             ELSE i' = 1 /\ pc' = "wait" /\ UNCHANGED <<armed, events>>
     \/ /\ i' = i /\ pc' = "done" /\ UNCHANGED <<armed, events>>
  /\ UNCHANGED <<received, idle, rx, arrived, running>>

\* Mutant: old interrupts are cleared after the new ones are enabled.
Enable_ThenClear ==
  /\ pc = "arm"
  /\ \/ /\ armed' = armed \cup {i}
        /\ events' = {}
        /\ IF i < num_pktin THEN i' = i + 1 /\ pc' = "arm"
                            ELSE i' = 1 /\ pc' = "wait"
     \/ /\ i' = i /\ pc' = "done" /\ UNCHANGED <<armed, events>>
  /\ UNCHANGED <<received, idle, rx, arrived, running>>

\* pktin_intr_set(TRUE); a failure ends the worker.
Enable ==
  /\ pc = "arm"
  /\ \/ /\ armed' = armed \cup {i}
        /\ events' = IF i \in LevelQueues /\ rx[i] > 0 THEN events \cup {i} ELSE events
        /\ IF i < num_pktin THEN i' = i + 1 /\ pc' = "arm"
                            ELSE i' = 1 /\ pc' = "wait"
     \/ /\ i' = i /\ pc' = "done" /\ UNCHANGED <<armed, events>>
  /\ UNCHANGED <<received, idle, rx, arrived, running>>

\* Mutant: the loop waits for an interrupt also when processing is stopped.
loop_intr_wait_Deaf ==
  /\ pc = "wait"
  /\ events' = {}
  /\ pc' = IF events # {} THEN "disarm" ELSE "wait"
  /\ UNCHANGED <<i, received, idle, rx, arrived, armed, running>>

\* A timeout of pkt_tmo changes nothing: the worker waits again.
loop_intr_wait ==
  /\ pc = "wait"
  /\ pc' = "disarm"
  /\ \/ ~running /\ UNCHANGED events
     \/ running /\ events # {} /\ events' = {}
  /\ UNCHANGED <<i, received, idle, rx, arrived, armed, running>>

\* odp_pktin_intr_wait() fails: as good as an interrupt.
WaitError ==
  /\ pc = "wait"
  /\ running
  /\ pc' = "disarm"
  /\ UNCHANGED <<i, received, idle, env>>

\* pktin_intr_set(FALSE); a failure ends the worker.
Disable ==
  /\ pc = "disarm"
  /\ \/ /\ armed' = armed \ {i}
        /\ IF i < num_pktin THEN i' = i + 1 /\ pc' = "disarm"
                            ELSE i' = 1 /\ pc' = "test"
     \/ /\ i' = i /\ pc' = "done" /\ UNCHANGED armed
  /\ UNCHANGED <<received, idle, rx, arrived, events, running>>

-----------------------------------------------------------------------------

Arrive(q) ==
  /\ arrived[q] < MaxPkts
  /\ arrived' = [arrived EXCEPT ![q] = @ + 1]
  /\ rx' = [rx EXCEPT ![q] = @ + 1]
  /\ events' = IF q \in armed THEN events \cup {q} ELSE events
  /\ UNCHANGED <<pc, i, received, idle, armed, running>>

\* idle_tmo passes.
Elapse ==
  /\ idle = "fresh"
  /\ idle' = "long"
  /\ UNCHANGED <<pc, i, received, env>>

StopProcessing ==
  /\ running
  /\ running' = FALSE
  /\ UNCHANGED <<pc, i, received, idle, rx, arrived, armed, events>>

Work ==
  \/ pktin_intr_wait_register \/ LoopTest \/ Poll \/ Rest
  \/ loop_intr_clear \/ Enable \/ loop_intr_wait \/ Disable

Exited == pc = "done" /\ UNCHANGED vars

Next ==
  \/ Work
  \/ WaitError
  \/ \E q \in Queues : Arrive(q)
  \/ Elapse
  \/ StopProcessing
  \/ Exited

Spec == Init /\ [][Next]_vars

\* The worker has a core of its own, and time passes.
FairSpec == Spec /\ WF_vars(Work) /\ WF_vars(Elapse)

-----------------------------------------------------------------------------

FlagsOK == received \in BOOLEAN /\ running \in BOOLEAN

DataOK ==
  /\ pc \in Locations /\ i \in Queues
  /\ idle \in {"no", "fresh", "long"}
  /\ rx \in [Queues -> Nat] /\ arrived \in [Queues -> Nat]
  /\ armed \subseteq Queues /\ events \subseteq Queues

\* Every variable keeps its type.
TypeOK == FlagsOK /\ DataOK

\* The interrupt of q is enabled and no packet of q goes unannounced.
Announced(q) ==
  q \in armed /\ (q \in LevelQueues /\ rx[q] > 0 => q \in events)

\* The inductive form of SleeperWakes: pktin_intr_set() starts with the first
\* queue, and the queues it has dealt with stay announced while it goes on.
WakeInv ==
  /\ pc \in {"test", "rest", "clear", "wait"} => i = 1
  /\ pc = "arm" => \A q \in Queues : q < i => Announced(q)
  /\ pc = "wait" => \A q \in Queues : Announced(q)

\* No lost wake-up: a worker that sleeps in loop_intr_wait() while a packet of a
\* level-triggered device is queued has an interrupt event to wake it, whenever
\* the packet arrived, the time between the last poll and the enabling of the
\* interrupts included.
SleeperWakes ==
  pc = "wait" /\ (\E q \in LevelQueues : rx[q] > 0) => events # {}

\* example/README: "The workers are awakened through the use of RX interrupts."
\* A packet of such a device is received, if the worker is not stopped.
PacketsReceived ==
  \A q \in LevelQueues : rx[q] > 0 ~> (rx[q] = 0 \/ ~running \/ pc = "done")

\* example/README: workers sleep "when there is no packet coming for a long
\* time", and not just once.
SleepsWhenIdle ==
  <>[](\A q \in Queues : rx[q] = 0) => []<>(pc \in {"wait", "done"})

\* A worker notices the end of the processing, asleep or not.
WorkerStops == ~running ~> pc = "done"

\* Also the queues whose devices do not raise a late interrupt are served: the
\* next interrupt of any queue brings the worker to all of them.
InterruptServesAll ==
  \A q \in Queues :
    (rx[q] > 0 /\ events # {} /\ pc = "wait")
      ~> (rx[q] = 0 \/ ~running \/ pc = "done")

=============================================================================
