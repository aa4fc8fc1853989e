--------------------------- MODULE PowerSaveProofs ---------------------------
(***************************************************************************)
(* No worker of fpm_power misses its wake-up by a level-triggered device,  *)
(* for any number of queues, any mix of devices, any burst size and any    *)
(* number of packets.                                                      *)
(***************************************************************************)
EXTENDS PowerSave, TLAPS

IInv == TypeOK /\ WakeInv

\* The worker starts with nothing received and nothing enabled by itself.
LEMMA InitIInv == Init => IInv
<1> SUFFICES ASSUME Init PROVE IInv
  OBVIOUS
<1>1. FlagsOK
  BY Zenon DEF Init, FlagsOK
<1>2. DataOK
  BY QueuesAssumption DEF Init, DataOK, Locations, Queues
<1>3. WakeInv
  BY DEF Init, WakeInv
<1> QED
  BY <1>1, <1>2, <1>3 DEF IInv, TypeOK

\* The flags stay Boolean.
LEMMA FlagsStep == FlagsOK /\ [Next]_vars => FlagsOK'
<1> SUFFICES ASSUME FlagsOK, [Next]_vars PROVE FlagsOK'
  OBVIOUS
<1>1. CASE Work
  <2>1. CASE LoopTest
    BY <2>1, Zenon DEF LoopTest, FlagsOK, env
  <2>2. CASE Poll
    BY <2>2, Zenon DEF Poll, FlagsOK
  <2> QED
    BY <1>1, <2>1, <2>2, Zenon
    DEF Work, pktin_intr_wait_register, Rest, loop_intr_clear, Enable,
        loop_intr_wait, Disable, FlagsOK, env
<1> QED
  BY <1>1, Zenon DEF Next, WaitError, Arrive, Elapse, StopProcessing, Exited,
                     FlagsOK, env, vars

\* Every step keeps the types of the rest.
LEMMA DataStep == DataOK /\ [Next]_vars => DataOK'
<1> SUFFICES ASSUME DataOK, [Next]_vars PROVE DataOK'
  OBVIOUS
<1> USE QueuesAssumption, BoundsAssumption DEF DataOK, Queues, Locations, env
<1>1. CASE pktin_intr_wait_register
  BY <1>1, SMTT(30) DEF pktin_intr_wait_register
<1>2. CASE LoopTest
  BY <1>2, SMTT(30) DEF LoopTest
<1>3. CASE Poll
  <2> DEFINE n == IF rx[i] < Burst THEN rx[i] ELSE Burst
  <2>1. rx[i] - n \in Nat /\ rx' = [rx EXCEPT ![i] = rx[i] - n]
    BY <1>3 DEF Poll
  <2>2. rx' \in [Queues -> Nat]
    BY <2>1
  <2>3. pc' \in Locations /\ i' \in Queues
    BY <1>3 DEF Poll
  <2> QED
    BY <1>3, <2>2, <2>3 DEF Poll
<1>4. CASE Rest
  BY <1>4 DEF Rest
<1>5. CASE loop_intr_clear
  BY <1>5 DEF loop_intr_clear
<1>6. CASE Enable
  <2>1. pc' \in Locations /\ i' \in Queues
    BY <1>6 DEF Enable
  <2>2. armed' \subseteq Queues /\ events' \subseteq Queues
    BY <1>6 DEF Enable
  <2> QED
    BY <1>6, <2>1, <2>2 DEF Enable
<1>7. CASE loop_intr_wait
  BY <1>7 DEF loop_intr_wait
<1>8. CASE Disable
  <2>1. pc' \in Locations /\ i' \in Queues
    BY <1>8 DEF Disable
  <2>2. armed' \subseteq Queues
    BY <1>8 DEF Disable
  <2> QED
    BY <1>8, <2>1, <2>2 DEF Disable
<1>9. CASE WaitError
  BY <1>9 DEF WaitError
<1>10. ASSUME NEW q \in Queues, Arrive(q) PROVE DataOK'
  <2>1. rx' \in [Queues -> Nat] /\ arrived' \in [Queues -> Nat]
    <3> HIDE DEF Queues
    <3>1. /\ rx' = [rx EXCEPT ![q] = rx[q] + 1]
          /\ arrived' = [arrived EXCEPT ![q] = arrived[q] + 1]
      BY <1>10 DEF Arrive
    <3>2. rx[q] + 1 \in Nat /\ arrived[q] + 1 \in Nat
      OBVIOUS
    <3> QED
      BY <3>1, <3>2
  <2>2. events' \subseteq Queues
    BY <1>10 DEF Arrive
  <2> QED
    BY <1>10, <2>1, <2>2 DEF Arrive
<1>11. CASE Elapse
  BY <1>11 DEF Elapse
<1>12. CASE StopProcessing
  BY <1>12 DEF StopProcessing
<1>13. CASE Exited \/ UNCHANGED vars
  BY <1>13 DEF Exited, vars
<1> QED
  BY <1>1, <1>2, <1>3, <1>4, <1>5, <1>6, <1>7, <1>8, <1>9, <1>10, <1>11,
     <1>12, <1>13 DEF Next, Work

\* Every step keeps the types.
LEMMA TypeStep == TypeOK /\ [Next]_vars => TypeOK'
  BY FlagsStep, DataStep DEF TypeOK

\* A packet that arrives on a queue whose interrupt is enabled is announced.
LEMMA ArriveAnnounced ==
  ASSUME TypeOK, NEW p \in Queues, Arrive(p), NEW q \in Queues, Announced(q)
  PROVE  Announced(q)'
  BY DEF TypeOK, DataOK, Arrive, Announced

\* Every step of the devices and the worker keeps the invariant.
LEMMA WakeStep == IInv /\ [Next]_vars => WakeInv'
<1> SUFFICES ASSUME IInv, [Next]_vars PROVE WakeInv'
  OBVIOUS
<1> USE QueuesAssumption DEF IInv, WakeInv
<1>1. CASE pktin_intr_wait_register
  BY <1>1 DEF pktin_intr_wait_register
<1>2. CASE LoopTest
  BY <1>2 DEF LoopTest
<1>3. CASE Poll
  BY <1>3 DEF Poll
<1>4. CASE Rest
  BY <1>4 DEF Rest
<1>5. CASE loop_intr_clear
  BY <1>5 DEF loop_intr_clear, TypeOK, DataOK, Queues
<1>6. CASE Enable
  <2>1. CASE pc' = "done"
    BY <2>1
  <2>2. CASE pc' # "done"
    <3>1. /\ pc = "arm" /\ rx' = rx
          /\ armed' = armed \cup {i}
          /\ events' = IF i \in LevelQueues /\ rx[i] > 0 THEN events \cup {i} ELSE events
      BY <1>6, <2>2 DEF Enable
    <3>2. \A q \in Queues : q < i \/ q = i => Announced(q)'
      BY <3>1 DEF Announced, TypeOK, DataOK
    <3>3. CASE i < num_pktin
      <4>1. pc' = "arm" /\ i' = i + 1
        BY <1>6, <2>2, <3>3 DEF Enable
      <4>2. \A q \in Queues : q < i' => q < i \/ q = i
        BY <4>1 DEF TypeOK, DataOK, Queues
      <4> QED
        BY <4>1, <4>2, <3>2 DEF Queues
    <3>4. CASE ~(i < num_pktin)
      <4>1. pc' = "wait" /\ i' = 1
        BY <1>6, <2>2, <3>4 DEF Enable
      <4>2. \A q \in Queues : q < i \/ q = i
        BY <3>4 DEF TypeOK, DataOK, Queues
      <4> QED
        BY <4>1, <4>2, <3>2 DEF Queues
    <3> QED
      BY <3>3, <3>4
  <2> QED
    BY <2>1, <2>2
<1>7. CASE loop_intr_wait
  BY <1>7 DEF loop_intr_wait
<1>8. CASE Disable
  BY <1>8 DEF Disable
<1>9. CASE WaitError
  BY <1>9 DEF WaitError
<1>10. ASSUME NEW p \in Queues, Arrive(p) PROVE WakeInv'
  <2>1. pc' = pc /\ i' = i
    BY <1>10 DEF Arrive
  <2>2. \A q \in Queues : Announced(q) => Announced(q)'
    BY <1>10, ArriveAnnounced
  <2> QED
    BY <2>1, <2>2 DEF Queues
<1>11. CASE Elapse
  BY <1>11 DEF Elapse, env, Announced
<1>12. CASE StopProcessing
  BY <1>12 DEF StopProcessing, Announced
<1>13. CASE Exited \/ UNCHANGED vars
  BY <1>13 DEF Exited, vars, Announced
<1> QED
  BY <1>1, <1>2, <1>3, <1>4, <1>5, <1>6, <1>7, <1>8, <1>9, <1>10, <1>11,
     <1>12, <1>13 DEF Next, Work

\* The receive loop of fpm_power keeps its variables' types.
THEOREM TypeCorrect == Spec => []TypeOK
<1>1. Init => TypeOK
  BY InitIInv DEF IInv
<1> QED
  BY <1>1, TypeStep, PTL DEF Spec

\* What pktin_intr_set() has enabled stays announced until the worker sleeps.
THEOREM WakeInvariance == Spec => []WakeInv
<1>1. IInv /\ [Next]_vars => IInv'
  BY TypeStep, WakeStep DEF IInv
<1>2. Init => IInv
  BY InitIInv
<1>3. IInv => WakeInv
  BY DEF IInv
<1> QED
  BY <1>1, <1>2, <1>3, PTL DEF Spec

\* No worker sleeps in loop_intr_wait() on a queued packet without an interrupt
\* event that wakes it.
THEOREM NoLostWakeUp == Spec => []SleeperWakes
<1>1. WakeInv => SleeperWakes
  BY DeviceAssumption DEF WakeInv, SleeperWakes, Announced, Queues
<1> QED
  BY <1>1, WakeInvariance, PTL

=============================================================================
