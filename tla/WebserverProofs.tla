--------------------------- MODULE WebserverProofs ---------------------------
(***************************************************************************)
(* The table of connections of the HTTP server stays exact, and its events *)
(* stay valid, for any size of the table and of a batch of events.         *)
(***************************************************************************)
EXTENDS Webserver, FiniteSetTheorems, SequenceTheorems, TLAPS

\* The loops have not been entered yet, or never will be.
Before == pc \in {"start", "create", "failed"}

\* Each mode has its own places, and only epoll has registrations.
ModeInv ==
  /\ use_epoll => pc \notin {"accept", "scan"}
  /\ ~use_epoll => interest = {}
  /\ pc \in {"create", "event"} => use_epoll

\* Nothing is watched before the loops, and events are fetched and handled
\* within one round.
QuietInv ==
  /\ pc = "start" => serv_fd = -1 /\ open = {}
  /\ pc = "create" => open = {serv_fd}
  /\ Before => \A s \in Slots : connections[s] = -1
  /\ Before => interest = {}
  /\ pc # "event" => events = <<>>
  /\ pc = "done" => interest = {} /\ open = {} /\ \A s \in Slots : connections[s] = -1

\* The listening socket is open during the loops; it has the first slot, and
\* only that, with epoll, and none with select.
ServerInv ==
  ~Ended /\ pc # "start" =>
    /\ serv_fd \in open
    /\ pc # "create" =>
         IF use_epoll THEN connections[0] = serv_fd
                      ELSE \A s \in Slots : connections[s] # serv_fd

\* The connections in the table are the open ones, each in one slot.
TableInv ==
  /\ ~Ended => \A fd \in Fds \ {serv_fd} :
                 fd \in open <=> \E s \in Slots : connections[s] = fd
  /\ \A s, t \in Slots :
       connections[s] # -1 /\ connections[s] = connections[t] => s = t

\* A batch holds a slot once.
BatchInv == \A j, k \in DOMAIN events : events[j] = events[k] => j = k

\* The inductive invariant.
IInv == /\ TypeOK /\ ModeInv /\ QuietInv /\ ServerInv /\ TableInv /\ BatchInv
        /\ NoStaleEvent

-----------------------------------------------------------------------------

\* The first event of a batch, and the others.
LEMMA BatchFacts ==
  ASSUME NEW S, NEW s \in Seq(S), s # <<>>
  PROVE  /\ Head(s) \in S /\ Tail(s) \in Seq(S) /\ 1 \in DOMAIN s /\ Head(s) = s[1]
         /\ \A k \in DOMAIN Tail(s) :
              k \in Nat \ {0} /\ k + 1 \in DOMAIN s /\ Tail(s)[k] = s[k + 1]
  BY HeadTailProperties, LenProperties

\* A batch is a sequence of slots.
LEMMA FetchedFacts ==
  ASSUME TypeOK
  PROVE  /\ Ready \subseteq Slots /\ IsFiniteSet(Ready) /\ Cardinality(Ready) \in Nat
         /\ \A n \in Nat : \A f \in [1..n -> Ready] : f \in Seq(Slots) /\ DOMAIN f = 1..n
<1>1. Ready \subseteq Slots
  BY DEF Ready, TypeOK
<1>2. IsFiniteSet(Slots)
  BY TableAssumption, FS_Interval DEF Slots
<1>3. IsFiniteSet(Ready) /\ Cardinality(Ready) \in Nat
  BY <1>1, <1>2, FS_Subset, FS_CardinalityType
<1>4. ASSUME NEW n \in Nat, NEW f \in [1..n -> Ready]
      PROVE  f \in Seq(Slots) /\ DOMAIN f = 1..n
  <2>1. f \in [1..n -> Slots]
    BY <1>1
  <2> QED
    BY <2>1, SeqDef
<1> QED
  BY <1>1, <1>3, <1>4

\* Initially the table is empty.
LEMMA InitIInv == Init => IInv
<1> SUFFICES ASSUME Init PROVE IInv
  OBVIOUS
<1>1. TypeOK
  <2>1. 0 \in Slots /\ <<>> \in Seq(Slots)
    BY TableAssumption, EmptySeq DEF Slots
  <2> QED
    BY <2>1, TableAssumption DEF Init, TypeOK, Inputs
<1>2. ModeInv /\ QuietInv /\ ServerInv /\ TableInv
  BY DEF Init, ModeInv, QuietInv, ServerInv, TableInv, Before, Ended, Fds
<1>3. BatchInv /\ NoStaleEvent
  BY DEF Init, BatchInv, NoStaleEvent
<1> QED
  BY <1>1, <1>2, <1>3 DEF IInv

-----------------------------------------------------------------------------
(* Types.                                                                  *)

\* The table, the descriptors and what they have to read.
TableOK ==
  /\ connections \in [Slots -> Fds \cup {-1}] /\ open \subseteq Fds
  /\ input \in [Fds -> Inputs] /\ backlog \in 0..attempts
  /\ attempts \in 0..MaxConns

\* A connection is accepted, or none.
LEMMA AcceptTypes ==
  ASSUME TypeOK, attempts' = attempts,
         AcceptNothing \/ \E s \in Slots, fd \in Fds : accept_connection(s, fd)
  PROVE  TableOK'
<1>1. CASE AcceptNothing
  BY <1>1 DEF AcceptNothing, TableOK, TypeOK
<1>2. ASSUME NEW s \in Slots, NEW fd \in Fds, accept_connection(s, fd)
      PROVE  TableOK'
  <2>1. connections' \in [Slots -> Fds \cup {-1}] /\ open' \subseteq Fds
    BY <1>2 DEF accept_connection, TypeOK
  <2>2. input' \in [Fds -> Inputs]
    BY <1>2 DEF accept_connection, TypeOK, Inputs
  <2>3. backlog' \in 0..attempts'
    BY <1>2, TableAssumption DEF accept_connection, TypeOK
  <2> QED
    BY <2>1, <2>2, <2>3 DEF TableOK, TypeOK
<1> QED
  BY <1>1, <1>2

\* A connection is handled.
LEMMA HandleTypes ==
  ASSUME TypeOK, attempts' = attempts, backlog' = backlog,
         NEW s \in Slots, handle_connection(s)
  PROVE  TableOK'
<1>1. connections[s] \in Fds \cup {-1}
  BY DEF TypeOK
<1>2. connections' \in [Slots -> Fds \cup {-1}] /\ open' \subseteq Fds
  BY DEF handle_connection, TypeOK
<1>3. input' \in [Fds -> Inputs]
  BY <1>1 DEF handle_connection, TypeOK, Inputs
<1> QED
  BY <1>2, <1>3 DEF TableOK, TypeOK

\* Every step keeps the types.
LEMMA TypeStep == IInv /\ [Next]_vars => TypeOK'
<1> SUFFICES ASSUME TypeOK, ServerInv, [Next]_vars PROVE TypeOK'
  BY DEF IInv
<1> USE DEF TableOK
<1>1. 0 \in Slots /\ <<>> \in Seq(Slots) /\ -1 \notin Fds
  BY TableAssumption, EmptySeq DEF Slots, Fds
<1>2. CASE create_server_socket
  BY <1>2 DEF create_server_socket, TypeOK
<1>3. CASE EpollCreate
  <2>1. serv_fd \in Fds
    BY <1>3 DEF EpollCreate, ServerInv, Ended, TypeOK
  <2> QED
    BY <1>1, <1>3, <2>1 DEF EpollCreate, TypeOK
<1>4. CASE LoopTest \/ EventsDone \/ WaitError
  BY <1>4 DEF LoopTest, EventsDone, WaitError, TypeOK
<1>5. CASE Select
  <2>1. serv_fd \in Fds
    BY <1>5 DEF Select, ServerInv, Ended, TypeOK
  <2>2. Clients \subseteq Fds
    BY DEF Clients, Occupied, TypeOK
  <2> QED
    BY <1>5, <2>1, <2>2 DEF Select, TypeOK
<1>6. CASE SelectAccept
  <2>1. TableOK'
    BY <1>6, AcceptTypes DEF SelectAccept
  <2>2. nfds' \in Fds \cup {-1}
    BY <1>6 DEF SelectAccept, TypeOK
  <2> QED
    BY <1>1, <1>6, <2>1, <2>2 DEF SelectAccept, TypeOK
<1>7. CASE SelectScan
  <2>1. TableOK' /\ read_fd' \subseteq Fds
    <3>1. CASE connections[i] \in read_fd
      BY <1>7, <3>1, HandleTypes DEF SelectScan, TypeOK
    <3>2. CASE connections[i] \notin read_fd
      BY <1>7, <3>2 DEF SelectScan, TypeOK
    <3> QED
      BY <3>1, <3>2
  <2> QED
    BY <1>1, <1>7, <2>1 DEF SelectScan, TypeOK
<1>8. CASE EpollWait
  <2>1. events' \in Seq(Slots)
    BY <1>8, FetchedFacts, TableAssumption DEF EpollWait
  <2> QED
    BY <1>8, <2>1 DEF EpollWait, TypeOK
<1>9. CASE EpollAccept
  <2>1. TableOK'
    BY <1>9, AcceptTypes DEF EpollAccept
  <2>2. events' \in Seq(Slots)
    BY <1>9, BatchFacts DEF EpollAccept, TypeOK
  <2>3. interest' \subseteq Fds \X Slots
    BY <1>9 DEF EpollAccept, TypeOK
  <2> QED
    BY <1>9, <2>1, <2>2, <2>3 DEF EpollAccept, TypeOK
<1>10. CASE EpollHandle
  <2>1. events' \in Seq(Slots) /\ Head(events) \in Slots
    BY <1>10, BatchFacts DEF EpollHandle, TypeOK
  <2>2. TableOK'
    BY <1>10, <2>1, HandleTypes DEF EpollHandle
  <2>3. interest' \subseteq Fds \X Slots
    BY <1>10 DEF EpollHandle, TypeOK
  <2> QED
    BY <1>10, <2>1, <2>2, <2>3 DEF EpollHandle, TypeOK
<1>11. CASE Cleanup
  BY <1>11 DEF Cleanup, TypeOK
<1>12. CASE Connect
  BY <1>12, TableAssumption DEF Connect, TypeOK, server
<1>13. CASE \E fd \in Fds : PeerActs(fd)
  <2>1. input' \in [Fds -> Inputs]
    BY <1>13 DEF PeerActs, TypeOK
  <2> QED
    BY <1>13, <2>1 DEF PeerActs, TypeOK, server
<1>14. CASE StopProcessing
  BY <1>14, Zenon DEF StopProcessing, TypeOK, server
<1>15. CASE UNCHANGED vars
  BY <1>15, Zenon DEF vars, server, TypeOK
<1> QED
  BY <1>2, <1>3, <1>4, <1>5, <1>6, <1>7, <1>8, <1>9, <1>10, <1>11, <1>12,
     <1>13, <1>14, <1>15, Zenon DEF Next, Work

-----------------------------------------------------------------------------
(* The table.                                                              *)

\* Within the loops.
Looping == pc \in {"test", "wait", "accept", "scan", "event", "cleanup"}

\* A new connection takes a free slot; its descriptor was in no slot.
LEMMA AcceptTable ==
  ASSUME IInv, NEW s \in Slots, NEW fd \in Fds, accept_connection(s, fd),
         serv_fd' = serv_fd, use_epoll' = use_epoll, Looping, Looping'
  PROVE  /\ connections[s] = -1 /\ connections'[s] = fd
         /\ \A t \in Slots : t # s => connections'[t] = connections[t]
         /\ ServerInv' /\ TableInv'
<1> USE DEF Looping
<1>1. /\ connections[s] = -1 /\ connections'[s] = fd
      /\ \A t \in Slots : t # s => connections'[t] = connections[t]
      /\ \A t \in Slots : connections[t] \in Fds \cup {-1}
  BY DEF IInv, accept_connection, FreeSlot, TypeOK
<1>2. /\ -1 \notin Fds /\ 0 \in Slots /\ serv_fd \in open /\ serv_fd # -1
      /\ fd \notin open /\ open' = open \cup {fd} /\ fd # serv_fd
  BY TableAssumption DEF IInv, ServerInv, TypeOK, accept_connection, Ended, Fds, Slots
<1>3. \A t \in Slots : connections[t] # fd
  BY <1>2 DEF IInv, TableInv, Ended
<1>4. ServerInv'
  <2>1. CASE use_epoll
    BY <1>1, <1>2, <2>1 DEF IInv, ServerInv, Ended
  <2>2. CASE ~use_epoll
    BY <1>1, <1>2, <2>2 DEF IInv, ServerInv, Ended
  <2> QED
    BY <2>1, <2>2
<1>5. TableInv'
  <2>1. ASSUME NEW g \in Fds \ {serv_fd}
        PROVE  g \in open' <=> \E t \in Slots : connections'[t] = g
    <3>1. g \in open <=> \E t \in Slots : connections[t] = g
      BY DEF IInv, TableInv, Ended
    <3>2. (\E t \in Slots : connections'[t] = g)
            <=> g = fd \/ \E t \in Slots : connections[t] = g
      BY <1>1, <1>2
    <3> QED
      BY <1>2, <3>1, <3>2
  <2>2. ASSUME NEW t \in Slots, NEW u \in Slots,
               connections'[t] # -1, connections'[t] = connections'[u]
        PROVE  t = u
    BY <1>1, <1>3, <2>2 DEF IInv, TableInv
  <2> QED
    BY <2>1, <2>2 DEF TableInv
<1> QED
  BY <1>1, <1>4, <1>5

\* A connection that is handled keeps its slot and stays open, or leaves its
\* slot and is closed; the listening socket is not concerned.
LEMMA HandleTable ==
  ASSUME IInv, NEW s \in Slots, handle_connection(s), connections[s] # serv_fd,
         serv_fd' = serv_fd, use_epoll' = use_epoll, Looping, Looping'
  PROVE  /\ connections'[s] \in {connections[s], -1}
         /\ \A t \in Slots : t # s => connections'[t] = connections[t]
         /\ ServerInv' /\ TableInv'
<1> USE DEF Looping
<1> DEFINE fd == connections[s]
<1>1. /\ connections'[s] \in {fd, -1}
      /\ \A t \in Slots : t # s => connections'[t] = connections[t]
      /\ \A t \in Slots : connections[t] \in Fds \cup {-1}
  BY DEF IInv, handle_connection, TypeOK
<1>2. -1 \notin Fds /\ 0 \in Slots /\ serv_fd \in open /\ serv_fd # -1
  BY TableAssumption DEF IInv, ServerInv, TypeOK, Ended, Fds, Slots
<1>3. \/ connections' = connections /\ open' = open
      \/ fd # -1 /\ connections'[s] = -1 /\ open' = open \ {fd}
  BY DEF IInv, TypeOK, handle_connection
<1>4. ServerInv'
  <2>1. CASE use_epoll
    BY <1>1, <1>2, <1>3, <2>1 DEF IInv, ServerInv, Ended
  <2>2. CASE ~use_epoll
    BY <1>1, <1>2, <1>3, <2>2 DEF IInv, ServerInv, Ended
  <2> QED
    BY <2>1, <2>2
<1>5. TableInv'
  <2>1. ASSUME NEW g \in Fds \ {serv_fd}
        PROVE  g \in open' <=> \E t \in Slots : connections'[t] = g
    <3>1. g \in open <=> \E t \in Slots : connections[t] = g
      BY DEF IInv, TableInv, Ended
    <3>2. \A t, u \in Slots : connections[t] # -1 /\ connections[t] = connections[u] => t = u
      BY DEF IInv, TableInv
    <3>3. CASE connections' = connections /\ open' = open
      BY <3>1, <3>3
    <3>4. CASE fd # -1 /\ connections'[s] = -1 /\ open' = open \ {fd}
      <4>1. (\E t \in Slots : connections'[t] = g)
              <=> g # fd /\ \E t \in Slots : connections[t] = g
        BY <1>1, <1>2, <3>2, <3>4
      <4> QED
        BY <3>1, <3>4, <4>1
    <3> QED
      BY <1>3, <3>3, <3>4
  <2>2. ASSUME NEW t \in Slots, NEW u \in Slots,
               connections'[t] # -1, connections'[t] = connections'[u]
        PROVE  t = u
    BY <1>1, <2>2 DEF IInv, TableInv
  <2> QED
    BY <2>1, <2>2 DEF TableInv
<1> QED
  BY <1>1, <1>4, <1>5

-----------------------------------------------------------------------------
(* The steps.                                                              *)

\* All of the invariant but the types.
Rest == ModeInv /\ QuietInv /\ ServerInv /\ TableInv /\ BatchInv /\ NoStaleEvent

\* The listening socket is opened, and gets the first slot with epoll.
LEMMA StartStep ==
  ASSUME IInv, TypeOK', create_server_socket \/ EpollCreate
  PROVE  Rest'
<1> USE DEF IInv, Before, Ended
<1>1. -1 \notin Fds /\ 0 \in Slots
  BY TableAssumption DEF Fds, Slots
<1>2. CASE create_server_socket
  <2> USE <1>2 DEF create_server_socket
  <2>1. ModeInv' /\ QuietInv'
    BY DEF ModeInv, QuietInv
  <2>2. ServerInv'
    BY <1>1 DEF ServerInv, QuietInv
  <2>3. TableInv'
    BY <1>1 DEF TableInv, QuietInv
  <2>4. BatchInv' /\ NoStaleEvent'
    BY DEF BatchInv, NoStaleEvent
  <2> QED
    BY <2>1, <2>2, <2>3, <2>4 DEF Rest
<1>3. CASE EpollCreate
  <2> USE <1>3 DEF EpollCreate
  <2>1. ModeInv' /\ QuietInv'
    BY DEF ModeInv, QuietInv
  <2>2. pc = "create" /\ serv_fd \in open /\ open = {serv_fd} /\ serv_fd # -1
        /\ serv_fd' = serv_fd /\ open' = open /\ use_epoll' = use_epoll /\ use_epoll
    BY <1>1 DEF ServerInv, QuietInv, TypeOK, ModeInv
  <2>3. \A s \in Slots : connections'[s] # -1 => s = 0 /\ connections'[s] = serv_fd
    BY DEF QuietInv, TypeOK
  <2>4. pc' # "failed" => connections'[0] = serv_fd
    BY <1>1 DEF TypeOK
  <2>5. ServerInv'
    BY <2>2, <2>4 DEF ServerInv
  <2>6. TableInv'
    BY <1>1, <2>2, <2>3 DEF TableInv
  <2>7. BatchInv' /\ NoStaleEvent'
    <3>1. events = <<>> /\ events' = <<>> /\ interest = {}
      BY DEF QuietInv
    <3>2. \A e \in interest' : connections'[e[2]] = e[1]
      BY <2>4, <3>1
    <3> QED
      BY <3>1, <3>2 DEF BatchInv, NoStaleEvent
  <2> QED
    BY <2>1, <2>5, <2>6, <2>7 DEF Rest
<1> QED
  BY <1>2, <1>3

\* The steps that leave the table and what is watched alone.
LEMMA IdleStep ==
  ASSUME IInv, TypeOK',
         \/ LoopTest \/ Select \/ WaitError \/ EventsDone
         \/ Connect \/ (\E fd \in Fds : PeerActs(fd)) \/ StopProcessing
         \/ UNCHANGED vars
  PROVE  Rest'
<1>1. /\ UNCHANGED <<use_epoll, serv_fd, connections, events, interest, open>>
      /\ \/ pc' = pc
         \/ Looping /\ Looping' /\ (pc' # "event" => events = <<>>)
            /\ (use_epoll => pc' # "accept") /\ pc' # "scan" /\ pc' # "event"
  BY DEF LoopTest, Select, WaitError, EventsDone, Connect, PeerActs, StopProcessing,
         vars, server, Looping, IInv, QuietInv
<1>2. ModeInv' /\ QuietInv'
  BY <1>1 DEF IInv, ModeInv, QuietInv, Before, Looping
<1>3. ServerInv' /\ TableInv'
  BY <1>1 DEF IInv, ServerInv, TableInv, Ended, Looping
<1>4. BatchInv' /\ NoStaleEvent'
  BY <1>1 DEF IInv, BatchInv, NoStaleEvent
<1> QED
  BY <1>2, <1>3, <1>4 DEF Rest

\* The loop around nfp_select(): there is nothing in the epoll set.
LEMMA SelectStep ==
  ASSUME IInv, TypeOK', SelectAccept \/ SelectScan
  PROVE  Rest'
<1>1. /\ Looping /\ Looping' /\ ~use_epoll /\ pc' \in {"scan", "test"}
      /\ UNCHANGED <<use_epoll, serv_fd, events, interest>>
      /\ events = <<>>
  BY DEF SelectAccept, SelectScan, Looping, IInv, ModeInv, QuietInv
<1>2. interest' = {} /\ events' = <<>>
  BY <1>1 DEF IInv, ModeInv
<1>3. ServerInv' /\ TableInv'
  <2>1. CASE SelectAccept
    <3>1. CASE AcceptNothing
      BY <1>1, <3>1 DEF AcceptNothing, IInv, ServerInv, TableInv, Ended, Looping
    <3>2. CASE \E s \in Slots, fd \in Fds : accept_connection(s, fd)
      BY <1>1, <3>2, AcceptTable
    <3> QED
      BY <2>1, <3>1, <3>2 DEF SelectAccept
  <2>2. CASE SelectScan
    <3>1. CASE connections[i] \notin read_fd
      BY <1>1, <2>2, <3>1 DEF SelectScan, IInv, ServerInv, TableInv, Ended, Looping
    <3>2. CASE connections[i] \in read_fd
      <4>1. i \in Slots /\ handle_connection(i)
        BY <2>2, <3>2 DEF SelectScan, IInv, TypeOK
      <4>2. connections[i] # serv_fd
        BY <1>1, <4>1 DEF IInv, ServerInv, Ended, Looping
      <4> QED
        BY <1>1, <4>1, <4>2, HandleTable
    <3> QED
      BY <3>1, <3>2
  <2> QED
    BY <2>1, <2>2
<1>4. ModeInv' /\ QuietInv'
  BY <1>1, <1>2 DEF ModeInv, QuietInv, Before
<1>5. BatchInv' /\ NoStaleEvent'
  BY <1>2 DEF BatchInv, NoStaleEvent
<1> QED
  BY <1>3, <1>4, <1>5 DEF Rest

\* nfp_epoll_wait() returns slots that are registered, so occupied, each once.
LEMMA EpollWaitStep ==
  ASSUME IInv, TypeOK', EpollWait
  PROVE  Rest'
<1> DEFINE most == IF Cardinality(Ready) < NUM_EPOLL_EVT THEN Cardinality(Ready)
                                                         ELSE NUM_EPOLL_EVT
<1>1. most \in Nat /\ Ready \subseteq Slots
  BY FetchedFacts, TableAssumption DEF IInv
<1>2. /\ events' \in [1..most -> Ready]
      /\ \A j, k \in 1..most : events'[j] = events'[k] => j = k
  BY Zenon DEF EpollWait
<1>3. DOMAIN events' = 1..most
  BY <1>2
<1>4. /\ UNCHANGED <<use_epoll, serv_fd, connections, interest, open>>
      /\ pc = "wait" /\ use_epoll /\ pc' \in {"test", "event"}
      /\ pc' = "test" => Ready = {}
  BY DEF EpollWait
<1>5. BatchInv'
  BY <1>2, <1>3, Zenon DEF BatchInv
<1>6. NoStaleEvent'
  <2>1. \A s \in Ready : connections[s] # -1
    <3>1. \A e \in interest : connections[e[2]] = e[1] /\ e[1] # -1
      BY DEF IInv, NoStaleEvent, TypeOK, Fds
    <3> QED
      BY <3>1, Zenon DEF Ready
  <2>2. \A k \in DOMAIN events' : events'[k] \in Ready
    BY <1>2, <1>3
  <2> QED
    BY <1>4, <2>1, <2>2 DEF IInv, NoStaleEvent
<1>7. ModeInv' /\ ServerInv' /\ TableInv'
  BY <1>4 DEF IInv, ModeInv, ServerInv, TableInv, Ended
<1>8. QuietInv'
  <2>1. CASE Ready = {}
    <3>1. most = 0
      BY <2>1, FS_EmptySet, TableAssumption
    <3>2. events' = <<>>
      BY <1>2, <1>3, <3>1
    <3> QED
      BY <1>4, <3>2 DEF QuietInv, Before
  <2>2. CASE Ready # {}
    BY <1>4, <2>2 DEF QuietInv, Before
  <2> QED
    BY <2>1, <2>2
<1> QED
  BY <1>5, <1>6, <1>7, <1>8 DEF Rest

\* What is left of a batch after its first event.
LEMMA BatchStep ==
  ASSUME IInv, events # <<>>, events' = Tail(events)
  PROVE  /\ Head(events) \in Slots /\ connections[Head(events)] # -1
         /\ BatchInv'
         /\ \A k \in DOMAIN events' :
              /\ events'[k] \in Slots /\ connections[events'[k]] # -1
              /\ events'[k] # Head(events)
<1>1. /\ events \in Seq(Slots) /\ BatchInv
      /\ \A k \in DOMAIN events : events[k] \in Slots /\ connections[events[k]] # -1
  BY DEF IInv, TypeOK, NoStaleEvent
<1>2. /\ Head(events) \in Slots /\ 1 \in DOMAIN events /\ Head(events) = events[1]
      /\ \A k \in DOMAIN events' :
           k \in Nat \ {0} /\ k + 1 \in DOMAIN events /\ events'[k] = events[k + 1]
  BY <1>1, BatchFacts
<1>3. BatchInv'
  <2> SUFFICES ASSUME NEW j \in DOMAIN events', NEW k \in DOMAIN events',
                      events'[j] = events'[k]
               PROVE  j = k
    BY DEF BatchInv
  <2>1. j + 1 = k + 1
    BY <1>1, <1>2 DEF BatchInv
  <2> QED
    BY <1>2, <2>1
<1>4. ASSUME NEW k \in DOMAIN events'
      PROVE  /\ events'[k] \in Slots /\ connections[events'[k]] # -1
             /\ events'[k] # Head(events)
  BY <1>1, <1>2 DEF BatchInv
<1> QED
  BY <1>1, <1>2, <1>3, <1>4

\* An event of the listening socket: the slot that is filled was free, so no
\* event and no registration concerns it.
LEMMA EpollAcceptStep ==
  ASSUME IInv, TypeOK', EpollAccept
  PROVE  Rest'
<1>1. /\ pc = "event" /\ pc' = "event" /\ use_epoll' = use_epoll /\ use_epoll
      /\ serv_fd' = serv_fd /\ events # <<>> /\ events' = Tail(events)
  BY DEF EpollAccept, IInv, ModeInv
<1>2. ModeInv' /\ QuietInv'
  BY <1>1 DEF ModeInv, QuietInv, Before
<1>3. CASE AcceptNothing /\ UNCHANGED interest
  <2>1. ServerInv' /\ TableInv'
    BY <1>1, <1>3 DEF AcceptNothing, IInv, ServerInv, TableInv, Ended
  <2>2. BatchInv' /\ NoStaleEvent'
    BY <1>1, <1>3, BatchStep DEF AcceptNothing, IInv, NoStaleEvent
  <2> QED
    BY <1>2, <2>1, <2>2 DEF Rest
<1>4. ASSUME NEW s \in Slots, NEW fd \in Fds, accept_connection(s, fd),
             interest' \in {interest, interest \cup {<<fd, s>>}}
      PROVE  Rest'
  <2>1. /\ connections[s] = -1 /\ connections'[s] = fd
        /\ \A t \in Slots : t # s => connections'[t] = connections[t]
        /\ ServerInv' /\ TableInv'
    BY <1>1, <1>4, AcceptTable DEF Looping
  <2>2. \A e \in interest : e[2] \in Slots /\ e[2] # s /\ connections[e[2]] = e[1]
    BY <2>1 DEF IInv, NoStaleEvent, TypeOK, Fds
  <2>3. \A e \in interest' : connections'[e[2]] = e[1]
    BY <1>4, <2>1, <2>2
  <2>4. \A k \in DOMAIN events' : connections'[events'[k]] # -1
    BY <1>1, <2>1, BatchStep
  <2> QED
    BY <1>1, <1>2, <2>1, <2>3, <2>4, BatchStep DEF Rest, NoStaleEvent
<1> QED
  BY <1>3, <1>4, Zenon DEF EpollAccept

\* An event of a connection: what is freed is a slot with no other event, and
\* the registration of its descriptor goes with it.
LEMMA EpollHandleStep ==
  ASSUME IInv, TypeOK', EpollHandle
  PROVE  Rest'
<1> DEFINE s == Head(events)
<1>1. /\ pc = "event" /\ pc' = "event" /\ use_epoll' = use_epoll /\ use_epoll
      /\ serv_fd' = serv_fd /\ events # <<>> /\ events' = Tail(events)
      /\ connections[s] # serv_fd /\ handle_connection(s)
      /\ interest' = {e \in interest : e[1] # connections[s]}
  BY DEF EpollHandle, IInv, ModeInv
<1>2. ModeInv' /\ QuietInv'
  BY <1>1 DEF ModeInv, QuietInv, Before
<1>3. /\ s \in Slots /\ connections[s] # -1 /\ BatchInv'
      /\ \A k \in DOMAIN events' :
           events'[k] \in Slots /\ connections[events'[k]] # -1 /\ events'[k] # s
  BY <1>1, BatchStep
<1>4. /\ \A t \in Slots : t # s => connections'[t] = connections[t]
      /\ ServerInv' /\ TableInv'
  <2> HIDE DEF s
  <2> QED
    BY <1>1, <1>3, HandleTable DEF Looping
<1>5. \A e \in interest' : connections'[e[2]] = e[1]
  <2> HIDE DEF s
  <2>1. \A e \in interest : e[2] \in Slots /\ connections[e[2]] = e[1]
    BY DEF IInv, NoStaleEvent, TypeOK
  <2> QED
    BY <1>1, <1>4, <2>1
<1>6. \A k \in DOMAIN events' : connections'[events'[k]] # -1
  BY <1>3, <1>4
<1> QED
  BY <1>2, <1>3, <1>4, <1>5, <1>6 DEF Rest, NoStaleEvent

\* The clean-up closes every descriptor: each one is in a slot, or is the
\* listening socket.
LEMMA CleanupStep ==
  ASSUME IInv, TypeOK', Cleanup
  PROVE  Rest'
<1>1. /\ pc = "cleanup" /\ pc' = "done" /\ interest' = {}
      /\ UNCHANGED <<use_epoll, serv_fd, events>>
      /\ \A s \in Slots : connections'[s] = -1
  BY DEF Cleanup
<1>2. open' = {}
  <2> SUFFICES ASSUME NEW fd \in open PROVE fd \notin open'
    BY DEF Cleanup
  <2>1. CASE fd # serv_fd
    <3>1. \E s \in Slots : connections[s] = fd
      BY <1>1, <2>1 DEF IInv, TableInv, TypeOK, Ended
    <3> QED
      BY <3>1, Zenon DEF Cleanup
  <2>2. CASE fd = serv_fd /\ use_epoll
    <3>1. connections[0] = fd /\ 0 \in Slots
      BY <1>1, <2>2, TableAssumption DEF IInv, ServerInv, Ended, Slots
    <3> QED
      BY <3>1, Zenon DEF Cleanup
  <2>3. CASE fd = serv_fd /\ ~use_epoll
    BY <2>3 DEF Cleanup
  <2> QED
    BY <2>1, <2>2, <2>3
<1>3. ModeInv' /\ QuietInv'
  BY <1>1, <1>2 DEF IInv, ModeInv, QuietInv, Before
<1>4. ServerInv' /\ TableInv'
  BY <1>1 DEF ServerInv, TableInv, Ended
<1>5. BatchInv' /\ NoStaleEvent'
  BY <1>1 DEF IInv, QuietInv, BatchInv, NoStaleEvent
<1> QED
  BY <1>3, <1>4, <1>5 DEF Rest

\* Every step keeps the invariant.
LEMMA StepIInv == IInv /\ [Next]_vars => IInv'
<1> SUFFICES ASSUME IInv, [Next]_vars PROVE IInv'
  OBVIOUS
<1>1. TypeOK'
  BY TypeStep
<1>2. Rest'
  <2>1. CASE create_server_socket \/ EpollCreate
    BY <1>1, <2>1, StartStep
  <2>2. CASE SelectAccept \/ SelectScan
    BY <1>1, <2>2, SelectStep
  <2>3. CASE EpollWait
    BY <1>1, <2>3, EpollWaitStep
  <2>4. CASE EpollAccept
    BY <1>1, <2>4, EpollAcceptStep
  <2>5. CASE EpollHandle
    BY <1>1, <2>5, EpollHandleStep
  <2>6. CASE Cleanup
    BY <1>1, <2>6, CleanupStep
  <2>7. CASE \/ LoopTest \/ Select \/ WaitError \/ EventsDone
             \/ Connect \/ (\E fd \in Fds : PeerActs(fd)) \/ StopProcessing
             \/ UNCHANGED vars
    BY <1>1, <2>7, IdleStep
  <2> QED
    BY <2>1, <2>2, <2>3, <2>4, <2>5, <2>6, <2>7, Zenon DEF Next, Work
<1> QED
  BY <1>1, <1>2, Zenon DEF IInv, Rest

-----------------------------------------------------------------------------
(* The theorems.                                                           *)

\* The inductive invariant holds in every state of the server.
THEOREM Invariance == Spec => []IInv
  BY InitIInv, StepIInv, PTL DEF Spec

\* The table holds exactly the open connections, each in one slot, whichever
\* descriptors nfp_accept() returns and in whatever order peers connect, send
\* and close.
THEOREM TableExactTheorem == Spec => []TableExact
<1>1. IInv => TableExact
  <2> SUFFICES ASSUME IInv PROVE TableExact
    OBVIOUS
  <2>1. TypeOK /\ \A s \in Slots : connections[s] \in Fds \cup {-1}
    BY DEF IInv, TypeOK
  <2>2. -1 \notin Fds
    BY TableAssumption DEF Fds
  <2>3. ASSUME ~Ended
        PROVE  Clients = open \ {serv_fd}
    <3>1. \A fd \in Fds \ {serv_fd} :
            fd \in open <=> \E s \in Slots : connections[s] = fd
      BY <2>3 DEF IInv, TableInv
    <3>2. \A fd : fd \in Clients <=>
            fd # serv_fd /\ \E s \in Slots : connections[s] # -1 /\ connections[s] = fd
      BY Zenon DEF Clients, Occupied
    <3>3. open \subseteq Fds
      BY <2>1 DEF TypeOK
    <3> QED
      BY <2>1, <2>2, <3>1, <3>2, <3>3
  <2>4. \A s, t \in Occupied : connections[s] = connections[t] => s = t
    BY DEF IInv, TableInv, Occupied
  <2> QED
    BY <2>1, <2>3, <2>4 DEF TableExact
<1> QED
  BY <1>1, Invariance, PTL

\* A registration points to the slot that holds its descriptor, and no event of
\* a batch is stale when its turn comes, for any size of a batch.
THEOREM NoStaleEventTheorem == Spec => []NoStaleEvent
<1>1. IInv => NoStaleEvent
  BY DEF IInv
<1> QED
  BY <1>1, Invariance, PTL

\* A thread that leaves one of the loops has closed every descriptor.
THEOREM ExitClosesAllTheorem == Spec => []ExitClosesAll
<1>1. IInv => ExitClosesAll
  BY DEF IInv, QuietInv, ExitClosesAll
<1> QED
  BY <1>1, Invariance, PTL

=============================================================================
