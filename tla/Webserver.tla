------------------------------ MODULE Webserver ------------------------------
(***************************************************************************)
(* The HTTP server thread of the webserver example (httpd.c): its table of *)
(* connections, and the two loops that watch them, one with nfp_select()   *)
(* and one with nfp_epoll_wait().  What is sent is left out; a request is  *)
(* answered by handle_connection(), which then closes the connection.      *)
(*                                                                         *)
(* The sockets are external: descriptors are allocated arbitrarily, peers  *)
(* connect, send, close and reset at any moment.                           *)
(***************************************************************************)
EXTENDS Integers, Sequences, FiniteSets

CONSTANTS
  NUM_CONNECTIONS,  \* slots of the table
  NUM_EPOLL_EVT,    \* events fetched at once
  MaxFd,            \* descriptors are 0..MaxFd
  MaxConns          \* bound: connections that peers try

ASSUME TableAssumption ==
  /\ NUM_CONNECTIONS \in Nat \ {0} /\ NUM_EPOLL_EVT \in Nat \ {0}
  /\ MaxFd \in Nat /\ MaxConns \in Nat

VARIABLES
  use_epoll,    \* the mode
  running,      \* the processing state
  pc,           \* where the thread is
  i,            \* the slot being looked at
  serv_fd,      \* the listening socket
  connections,  \* connections[s]: the descriptor in slot s, or -1
  nfds,         \* the largest descriptor that nfp_select() looks at
  read_fd,      \* descriptors that nfp_select() found ready
  events,       \* slots that nfp_epoll_wait() returned and are to be handled
  interest,     \* <<fd, s>>: fd is registered with &connections[s]
  open,         \* descriptors that are open
  input,        \* what a connection has for nfp_recv()
  backlog,      \* connections that wait to be accepted
  attempts      \* connections tried so far

server == <<pc, i, serv_fd, connections, nfds, read_fd, events, interest>>
vars == <<use_epoll, running, server, open, input, backlog, attempts>>

Fds == 0..MaxFd
Slots == 0..(NUM_CONNECTIONS - 1)
Inputs == {"none", "request", "eof", "error"}

Occupied == {s \in Slots : connections[s] # -1}
Clients == {connections[s] : s \in Occupied} \ {serv_fd}

Readable(fd) == IF fd = serv_fd THEN backlog > 0 ELSE input[fd] # "none"

Init ==
  /\ use_epoll \in BOOLEAN
  /\ running = TRUE
  /\ pc = "start" /\ i = 0 /\ serv_fd = -1
  /\ connections = [s \in Slots |-> -1]
  /\ nfds = -1 /\ read_fd = {} /\ events = <<>> /\ interest = {}
  /\ open = {} /\ input = [fd \in Fds |-> "none"]
  /\ backlog = 0 /\ attempts = 0

-----------------------------------------------------------------------------

\* create_server_socket(), which may fail anywhere and leaves nothing open.
create_server_socket ==
  /\ pc = "start"
  /\ \/ /\ pc' = "failed"
        /\ UNCHANGED <<serv_fd, nfds, open>>
     \/ \E fd \in Fds :
          /\ serv_fd' = fd /\ nfds' = fd /\ open' = {fd}
          /\ pc' = IF use_epoll THEN "create" ELSE "test"
  /\ UNCHANGED <<use_epoll, running, i, connections, read_fd, events, interest,
                 input, backlog, attempts>>

\* nfp_epoll_create(); the first slot is the server's, whether or not
\* nfp_epoll_ctl() adds it.  When nfp_epoll_create() fails the listening socket
\* stays open.
EpollCreate ==
  /\ pc = "create"
  /\ \/ /\ pc' = "failed"
        /\ UNCHANGED <<connections, interest>>
     \/ /\ pc' = "test"
        /\ connections' = [connections EXCEPT ![0] = serv_fd]
        /\ interest' \in {{}, {<<serv_fd, 0>>}}
  /\ UNCHANGED <<use_epoll, running, i, serv_fd, nfds, read_fd, events, open,
                 input, backlog, attempts>>

LoopTest ==
  /\ pc = "test"
  /\ pc' = IF running THEN "wait" ELSE "cleanup"
  /\ UNCHANGED <<use_epoll, running, i, serv_fd, connections, nfds, read_fd,
                 events, interest, open, input, backlog, attempts>>

\* The first free slot.
FreeSlot(s) == connections[s] = -1 /\ \A t \in Slots : t < s => connections[t] # -1

\* nfp_accept(), the slot and *con_id; the caller treats what was accepted.
accept_connection(s, fd) ==
  /\ FreeSlot(s)
  /\ backlog > 0
  /\ fd \in Fds \ open
  /\ connections' = [connections EXCEPT ![s] = fd]
  /\ open' = open \cup {fd}
  /\ input' = [input EXCEPT ![fd] = "none"]
  /\ backlog' = backlog - 1

\* No free slot, or nfp_accept() fails.
AcceptNothing == UNCHANGED <<connections, open, input, backlog>>

\* Mutant: a slot is freed whose connection is still open.
handle_connection_NoClose(s) ==
  LET fd == connections[s]
  IN  \/ /\ fd = -1 \/ input[fd] = "error"
         /\ UNCHANGED <<connections, open, input>>
      \/ /\ fd # -1 /\ input[fd] \in {"request", "eof"}
         /\ connections' = [connections EXCEPT ![s] = -1]
         /\ open' = IF input[fd] = "eof" THEN open ELSE open \ {fd}
         /\ UNCHANGED input

\* nfp_recv() and, unless it fails, the answer and nfp_close().  A connection
\* that was reset may report its end at the next nfp_recv().
handle_connection(s) ==
  LET fd == connections[s]
  IN  \/ /\ fd = -1
         /\ UNCHANGED <<connections, open, input>>
      \/ /\ fd # -1 /\ input[fd] = "error"
         /\ input' \in {input, [input EXCEPT ![fd] = "eof"]}
         /\ UNCHANGED <<connections, open>>
      \/ /\ fd # -1 /\ input[fd] \in {"request", "eof"}
         /\ connections' = [connections EXCEPT ![s] = -1]
         /\ open' = open \ {fd}
         /\ UNCHANGED input

-----------------------------------------------------------------------------

\* monitor_connections() and nfp_select(), which looks at 0..nfds.  A timeout
\* starts the loop again.
Select ==
  /\ ~use_epoll /\ pc = "wait"
  /\ read_fd' = {fd \in Clients \cup {serv_fd} : fd <= nfds /\ Readable(fd)}
  /\ pc' = IF read_fd' = {} THEN "test" ELSE "accept"
  /\ UNCHANGED <<use_epoll, running, i, serv_fd, connections, nfds, events,
                 interest, open, input, backlog, attempts>>

\* nfp_select() or nfp_epoll_wait() fails.
WaitError ==
  /\ pc = "wait"
  /\ pc' = "cleanup"
  /\ UNCHANGED <<use_epoll, running, i, serv_fd, connections, nfds, read_fd,
                 events, interest, open, input, backlog, attempts>>

\* Mutant: nfds stays what it was.
SelectAccept_SameNfds ==
  /\ pc = "accept"
  /\ pc' = "scan" /\ i' = 0
  /\ \/ AcceptNothing
     \/ serv_fd \in read_fd /\ \E s \in Slots, fd \in Fds : accept_connection(s, fd)
  /\ UNCHANGED <<use_epoll, running, serv_fd, nfds, read_fd, events, interest,
                 attempts>>

SelectAccept ==
  /\ pc = "accept"
  /\ pc' = "scan" /\ i' = 0
  /\ \/ /\ AcceptNothing
        /\ UNCHANGED nfds
     \/ /\ serv_fd \in read_fd
        /\ \E s \in Slots, fd \in Fds :
             /\ accept_connection(s, fd)
             /\ nfds' = IF fd > nfds THEN fd ELSE nfds
  /\ UNCHANGED <<use_epoll, running, serv_fd, read_fd, events, interest, attempts>>

\* One round of the loop over the slots.
SelectScan ==
  /\ pc = "scan"
  /\ IF connections[i] \in read_fd
       THEN handle_connection(i) /\ read_fd' = read_fd \ {connections[i]}
       ELSE UNCHANGED <<connections, open, input, read_fd>>
  /\ IF i + 1 \in Slots THEN i' = i + 1 /\ pc' = pc ELSE i' = 0 /\ pc' = "test"
  /\ UNCHANGED <<use_epoll, running, serv_fd, nfds, events, interest,
                 backlog, attempts>>

-----------------------------------------------------------------------------

Ready == {e[2] : e \in {e \in interest : Readable(e[1])}}

\* nfp_epoll_wait(): some of the ready slots, in any order.
EpollWait ==
  LET most == IF Cardinality(Ready) < NUM_EPOLL_EVT THEN Cardinality(Ready)
                                                    ELSE NUM_EPOLL_EVT
  IN  /\ use_epoll /\ pc = "wait"
      /\ events' \in {f \in [1..most -> Ready] :
                        \A j, k \in 1..most : f[j] = f[k] => j = k}
      /\ pc' = IF Ready = {} THEN "test" ELSE "event"
      /\ UNCHANGED <<use_epoll, running, i, serv_fd, connections, nfds, read_fd,
                     interest, open, input, backlog, attempts>>

\* An event of the listening socket.  Whether nfp_epoll_ctl() adds the new
\* connection is not looked at.
EpollAccept ==
  /\ pc = "event" /\ events # <<>> /\ connections[Head(events)] = serv_fd
  /\ events' = Tail(events)
  /\ \/ /\ AcceptNothing
        /\ UNCHANGED interest
     \/ \E s \in Slots, fd \in Fds :
          /\ accept_connection(s, fd)
          /\ interest' \in {interest, interest \cup {<<fd, s>>}}
  /\ UNCHANGED <<use_epoll, running, pc, i, serv_fd, nfds, read_fd, attempts>>

\* Mutant: a connection whose nfp_recv() failed stays registered.
EpollHandle_NoDel ==
  LET s == Head(events)
  IN  /\ pc = "event" /\ events # <<>> /\ connections[s] # serv_fd
      /\ events' = Tail(events)
      /\ handle_connection(s)
      /\ UNCHANGED <<use_epoll, running, pc, i, serv_fd, nfds, read_fd,
                     interest, backlog, attempts>>

\* An event of a connection, which is removed from the epoll set in any case.
EpollHandle ==
  LET s == Head(events)
  IN  /\ pc = "event" /\ events # <<>> /\ connections[s] # serv_fd
      /\ events' = Tail(events)
      /\ handle_connection(s)
      /\ interest' = {e \in interest : e[1] # connections[s]}
      /\ UNCHANGED <<use_epoll, running, pc, i, serv_fd, nfds, read_fd,
                     backlog, attempts>>

EventsDone ==
  /\ pc = "event" /\ events = <<>>
  /\ pc' = "test"
  /\ UNCHANGED <<use_epoll, running, i, serv_fd, connections, nfds, read_fd,
                 events, interest, open, input, backlog, attempts>>

\* Mutant: the clean-up leaves the first slot alone.
Cleanup_SkipFirst ==
  /\ pc = "cleanup"
  /\ pc' = "done"
  /\ open' = open \ ({connections[s] : s \in Slots \ {0}}
                     \cup IF use_epoll THEN {} ELSE {serv_fd})
  /\ connections' = [s \in Slots |-> IF s = 0 THEN connections[s] ELSE -1]
  /\ interest' = {}
  /\ UNCHANGED <<use_epoll, running, i, serv_fd, nfds, read_fd, events, input,
                 backlog, attempts>>

\* All the slots are closed; the listening socket has one of them with epoll.
Cleanup ==
  /\ pc = "cleanup"
  /\ pc' = "done"
  /\ open' = open \ ({connections[s] : s \in Slots}
                     \cup IF use_epoll THEN {} ELSE {serv_fd})
  /\ connections' = [s \in Slots |-> -1]
  /\ interest' = {}
  /\ UNCHANGED <<use_epoll, running, i, serv_fd, nfds, read_fd, events, input,
                 backlog, attempts>>

-----------------------------------------------------------------------------

\* The peers and nfp_stop_processing().
Connect ==
  /\ serv_fd \in open
  /\ attempts < MaxConns
  /\ attempts' = attempts + 1 /\ backlog' = backlog + 1
  /\ UNCHANGED <<use_epoll, running, server, open, input>>

PeerActs(fd) ==
  /\ fd \in open \ {serv_fd}
  /\ input[fd] = "none"
  /\ \E what \in Inputs \ {"none"} : input' = [input EXCEPT ![fd] = what]
  /\ UNCHANGED <<use_epoll, running, server, open, backlog, attempts>>

StopProcessing ==
  /\ running
  /\ running' = FALSE
  /\ UNCHANGED <<use_epoll, server, open, input, backlog, attempts>>

Ended == pc \in {"done", "failed"}

Work ==
  \/ create_server_socket \/ EpollCreate \/ LoopTest
  \/ Select \/ SelectAccept \/ SelectScan
  \/ EpollWait \/ EpollAccept \/ EpollHandle \/ EventsDone
  \/ Cleanup

Next ==
  \/ Work
  \/ WaitError
  \/ Connect
  \/ \E fd \in Fds : PeerActs(fd)
  \/ StopProcessing
  \/ Ended /\ UNCHANGED vars

Spec == Init /\ [][Next]_vars

\* The server thread keeps being scheduled: nfp_select() and nfp_epoll_wait()
\* return within 200 ms.
FairSpec == Spec /\ WF_vars(Work)

-----------------------------------------------------------------------------

\* Every variable keeps its type.
TypeOK ==
  /\ running \in BOOLEAN /\ use_epoll \in BOOLEAN
  /\ pc \in {"start", "create", "test", "wait", "accept", "scan", "event",
             "cleanup", "done", "failed"}
  /\ i \in Slots /\ {serv_fd, nfds} \subseteq Fds \cup {-1}
  /\ connections \in [Slots -> Fds \cup {-1}]
  /\ read_fd \subseteq Fds /\ interest \subseteq Fds \X Slots
  /\ events \in Seq(Slots)
  /\ open \subseteq Fds /\ input \in [Fds -> Inputs]
  /\ backlog \in 0..attempts /\ attempts \in 0..MaxConns

\* The table is exact: it holds the open connections, each in one slot, and
\* nothing that has been closed.
TableExact ==
  /\ TypeOK
  /\ ~Ended => Clients = open \ {serv_fd}
  /\ \A s, t \in Occupied : connections[s] = connections[t] => s = t

\* A registration always points to the slot that holds its descriptor, and an
\* event fetched in one batch with others still finds the connection it was
\* raised for, although earlier events of the batch free and fill slots.
NoStaleEvent ==
  /\ \A e \in interest : connections[e[2]] = e[1]
  /\ \A k \in DOMAIN events : connections[events[k]] # -1

\* A thread that leaves one of the loops has closed every descriptor.
ExitClosesAll == pc = "done" => open = {}

\* With nfp_select(), a peer that has sent something or has closed is dealt
\* with, and its connection closed: nfds covers the whole table, the
\* connection accepted last included, and no slot is passed over.
RequestServed ==
  \A fd \in Fds :
    (~use_epoll /\ fd \in open \ {serv_fd} /\ input[fd] \in {"request", "eof"})
      ~> (fd \notin open \/ ~running)

=============================================================================
