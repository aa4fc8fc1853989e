----------------------------- MODULE PacketHooks -----------------------------
(***************************************************************************)
(* The applications that take received packets out of the stack, and the   *)
(* ways they do it:                                                        *)
(*   "echo"    udpecho: notify() sends the packet back;                    *)
(*   "term"    udp_term_socket, channel: notify() sends it on a channel    *)
(*             that termination_channel() reads in a thread of its own;    *)
(*   "cls"     classifier, channel: the classification dispatcher sends a  *)
(*             vector of packets on such a channel;                        *)
(*   "term_posix", "cls_posix"  the same two with a socket instead, which  *)
(*             termination_posix() reads;                                  *)
(*   "web"     webserver2: notify() answers the HTTP request and closes    *)
(*             the connection.                                             *)
(* A step is one call of the library with the code up to the next one, so  *)
(* that callbacks of several workers and the receiving thread interleave.  *)
(* The stack, the channel and the peers are external.                      *)
(***************************************************************************)
EXTENDS Integers, Sequences, FiniteSets, Functions

CONSTANTS
  Workers, Packets, Conns,
  INVALID,      \* ODP_PACKET_INVALID
  Apps,         \* the applications looked at
  ChannelSize,  \* packets that fit in the channel
  RecvMax,      \* CHANNEL_RECV_MAX
  VecMax,       \* packets in a full vector
  FailCodes,    \* what a failing nfp_channel_send() returns
  FileLen,      \* parts of the file that a request names
  SndBuf        \* parts that fit in a socket's send buffer

ASSUME HooksAssumption ==
  /\ INVALID \notin Packets
  /\ Workers \cap {"pool", "stack", "channel", "receiver", "lost"} = {}
  /\ Apps \subseteq {"echo", "term", "cls", "term_posix", "cls_posix", "web"}
  /\ {ChannelSize, RecvMax, VecMax, FileLen, SndBuf} \subseteq Nat \ {0}
  /\ VecMax < 2^16  \* uint16_t num
  /\ FailCodes \subseteq Int /\ \A e \in FailCodes : e < 0

VARIABLES
  app, running,
  pool,   \* packets that are free
  tx,     \* packets the stack is to transmit
  buf,    \* packets in the receive buffer of the socket
  chn,    \* packets in the channel
  lost,   \* packets that channel_packet_input() has neither sent nor freed
  at,     \* where a worker is
  event, ss, pkt,  \* its callback: ss->event, ss->pkt and the local pkt
  vec, i,          \* its vector, and the index of the loop that frees it
  con, left,       \* the connection of its event, and parts yet to send
  rat, tbl, ri,    \* the receiving thread: where it is, its packets, index
  conn,            \* connections: "none", "arrived", "open", "asked", "closed"
  unacked          \* parts in the send buffer of a connection

process == <<app, running>>
vector == <<vec, i>>
request == <<con, left>>
worker == <<at, event, ss, pkt, vector, request>>
receiver == <<rat, tbl, ri>>
sockets == <<conn, unacked>>
vars == <<process, lost, pool, tx, buf, chn, worker, receiver, sockets>>

Init ==
  /\ app \in Apps /\ running = TRUE
  /\ pool = Packets /\ tx = {} /\ buf = <<>> /\ chn = <<>> /\ lost = {}
  /\ at = [w \in Workers |-> "idle"]
  /\ event = [w \in Workers |-> "none"]
  /\ ss = [w \in Workers |-> INVALID]
  /\ pkt = [w \in Workers |-> INVALID]
  /\ vec = [w \in Workers |-> <<>>] /\ i = [w \in Workers |-> 1]
  /\ con = [w \in Workers |-> "none"] /\ left = [w \in Workers |-> 0]
  /\ rat = "test" /\ tbl = <<>> /\ ri = 1
  /\ conn = [c \in Conns |-> "none"] /\ unacked = [c \in Conns |-> 0]

Goto(w, l) == at' = [at EXCEPT ![w] = l]

-----------------------------------------------------------------------------
\* The stack: a worker with nothing to do looks at what arrives.

Idle(w) == at[w] = "idle" /\ running

\* The hook of the socket is called; the packet, if any, goes with it.
Call(w, ev, p, c) ==
  /\ Goto(w, "notify")
  /\ event' = [event EXCEPT ![w] = ev] /\ ss' = [ss EXCEPT ![w] = p]
  /\ con' = [con EXCEPT ![w] = c]
  /\ pool' = pool \ {p}
  /\ UNCHANGED <<process, lost, tx, buf, chn, pkt, vector, left, receiver,
                 unacked>>

\* A datagram for the hooked socket, or another event.
Datagram(w) ==
  /\ app \in {"echo", "term"} /\ Idle(w)
  /\ \/ \E p \in pool : Call(w, "RECV", p, "none")
     \/ Call(w, "SEND", INVALID, "none")
  /\ UNCHANGED conn

\* A connection for the listening socket of webserver2.
Connect(w) ==
  /\ app = "web" /\ Idle(w)
  /\ \E c \in Conns :
       /\ conn[c] = "none"
       /\ conn' = [conn EXCEPT ![c] = "arrived"]
       /\ Call(w, "ACCEPT", INVALID, c)

\* Something on a connection; events of one connection come one at a time.
Segment(w) ==
  /\ app = "web" /\ Idle(w)
  /\ \E c \in Conns :
       /\ conn[c] = "open"
       /\ \A v \in Workers : at[v] # "idle" => con[v] # c
       /\ \/ \E p \in pool : Call(w, "RECV", p, c)
          \/ \E ev \in {"RECV", "SEND"} : Call(w, ev, INVALID, c)
       /\ UNCHANGED conn

\* A worker with nothing to do takes in an acknowledgement.
Acknowledge(w, c) ==
  /\ app = "web" /\ Idle(w)
  /\ unacked[c] > 0
  /\ unacked' = [unacked EXCEPT ![c] = @ - 1]
  /\ UNCHANGED <<process, lost, pool, tx, buf, chn, worker, receiver, conn>>

\* A datagram for a socket without a hook: nobody takes it from the stack.
Unhooked(w) ==
  /\ app \in {"term_posix", "cls_posix"} /\ Idle(w)
  /\ \E p \in pool :
       /\ Goto(w, "return") /\ ss' = [ss EXCEPT ![w] = p]
       /\ pool' = pool \ {p}
  /\ UNCHANGED <<process, lost, tx, buf, chn, event, pkt, vector, request,
                 receiver, sockets>>

\* The callback returns: the stack goes on with a packet left in ss->pkt.
Return(w) ==
  /\ at[w] = "return" /\ Goto(w, "idle")
  /\ buf' = IF ss[w] = INVALID THEN buf ELSE Append(buf, ss[w])
  /\ event' = [event EXCEPT ![w] = "none"]
  /\ ss' = [ss EXCEPT ![w] = INVALID] /\ pkt' = [pkt EXCEPT ![w] = INVALID]
  /\ con' = [con EXCEPT ![w] = "none"]
  /\ UNCHANGED <<process, lost, pool, tx, chn, vector, left, receiver, sockets>>

Transmit(p) ==
  /\ p \in tx
  /\ tx' = tx \ {p} /\ pool' = pool \cup {p}
  /\ UNCHANGED <<process, lost, buf, chn, worker, receiver, sockets>>

nfp_stop_processing ==
  /\ running /\ running' = FALSE
  /\ UNCHANGED <<app, lost, pool, tx, buf, chn, worker, receiver, sockets>>

-----------------------------------------------------------------------------
\* udpecho: notify() parses the packet, prepends "ECHO:" and sends it back,
\* whatever nfp_udp_packet_sendto() returns.

echo_notify(w) ==
  /\ app = "echo" /\ at[w] = "notify"
  /\ pkt' = [pkt EXCEPT ![w] = ss[w]]
  /\ Goto(w, IF event[w] # "RECV" THEN "return" ELSE "reply")
  /\ UNCHANGED <<process, lost, pool, tx, buf, chn, event, ss, vector, request,
                 receiver, sockets>>

echo_reply(w) ==
  /\ at[w] = "reply" /\ Goto(w, "mark")
  /\ tx' = tx \cup {pkt[w]}
  /\ UNCHANGED <<process, lost, pool, buf, chn, event, ss, pkt, vector, request,
                 receiver, sockets>>

echo_mark(w) ==
  /\ at[w] = "mark" /\ Goto(w, "return")
  /\ ss' = [ss EXCEPT ![w] = INVALID]
  /\ UNCHANGED <<process, lost, pool, tx, buf, chn, event, pkt, vector, request,
                 receiver, sockets>>

-----------------------------------------------------------------------------
\* udp_term_socket: notify() takes the packet over, trims it and sends it on
\* the channel; a packet the channel does not take is freed.

term_notify(w) ==
  /\ app = "term" /\ at[w] = "notify"
  /\ IF event[w] # "RECV"
     THEN Goto(w, "return") /\ UNCHANGED <<ss, pkt>>
     ELSE /\ Goto(w, "send")
          /\ pkt' = [pkt EXCEPT ![w] = ss[w]]
          /\ ss' = [ss EXCEPT ![w] = INVALID]
  /\ UNCHANGED <<process, lost, pool, tx, buf, chn, event, vector, request,
                 receiver, sockets>>

\* nfp_channel_send() of s sends a prefix, as far as there is room, or fails.
nfp_channel_send(s, sent) ==
  \/ /\ sent \in 0..Len(s) /\ Len(chn) + sent <= ChannelSize
     /\ chn' = chn \o SubSeq(s, 1, sent)
  \/ sent \in FailCodes /\ UNCHANGED chn

Sent == FailCodes \cup (0..ChannelSize)

\* Only a negative result is taken for a failure.
NotTaken_Negative(sent) == sent < 0

NotTaken(sent) == sent # 1

term_send(w) ==
  /\ at[w] = "send"
  /\ \E sent \in Sent :
       /\ nfp_channel_send(<<pkt[w]>>, sent)
       /\ Goto(w, IF NotTaken(sent) THEN "drop" ELSE "return")
  /\ UNCHANGED <<process, lost, pool, tx, buf, event, ss, pkt, vector, request,
                 receiver, sockets>>

term_free(w) ==
  /\ at[w] = "drop" /\ Goto(w, "return")
  /\ pool' = pool \cup {pkt[w]}
  /\ UNCHANGED <<process, lost, tx, buf, chn, event, ss, pkt, vector, request,
                 receiver, sockets>>

-----------------------------------------------------------------------------
\* classifier: channel_packet_input() sends the vector that the dispatcher
\* has collected, and frees what the channel does not take.  One thread does
\* so: the channel's queue is not safe for more.

Vectors == {s \in UNION {[1..n -> pool] : n \in 1..VecMax} : IsInjective(s)}

cls_collect(w) ==
  /\ app = "cls" /\ Idle(w)
  /\ \A v \in Workers : at[v] = "idle"
  /\ \E s \in Vectors :
       vec' = [vec EXCEPT ![w] = s] /\ pool' = pool \ Range(s)
  /\ Goto(w, "vsend")
  /\ UNCHANGED <<process, lost, tx, buf, chn, event, ss, pkt, i, request,
                 receiver, sockets>>

\* uint16_t start_idx: a code other than -1 is taken for a number sent.
start_idx(sent) == IF sent = -1 THEN 0 ELSE sent % 2^16

\* The packets before that index are the channel's only if it did not fail.
Forgotten(s, sent) ==
  {s[j] : j \in {k \in 1..Len(s) : sent < 0 /\ k <= start_idx(sent)}}

\* The first index is 1 here.
cls_send(w) ==
  /\ at[w] = "vsend"
  /\ \E sent \in Sent :
       /\ nfp_channel_send(vec[w], sent)
       /\ i' = [i EXCEPT ![w] = start_idx(sent) + 1]
       /\ lost' = lost \cup Forgotten(vec[w], sent)
       /\ Goto(w, IF sent # Len(vec[w]) THEN "vfree" ELSE "vinit")
  /\ UNCHANGED <<process, pool, tx, buf, event, ss, pkt, vec, request,
                 receiver, sockets>>

cls_free(w) ==
  /\ at[w] = "vfree"
  /\ IF i[w] <= Len(vec[w])
     THEN /\ pool' = pool \cup {vec[w][i[w]]}
          /\ i' = [i EXCEPT ![w] = @ + 1] /\ UNCHANGED at
     ELSE Goto(w, "vinit") /\ UNCHANGED <<pool, i>>
  /\ UNCHANGED <<process, lost, tx, buf, chn, event, ss, pkt, vec, request,
                 receiver, sockets>>

cls_init(w) ==
  /\ at[w] = "vinit" /\ Goto(w, "idle")
  /\ vec' = [vec EXCEPT ![w] = <<>>] /\ i' = [i EXCEPT ![w] = 1]
  /\ UNCHANGED <<process, lost, pool, tx, buf, chn, event, ss, pkt, request,
                 receiver, sockets>>

-----------------------------------------------------------------------------
\* webserver2: notify() accepts a connection, or answers the request that the
\* packet holds, closes the connection and frees the packet.

web_notify(w) ==
  /\ app = "web" /\ at[w] = "notify"
  /\ pkt' = [pkt EXCEPT ![w] = ss[w]]
  /\ \/ /\ event[w] = "ACCEPT" /\ Goto(w, "return")
        /\ conn' = [conn EXCEPT ![con[w]] = "open"]
     \/ /\ event[w] # "ACCEPT"
        /\ event[w] # "RECV" \/ ss[w] = INVALID
        /\ Goto(w, "return") /\ UNCHANGED conn
     \/ /\ event[w] = "RECV" /\ ss[w] # INVALID  \* odp_packet_has_error()
        /\ Goto(w, "free") /\ UNCHANGED conn
     \/ /\ event[w] = "RECV" /\ ss[w] # INVALID
        /\ \E r \in {0, 1} : Goto(w, IF r > 0 THEN "analyze" ELSE "close")
        /\ conn' = [conn EXCEPT ![con[w]] = "asked"]
  /\ UNCHANGED <<process, lost, pool, tx, buf, chn, event, ss, vector, request,
                 receiver, unacked>>

\* analyze_http(): nothing to send unless it is a GET; get_file() sends the
\* header alone (404), or the header and the file.
analyze_http(w) ==
  /\ at[w] = "analyze" /\ Goto(w, "mysend")
  /\ \E n \in {0, 1, 1 + FileLen} : left' = [left EXCEPT ![w] = n]
  /\ UNCHANGED <<process, lost, pool, tx, buf, chn, event, ss, pkt, vector, con,
                 receiver, sockets>>

\* The connection is not closed after the answer.
Answered_Open(w) == Goto(w, "free")

Answered(w) == Goto(w, "close")

\* mysend() forgets to count what was sent.
Remaining_All(len, n) == len

Remaining(len, n) == len - n

\* mysend(): nfp_send() waits for room and sends what fits.
mysend(w) ==
  /\ at[w] = "mysend"
  /\ LET c == con[w]
         room == SndBuf - unacked[c]
     IN  \/ /\ left[w] = 0 /\ Answered(w)
            /\ UNCHANGED <<left, unacked>>
         \/ \E n \in 1..room :
              /\ n <= left[w]
              /\ left' = [left EXCEPT ![w] = Remaining(@, n)]
              /\ unacked' = [unacked EXCEPT ![c] = @ + n]
              /\ UNCHANGED at
  /\ UNCHANGED <<process, lost, pool, tx, buf, chn, event, ss, pkt, vector, con,
                 receiver, conn>>

\* Or it fails: after a failed header get_file() goes on, after a failed part
\* of the file it ends.
mysend_fails(w) ==
  /\ at[w] = "mysend" /\ left[w] > 0
  /\ \E n \in {0, left[w] - 1} : left' = [left EXCEPT ![w] = n]
  /\ UNCHANGED <<process, lost, pool, tx, buf, chn, at, event, ss, pkt, vector,
                 con, receiver, sockets>>

web_close(w) ==
  /\ at[w] = "close" /\ Goto(w, "free")
  /\ conn' = [conn EXCEPT ![con[w]] = "closed"]
  /\ UNCHANGED <<process, lost, pool, tx, buf, chn, event, ss, pkt, vector,
                 request, receiver, unacked>>

\* odp_packet_free(pkt); ss->pkt = ODP_PACKET_INVALID;
web_free(w) ==
  /\ at[w] = "free" /\ Goto(w, "return")
  /\ pool' = pool \cup {pkt[w]} /\ ss' = [ss EXCEPT ![w] = INVALID]
  /\ UNCHANGED <<process, lost, tx, buf, chn, event, pkt, vector, request,
                 receiver, sockets>>

-----------------------------------------------------------------------------
\* The receiving thread: termination_channel() and termination_posix().

termination_loop ==
  /\ rat = "test" /\ rat' = IF running THEN "recv" ELSE "done"
  /\ UNCHANGED <<process, lost, pool, tx, buf, chn, worker, tbl, ri, sockets>>

\* nfp_channel_recv() returns n packets; none also stands for a failure, which
\* the loop does not tell from it.
Recv(n) == n <= Len(chn)

channel_recv ==
  /\ app \in {"term", "cls"} /\ rat = "recv"
  /\ \E n \in 0..RecvMax :
       /\ Recv(n)
       /\ tbl' = SubSeq(chn, 1, n)
       /\ chn' = SubSeq(chn, n + 1, Len(chn))
  /\ ri' = 1 /\ rat' = "free"
  /\ UNCHANGED <<process, lost, pool, tx, buf, worker, sockets>>

\* The thread ends with its first packets.
Processed_Return == rat' = "done"

\* All the packets received were freed: back to the loop.
Processed == rat' = "test"

channel_free ==
  /\ rat = "free"
  /\ IF ri <= Len(tbl)
     THEN /\ pool' = pool \cup {tbl[ri]} /\ ri' = ri + 1
          /\ UNCHANGED <<rat, tbl>>
     ELSE Processed /\ tbl' = <<>> /\ ri' = 1 /\ UNCHANGED pool
  /\ UNCHANGED <<process, lost, tx, buf, chn, worker, sockets>>

\* nfp_recv() copies the data and frees the packet.  The one of
\* udp_term_socket waits for a packet, the one of classifier does not, and
\* there a failure ends the thread.
posix_recv ==
  /\ app \in {"term_posix", "cls_posix"} /\ rat = "recv"
  /\ \/ /\ buf # <<>> /\ buf' = Tail(buf)
        /\ pool' = pool \cup {Head(buf)} /\ rat' = "test"
     \/ /\ app = "cls_posix" /\ buf = <<>> /\ rat' = "test"
        /\ UNCHANGED <<pool, buf>>
     \/ /\ rat' = IF app = "cls_posix" THEN "done" ELSE "test"
        /\ UNCHANGED <<pool, buf>>
  /\ UNCHANGED <<process, lost, tx, chn, worker, tbl, ri, sockets>>

-----------------------------------------------------------------------------

Hook(w) ==
  \/ Return(w)
  \/ echo_notify(w) \/ echo_reply(w) \/ echo_mark(w)
  \/ term_notify(w) \/ term_send(w) \/ term_free(w)
  \/ cls_send(w) \/ cls_free(w) \/ cls_init(w)
  \/ web_notify(w) \/ analyze_http(w) \/ mysend(w) \/ web_close(w)
  \/ web_free(w)

Receive == termination_loop \/ channel_recv \/ channel_free \/ posix_recv

Next ==
  \/ \E w \in Workers :
       \/ Datagram(w) \/ Connect(w) \/ Segment(w)
       \/ \E c \in Conns : Acknowledge(w, c)
       \/ Unhooked(w) \/ cls_collect(w) \/ Hook(w) \/ mysend_fails(w)
  \/ Receive
  \/ \E p \in Packets : Transmit(p)
  \/ nfp_stop_processing

Spec == Init /\ [][Next]_vars

\* Threads are preemptively scheduled and the stack transmits what it has.
\* Peers acknowledge, and acknowledgements wait in the queues of the workers,
\* which serve them in order: one is taken in if workers become idle again and
\* again.  nfp_recv() and nfp_channel_recv() do not fail for ever while a
\* packet waits.  Nothing makes nfp_send() fail.
Fairness ==
  /\ \A w \in Workers : WF_vars(Hook(w))
  /\ \A c \in Conns : SF_vars(\E w \in Workers : Acknowledge(w, c))
  /\ WF_vars(Receive)
  /\ SF_vars(posix_recv /\ buf' # buf) /\ SF_vars(channel_recv /\ chn' # chn)
  /\ \A p \in Packets : WF_vars(Transmit(p))

FairSpec == Spec /\ Fairness

-----------------------------------------------------------------------------
\* Who holds a packet.  In a callback it is the worker, from the call until it
\* hands the packet on; from then on neither ss->pkt nor pkt stands for it.

AtSs == {"notify", "return"}
AtPkt == {"reply", "send", "drop", "analyze", "mysend", "close", "free"}

Held(w) ==
  {p \in Packets :
     \/ at[w] \in AtSs /\ p = ss[w]
     \/ at[w] \in AtPkt /\ p = pkt[w]
     \/ at[w] = "vsend" /\ \E j \in 1..Len(vec[w]) : p = vec[w][j]
     \/ at[w] = "vfree" /\ \E j \in i[w]..Len(vec[w]) : p = vec[w][j]}

Received == {p \in Packets : \E j \in ri..Len(tbl) : p = tbl[j]}

Holders(p) ==
  {w \in Workers : p \in Held(w)}
    \cup {o \in {"pool"} : p \in pool}
    \cup {o \in {"stack"} : p \in tx \/ \E j \in 1..Len(buf) : p = buf[j]}
    \cup {o \in {"channel"} : \E j \in 1..Len(chn) : p = chn[j]}
    \cup {o \in {"receiver"} : p \in Received}
    \cup {o \in {"lost"} : p \in lost}

\* The one who holds it; "nobody" when none does, or more than one.
Owner ==
  [p \in Packets |->
     LET holders == Holders(p)
     IN  IF \E o \in holders : holders = {o}
         THEN CHOOSE o \in holders : holders = {o}
         ELSE "nobody"]

Abstract == INSTANCE PacketOwner WITH owner <- Owner

ProcessOK == app \in Apps /\ running \in BOOLEAN

QueuesOK ==
  /\ pool \subseteq Packets /\ tx \subseteq Packets /\ lost \subseteq Packets
  /\ buf \in Seq(Packets) /\ chn \in Seq(Packets) /\ Len(chn) <= ChannelSize

WorkersOK ==
  /\ at \in [Workers -> AtSs \cup AtPkt \cup
                        {"idle", "mark", "vsend", "vfree", "vinit"}]
  /\ event \in [Workers -> {"none", "RECV", "SEND", "ACCEPT"}]
  /\ ss \in [Workers -> Packets \cup {INVALID}]
  /\ pkt \in [Workers -> Packets \cup {INVALID}]
  /\ vec \in [Workers -> Seq(Packets)] /\ i \in [Workers -> Nat \ {0}]
  /\ con \in [Workers -> Conns \cup {"none"}] /\ left \in [Workers -> Nat]

ReceiverOK ==
  /\ rat \in {"test", "recv", "free", "done"}
  /\ tbl \in Seq(Packets) /\ ri \in 1..(Len(tbl) + 1)

SocketsOK ==
  /\ conn \in [Conns -> {"none", "arrived", "open", "asked", "closed"}]
  /\ unacked \in [Conns -> 0..SndBuf]

\* The values of the variables.
TypeOK == ProcessOK /\ QueuesOK /\ WorkersOK /\ ReceiverOK /\ SocketsOK

\* Every packet has one owner at any time and changes hands only as the API
\* allows, whatever the callbacks, the dispatcher and the receiving thread do
\* at the same time: none is leaked when the channel is full, takes part of a
\* vector or fails, none is freed twice, none is used after it was sent.  The
\* one exception is a vector for which nfp_channel_send() fails with a code
\* other than -1: what it holds before the index the code is cut to is lost.
PacketsOwned == Abstract!Spec

\* A worker waits in nfp_send() for room.
Waits(w) == at[w] = "mysend" /\ left[w] > 0 /\ unacked[con[w]] = SndBuf

\* No worker is left to take in the acknowledgements that would make room.
AllWait == \A w \in Workers : Waits(w)

\* While the application runs, a packet taken from the pool comes back to it,
\* unless channel_packet_input() lost it, a failing nfp_recv() has ended the
\* thread of classifier, or every worker waits in a callback of webserver2.
PacketsReturn ==
  \A p \in Packets :
    p \notin pool
      ~> \/ p \in pool \/ p \in lost \/ ~running \/ AllWait
         \/ app = "cls_posix" /\ rat = "done"

\* A callback returns to the stack, unless all the workers wait in callbacks of
\* webserver2: nfp_send() in notify() waits for room that only the
\* acknowledgements taken in by another worker make.  One worker that does not
\* wait is enough, also when it has callbacks of its own to run.
CallbacksReturn ==
  \A w \in Workers : at[w] # "idle" ~> (at[w] = "idle" \/ ~running \/ AllWait)

\* A connection that webserver2 got a packet on, with or without data, is
\* closed, also when the request is not a GET, the file does not exist or
\* sending fails, unless all the workers wait.
RequestsClosed ==
  \A c \in Conns :
    conn[c] = "asked" ~> (conn[c] = "closed" \/ ~running \/ AllWait)
=============================================================================
