------------------------- MODULE PacketHooksProofs -------------------------
(***************************************************************************)
(* The applications of PacketHooks implement PacketOwner: for any number   *)
(* of workers, packets and connections, any sizes of the channel and of a  *)
(* vector, every packet has one owner and changes hands as the API allows. *)
(* The inductive invariant comes first, then the types of single variables *)
(* and what a worker's variables hold at its place in the code, then who   *)
(* owns a packet.                                                          *)
(***************************************************************************)
EXTENDS PacketHooks, TLAPS

In(p, s) == \E j \in 1..Len(s) : p = s[j]

Inj(s) == \A j, k \in 1..Len(s) : s[j] = s[k] => j = k

Owners == Workers \cup {"pool", "stack", "channel", "receiver", "lost"}

Has(o, p) ==
  \/ o \in Workers /\ p \in Held(o)
  \/ o = "pool" /\ p \in pool
  \/ o = "stack" /\ (p \in tx \/ In(p, buf))
  \/ o = "channel" /\ In(p, chn)
  \/ o = "receiver" /\ p \in Received
  \/ o = "lost" /\ p \in lost

\* Every packet has one holder.
OneHolder ==
  \A p \in Packets : \E o \in Owners :
    Has(o, p) /\ \A q \in Owners : Has(q, p) => q = o

\* What a worker knows of its packets where it is.
LocalsOK(w) ==
  /\ at[w] \in AtPkt => pkt[w] \in Packets
  /\ at[w] \in {"send", "drop"} => ss[w] = INVALID
  /\ app \in {"echo", "term"} /\ at[w] = "notify" /\ event[w] = "RECV"
       => ss[w] \in Packets
  /\ app = "web" /\ at[w] = "notify" => con[w] \in Conns
  /\ at[w] \in {"analyze", "mysend"} => con[w] \in Conns
  /\ at[w] \in {"vsend", "vfree"} => Inj(vec[w])
  /\ at[w] = "vsend" => Len(vec[w]) <= VecMax

\* No packet is twice in a queue or a table.
Distinct ==
  /\ Inj(buf) /\ Inj(chn) /\ Inj(tbl)
  /\ \A p \in tx : ~In(p, buf)
  /\ rat # "free" => tbl = <<>>

IInv == TypeOK /\ (\A w \in Workers : LocalsOK(w)) /\ Distinct /\ OneHolder

-----------------------------------------------------------------------------
(* Sequences.                                                              *)

\* What is in a sequence that a packet is added to.
LEMMA AppendIn ==
  ASSUME NEW S, NEW s \in Seq(S), NEW e \in S
  PROVE  /\ Append(s, e) \in Seq(S)
         /\ \A p : In(p, Append(s, e)) <=> In(p, s) \/ p = e
         /\ Inj(s) /\ ~In(e, s) => Inj(Append(s, e))
<1> DEFINE t == Append(s, e)
<1>1. /\ t \in Seq(S) /\ Len(s) \in Nat /\ Len(t) = Len(s) + 1
      /\ \A j \in 1..Len(s) : t[j] = s[j]
      /\ t[Len(s) + 1] = e
  OBVIOUS
<1> HIDE DEF t
<1>2. \A p : In(p, t) <=> In(p, s) \/ p = e
  BY <1>1 DEF In
<1>3. Inj(s) /\ ~In(e, s) => Inj(t)
  BY <1>1 DEF In, Inj
<1> QED
  BY <1>1, <1>2, <1>3, Zenon DEF t

\* What is in a concatenation.
LEMMA ConcatIn ==
  ASSUME NEW S, NEW s \in Seq(S), NEW t \in Seq(S)
  PROVE  /\ s \o t \in Seq(S) /\ Len(s \o t) = Len(s) + Len(t)
         /\ \A p : In(p, s \o t) <=> In(p, s) \/ In(p, t)
         /\ Inj(s) /\ Inj(t) /\ (\A p : ~(In(p, s) /\ In(p, t)))
              => Inj(s \o t)
<1> DEFINE u == s \o t
<1>1. /\ u \in Seq(S) /\ Len(s) \in Nat /\ Len(t) \in Nat
      /\ Len(u) = Len(s) + Len(t)
      /\ \A j \in 1..Len(u) : u[j] = IF j <= Len(s) THEN s[j] ELSE t[j - Len(s)]
  OBVIOUS
<1> HIDE DEF u
<1>2. \A j \in 1..Len(s) : j \in 1..Len(u) /\ u[j] = s[j]
  BY <1>1
<1>3. \A j \in 1..Len(t) : Len(s) + j \in 1..Len(u) /\ u[Len(s) + j] = t[j]
  <2> SUFFICES ASSUME NEW j \in 1..Len(t)
               PROVE  Len(s) + j \in 1..Len(u) /\ u[Len(s) + j] = t[j]
    BY Zenon
  <2>1. /\ Len(s) + j \in 1..Len(u) /\ ~(Len(s) + j <= Len(s))
        /\ (Len(s) + j) - Len(s) = j
    BY <1>1
  <2> QED
    BY <1>1, <2>1, Zenon
<1>4. \A j \in 1..Len(u) : \/ j \in 1..Len(s) /\ u[j] = s[j]
                           \/ j - Len(s) \in 1..Len(t) /\ u[j] = t[j - Len(s)]
  BY <1>1
<1>5. \A p : In(p, u) <=> In(p, s) \/ In(p, t)
  BY <1>2, <1>3, <1>4, Zenon DEF In
<1>6. ASSUME Inj(s), Inj(t), \A p : ~(In(p, s) /\ In(p, t))
      PROVE  Inj(u)
  <2> SUFFICES ASSUME NEW j \in 1..Len(u), NEW k \in 1..Len(u), u[j] = u[k]
               PROVE  j = k
    BY Zenon DEF Inj
  <2>1. CASE j \in 1..Len(s) /\ k \in 1..Len(s)
    BY <2>1, <1>2, <1>6, Zenon DEF Inj
  <2>2. CASE j - Len(s) \in 1..Len(t) /\ k - Len(s) \in 1..Len(t)
    <3>1. u[j] = t[j - Len(s)] /\ u[k] = t[k - Len(s)]
      BY <2>2, <1>1, <1>4
    <3>2. j - Len(s) = k - Len(s)
      BY <2>2, <3>1, <1>6, Zenon DEF Inj
    <3> QED
      BY <3>2, <1>1
  <2>3. \/ j \in 1..Len(s) /\ k \in 1..Len(s)
        \/ j - Len(s) \in 1..Len(t) /\ k - Len(s) \in 1..Len(t)
    BY <1>4, <1>6, Zenon DEF In
  <2> QED
    BY <2>1, <2>2, <2>3, Zenon
<1> QED
  BY <1>1, <1>5, <1>6, Zenon DEF u

\* What is in the part of a sequence from m to n.
LEMMA SubIn ==
  ASSUME NEW S, NEW s \in Seq(S),
         NEW m \in 1..(Len(s) + 1), NEW n \in (m - 1)..Len(s)
  PROVE  /\ SubSeq(s, m, n) \in Seq(S) /\ Len(SubSeq(s, m, n)) = n - m + 1
         /\ \A p : In(p, SubSeq(s, m, n)) <=> \E j \in m..n : p = s[j]
         /\ Inj(s) => Inj(SubSeq(s, m, n))
<1> DEFINE t == SubSeq(s, m, n)
<1>1. Len(s) \in Nat /\ m \in Int /\ n \in Int /\ \A j \in m..n : s[j] \in S
  OBVIOUS
<1>2. /\ t \in Seq(S)
      /\ Len(t) = IF m <= n THEN n - m + 1 ELSE 0
      /\ \A j \in 1..(n - m + 1) : t[j] = s[m + j - 1]
  BY <1>1
<1> HIDE DEF t
<1>3. Len(t) = n - m + 1
  BY <1>1, <1>2
<1>4. \A j \in 1..Len(t) : m + j - 1 \in m..n /\ t[j] = s[m + j - 1]
  BY <1>1, <1>2, <1>3
<1>5. \A j \in m..n : j - m + 1 \in 1..Len(t) /\ t[j - m + 1] = s[j]
  BY <1>1, <1>2, <1>3
<1>6. \A p : In(p, t) <=> \E j \in m..n : p = s[j]
  BY <1>4, <1>5, Zenon DEF In
<1>7. ASSUME Inj(s) PROVE Inj(t)
  BY <1>1, <1>3, <1>4, <1>7 DEF Inj
<1> QED
  BY <1>2, <1>3, <1>6, <1>7, Zenon DEF t

\* What is left when the first is taken.
LEMMA TailIn ==
  ASSUME NEW S, NEW s \in Seq(S), s # <<>>
  PROVE  /\ Tail(s) \in Seq(S) /\ Head(s) \in S
         /\ \A p : In(p, s) <=> p = Head(s) \/ In(p, Tail(s))
         /\ Inj(s) => Inj(Tail(s)) /\ ~In(Head(s), Tail(s))
<1> DEFINE t == Tail(s)
<1>1. /\ t \in Seq(S) /\ Len(s) \in Nat \ {0} /\ Len(t) = Len(s) - 1
      /\ \A j \in 1..Len(t) : t[j] = s[j + 1]
      /\ Head(s) = s[1] /\ Head(s) \in S
  OBVIOUS
<1> HIDE DEF t
<1>2. \A j \in 1..Len(s) : \/ j = 1 /\ s[j] = Head(s)
                           \/ j - 1 \in 1..Len(t) /\ s[j] = t[j - 1]
  BY <1>1
<1>3. \A j \in 1..Len(t) : j + 1 \in 1..Len(s) /\ t[j] = s[j + 1]
  BY <1>1
<1>4. \A p : In(p, s) <=> p = Head(s) \/ In(p, t)
  <2> SUFFICES ASSUME NEW p PROVE In(p, s) <=> p = Head(s) \/ In(p, t)
    BY Zenon
  <2>1. In(p, s) => p = Head(s) \/ In(p, t)
    BY <1>2, Zenon DEF In
  <2>2. p = Head(s) => In(p, s)
    BY <1>1 DEF In
  <2>3. In(p, t) => In(p, s)
    BY <1>3, Zenon DEF In
  <2> QED
    BY <2>1, <2>2, <2>3, Zenon
<1>5. Inj(s) => Inj(t) /\ ~In(Head(s), t)
  BY <1>1, <1>3 DEF In, Inj
<1> QED
  BY <1>1, <1>4, <1>5, Zenon DEF t

\* Nothing is in the empty sequence.
LEMMA EmptyIn == Inj(<<>>) /\ \A p : ~In(p, <<>>)
BY DEF In, Inj

-----------------------------------------------------------------------------
(* Types.                                                                  *)

\* The application stays what it is; processing may stop.
LEMMA ProcessStep == ProcessOK /\ [Next]_vars => ProcessOK' /\ app' = app
<1> SUFFICES ASSUME ProcessOK, [Next]_vars PROVE ProcessOK' /\ app' = app
  BY Zenon
<1>1. CASE nfp_stop_processing
  BY <1>1, Zenon DEF nfp_stop_processing, ProcessOK
<1>2. CASE UNCHANGED process
  BY <1>2, Zenon DEF process, ProcessOK
<1>3. ASSUME NEW w \in Workers, Hook(w) PROVE UNCHANGED process
  BY <1>3, Zenon DEF Hook, Return, echo_notify, echo_reply, echo_mark,
  term_notify, term_send, term_free, cls_send, cls_free, cls_init, web_notify,
  analyze_http, mysend, web_close, web_free
<1> QED
  BY <1>1, <1>2, <1>3, Zenon DEF Next, Receive, vars, Datagram, Connect,
  Segment, Call, Acknowledge, Unhooked, cls_collect, mysend_fails, Transmit,
  termination_loop, channel_recv, channel_free, posix_recv

\* The connections.
LEMMA SocketsStep == TypeOK /\ [Next]_vars => SocketsOK'
<1> SUFFICES ASSUME TypeOK, [Next]_vars PROVE SocketsOK'
  BY Zenon
<1> USE DEF SocketsOK, sockets
<1>1. ASSUME NEW w \in Workers, Connect(w) PROVE SocketsOK'
  BY <1>1, Zenon DEF Connect, Call, TypeOK
<1>2. ASSUME NEW w \in Workers, NEW c \in Conns, Acknowledge(w, c)
      PROVE  SocketsOK'
  BY <1>2, HooksAssumption DEF Acknowledge, TypeOK
<1>3. ASSUME NEW w \in Workers, web_notify(w) PROVE SocketsOK'
  BY <1>3, Zenon DEF web_notify, TypeOK
<1>4. ASSUME NEW w \in Workers, mysend(w) PROVE SocketsOK'
  BY <1>4, HooksAssumption DEF mysend, TypeOK
<1>5. ASSUME NEW w \in Workers, web_close(w) PROVE SocketsOK'
  BY <1>5, Zenon DEF web_close, TypeOK
<1>6. CASE UNCHANGED sockets
  BY <1>6, Zenon DEF TypeOK
<1> QED
  BY <1>1, <1>2, <1>3, <1>4, <1>5, <1>6, ZenonT(60) DEF Next, Hook, Receive, vars,
  Datagram, Segment, Call, Unhooked, cls_collect, Return, echo_notify,
  echo_reply, echo_mark, term_notify, term_send, term_free, cls_send, cls_free,
  cls_init, analyze_http, mysend_fails, web_free, Transmit, termination_loop,
  channel_recv, channel_free, posix_recv, nfp_stop_processing

\* The receiving thread.
LEMMA ReceiverStep == TypeOK /\ [Next]_vars => ReceiverOK'
<1> SUFFICES ASSUME TypeOK, [Next]_vars PROVE ReceiverOK'
  BY Zenon
<1> USE DEF ReceiverOK, receiver
<1>1. CASE termination_loop
  BY <1>1, Zenon DEF termination_loop, TypeOK
<1>2. CASE channel_recv
  <2>1. PICK n \in 0..RecvMax : Recv(n) /\ tbl' = SubSeq(chn, 1, n)
    BY <1>2, Zenon DEF channel_recv
  <2>2. n \in (1 - 1)..Len(chn) /\ 1 \in 1..(Len(chn) + 1)
    BY <2>1, HooksAssumption DEF TypeOK, QueuesOK, Recv
  <2>3. tbl' \in Seq(Packets) /\ Len(tbl') \in Nat
    BY <2>1, <2>2, SubIn DEF TypeOK, QueuesOK
  <2> QED
    BY <1>2, <2>3 DEF channel_recv
<1>3. CASE channel_free
  <2>1. CASE ri <= Len(tbl)
    BY <1>3, <2>1 DEF channel_free, TypeOK
  <2>2. CASE ~(ri <= Len(tbl))
    BY <1>3, <2>2 DEF channel_free, Processed, TypeOK
  <2> QED
    BY <2>1, <2>2, Zenon
<1>4. CASE posix_recv
  BY <1>4, Zenon DEF posix_recv, TypeOK
<1>5. CASE UNCHANGED receiver
  BY <1>5, Zenon DEF TypeOK
<1>6. ASSUME NEW w \in Workers, Hook(w) PROVE UNCHANGED receiver
  BY <1>6, Zenon DEF Hook, Return, echo_notify, echo_reply, echo_mark,
  term_notify, term_send, term_free, cls_send, cls_free, cls_init, web_notify,
  analyze_http, mysend, web_close, web_free
<1> QED
  BY <1>1, <1>2, <1>3, <1>4, <1>5, <1>6, ZenonT(60) DEF Next, Receive, vars,
  Datagram, Connect, Segment, Call, Acknowledge, Unhooked, cls_collect,
  mysend_fails, Transmit, nfp_stop_processing

\* A vector that the dispatcher has collected.
LEMMA VectorType ==
  ASSUME QueuesOK, NEW s \in Vectors
  PROVE  /\ s \in Seq(Packets) /\ Inj(s) /\ Len(s) <= VecMax
         /\ \A p : In(p, s) <=> p \in Range(s)
<1>1. PICK n \in 1..VecMax : s \in [1..n -> pool]
  BY Zenon DEF Vectors
<1>2. n \in Nat /\ s \in [1..n -> Packets] /\ DOMAIN s = 1..n
  BY <1>1, HooksAssumption DEF QueuesOK
<1>3. s \in Seq(Packets) /\ Len(s) = n
  BY <1>2
<1>4. Inj(s)
  BY <1>2, <1>3, Zenon DEF Vectors, IsInjective, Inj
<1>5. Len(s) <= VecMax
  BY <1>1, <1>3, HooksAssumption
<1>6. \A p : In(p, s) <=> p \in Range(s)
  BY <1>2, <1>3, Zenon DEF In, Range
<1> QED
  BY <1>3, <1>4, <1>5, <1>6, Zenon

\* The values of a uint16_t.
LEMMA SixteenBits == \A x \in Int : x % 2^16 \in Nat
<1>1. \A x \in Int : x % 65536 \in Nat
  OBVIOUS
<1>2. 2^16 = 65536
  OBVIOUS
<1> QED
  BY <1>1, <1>2

\* The loop that frees the packets the channel did not take starts in the
\* vector or behind it, whatever nfp_channel_send() returned.
LEMMA StartIdx == \A sent \in Sent : start_idx(sent) \in Nat
<1> SUFFICES ASSUME NEW sent \in Sent PROVE start_idx(sent) \in Nat
  BY Zenon
<1>1. sent \in Int
  BY HooksAssumption DEF Sent
<1> QED
  BY <1>1, SixteenBits DEF start_idx

\* A number of packets that the channel took of a vector is not cut short.
LEMMA StartIdxSent ==
  ASSUME NEW n \in 0..VecMax
  PROVE  start_idx(n) = n
<1>1. 2^16 = 65536
  OBVIOUS
<1>2. n < 65536 /\ n \in Nat
  BY <1>1, HooksAssumption
<1>3. \A x \in Nat : x < 65536 => x % 65536 = x
  OBVIOUS
<1> QED
  BY <1>1, <1>2, <1>3 DEF start_idx

\* The workers.
LEMMA WorkersStep == IInv /\ [Next]_vars => WorkersOK'
<1> SUFFICES ASSUME IInv, [Next]_vars PROVE WorkersOK'
  BY Zenon
<1>0. WorkersOK /\ QueuesOK /\ \A w \in Workers : LocalsOK(w)
  BY Zenon DEF IInv, TypeOK
<1> USE <1>0 DEF WorkersOK, AtSs, AtPkt, Goto, vector, request, worker
<1>1. ASSUME NEW w \in Workers, NEW ev \in {"RECV", "SEND", "ACCEPT"},
             NEW p \in Packets \cup {INVALID}, NEW c \in Conns \cup {"none"},
             Call(w, ev, p, c)
      PROVE  WorkersOK'
  BY <1>1, Zenon DEF Call
<1>2. ASSUME NEW w \in Workers, Datagram(w) \/ Connect(w) \/ Segment(w)
      PROVE  WorkersOK'
  <2>1. \A p \in pool : p \in Packets \cup {INVALID}
    BY Zenon DEF QueuesOK
  <2>2. CASE Datagram(w)
    BY <1>1, <2>1, <2>2, Zenon DEF Datagram
  <2>3. CASE Connect(w)
    BY <1>1, <2>3, Zenon DEF Connect
  <2>4. CASE Segment(w)
    <3>1. PICK c \in Conns :
            \/ \E p \in pool : Call(w, "RECV", p, c)
            \/ \E ev \in {"RECV", "SEND"} : Call(w, ev, INVALID, c)
      BY <2>4, Zenon DEF Segment
    <3>2. CASE \E p \in pool : Call(w, "RECV", p, c)
      BY <1>1, <2>1, <3>2, Zenon
    <3>3. CASE \E ev \in {"RECV", "SEND"} : Call(w, ev, INVALID, c)
      <4>1. PICK ev \in {"RECV", "SEND"} : Call(w, ev, INVALID, c)
        BY <3>3, Zenon
      <4> QED
        BY <4>1, Zenon DEF Call
    <3> QED
      BY <3>1, <3>2, <3>3, Zenon
  <2> QED
    BY <1>2, <2>2, <2>3, <2>4, Zenon
<1>3. ASSUME NEW w \in Workers, Unhooked(w) PROVE WorkersOK'
  BY <1>3 DEF Unhooked, QueuesOK
<1>4. ASSUME NEW w \in Workers, cls_collect(w) PROVE WorkersOK'
  BY <1>4, VectorType DEF cls_collect
<1>5. ASSUME NEW w \in Workers, Return(w) PROVE WorkersOK'
  BY <1>5, Zenon DEF Return
<1>6. ASSUME NEW w \in Workers, echo_notify(w) \/ echo_reply(w) \/ echo_mark(w)
      PROVE  WorkersOK'
  BY <1>6, ZenonT(60) DEF echo_notify, echo_reply, echo_mark
<1>7. ASSUME NEW w \in Workers, term_notify(w) \/ term_send(w) \/ term_free(w)
      PROVE  WorkersOK'
  BY <1>7, Zenon DEF term_notify, term_send, term_free
<1>8. ASSUME NEW w \in Workers, cls_send(w) PROVE WorkersOK'
  <2>1. \A sent \in Sent : start_idx(sent) + 1 \in Nat \ {0}
    BY StartIdx
  <2>2. PICK n \in Nat \ {0}, l \in {"vfree", "vinit"} :
          i' = [i EXCEPT ![w] = n] /\ Goto(w, l)
    BY <1>8, <2>1, Zenon DEF cls_send
  <2> QED
    BY <1>8, <2>2, Zenon DEF cls_send
<1>9. ASSUME NEW w \in Workers, cls_free(w) PROVE WorkersOK'
  <2>1. CASE i[w] <= Len(vec[w])
    <3>1. i[w] + 1 \in Nat \ {0} /\ i' = [i EXCEPT ![w] = i[w] + 1]
      BY <1>9, <2>1 DEF cls_free
    <3> QED
      BY <1>9, <2>1, <3>1, Zenon DEF cls_free
  <2>2. CASE ~(i[w] <= Len(vec[w]))
    BY <1>9, <2>2, Zenon DEF cls_free
  <2> QED
    BY <2>1, <2>2, Zenon
<1>10. ASSUME NEW w \in Workers, cls_init(w) PROVE WorkersOK'
  BY <1>10 DEF cls_init
<1>11. ASSUME NEW w \in Workers, web_notify(w) \/ web_close(w) \/ web_free(w)
       PROVE  WorkersOK'
  BY <1>11, ZenonT(60) DEF web_notify, web_close, web_free
<1>12. ASSUME NEW w \in Workers, analyze_http(w) PROVE WorkersOK'
  BY <1>12, HooksAssumption DEF analyze_http
<1>13. ASSUME NEW w \in Workers, mysend(w) PROVE WorkersOK'
  <2>1. con[w] \in Conns
    BY <1>13, Zenon DEF mysend, LocalsOK
  <2>2. SndBuf - unacked[con[w]] \in Int
    BY <2>1, HooksAssumption DEF IInv, TypeOK, SocketsOK
  <2>3. CASE left[w] = 0 /\ Answered(w) /\ UNCHANGED left
    BY <1>13, <2>3, Zenon DEF mysend, Answered
  <2>4. ASSUME NEW n \in Nat, left' = [left EXCEPT ![w] = n], UNCHANGED at
        PROVE  WorkersOK'
    BY <1>13, <2>4, Zenon DEF mysend
  <2>5. ASSUME NEW n \in 1..(SndBuf - unacked[con[w]]), n <= left[w],
               left' = [left EXCEPT ![w] = Remaining(left[w], n)], UNCHANGED at
        PROVE  WorkersOK'
    <3>1. left[w] - n \in Nat
      BY <2>2, <2>5
    <3> QED
      BY <2>4, <2>5, <3>1, Zenon DEF Remaining
  <2> QED
    BY <1>13, <2>3, <2>5, Zenon DEF mysend
<1>14. CASE UNCHANGED worker
  BY <1>14, Zenon
<1>15. ASSUME NEW w \in Workers, mysend_fails(w) PROVE WorkersOK'
  <2>1. left[w] - 1 \in Nat
    BY <1>15 DEF mysend_fails
  <2>2. PICK n \in {0, left[w] - 1} : left' = [left EXCEPT ![w] = n]
    BY <1>15, Zenon DEF mysend_fails
  <2>3. n \in Nat
    BY <2>1, <2>2
  <2> QED
    BY <1>15, <2>2, <2>3, Zenon DEF mysend_fails
<1> QED
  BY <1>2, <1>3, <1>4, <1>5, <1>6, <1>7, <1>8, <1>9, <1>10, <1>11, <1>12,
     <1>13, <1>14, <1>15, Zenon
  DEF Next, Hook, Receive, vars, Acknowledge, Transmit, termination_loop,
      channel_recv, channel_free, posix_recv, nfp_stop_processing

\* The packets of the pool, the stack and the channel.
LEMMA QueuesStep == IInv /\ [Next]_vars => QueuesOK'
<1> SUFFICES ASSUME IInv, [Next]_vars PROVE QueuesOK'
  BY Zenon
<1>0. QueuesOK /\ WorkersOK /\ ReceiverOK /\ \A w \in Workers : LocalsOK(w)
  BY Zenon DEF IInv, TypeOK
<1> USE <1>0 DEF QueuesOK
<1>1. ASSUME NEW w \in Workers,
             Datagram(w) \/ Connect(w) \/ Segment(w) \/ Unhooked(w) \/ cls_collect(w)
      PROVE  QueuesOK'
  <2>1. /\ pool' \subseteq pool
        /\ UNCHANGED <<tx, buf, chn, lost>>
    BY <1>1, Zenon DEF Datagram, Connect, Segment, Call, Unhooked, cls_collect
  <2> QED
    BY <2>1, Zenon
<1>2. ASSUME NEW w \in Workers, Return(w) PROVE QueuesOK'
  <2>1. CASE ss[w] = INVALID
    BY <1>2, <2>1, Zenon DEF Return
  <2>2. CASE ss[w] # INVALID
    BY <1>2, <2>2, AppendIn, Zenon DEF Return, WorkersOK
  <2> QED
    BY <2>1, <2>2, Zenon
<1>3. ASSUME NEW w \in Workers, echo_reply(w) PROVE QueuesOK'
  BY <1>3, Zenon DEF echo_reply, LocalsOK, AtPkt
<1>4. ASSUME NEW w \in Workers, NEW s \in Seq(Packets), NEW sent,
             nfp_channel_send(s, sent), UNCHANGED <<pool, tx, buf>>,
             lost' \subseteq Packets
      PROVE  QueuesOK'
  <2>1. CASE UNCHANGED chn
    BY <1>4, <2>1, Zenon
  <2>2. CASE /\ sent \in 0..Len(s) /\ Len(chn) + sent <= ChannelSize
             /\ chn' = chn \o SubSeq(s, 1, sent)
    <3>1. sent \in (1 - 1)..Len(s) /\ 1 \in 1..(Len(s) + 1) /\ sent - 1 + 1 = sent
      BY <2>2
    <3>2. SubSeq(s, 1, sent) \in Seq(Packets) /\ Len(SubSeq(s, 1, sent)) = sent
      BY <3>1, SubIn
    <3>3. chn' \in Seq(Packets) /\ Len(chn') = Len(chn) + sent
      BY <2>2, <3>2, ConcatIn, Zenon
    <3> QED
      BY <1>4, <2>2, <3>3, Zenon
  <2> QED
    BY <1>4, <2>1, <2>2, ZenonT(60) DEF nfp_channel_send
<1>5. ASSUME NEW w \in Workers, term_send(w) PROVE QueuesOK'
  <2>1. <<pkt[w]>> \in Seq(Packets)
    BY <1>5 DEF term_send, LocalsOK, AtPkt
  <2> QED
    BY <1>4, <1>5, <2>1, Zenon DEF term_send
<1>6. ASSUME NEW w \in Workers, cls_send(w) PROVE QueuesOK'
  <2>1. vec[w] \in Seq(Packets) /\ \A j \in 1..Len(vec[w]) : vec[w][j] \in Packets
    BY DEF WorkersOK
  <2>2. \A sent : Forgotten(vec[w], sent) \subseteq Packets
    BY <2>1, Zenon DEF Forgotten
  <2> QED
    BY <1>4, <1>6, <2>1, <2>2, Zenon DEF cls_send
<1>7. ASSUME NEW w \in Workers, term_free(w) \/ web_free(w) PROVE QueuesOK'
  BY <1>7, Zenon DEF term_free, web_free, LocalsOK, AtPkt
<1>8. ASSUME NEW w \in Workers, cls_free(w) PROVE QueuesOK'
  <2>1. CASE i[w] <= Len(vec[w])
    <3>1. vec[w][i[w]] \in Packets
      BY <2>1 DEF WorkersOK
    <3> QED
      BY <1>8, <2>1, <3>1, Zenon DEF cls_free
  <2>2. CASE ~(i[w] <= Len(vec[w]))
    BY <1>8, <2>2, Zenon DEF cls_free
  <2> QED
    BY <2>1, <2>2, ZenonT(60)
<1>9. CASE channel_recv
  <2>1. PICK n \in 0..RecvMax :
          Recv(n) /\ chn' = SubSeq(chn, n + 1, Len(chn))
    BY <1>9, Zenon DEF channel_recv
  <2>2. /\ n + 1 \in 1..(Len(chn) + 1) /\ Len(chn) \in ((n + 1) - 1)..Len(chn)
        /\ Len(chn) - (n + 1) + 1 <= Len(chn)
    BY <2>1, HooksAssumption DEF Recv
  <2>3. chn' \in Seq(Packets) /\ Len(chn') = Len(chn) - (n + 1) + 1
    BY <2>1, <2>2, SubIn
  <2> QED
    <3>1. Len(chn') <= Len(chn) /\ Len(chn) \in Nat /\ Len(chn') \in Nat
      BY <2>2, <2>3
    <3>2. Len(chn') <= ChannelSize
      BY <3>1, HooksAssumption
    <3> QED
      BY <1>9, <2>3, <3>2, Zenon DEF channel_recv
<1>10. CASE channel_free
  BY <1>10 DEF channel_free, ReceiverOK
<1>11. CASE posix_recv
  <2>1. CASE UNCHANGED <<pool, tx, buf, chn, lost>>
    BY <2>1, Zenon
  <2>2. CASE /\ buf # <<>> /\ buf' = Tail(buf) /\ pool' = pool \cup {Head(buf)}
             /\ UNCHANGED <<tx, chn, lost>>
    <3>1. Tail(buf) \in Seq(Packets) /\ Head(buf) \in Packets
      BY <2>2, TailIn, Zenon
    <3> QED
      BY <2>2, <3>1, Zenon
  <2> QED
    BY <1>11, <2>1, <2>2, Zenon DEF posix_recv
<1>12. ASSUME NEW p \in Packets, Transmit(p) PROVE QueuesOK'
  BY <1>12, Zenon DEF Transmit
<1>13. CASE UNCHANGED <<pool, tx, buf, chn, lost>>
  BY <1>13, Zenon
<1> QED
  BY <1>1, <1>2, <1>3, <1>5, <1>6, <1>7, <1>8, <1>9, <1>10, <1>11, <1>12,
     <1>13, Zenon
  DEF Next, Hook, Receive, vars, Acknowledge, echo_notify, echo_mark,
      term_notify, cls_init, web_notify, analyze_http, mysend, mysend_fails,
      web_close, termination_loop, nfp_stop_processing

\* Every step keeps the types.
LEMMA TypeStep == IInv /\ [Next]_vars => TypeOK'
BY ProcessStep, QueuesStep, WorkersStep, ReceiverStep, SocketsStep, Zenon
   DEF IInv, TypeOK

-----------------------------------------------------------------------------
(* What workers know.                                                      *)

\* A worker that makes no step knows what it knew.
LEMMA LocalsStay ==
  ASSUME NEW v \in Workers, LocalsOK(v), app' = app,
         at'[v] = at[v], event'[v] = event[v], ss'[v] = ss[v],
         pkt'[v] = pkt[v], vec'[v] = vec[v], con'[v] = con[v]
  PROVE  LocalsOK(v)'
BY Zenon DEF LocalsOK

\* Only w makes a step among the workers.
Others(w) ==
  \A v \in Workers \ {w} :
    /\ at'[v] = at[v] /\ event'[v] = event[v] /\ ss'[v] = ss[v]
    /\ pkt'[v] = pkt[v] /\ vec'[v] = vec[v] /\ i'[v] = i[v] /\ con'[v] = con[v]

Arrival(w) ==
  Datagram(w) \/ Connect(w) \/ Segment(w) \/ Unhooked(w) \/ cls_collect(w)

\* A worker touches nothing of another.
LEMMA OthersStay ==
  ASSUME WorkersOK, NEW w \in Workers, Arrival(w) \/ Hook(w) \/ mysend_fails(w)
  PROVE  Others(w)
<1> USE DEF WorkersOK, Goto, vector, request, worker, Others
<1>1. CASE Arrival(w)
  <2>1. ASSUME NEW ev, NEW p, NEW c, Call(w, ev, p, c) PROVE Others(w)
    BY <2>1, Zenon DEF Call
  <2>2. CASE Datagram(w) \/ Connect(w) \/ Segment(w)
    BY <2>1, <2>2, Zenon DEF Datagram, Connect, Segment
  <2>3. CASE Unhooked(w) \/ cls_collect(w)
    BY <2>3 DEF Unhooked, cls_collect
  <2> QED
    BY <1>1, <2>2, <2>3, Zenon DEF Arrival
<1>2. CASE Return(w) \/ echo_notify(w) \/ echo_reply(w) \/ echo_mark(w)
  BY <1>2 DEF Return, echo_notify, echo_reply, echo_mark
<1>3. CASE term_notify(w) \/ term_send(w) \/ term_free(w)
  BY <1>3 DEF term_notify, term_send, term_free
<1>4. CASE cls_send(w) \/ cls_free(w) \/ cls_init(w)
  BY <1>4 DEF cls_send, cls_free, cls_init
<1>5. CASE web_notify(w) \/ analyze_http(w) \/ mysend(w) \/ web_close(w) \/ web_free(w)
  BY <1>5, Zenon DEF web_notify, analyze_http, mysend, Answered, web_close, web_free
<1>6. CASE mysend_fails(w)
  BY <1>6, Zenon DEF mysend_fails
<1> QED
  BY <1>1, <1>2, <1>3, <1>4, <1>5, <1>6, ZenonT(60) DEF Hook

\* A worker that makes no step holds what it held.
LEMMA HeldStays ==
  ASSUME NEW v \in Workers, at'[v] = at[v], ss'[v] = ss[v], pkt'[v] = pkt[v],
         vec'[v] = vec[v], i'[v] = i[v]
  PROVE  Held(v)' = Held(v)
BY Zenon DEF Held

\* What a worker has to know where it gets, by the kind of place.
LEMMA LocalsAway ==
  ASSUME NEW w \in Workers, at'[w] \in {"idle", "return", "mark", "vinit"}
  PROVE  LocalsOK(w)'
BY Zenon DEF LocalsOK, AtPkt

\* With a vector: its packets differ, and it is no longer than the dispatcher
\* makes it.
LEMMA LocalsVector ==
  ASSUME NEW w \in Workers, at'[w] \in {"vsend", "vfree"}, Inj(vec'[w]),
         at'[w] = "vsend" => Len(vec'[w]) <= VecMax
  PROVE  LocalsOK(w)'
BY Zenon DEF LocalsOK, AtPkt

\* In a callback: a packet with a receive event, a connection in webserver2.
LEMMA LocalsNotify ==
  ASSUME NEW w \in Workers, at'[w] = "notify",
         app' \in {"echo", "term"} /\ event'[w] = "RECV" => ss'[w] \in Packets,
         app' = "web" => con'[w] \in Conns
  PROVE  LocalsOK(w)'
BY Zenon DEF LocalsOK, AtPkt

\* Past the first lines of a callback: the local pkt.
LEMMA LocalsPkt ==
  ASSUME NEW w \in Workers, at'[w] \in AtPkt, pkt'[w] \in Packets,
         at'[w] \in {"send", "drop"} => ss'[w] = INVALID,
         at'[w] \in {"analyze", "mysend"} => con'[w] \in Conns
  PROVE  LocalsOK(w)'
BY Zenon DEF LocalsOK, AtPkt

\* The variables of a callback that is called.
LEMMA CallSets ==
  ASSUME WorkersOK, NEW w \in Workers, NEW ev, NEW p, NEW c, Call(w, ev, p, c)
  PROVE  at'[w] = "notify" /\ event'[w] = ev /\ ss'[w] = p /\ con'[w] = c
BY Zenon DEF Call, Goto, WorkersOK

\* A worker that goes somewhere is there.
LEMMA GotoSets ==
  ASSUME WorkersOK, NEW w \in Workers, NEW l, Goto(w, l)
  PROVE  at'[w] = l
BY Zenon DEF Goto, WorkersOK

\* What arrives is handed to the worker as the callback expects it.
LEMMA LocalsArrival ==
  ASSUME IInv, app' = app, NEW w \in Workers, Arrival(w)
  PROVE  LocalsOK(w)'
<1>0. WorkersOK /\ QueuesOK
  BY Zenon DEF IInv, TypeOK
<1>1. CASE Datagram(w)
  <2>1. app' \in {"echo", "term"}
    BY <1>1, ZenonT(60) DEF Datagram
  <2>2. ASSUME NEW p \in pool, Call(w, "RECV", p, "none") PROVE LocalsOK(w)'
    BY <1>0, <2>1, <2>2, CallSets, LocalsNotify DEF QueuesOK
  <2>3. ASSUME Call(w, "SEND", INVALID, "none") PROVE LocalsOK(w)'
    BY <1>0, <2>1, <2>3, CallSets, LocalsNotify, Zenon
  <2> QED
    BY <1>1, <2>2, <2>3, Zenon DEF Datagram
<1>2. CASE Connect(w) \/ Segment(w)
  <2>1. app' = "web"
    BY <1>2, Zenon DEF Connect, Segment
  <2>2. ASSUME NEW ev, NEW p, NEW c \in Conns, Call(w, ev, p, c)
        PROVE  LocalsOK(w)'
    BY <1>0, <2>1, <2>2, CallSets, LocalsNotify
  <2> QED
    BY <1>2, <2>2, Zenon DEF Connect, Segment
<1>3. CASE Unhooked(w)
  BY <1>0, <1>3, GotoSets, LocalsAway, Zenon DEF Unhooked
<1>4. CASE cls_collect(w)
  <2>1. PICK s \in Vectors : vec' = [vec EXCEPT ![w] = s]
    BY <1>4, Zenon DEF cls_collect
  <2>2. vec'[w] = s /\ Inj(s) /\ Len(s) <= VecMax
    BY <1>0, <2>1, VectorType, Zenon DEF WorkersOK
  <2>3. at'[w] = "vsend"
    BY <1>0, <1>4, GotoSets, Zenon DEF cls_collect
  <2> QED
    BY <2>2, <2>3, LocalsVector, Zenon
<1> QED
  BY <1>1, <1>2, <1>3, <1>4, Zenon DEF Arrival

\* A worker that makes a step knows what it has to know where it gets.
LEMMA LocalsOwn ==
  ASSUME IInv, app' = app, NEW w \in Workers,
         Arrival(w) \/ Hook(w) \/ mysend_fails(w)
  PROVE  LocalsOK(w)'
<1>0. WorkersOK /\ LocalsOK(w)
  BY Zenon DEF IInv, TypeOK
<1>1. CASE Arrival(w)
  BY <1>1, LocalsArrival, Zenon
<1>2. CASE Return(w) \/ echo_reply(w) \/ echo_mark(w) \/ term_free(w) \/ cls_init(w)
           \/ web_free(w)
  <2>1. at'[w] \in {"idle", "return", "mark"}
    BY <1>0, <1>2, GotoSets, Zenon
    DEF Return, echo_reply, echo_mark, term_free, cls_init, web_free
  <2> QED
    BY <2>1, LocalsAway, ZenonT(60)
<1>3. CASE echo_notify(w)
  <2>1. CASE event[w] # "RECV"
    BY <1>0, <1>3, <2>1, GotoSets, LocalsAway, ZenonT(60) DEF echo_notify
  <2>2. CASE event[w] = "RECV"
    <3>1. at'[w] = "reply" /\ pkt'[w] = ss[w]
      BY <1>0, <1>3, <2>2, GotoSets, ZenonT(60) DEF echo_notify, WorkersOK
    <3>2. ss[w] \in Packets
      BY <1>0, <1>3, <2>2, ZenonT(60) DEF echo_notify, LocalsOK
    <3> QED
      BY <3>1, <3>2, LocalsPkt, Zenon DEF AtPkt
  <2> QED
    BY <2>1, <2>2, ZenonT(60)
<1>4. CASE term_notify(w)
  <2>1. CASE event[w] # "RECV"
    BY <1>0, <1>4, <2>1, GotoSets, LocalsAway, Zenon DEF term_notify
  <2>2. CASE event[w] = "RECV"
    <3>1. at'[w] = "send" /\ pkt'[w] = ss[w] /\ ss'[w] = INVALID
      BY <1>0, <1>4, <2>2, GotoSets, ZenonT(60) DEF term_notify, WorkersOK
    <3>2. ss[w] \in Packets
      BY <1>0, <1>4, <2>2, ZenonT(60) DEF term_notify, LocalsOK
    <3> QED
      BY <3>1, <3>2, LocalsPkt, Zenon DEF AtPkt
  <2> QED
    BY <2>1, <2>2, Zenon
<1>5. CASE term_send(w)
  <2>1. at'[w] \in {"drop", "return"}
    BY <1>0, <1>5, GotoSets, ZenonT(60) DEF term_send
  <2>2. pkt'[w] \in Packets /\ ss'[w] = INVALID
    BY <1>0, <1>5, ZenonT(60) DEF term_send, LocalsOK, AtPkt
  <2> QED
    BY <2>1, <2>2, LocalsPkt, LocalsAway, ZenonT(60) DEF AtPkt
<1>6. CASE cls_send(w) \/ cls_free(w)
  <2>1. at'[w] \in {"vfree", "vinit"}
    BY <1>0, <1>6, GotoSets, ZenonT(60) DEF cls_send, cls_free
  <2>2. Inj(vec'[w])
    BY <1>0, <1>6, ZenonT(60) DEF cls_send, cls_free, LocalsOK
  <2> QED
    BY <2>1, <2>2, LocalsVector, LocalsAway, ZenonT(60)
<1>7. CASE web_notify(w)
  <2>1. at'[w] \in {"return", "free", "analyze", "close"}
    BY <1>0, <1>7, GotoSets, ZenonT(60) DEF web_notify
  <2>2. pkt'[w] = ss[w] /\ con'[w] = con[w] /\ con[w] \in Conns
    BY <1>0, <1>7, ZenonT(60) DEF web_notify, request, LocalsOK, WorkersOK
  <2>3. at'[w] # "return" => ss[w] \in Packets
    BY <1>0, <1>7, GotoSets, ZenonT(60) DEF web_notify, WorkersOK
  <2> QED
    BY <2>1, <2>2, <2>3, LocalsPkt, LocalsAway, ZenonT(60) DEF AtPkt
<1>8. CASE analyze_http(w) \/ mysend(w) \/ web_close(w)
  <2>1. at'[w] \in {"mysend", "close", "free"}
    BY <1>0, <1>8, GotoSets, ZenonT(60) DEF analyze_http, mysend, Answered, web_close
  <2>2. pkt'[w] \in Packets
    BY <1>0, <1>8, ZenonT(60) DEF analyze_http, mysend, web_close, LocalsOK, AtPkt
  <2>3. analyze_http(w) \/ mysend(w) => con'[w] \in Conns
    BY <1>0, Zenon DEF analyze_http, mysend, LocalsOK
  <2>4. web_close(w) => at'[w] = "free"
    BY <1>0, GotoSets, Zenon DEF web_close
  <2> QED
    BY <1>8, <2>1, <2>2, <2>3, <2>4, LocalsPkt, ZenonT(60) DEF AtPkt
<1>9. CASE mysend_fails(w)
  <2>1. at'[w] = "mysend" /\ pkt'[w] \in Packets /\ con'[w] \in Conns
    BY <1>0, <1>9, ZenonT(60) DEF mysend_fails, LocalsOK, AtPkt
  <2> QED
    BY <2>1, LocalsPkt, ZenonT(60) DEF AtPkt
<1> QED
  BY <1>1, <1>2, <1>3, <1>4, <1>5, <1>6, <1>7, <1>8, <1>9, Zenon DEF Hook

\* Every step keeps what workers know.
LEMMA LocalsStep == IInv /\ [Next]_vars => (\A w \in Workers : LocalsOK(w))'
<1> SUFFICES ASSUME IInv, [Next]_vars, NEW v \in Workers PROVE LocalsOK(v)'
  BY Zenon
<1>1. LocalsOK(v) /\ WorkersOK /\ app' = app
  BY ProcessStep, Zenon DEF IInv, TypeOK
<1>2. ASSUME NEW w \in Workers, Arrival(w) \/ Hook(w) \/ mysend_fails(w)
      PROVE  LocalsOK(v)'
  <2>1. CASE v = w
    BY <1>1, <1>2, <2>1, LocalsOwn, Zenon
  <2>2. CASE v # w
    <3>1. Others(w)
      BY <1>1, <1>2, OthersStay, ZenonT(60)
    <3> QED
      BY <1>1, <2>2, <3>1, LocalsStay, Zenon DEF Others
  <2> QED
    BY <2>1, <2>2, Zenon
<1>3. CASE UNCHANGED worker
  BY <1>1, <1>3, LocalsStay, Zenon DEF worker, vector, request
<1> QED
  BY <1>2, <1>3, Zenon DEF Next, Arrival, Receive, vars, Acknowledge, Transmit,
     termination_loop, channel_recv, channel_free, posix_recv,
     nfp_stop_processing

-----------------------------------------------------------------------------
(* Owners.                                                                 *)

HolderOwns == \A p \in Packets, o \in Owners : Has(o, p) <=> Owner[p] = o

\* Where every packet has one holder, that is its owner.
LEMMA OwnerIsHolder == OneHolder => HolderOwns
<1> SUFFICES ASSUME OneHolder, NEW p \in Packets, NEW o \in Owners
             PROVE  Has(o, p) <=> Owner[p] = o
  BY Zenon DEF HolderOwns
<1>1. PICK h \in Owners : Has(h, p) /\ \A q \in Owners : Has(q, p) => q = h
  BY Zenon DEF OneHolder
<1>2. \A q : q \in Holders(p) <=> q \in Owners /\ Has(q, p)
  BY HooksAssumption, Zenon DEF Holders, Has, Owners, In
<1>3. Holders(p) = {h}
  BY <1>1, <1>2, Zenon
<1>4. Owner[p] = CHOOSE q \in Holders(p) : Holders(p) = {q}
  BY <1>3, Zenon DEF Owner
<1>5. Owner[p] = h
  BY <1>3, <1>4, Zenon
<1> QED
  BY <1>1, <1>5, Zenon

\* The same in the state after a step.
LEMMA OwnerIsHolderNext == OneHolder' => HolderOwns'
BY OwnerIsHolder, PTL

\* The packets of S pass from one holder to another, the others stay.
Moves(S, from, to) ==
  /\ S \subseteq Packets
  /\ \A p \in S : Has(from, p)
  /\ \A p \in Packets, o \in Owners :
       Has(o, p)' <=> IF p \in S THEN o = to ELSE Has(o, p)

\* Such a step keeps the holders unique and is a step of PacketOwner.
LEMMA MovesStep ==
  ASSUME NEW S, NEW from \in Owners, NEW to \in Owners,
         OneHolder, Moves(S, from, to),
         <<from, to>> \in Abstract!Hands
  PROVE  OneHolder' /\ [Abstract!Next]_Owner
<1>1. OneHolder'
  <2> SUFFICES ASSUME NEW p \in Packets
               PROVE  \E o \in Owners :
                        Has(o, p)' /\ \A q \in Owners : Has(q, p)' => q = o
    BY Zenon DEF OneHolder
  <2>1. CASE p \in S
    BY <2>1, Zenon DEF Moves
  <2>2. CASE p \notin S
    BY <2>2, Zenon DEF Moves, OneHolder
  <2> QED
    BY <2>1, <2>2, Zenon
<1>2. \A p \in Packets : Owner[p] \in Owners /\ Owner'[p] \in Owners
  BY <1>1, OwnerIsHolder, OwnerIsHolderNext DEF OneHolder, HolderOwns
<1>3. \A p \in S : p \in Packets /\ Owner[p] = from
  BY OwnerIsHolder, Zenon DEF Moves, HolderOwns
<1>4. \A p \in Packets : Owner'[p] = IF p \in S THEN to ELSE Owner[p]
  BY <1>1, <1>2, OwnerIsHolder, OwnerIsHolderNext, Zenon DEF Moves, HolderOwns
<1>5. Owner' = [p \in Packets |-> Owner'[p]]
  BY Zenon DEF Owner
<1>6. Owner' \in [Packets -> Abstract!Owners]
  BY <1>2, <1>5 DEF Owners, Abstract!Owners
<1> DEFINE moved == {q \in Packets : Owner'[q] # Owner[q]}
           passed == {<<Owner[p], Owner'[p]>> : p \in moved}
<1>7. \A p \in moved : <<Owner[p], Owner'[p]>> = <<from, to>>
  BY <1>3, <1>4, Zenon
<1>8. CASE moved = {}
  <2>1. Owner' = Owner
    BY <1>5, <1>8, Zenon DEF Owner
  <2> QED
    BY <1>1, <2>1, Zenon
<1>9. CASE moved # {}
  <2>1. passed = {<<from, to>>}
    BY <1>7, <1>9, Zenon
  <2>2. passed \in {{h} : h \in Abstract!Hands}
    BY <2>1, Zenon
  <2> QED
    BY <1>1, <1>6, <2>2, Zenon DEF Abstract!Next
<1> QED
  BY <1>8, <1>9, Zenon

\* Where nothing moves, the owners stay.
LEMMA StaysStep ==
  ASSUME OneHolder,
         \A p \in Packets, o \in Owners : Has(o, p)' <=> Has(o, p)
  PROVE  OneHolder' /\ Owner' = Owner
<1>1. OneHolder'
  BY Zenon DEF OneHolder
<1>2. \A p \in Packets : Owner[p] \in Owners /\ Owner'[p] \in Owners
  BY <1>1, OwnerIsHolder, OwnerIsHolderNext DEF OneHolder, HolderOwns
<1>3. \A p \in Packets : Owner'[p] = Owner[p]
  BY <1>1, <1>2, OwnerIsHolder, OwnerIsHolderNext, Zenon DEF HolderOwns
<1>4. Owner' = [p \in Packets |-> Owner'[p]] /\ Owner = [p \in Packets |-> Owner[p]]
  BY Zenon DEF Owner
<1> QED
  BY <1>1, <1>3, <1>4, Zenon

-----------------------------------------------------------------------------
(* How packets change hands.                                               *)

\* No packet has two holders.
LEMMA Sole ==
  ASSUME OneHolder, NEW p \in Packets, NEW o \in Owners, NEW q \in Owners,
         Has(o, p), Has(q, p)
  PROVE  o = q
BY Zenon DEF OneHolder

\* The other workers hold what they held.
HeldElsewhere(w) == \A v \in Workers \ {w} : Held(v)' = Held(v)

\* A step of w that leaves the packets where they are.
LEMMA WorkerKeeps ==
  ASSUME NEW w \in Workers, HeldElsewhere(w), Held(w)' = Held(w),
         pool' = pool, tx' = tx, buf' = buf, chn' = chn,
         lost' = lost, UNCHANGED receiver
  PROVE  \A p \in Packets, o \in Owners : Has(o, p)' <=> Has(o, p)
<1>1. Received' = Received
  BY Zenon DEF Received, receiver
<1>2. \A v \in Workers : Held(v)' = Held(v)
  BY Zenon DEF HeldElsewhere
<1> QED
  BY <1>1, <1>2 DEF Has

\* w takes packets out of the pool.
LEMMA WorkerTakes ==
  ASSUME OneHolder, NEW w \in Workers, HeldElsewhere(w), pool \subseteq Packets,
         NEW S \in SUBSET pool, Held(w) = {}, Held(w)' = S, pool' = pool \ S,
         tx' = tx, buf' = buf, chn' = chn,
         lost' = lost, UNCHANGED receiver
  PROVE  Moves(S, "pool", w)
<1>1. Received' = Received
  BY Zenon DEF Received, receiver
<1>2. \A p \in S : Has("pool", p)
  BY Zenon DEF Has
<1>3. \A p \in S, o \in Owners : Has(o, p) => o = "pool"
  BY <1>2, Sole, Zenon DEF Owners
<1>4. ASSUME NEW p \in Packets, NEW o \in Owners
      PROVE  Has(o, p)' <=> IF p \in S THEN o = w ELSE Has(o, p)
  <2>1. CASE o = w
    BY <2>1, HooksAssumption, ZenonT(60) DEF Has
  <2>2. CASE o \in Workers \ {w}
    BY <2>2, <1>3, HooksAssumption, SMTT(60) DEF Has, HeldElsewhere
  <2>3. CASE o = "pool"
    BY <2>3, HooksAssumption, SMTT(60) DEF Has
  <2>4. CASE o \in {"stack", "channel", "receiver", "lost"}
    BY <2>4, <1>1, <1>3, HooksAssumption, Zenon DEF Has
  <2> QED
    BY <2>1, <2>2, <2>3, <2>4, Zenon DEF Owners
<1> QED
  BY <1>2, <1>4, Zenon DEF Moves

\* w gives packets of its own away.  The holder they go to, which is not a
\* worker, has them and what it had; the other places are as before.
Gains(S, to) ==
  /\ \A p \in Packets : p \in pool' <=> p \in pool \/ (to = "pool" /\ p \in S)
  /\ \A p \in Packets : p \in tx' \/ In(p, buf') <=>
       p \in tx \/ In(p, buf) \/ (to = "stack" /\ p \in S)
  /\ \A p \in Packets : In(p, chn') <=> In(p, chn) \/ (to = "channel" /\ p \in S)
  /\ \A p \in Packets : p \in lost' <=> p \in lost \/ (to = "lost" /\ p \in S)

\* Then the packets in S move from w to that holder, and no others move.
LEMMA WorkerGives ==
  ASSUME OneHolder, NEW w \in Workers, HeldElsewhere(w),
         NEW to \in {"pool", "stack", "channel", "lost"},
         NEW S \in SUBSET Held(w), Held(w)' = Held(w) \ S, Gains(S, to),
         UNCHANGED receiver
  PROVE  Moves(S, w, to)
<1>1. Received' = Received
  BY Zenon DEF Received, receiver
<1>2. S \subseteq Packets /\ \A p \in S : Has(w, p)
  BY Zenon DEF Has, Held
<1>3. \A p \in S, o \in Owners : Has(o, p) => o = w
  BY <1>2, Sole, Zenon DEF Owners
<1>4. ASSUME NEW p \in Packets, NEW o \in Owners
      PROVE  Has(o, p)' <=> IF p \in S THEN o = to ELSE Has(o, p)
  <2>1. CASE o = w
    BY <2>1, HooksAssumption, SMTT(60) DEF Has
  <2>2. CASE o \in Workers \ {w}
    BY <2>2, <1>3, HooksAssumption, ZenonT(60) DEF Has, HeldElsewhere
  <2>3. CASE o \in {"pool", "stack", "channel", "receiver", "lost"}
    BY <2>3, <1>1, <1>3, HooksAssumption, Zenon DEF Has, Gains
  <2> QED
    BY <2>1, <2>2, <2>3, ZenonT(60) DEF Owners
<1> QED
  BY <1>2, <1>4, Zenon DEF Moves

\* The hands that packets pass through here.
LEMMA HandsHere ==
  /\ \A w \in Workers : /\ <<"pool", w>> \in Abstract!Hands
                        /\ <<w, "pool">> \in Abstract!Hands
                        /\ <<w, "stack">> \in Abstract!Hands
                        /\ <<w, "channel">> \in Abstract!Hands
                        /\ <<w, "lost">> \in Abstract!Hands
  /\ <<"stack", "pool">> \in Abstract!Hands
  /\ <<"channel", "receiver">> \in Abstract!Hands
  /\ <<"receiver", "pool">> \in Abstract!Hands
BY Zenon DEF Abstract!Hands

\* What a step has to show.
Goal == Distinct' /\ OneHolder' /\ [Abstract!Next]_Owner

\* When a worker makes a step the others hold what they held.
LEMMA ElsewhereStays ==
  ASSUME WorkersOK, NEW w \in Workers, Arrival(w) \/ Hook(w) \/ mysend_fails(w)
  PROVE  HeldElsewhere(w)
BY OthersStay, HeldStays, Zenon DEF Others, HeldElsewhere

\* Steps of a worker that move no packet.
LEMMA KeepsGoal ==
  ASSUME IInv, NEW w \in Workers, HeldElsewhere(w), Held(w)' = Held(w),
         pool' = pool, tx' = tx, buf' = buf, chn' = chn,
         lost' = lost, UNCHANGED receiver
  PROVE  Goal
<1>1. Distinct'
  BY Zenon DEF IInv, Distinct, receiver
<1>2. OneHolder' /\ Owner' = Owner
  BY WorkerKeeps, StaysStep, Zenon DEF IInv
<1> QED
  BY <1>1, <1>2, Zenon DEF Goal

\* Packets arrive with an idle worker.
LEMMA TakesGoal ==
  ASSUME IInv, NEW w \in Workers, HeldElsewhere(w), at[w] = "idle",
         NEW S \in SUBSET pool, Held(w)' = S, pool' = pool \ S,
         tx' = tx, buf' = buf, chn' = chn,
         lost' = lost, UNCHANGED receiver
  PROVE  Goal
<1>1. Distinct'
  BY SMTT(60) DEF IInv, Distinct, receiver
<1>2. Held(w) = {} /\ pool \subseteq Packets
  BY Zenon DEF Held, AtSs, AtPkt, IInv, TypeOK, QueuesOK
<1>3. Moves(S, "pool", w)
  BY <1>2, WorkerTakes, Zenon DEF IInv
<1>4. OneHolder' /\ [Abstract!Next]_Owner
  BY <1>3, MovesStep, HandsHere, Zenon DEF IInv, Owners
<1> QED
  BY <1>1, <1>4, Zenon DEF Goal

\* The hook is called, with a packet or without.
LEMMA CallGoal ==
  ASSUME IInv, NEW w \in Workers, NEW ev, NEW p \in pool \cup {INVALID}, NEW c,
         HeldElsewhere(w), at[w] = "idle", Call(w, ev, p, c)
  PROVE  Goal
<1>0. WorkersOK /\ QueuesOK
  BY Zenon DEF IInv, TypeOK
<1>1. CASE p \in pool
  <2>1. Held(w)' = {p}
    BY <1>0, <1>1, Zenon DEF Held, AtSs, AtPkt, Call, Goto, WorkersOK, QueuesOK
  <2> QED
    BY <1>1, <2>1, TakesGoal, ZenonT(60) DEF Call
<1>2. CASE p = INVALID
  <2>0. at'[w] = "notify" /\ ss'[w] = p /\ p \notin Packets
    BY <1>0, <1>2, CallSets, HooksAssumption
  <2>1. Held(w)' = {} /\ Held(w) = {}
    BY <2>0, Zenon DEF Held, AtSs, AtPkt
  <2>2. pool' = pool
    BY <1>0, <1>2, HooksAssumption, Zenon DEF Call, QueuesOK
  <2> QED
    BY <2>1, <2>2, KeepsGoal, ZenonT(60) DEF Call
<1> QED
  BY <1>1, <1>2, Zenon

\* What comes in: datagrams, connections, segments and classified packets.
LEMMA ArrivalGoal ==
  ASSUME IInv, NEW w \in Workers, Arrival(w)
  PROVE  Goal
<1>0. WorkersOK /\ QueuesOK /\ HeldElsewhere(w)
  BY ElsewhereStays, Zenon DEF IInv, TypeOK
<1>1. CASE Datagram(w) \/ Connect(w) \/ Segment(w)
  <2>1. \E ev, c : \E p \in pool \cup {INVALID} : Call(w, ev, p, c)
    BY <1>1, Zenon DEF Datagram, Connect, Segment
  <2>2. at[w] = "idle"
    BY <1>1, Zenon DEF Datagram, Connect, Segment, Idle
  <2> QED
    BY <1>0, <2>1, <2>2, CallGoal, Zenon
<1>2. CASE Unhooked(w)
  <2>1. PICK p \in pool : /\ Goto(w, "return") /\ ss' = [ss EXCEPT ![w] = p]
                          /\ pool' = pool \ {p}
    BY <1>2, ZenonT(60) DEF Unhooked
  <2>2. Held(w)' = {p}
    BY <1>0, <2>1, Zenon DEF Held, AtSs, AtPkt, Goto, WorkersOK, QueuesOK
  <2> QED
    BY <1>0, <1>2, <2>1, <2>2, TakesGoal, Zenon DEF Unhooked, Idle
<1>3. CASE cls_collect(w)
  <2>1. PICK s \in Vectors : /\ vec' = [vec EXCEPT ![w] = s]
                             /\ pool' = pool \ Range(s)
    BY <1>3, Zenon DEF cls_collect
  <2>2. s \in Seq(Packets) /\ \A p : In(p, s) <=> p \in Range(s)
    BY <1>0, VectorType, Zenon
  <2>3. Range(s) \subseteq pool
    BY DEF Vectors, Range
  <2>4. vec'[w] = s /\ at'[w] = "vsend"
    BY <1>0, <1>3, <2>1, ZenonT(60) DEF cls_collect, Goto, WorkersOK
  <2>5. Held(w)' = {p \in Packets : In(p, s)}
    BY <2>4, Zenon DEF Held, AtSs, AtPkt, In
  <2>6. Held(w)' = Range(s)
    BY <1>0, <2>2, <2>3, <2>5, Zenon DEF QueuesOK
  <2> QED
    BY <1>0, <1>3, <2>1, <2>3, <2>6, TakesGoal DEF cls_collect, Idle
<1> QED
  BY <1>1, <1>2, <1>3, Zenon DEF Arrival

\* A worker gives packets to the pool.
LEMMA FreesGoal ==
  ASSUME IInv, NEW w \in Workers, HeldElsewhere(w),
         NEW p \in Held(w), Held(w)' = Held(w) \ {p}, pool' = pool \cup {p},
         tx' = tx, buf' = buf, chn' = chn,
         lost' = lost, UNCHANGED receiver
  PROVE  Goal
<1>1. Distinct'
  BY ZenonT(60) DEF IInv, Distinct, receiver
<1>2. Gains({p}, "pool")
  BY Zenon DEF Gains, Held
<1>3. Moves({p}, w, "pool")
  BY <1>2, WorkerGives, Zenon DEF IInv
<1>4. OneHolder' /\ [Abstract!Next]_Owner
  BY <1>3, MovesStep, HandsHere, Zenon DEF IInv, Owners
<1> QED
  BY <1>1, <1>4, Zenon DEF Goal

\* What a worker holds is neither in the stack nor in the channel.
LEMMA HeldOnly ==
  ASSUME OneHolder, NEW w \in Workers, NEW p \in Held(w)
  PROVE  p \in Packets /\ p \notin tx /\ ~In(p, buf) /\ ~In(p, chn)
<1>1. p \in Packets /\ Has(w, p)
  BY Zenon DEF Held, Has
<1>2. ~Has("stack", p) /\ ~Has("channel", p)
  BY <1>1, Sole, HooksAssumption, Zenon DEF Owners
<1> QED
  BY <1>1, <1>2, Zenon DEF Has

\* Return: what is left in ss->pkt goes to the stack.
LEMMA ReturnGoal ==
  ASSUME IInv, NEW w \in Workers, Return(w)
  PROVE  Goal
<1>0. WorkersOK /\ QueuesOK /\ OneHolder /\ Distinct
  BY Zenon DEF IInv, TypeOK
<1>1. HeldElsewhere(w)
  BY <1>0, ElsewhereStays, Zenon DEF Hook
<1>2. /\ at[w] = "return" /\ at'[w] = "idle"
      /\ pool' = pool /\ tx' = tx /\ chn' = chn /\ lost' = lost
      /\ UNCHANGED receiver
      /\ buf' = IF ss[w] = INVALID THEN buf ELSE Append(buf, ss[w])
  BY <1>0, Zenon DEF Return, Goto, WorkersOK
<1>3. Held(w) = {p \in Packets : p = ss[w]} /\ Held(w)' = {}
  BY <1>2, ZenonT(60) DEF Held, AtSs, AtPkt
<1>4. CASE ss[w] = INVALID
  BY <1>1, <1>2, <1>3, <1>4, KeepsGoal, HooksAssumption
<1>5. CASE ss[w] # INVALID
  <2>1. ss[w] \in Packets /\ Held(w) = {ss[w]} /\ buf' = Append(buf, ss[w])
    BY <1>0, <1>2, <1>3, <1>5 DEF WorkersOK
  <2>2. ss[w] \notin tx /\ ~In(ss[w], buf)
    BY <1>0, <2>1, HeldOnly, ZenonT(60)
  <2>3. /\ \A p : In(p, buf') <=> In(p, buf) \/ p = ss[w]
        /\ Inj(buf')
    BY <1>0, <2>1, <2>2, AppendIn, Zenon DEF QueuesOK, Distinct
  <2>4. Distinct'
    BY <1>0, <1>2, <2>2, <2>3, Zenon DEF Distinct, receiver
  <2>5. Gains({ss[w]}, "stack")
    BY <1>2, <2>3, Zenon DEF Gains
  <2>6. Moves({ss[w]}, w, "stack")
    BY <1>0, <1>1, <1>2, <1>3, <2>1, <2>5, WorkerGives, Zenon
  <2>7. OneHolder' /\ [Abstract!Next]_Owner
    BY <1>0, <2>6, MovesStep, HandsHere, ZenonT(60) DEF Owners
  <2> QED
    BY <2>4, <2>7, Zenon DEF Goal
<1> QED
  BY <1>4, <1>5, Zenon

\* udpecho: the reply gives the packet to the stack.
LEMMA EchoGoal ==
  ASSUME IInv, NEW w \in Workers, echo_notify(w) \/ echo_reply(w) \/ echo_mark(w)
  PROVE  Goal
<1>0. WorkersOK /\ QueuesOK /\ LocalsOK(w) /\ OneHolder /\ Distinct
  BY Zenon DEF IInv, TypeOK
<1>1. HeldElsewhere(w)
  BY <1>0, ElsewhereStays, ZenonT(60) DEF Hook
<1>2. CASE echo_notify(w)
  <2>1. Held(w)' = Held(w)
    BY <1>0, <1>2, Zenon DEF echo_notify, Held, AtSs, AtPkt, Goto, WorkersOK
  <2> QED
    BY <1>1, <1>2, <2>1, KeepsGoal DEF echo_notify
<1>3. CASE echo_mark(w)
  <2>1. Held(w)' = Held(w)
    BY <1>0, <1>3, HooksAssumption, ZenonT(60)
       DEF echo_mark, Held, AtSs, AtPkt, Goto, WorkersOK
  <2> QED
    BY <1>1, <1>3, <2>1, KeepsGoal, Zenon DEF echo_mark
<1>4. CASE echo_reply(w)
  <2>1. /\ at[w] = "reply" /\ at'[w] = "mark" /\ pkt[w] \in Packets
        /\ tx' = tx \cup {pkt[w]}
        /\ pool' = pool /\ buf' = buf /\ chn' = chn /\ lost' = lost
        /\ UNCHANGED receiver
    BY <1>0, <1>4, Zenon DEF echo_reply, Goto, WorkersOK, LocalsOK, AtPkt
  <2>2. Held(w) = {pkt[w]} /\ Held(w)' = {}
    BY <2>1, Zenon DEF Held, AtSs, AtPkt
  <2>3. ~In(pkt[w], buf)
    BY <1>0, <2>2, HeldOnly, Zenon
  <2>4. Distinct'
    BY <1>0, <2>1, <2>3, Zenon DEF Distinct, receiver
  <2>5. Gains({pkt[w]}, "stack")
    BY <2>1, Zenon DEF Gains
  <2>6. Moves({pkt[w]}, w, "stack")
    BY <1>0, <1>1, <2>1, <2>2, <2>5, WorkerGives, Zenon
  <2>7. OneHolder' /\ [Abstract!Next]_Owner
    BY <1>0, <2>6, MovesStep, HandsHere, Zenon DEF Owners
  <2> QED
    BY <2>4, <2>7, Zenon DEF Goal
<1> QED
  BY <1>2, <1>3, <1>4, Zenon

\* The first n packets of s, all of them the worker's, go to the channel.
LEMMA ChannelGoal ==
  ASSUME IInv, NEW w \in Workers, HeldElsewhere(w),
         NEW s \in Seq(Packets), Inj(s), NEW n \in 0..Len(s),
         NEW S \in SUBSET Held(w), \A p : p \in S <=> \E j \in 1..n : p = s[j],
         Held(w)' = Held(w) \ S, chn' = chn \o SubSeq(s, 1, n),
         pool' = pool, tx' = tx, buf' = buf,
         lost' = lost, UNCHANGED receiver
  PROVE  Goal
<1>0. QueuesOK /\ OneHolder /\ Distinct
  BY Zenon DEF IInv, TypeOK
<1> DEFINE t == SubSeq(s, 1, n)
<1>1. n \in (1 - 1)..Len(s) /\ 1 \in 1..(Len(s) + 1)
  OBVIOUS
<1>2. t \in Seq(Packets) /\ Inj(t) /\ \A p : In(p, t) <=> p \in S
  BY <1>1, SubIn
<1> HIDE DEF t
<1>3. \A p : ~(In(p, chn) /\ In(p, t))
  BY <1>0, <1>2, HeldOnly, Zenon
<1>4. Inj(chn') /\ \A p : In(p, chn') <=> In(p, chn) \/ p \in S
  <2>1. chn' = chn \o t /\ chn \in Seq(Packets) /\ Inj(chn)
    BY <1>0, Zenon DEF QueuesOK, Distinct, t
  <2>2. Inj(chn \o t) /\ \A p : In(p, chn \o t) <=> In(p, chn) \/ In(p, t)
    BY <1>2, <1>3, <2>1, ConcatIn, Zenon
  <2> QED
    BY <1>2, <2>1, <2>2, Zenon
<1>5. Distinct'
  BY <1>0, <1>4, Zenon DEF Distinct, receiver
<1>6. Gains(S, "channel")
  BY <1>4, Zenon DEF Gains
<1>7. Moves(S, w, "channel")
  BY <1>0, <1>6, WorkerGives, Zenon
<1>8. OneHolder' /\ [Abstract!Next]_Owner
  BY <1>0, <1>7, MovesStep, HandsHere, ZenonT(60) DEF Owners
<1> QED
  BY <1>5, <1>8, Zenon DEF Goal

\* udp_term_socket: the packet goes to the channel or is freed.
LEMMA TermGoal ==
  ASSUME IInv, NEW w \in Workers, term_notify(w) \/ term_send(w) \/ term_free(w)
  PROVE  Goal
<1>0. WorkersOK /\ LocalsOK(w)
  BY Zenon DEF IInv, TypeOK
<1>1. HeldElsewhere(w)
  BY <1>0, ElsewhereStays, ZenonT(60) DEF Hook
<1>2. CASE term_notify(w)
  <2>1. Held(w)' = Held(w)
    BY <1>0, <1>2, ZenonT(60) DEF term_notify, Held, AtSs, AtPkt, Goto, WorkersOK
  <2> QED
    BY <1>1, <1>2, <2>1, KeepsGoal, Zenon DEF term_notify
<1>3. CASE term_send(w)
  <2>1. PICK sent \in Sent :
          /\ nfp_channel_send(<<pkt[w]>>, sent)
          /\ Goto(w, IF NotTaken(sent) THEN "drop" ELSE "return")
    BY <1>3, Zenon DEF term_send
  <2>2. /\ at[w] = "send" /\ pkt[w] \in Packets /\ ss[w] = INVALID
        /\ pkt' = pkt /\ ss' = ss /\ pool' = pool /\ tx' = tx /\ buf' = buf
        /\ lost' = lost /\ UNCHANGED receiver
        /\ at'[w] = IF sent # 1 THEN "drop" ELSE "return"
    BY <1>0, <1>3, <2>1, Zenon
       DEF term_send, LocalsOK, AtPkt, Goto, NotTaken, WorkersOK
  <2>3. /\ Held(w) = {pkt[w]}
        /\ Held(w)' = IF sent # 1 THEN {pkt[w]} ELSE {}
    BY <2>2, HooksAssumption, Zenon DEF Held, AtSs, AtPkt
  <2>4. CASE UNCHANGED chn /\ sent \in FailCodes
    <3>1. sent # 1
      BY <2>4, HooksAssumption
    <3>2. Held(w)' = Held(w)
      BY <2>3, <3>1, Zenon
    <3> QED
      BY <1>1, <2>2, <2>4, <3>2, KeepsGoal, Zenon
  <2>5. CASE sent \in 0..1 /\ chn' = chn \o SubSeq(<<pkt[w]>>, 1, sent)
    <3> DEFINE s == <<pkt[w]>>
               S == IF sent = 1 THEN {pkt[w]} ELSE {}
    <3>1. s \in Seq(Packets) /\ Len(s) = 1 /\ s[1] = pkt[w]
      BY <2>2, SMTT(60)
    <3> HIDE DEF s
    <3>2. Inj(s)
      BY <3>1, SMTT(60) DEF Inj
    <3>3. \A p : p \in S <=> \E j \in 1..sent : p = s[j]
      BY <2>5, <3>1
    <3>4. S \in SUBSET Held(w) /\ Held(w)' = Held(w) \ S
      BY <2>3, Zenon
    <3> HIDE DEF S
    <3>5. chn' = chn \o SubSeq(s, 1, sent) /\ sent \in 0..Len(s)
      BY <2>5, <3>1, Zenon DEF s
    <3> QED
      BY <1>1, <2>2, <3>1, <3>2, <3>3, <3>4, <3>5, ChannelGoal, Zenon
  <2>6. Len(<<pkt[w]>>) = 1
    BY ZenonT(60)
  <2> QED
    BY <2>1, <2>4, <2>5, <2>6, ZenonT(60) DEF nfp_channel_send
<1>4. CASE term_free(w)
  <2>1. /\ at[w] = "drop" /\ at'[w] = "return" /\ pkt[w] \in Packets
        /\ ss[w] = INVALID /\ ss' = ss
    BY <1>0, <1>4, Zenon DEF term_free, Goto, WorkersOK, LocalsOK, AtPkt
  <2>2. Held(w) = {pkt[w]} /\ Held(w)' = {}
    BY <2>1, HooksAssumption, Zenon DEF Held, AtSs, AtPkt
  <2> QED
    BY <1>1, <1>4, <2>2, FreesGoal, Zenon DEF term_free
<1> QED
  BY <1>2, <1>3, <1>4, Zenon

\* classifier: what the channel does not take of the vector is freed.
LEMMA ClsGoal ==
  ASSUME IInv, NEW w \in Workers, cls_send(w) \/ cls_free(w) \/ cls_init(w)
  PROVE  Goal
<1>0. WorkersOK /\ LocalsOK(w)
  BY Zenon DEF IInv, TypeOK
<1>1. HeldElsewhere(w)
  BY <1>0, ElsewhereStays, Zenon DEF Hook
<1> DEFINE s == vec[w]
<1>2. s \in Seq(Packets) /\ Len(s) \in Nat /\ \A j \in 1..Len(s) : s[j] \in Packets
  BY <1>0 DEF WorkersOK
<1>3. CASE cls_send(w)
  <2>1. PICK sent \in Sent :
          /\ nfp_channel_send(s, sent)
          /\ i' = [i EXCEPT ![w] = start_idx(sent) + 1]
          /\ lost' = lost \cup Forgotten(s, sent)
          /\ Goto(w, IF sent # Len(s) THEN "vfree" ELSE "vinit")
    BY <1>3, ZenonT(60) DEF cls_send
  <2>2. /\ at[w] = "vsend" /\ Inj(s) /\ Len(s) <= VecMax /\ vec' = vec
        /\ pool' = pool /\ tx' = tx /\ buf' = buf /\ UNCHANGED receiver
        /\ at'[w] = IF sent # Len(s) THEN "vfree" ELSE "vinit"
        /\ i'[w] = start_idx(sent) + 1
    BY <1>0, <1>3, <2>1, Zenon DEF cls_send, LocalsOK, Goto, WorkersOK
  <2>3. /\ Held(w) = {p \in Packets : \E j \in 1..Len(s) : p = s[j]}
        /\ Held(w)' = IF sent # Len(s)
                      THEN {p \in Packets : \E j \in (start_idx(sent) + 1)..Len(s) : p = s[j]}
                      ELSE {}
    BY <2>2, ZenonT(60) DEF Held, AtSs, AtPkt
  <2>4. CASE UNCHANGED chn /\ sent \in FailCodes
    <3> DEFINE m == start_idx(sent)
               S == Forgotten(s, sent)
    <3>1. sent < 0 /\ sent # Len(s) /\ m \in Nat
      BY <1>2, <2>1, <2>4, HooksAssumption, StartIdx
    <3> HIDE DEF m
    <3>2. \A p : p \in S <=> \E j \in 1..Len(s) : j <= m /\ p = s[j]
      BY <3>1, Zenon DEF Forgotten, m
    <3>3. Held(w)' = {p \in Packets : \E j \in (m + 1)..Len(s) : p = s[j]}
      BY <2>3, <3>1, Zenon DEF m
    <3> HIDE DEF s, S
    <3>4. S \in SUBSET Held(w)
      BY <1>2, <2>3, <3>2, Zenon
    <3>5. /\ \A j \in 1..Len(s) : j <= m \/ j \in (m + 1)..Len(s)
          /\ \A j \in (m + 1)..Len(s) : j \in 1..Len(s) /\ ~(j <= m)
      BY <1>2, <3>1, SMTT(60)
    <3>6. Held(w)' = Held(w) \ S
      <4>1. ASSUME NEW p \in Held(w)' PROVE p \in Held(w) /\ p \notin S
        <5>1. PICK j \in (m + 1)..Len(s) : p = s[j] /\ p \in Packets
          BY <3>3, <4>1, Zenon
        <5>2. \A k \in 1..Len(s) : k <= m => s[k] # s[j]
          BY <2>2, <3>5, Zenon DEF Inj, s
        <5> QED
          BY <2>3, <3>2, <3>5, <5>1, <5>2, Zenon
      <4>2. ASSUME NEW p \in Held(w), p \notin S PROVE p \in Held(w)'
        BY <2>3, <3>2, <3>3, <3>5, <4>2, Zenon
      <4> QED
        BY <4>1, <4>2, Zenon
    <3>7. lost' = lost \cup S
      BY <2>1, Zenon DEF S
    <3>8. OneHolder /\ Distinct
      BY Zenon DEF IInv
    <3>9. Distinct'
      BY <2>2, <2>4, <3>8, Zenon DEF Distinct, receiver
    <3>10. Gains(S, "lost")
      BY <2>2, <2>4, <3>7, Zenon DEF Gains
    <3>11. Moves(S, w, "lost")
      BY <1>1, <2>2, <3>4, <3>6, <3>8, <3>10, WorkerGives, Zenon
    <3>12. OneHolder' /\ [Abstract!Next]_Owner
      BY <3>8, <3>11, MovesStep, HandsHere, ZenonT(60) DEF Owners
    <3> QED
      BY <3>9, <3>12, Zenon DEF Goal
  <2>5. CASE sent \in 0..Len(s) /\ chn' = chn \o SubSeq(s, 1, sent)
    <3> DEFINE S == {p \in Packets : \E j \in 1..sent : p = s[j]}
    <3>0. \A j \in 1..sent : j \in 1..Len(s)
      BY <1>2, <2>5, SMTT(60)
    <3>1. \A p : p \in S <=> \E j \in 1..sent : p = s[j]
      <4>1. \A j \in 1..sent : s[j] \in Packets
        BY <1>2, <2>5, <3>0, Zenon
      <4> QED
        BY <4>1, Zenon
    <3>2. S \in SUBSET Held(w)
      BY <2>3, <3>0, Zenon
    <3>3. Held(w)' = Held(w) \ S
      <4> HIDE DEF s
      <4>1. start_idx(sent) = sent
        <5>1. sent \in 0..VecMax
          BY <1>2, <2>2, <2>5, HooksAssumption, SMTT(60)
        <5> QED
          BY <5>1, StartIdxSent, Zenon
      <4>2. \A j \in 1..Len(s) : j \in 1..sent \/ j \in (sent + 1)..Len(s)
        BY <1>2, <2>5, SMTT(60)
      <4>3. \A j \in (sent + 1)..Len(s) : j \in 1..Len(s) /\ j \notin 1..sent
        BY <1>2, <2>5, SMTT(60)
      <4>4. CASE sent # Len(s)
        <5>1. Held(w)' = {p \in Packets : \E j \in (sent + 1)..Len(s) : p = s[j]}
          BY <2>3, <4>1, <4>4, Zenon
        <5>2. ASSUME NEW p \in Held(w)' PROVE p \in Held(w) /\ p \notin S
          <6>1. PICK j \in (sent + 1)..Len(s) : p = s[j]
            BY <5>1, <5>2, Zenon
          <6>2. p \in Packets /\ j \in 1..Len(s) /\ j \notin 1..sent
            BY <4>3, <5>1, <5>2, Zenon
          <6>3. \A k \in 1..sent : s[k] # s[j]
            BY <2>2, <3>0, <6>2, Zenon DEF Inj
          <6> QED
            BY <2>3, <6>1, <6>2, <6>3, Zenon
        <5>3. ASSUME NEW p \in Held(w), p \notin S PROVE p \in Held(w)'
          BY <2>3, <4>2, <5>1, <5>3, Zenon
        <5> QED
          BY <5>2, <5>3, Zenon
      <4>5. CASE sent = Len(s)
        BY <2>3, <4>5, Zenon
      <4> QED
        BY <4>4, <4>5
    <3> HIDE DEF S
    <3>4. lost' = lost
      <4>1. ~(sent < 0)
        BY <1>2, <2>5, SMTT(60)
      <4> QED
        BY <2>1, <4>1, Zenon DEF Forgotten
    <3> QED
      BY <1>1, <1>2, <2>2, <2>5, <3>1, <3>2, <3>3, <3>4, ChannelGoal, Zenon
  <2> QED
    BY <2>1, <2>4, <2>5, Zenon DEF nfp_channel_send
<1>4. CASE cls_free(w)
  <2>1. at[w] = "vfree" /\ Inj(s) /\ vec' = vec /\ i[w] \in Nat \ {0}
    BY <1>0, <1>4, ZenonT(60) DEF cls_free, LocalsOK, WorkersOK
  <2>2. Held(w) = {p \in Packets : \E j \in i[w]..Len(s) : p = s[j]}
    BY <2>1, ZenonT(60) DEF Held, AtSs, AtPkt
  <2>3. CASE i[w] <= Len(s)
    <3>1. /\ pool' = pool \cup {s[i[w]]} /\ i'[w] = i[w] + 1 /\ at'[w] = "vfree"
          /\ tx' = tx /\ buf' = buf /\ chn' = chn /\ lost' = lost
          /\ UNCHANGED receiver
      BY <1>0, <1>4, <2>1, <2>3, ZenonT(60) DEF cls_free, WorkersOK
    <3>2. Held(w)' = {p \in Packets : \E j \in (i[w] + 1)..Len(s) : p = s[j]}
      BY <2>1, <3>1, ZenonT(60) DEF Held, AtSs, AtPkt
    <3>3. s[i[w]] \in Held(w)
      <4>1. i[w] \in 1..Len(s) /\ i[w] \in i[w]..Len(s)
        BY <1>2, <2>1, <2>3, SMTT(60)
      <4> QED
        BY <1>2, <2>2, <4>1, Zenon
    <3>4. Held(w)' = Held(w) \ {s[i[w]]}
      <4> HIDE DEF s
      <4> QED
        BY <1>2, <2>1, <2>2, <2>3, <3>2, SMTT(60) DEF Inj
    <3> QED
      BY <1>1, <3>1, <3>3, <3>4, FreesGoal, ZenonT(60)
  <2>4. CASE ~(i[w] <= Len(s))
    <3>1. at'[w] = "vinit"
      BY <1>0, <1>4, <2>4, ZenonT(60) DEF cls_free, Goto, WorkersOK
    <3>2. Held(w) = {}
      <4>1. ~\E j \in i[w]..Len(s) : TRUE
        BY <1>2, <2>1, <2>4, SMTT(60)
      <4> QED
        BY <2>2, <4>1, Zenon
    <3>3. Held(w)' = {}
      BY <3>1, Zenon DEF Held, AtSs, AtPkt
    <3> QED
      BY <1>1, <1>4, <2>4, <3>2, <3>3, KeepsGoal, Zenon DEF cls_free
  <2> QED
    BY <2>3, <2>4, Zenon
<1>5. CASE cls_init(w)
  <2>1. Held(w)' = {} /\ Held(w) = {}
    BY <1>0, <1>5 DEF cls_init, Held, AtSs, AtPkt, Goto, WorkersOK
  <2> QED
    BY <1>1, <1>5, <2>1, KeepsGoal, ZenonT(60) DEF cls_init
<1> QED
  BY <1>3, <1>4, <1>5, Zenon

\* webserver2: the packet is freed once the request is dealt with.
LEMMA WebGoal ==
  ASSUME IInv, NEW w \in Workers,
         \/ web_notify(w) \/ analyze_http(w) \/ mysend(w) \/ mysend_fails(w)
         \/ web_close(w) \/ web_free(w)
  PROVE  Goal
<1>0. WorkersOK /\ LocalsOK(w)
  BY Zenon DEF IInv, TypeOK
<1>1. HeldElsewhere(w)
  BY <1>0, ElsewhereStays, Zenon DEF Hook
<1>2. CASE web_notify(w)
  <2>1. Held(w)' = Held(w)
    BY <1>0, <1>2, ZenonT(60) DEF web_notify, Held, AtSs, AtPkt, Goto, WorkersOK
  <2> QED
    BY <1>1, <1>2, <2>1, KeepsGoal, Zenon DEF web_notify
<1>3. CASE analyze_http(w) \/ mysend(w) \/ mysend_fails(w) \/ web_close(w)
  <2>1. /\ at[w] \in AtPkt /\ at'[w] \in AtPkt /\ pkt' = pkt
        /\ pool' = pool /\ tx' = tx /\ buf' = buf /\ chn' = chn
        /\ lost' = lost /\ UNCHANGED receiver
    BY <1>0, <1>3, Zenon
       DEF analyze_http, mysend, mysend_fails, Answered, web_close, Goto,
           WorkersOK, AtPkt
  <2>2. Held(w)' = Held(w)
    BY <2>1, ZenonT(60) DEF Held, AtSs, AtPkt
  <2> QED
    BY <1>1, <2>1, <2>2, KeepsGoal, ZenonT(60)
<1>4. CASE web_free(w)
  <2>1. /\ at[w] = "free" /\ at'[w] = "return" /\ pkt[w] \in Packets
        /\ ss'[w] = INVALID
    BY <1>0, <1>4, Zenon DEF web_free, Goto, WorkersOK, LocalsOK, AtPkt
  <2>2. Held(w) = {pkt[w]} /\ Held(w)' = {}
    BY <2>1, HooksAssumption, Zenon DEF Held, AtSs, AtPkt
  <2> QED
    BY <1>1, <1>4, <2>2, FreesGoal, Zenon DEF web_free
<1> QED
  BY <1>2, <1>3, <1>4, Zenon

-----------------------------------------------------------------------------
(* The receiving thread and the stack.                                     *)

Rest == {"pool", "stack", "channel", "receiver", "lost"}

\* A step that the workers have no part in, by which S passes from one place
\* to another.
LEMMA PlaceMoves ==
  ASSUME OneHolder, UNCHANGED worker,
         NEW from \in Rest, NEW to \in Rest, from # to,
         NEW S \in SUBSET Packets, \A p \in S : Has(from, p),
         \A p \in Packets : Has(from, p)' <=> Has(from, p) /\ p \notin S,
         \A p \in Packets : Has(to, p)' <=> Has(to, p) \/ p \in S,
         \A p \in Packets, o \in Rest \ {from, to} : Has(o, p)' <=> Has(o, p)
  PROVE  Moves(S, from, to)
<1>1. \A p \in S, o \in Owners : Has(o, p) => o = from
  BY Sole, Zenon DEF Owners, Rest
<1>2. \A v \in Workers : Held(v)' = Held(v)
  BY Zenon DEF Held, worker, vector
<1>3. \A p \in Packets, v \in Workers : Has(v, p)' <=> Has(v, p)
  BY <1>2, HooksAssumption, Zenon DEF Has
<1>4. ASSUME NEW p \in Packets, NEW o \in Owners
      PROVE  Has(o, p)' <=> IF p \in S THEN o = to ELSE Has(o, p)
  BY <1>1, <1>3, ZenonT(60) DEF Owners, Rest
<1> QED
  BY <1>4, Zenon DEF Moves

PlacesAre ==
  \A p \in Packets :
    /\ Has("pool", p) <=> p \in pool
    /\ Has("stack", p) <=> p \in tx \/ In(p, buf)
    /\ Has("channel", p) <=> In(p, chn)
    /\ Has("receiver", p) <=> \E j \in ri..Len(tbl) : p = tbl[j]
    /\ Has("lost", p) <=> p \in lost

\* What is where, outside of the workers.
LEMMA Places == PlacesAre
BY HooksAssumption, Zenon DEF PlacesAre, Has, Received

\* The same in the state after a step.
LEMMA PlacesNext == PlacesAre'
BY Places, PTL

\* The receiving thread takes packets out of the channel.
LEMMA ChannelRecvGoal ==
  ASSUME IInv, channel_recv
  PROVE  Goal
<1>0. QueuesOK /\ ReceiverOK /\ OneHolder /\ Distinct
  BY Zenon DEF IInv, TypeOK
<1>1. PICK n \in 0..RecvMax :
        /\ n <= Len(chn)
        /\ tbl' = SubSeq(chn, 1, n) /\ chn' = SubSeq(chn, n + 1, Len(chn))
  BY Zenon DEF channel_recv, Recv
<1>2. /\ chn \in Seq(Packets) /\ Len(chn) \in Nat /\ Inj(chn) /\ n \in Nat
      /\ \A j \in 1..Len(chn) : chn[j] \in Packets
  BY <1>0, HooksAssumption DEF QueuesOK, Distinct
<1>3. /\ n \in (1 - 1)..Len(chn) /\ 1 \in 1..(Len(chn) + 1)
      /\ n + 1 \in 1..(Len(chn) + 1) /\ Len(chn) \in ((n + 1) - 1)..Len(chn)
  BY <1>1, <1>2
<1>4. Inj(tbl') /\ \A p : In(p, tbl') <=> \E j \in 1..n : p = chn[j]
  BY <1>1, <1>2, <1>3, SubIn
<1>5. Inj(chn') /\ \A p : In(p, chn') <=> \E j \in (n + 1)..Len(chn) : p = chn[j]
  BY <1>1, <1>2, <1>3, SubIn, SMTT(60)
<1>6. Distinct'
  BY <1>0, <1>4, <1>5, Zenon DEF channel_recv, Distinct
<1> DEFINE S == {p \in Packets : In(p, tbl')}
<1>7. \A p \in Packets : In(p, chn') <=> In(p, chn) /\ p \notin S
  <2> SUFFICES ASSUME NEW p \in Packets
               PROVE  In(p, chn') <=> In(p, chn) /\ ~In(p, tbl')
    BY Zenon
  <2>1. In(p, chn) <=> \/ \E j \in 1..n : p = chn[j]
                       \/ \E j \in (n + 1)..Len(chn) : p = chn[j]
    BY <1>1, <1>2 DEF In
  <2>2. ~((\E j \in 1..n : p = chn[j]) /\ \E j \in (n + 1)..Len(chn) : p = chn[j])
    BY <1>1, <1>2 DEF Inj
  <2> QED
    BY <1>4, <1>5, <2>1, <2>2
<1>8. \A p \in S : In(p, chn)
  BY <1>1, <1>2, <1>4 DEF In
<1>9. \A p \in Packets : ~Has("receiver", p)
  <2>1. tbl = <<>> /\ ri \in Nat \ {0}
    BY <1>0 DEF channel_recv, Distinct, ReceiverOK
  <2> QED
    BY <2>1, Places DEF PlacesAre
<1>10. \A p \in Packets : Has("receiver", p)' <=> p \in S
  BY PlacesNext, Zenon DEF PlacesAre, In, channel_recv
<1>11. \A p \in Packets, o \in Rest \ {"channel", "receiver"} :
         Has(o, p)' <=> Has(o, p)
  BY Places, PlacesNext, ZenonT(60) DEF PlacesAre, channel_recv, Rest
<1>12. /\ \A p \in S : Has("channel", p)
       /\ \A p \in Packets : Has("channel", p)' <=> Has("channel", p) /\ p \notin S
  BY <1>7, <1>8, Places, PlacesNext, Zenon DEF PlacesAre
<1>13. Moves(S, "channel", "receiver")
  <2> HIDE DEF S
  <2>1. S \subseteq Packets
    BY Zenon DEF S
  <2>2. "channel" \in Rest /\ "receiver" \in Rest /\ UNCHANGED worker
    BY Zenon DEF Rest, channel_recv
  <2>3. \A p \in Packets : Has("receiver", p)' <=> Has("receiver", p) \/ p \in S
    BY <1>9, <1>10, Zenon
  <2> QED
    BY <1>0, <1>11, <1>12, <2>1, <2>2, <2>3, PlaceMoves
<1>14. OneHolder' /\ [Abstract!Next]_Owner
  BY <1>0, <1>13, MovesStep, HandsHere, Zenon DEF Owners
<1> QED
  BY <1>6, <1>14, Zenon DEF Goal

\* The receiving thread frees what it has taken, one after the other.
LEMMA ChannelFreeGoal ==
  ASSUME IInv, channel_free
  PROVE  Goal
<1>0. QueuesOK /\ ReceiverOK /\ OneHolder /\ Distinct
  BY Zenon DEF IInv, TypeOK
<1>1. CASE ri <= Len(tbl)
  <2> DEFINE q == tbl[ri]
  <2>1. /\ pool' = pool \cup {q} /\ ri' = ri + 1 /\ tbl' = tbl /\ rat' = rat
        /\ tx' = tx /\ buf' = buf /\ chn' = chn /\ lost' = lost
        /\ UNCHANGED worker
    BY <1>1, Zenon DEF channel_free
  <2>2. tbl \in Seq(Packets) /\ ri \in 1..Len(tbl) /\ q \in Packets /\ Inj(tbl)
    BY <1>0, <1>1 DEF ReceiverOK, Distinct
  <2>3. Distinct'
    BY <1>0, <2>1, Zenon DEF Distinct
  <2>4. /\ \A p \in {q} : Has("receiver", p)
        /\ \A p \in Packets : Has("receiver", p)' <=> Has("receiver", p) /\ p \notin {q}
    BY <2>1, <2>2, Places, PlacesNext, SMTT(60) DEF PlacesAre, Inj
  <2>5. \A p \in Packets : Has("pool", p)' <=> Has("pool", p) \/ p \in {q}
    BY <2>1, Places, PlacesNext, Zenon DEF PlacesAre
  <2>6. \A p \in Packets, o \in Rest \ {"receiver", "pool"} : Has(o, p)' <=> Has(o, p)
    BY <2>1, Places, PlacesNext DEF PlacesAre, Rest
  <2>7. "receiver" \in Rest /\ "pool" \in Rest
    BY Zenon DEF Rest
  <2>8. Moves({q}, "receiver", "pool")
    BY <1>0, <2>1, <2>2, <2>4, <2>5, <2>6, <2>7, PlaceMoves, Zenon
  <2>9. OneHolder' /\ [Abstract!Next]_Owner
    BY <1>0, <2>8, MovesStep, HandsHere, Zenon DEF Owners
  <2> QED
    BY <2>3, <2>9, Zenon DEF Goal
<1>2. CASE ~(ri <= Len(tbl))
  <2>1. /\ tbl' = <<>> /\ ri' = 1 /\ rat' = "test" /\ pool' = pool
        /\ tx' = tx /\ buf' = buf /\ chn' = chn /\ lost' = lost
        /\ UNCHANGED worker
    BY <1>2, Zenon DEF channel_free, Processed
  <2>2. Distinct'
    BY <1>0, <2>1, EmptyIn, Zenon DEF Distinct
  <2>3. Received = {} /\ Received' = {}
    BY <1>0, <1>2, <2>1, SMTT(60) DEF Received, ReceiverOK
  <2>4. \A v \in Workers : Held(v)' = Held(v)
    BY <2>1 DEF Held, worker, vector
  <2>5. \A p \in Packets, o \in Owners : Has(o, p)' <=> Has(o, p)
    BY <2>1, <2>3, <2>4 DEF Has
  <2> QED
    BY <1>0, <2>2, <2>5, StaysStep, Zenon DEF Goal
<1> QED
  BY <1>1, <1>2, Zenon

\* nfp_recv() gives the packet that it copies back to the pool.
LEMMA PosixRecvGoal ==
  ASSUME IInv, posix_recv
  PROVE  Goal
<1>0. QueuesOK /\ OneHolder /\ Distinct
  BY Zenon DEF IInv, TypeOK
<1>1. /\ rat = "recv" /\ rat' # "free" /\ tx' = tx /\ chn' = chn
      /\ tbl' = tbl /\ ri' = ri /\ lost' = lost /\ UNCHANGED worker
  BY Zenon DEF posix_recv
<1>2. CASE UNCHANGED <<pool, buf>>
  <2>1. Distinct'
    BY <1>0, <1>1, <1>2, Zenon DEF Distinct
  <2>2. Received' = Received
    BY <1>1, ZenonT(60) DEF Received
  <2>3. \A v \in Workers : Held(v)' = Held(v)
    BY <1>1 DEF Held, worker, vector
  <2>4. \A p \in Packets, o \in Owners : Has(o, p)' <=> Has(o, p)
    BY <1>1, <1>2, <2>2, <2>3 DEF Has
  <2> QED
    BY <1>0, <2>1, <2>4, StaysStep, Zenon DEF Goal
<1>3. CASE buf # <<>> /\ buf' = Tail(buf) /\ pool' = pool \cup {Head(buf)}
  <2> DEFINE q == Head(buf)
  <2>1. /\ q \in Packets /\ \A p : In(p, buf) <=> p = q \/ In(p, buf')
        /\ Inj(buf') /\ ~In(q, buf')
    BY <1>0, <1>3, TailIn, Zenon DEF QueuesOK, Distinct
  <2>2. q \notin tx /\ \A p \in tx : ~In(p, buf')
    BY <1>0, <2>1, Zenon DEF Distinct
  <2>3. Distinct'
    BY <1>0, <1>1, <2>1, <2>2, ZenonT(60) DEF Distinct
  <2> HIDE DEF q
  <2>4. /\ \A p \in {q} : Has("stack", p)
        /\ \A p \in Packets : Has("stack", p)' <=> Has("stack", p) /\ p \notin {q}
    BY <1>1, <2>1, <2>2, Places, PlacesNext, SMTT(60) DEF PlacesAre
  <2>5. \A p \in Packets : Has("pool", p)' <=> Has("pool", p) \/ p \in {q}
    BY <1>3, Places, PlacesNext, Zenon DEF PlacesAre, q
  <2>6. \A p \in Packets, o \in Rest \ {"stack", "pool"} : Has(o, p)' <=> Has(o, p)
    BY <1>1, Places, PlacesNext DEF PlacesAre, Rest
  <2>7. "stack" \in Rest /\ "pool" \in Rest
    BY Zenon DEF Rest
  <2>8. Moves({q}, "stack", "pool")
    BY <1>0, <1>1, <2>1, <2>4, <2>5, <2>6, <2>7, PlaceMoves, Zenon
  <2>9. OneHolder' /\ [Abstract!Next]_Owner
    BY <1>0, <2>8, MovesStep, HandsHere, Zenon DEF Owners
  <2> QED
    BY <2>3, <2>9, Zenon DEF Goal
<1> QED
  BY <1>2, <1>3, Zenon DEF posix_recv

\* The stack gives a packet that it has sent back to the pool.
LEMMA TransmitGoal ==
  ASSUME IInv, NEW q \in Packets, Transmit(q)
  PROVE  Goal
<1>0. OneHolder /\ Distinct
  BY Zenon DEF IInv
<1>1. /\ q \in tx /\ tx' = tx \ {q} /\ pool' = pool \cup {q}
      /\ buf' = buf /\ chn' = chn /\ lost' = lost
      /\ UNCHANGED receiver /\ UNCHANGED worker
  BY Zenon DEF Transmit
<1>2. Distinct' /\ ~In(q, buf)
  BY <1>0, <1>1, Zenon DEF Distinct, receiver
<1>3. /\ \A p \in {q} : Has("stack", p)
      /\ \A p \in Packets : Has("stack", p)' <=> Has("stack", p) /\ p \notin {q}
  BY <1>1, <1>2, Places, PlacesNext, ZenonT(60) DEF PlacesAre
<1>4. \A p \in Packets : Has("pool", p)' <=> Has("pool", p) \/ p \in {q}
  BY <1>1, Places, PlacesNext, Zenon DEF PlacesAre
<1>5. \A p \in Packets, o \in Rest \ {"stack", "pool"} : Has(o, p)' <=> Has(o, p)
  BY <1>1, Places, PlacesNext DEF PlacesAre, Rest, receiver
<1>6. "stack" \in Rest /\ "pool" \in Rest
  BY Zenon DEF Rest
<1>7. Moves({q}, "stack", "pool")
  BY <1>0, <1>1, <1>3, <1>4, <1>5, <1>6, PlaceMoves, Zenon
<1>8. OneHolder' /\ [Abstract!Next]_Owner
  BY <1>0, <1>7, MovesStep, HandsHere, Zenon DEF Owners
<1> QED
  BY <1>2, <1>8, Zenon DEF Goal

\* Steps that touch no packet.
LEMMA StayGoal ==
  ASSUME IInv, UNCHANGED <<pool, tx, buf, chn, lost, worker, tbl, ri>>,
         rat = "free" => rat' = "free"
  PROVE  Goal
<1>1. OneHolder /\ Distinct
  BY Zenon DEF IInv
<1>2. Distinct'
  BY <1>1, Zenon DEF Distinct
<1>3. Received' = Received
  BY ZenonT(60) DEF Received
<1>4. \A v \in Workers : Held(v)' = Held(v)
  BY DEF Held, worker, vector
<1>5. \A p \in Packets, o \in Owners : Has(o, p)' <=> Has(o, p)
  BY <1>3, <1>4 DEF Has
<1> QED
  BY <1>1, <1>2, <1>5, StaysStep, Zenon DEF Goal

-----------------------------------------------------------------------------
(* The theorems.                                                           *)

\* Every packet starts in the pool.
LEMMA InitGoal == Init => IInv /\ Abstract!Init
<1> SUFFICES ASSUME Init PROVE IInv /\ Abstract!Init
  BY Zenon
<1>1. TypeOK
  <2>1. ProcessOK
    BY Zenon DEF Init, ProcessOK
  <2>2. QueuesOK
    BY HooksAssumption DEF Init, QueuesOK
  <2>3. WorkersOK
    BY DEF Init, WorkersOK
  <2>4. ReceiverOK
    BY DEF Init, ReceiverOK
  <2>5. SocketsOK
    BY HooksAssumption, SMTT(60) DEF Init, SocketsOK
  <2> QED
    BY <2>1, <2>2, <2>3, <2>4, <2>5, Zenon DEF TypeOK
<1>2. \A w \in Workers : LocalsOK(w)
  BY Zenon DEF Init, LocalsOK, AtPkt
<1>3. Distinct
  BY EmptyIn, Zenon DEF Init, Distinct
<1>4. \A v \in Workers : Held(v) = {}
  BY Zenon DEF Init, Held, AtSs, AtPkt
<1>5. Received = {}
  BY SMTT(60) DEF Init, Received
<1>6. \A p \in Packets, o \in Owners : Has(o, p) <=> o = "pool"
  BY <1>4, <1>5, EmptyIn, HooksAssumption, Zenon DEF Init, Has, Owners
<1>7. OneHolder
  BY <1>6, Zenon DEF OneHolder, Owners
<1>8. \A p \in Packets : Owner[p] = "pool"
  BY <1>6, <1>7, OwnerIsHolder, Zenon DEF HolderOwns, Owners
<1>9. Owner = [p \in Packets |-> Owner[p]]
  BY Zenon DEF Owner
<1>10. Abstract!Init
  BY <1>8, <1>9, Zenon DEF Abstract!Init
<1> QED
  BY <1>1, <1>2, <1>3, <1>7, <1>10, Zenon DEF IInv

\* Every step keeps the invariant and is a step of PacketOwner, or none.
LEMMA StepGoal == IInv /\ [Next]_vars => IInv' /\ [Abstract!Next]_Owner
<1> SUFFICES ASSUME IInv, [Next]_vars PROVE IInv' /\ [Abstract!Next]_Owner
  BY Zenon
<1>1. ASSUME NEW w \in Workers, Hook(w) PROVE Goal
  BY <1>1, ReturnGoal, EchoGoal, TermGoal, ClsGoal, WebGoal, Zenon DEF Hook
<1>2. ASSUME NEW w \in Workers, NEW c \in Conns, Acknowledge(w, c) PROVE Goal
  BY <1>2, StayGoal, Zenon DEF Acknowledge, receiver
<1>3. ASSUME termination_loop PROVE Goal
  BY <1>3, StayGoal, Zenon DEF termination_loop
<1>4. ASSUME nfp_stop_processing \/ UNCHANGED vars PROVE Goal
  BY <1>4, StayGoal, Zenon DEF nfp_stop_processing, vars, receiver
<1>5. Goal
  BY <1>1, <1>2, <1>3, <1>4, ArrivalGoal, ChannelRecvGoal, ChannelFreeGoal,
     PosixRecvGoal, TransmitGoal, WebGoal, Zenon
  DEF Next, Receive, Arrival
<1> QED
  BY <1>5, TypeStep, LocalsStep, Zenon DEF Goal, IInv

\* The inductive invariant holds in every execution.
THEOREM Invariance == Spec => []IInv
<1> QED
  BY InitGoal, StepGoal, PTL DEF Spec

\* Every variable of PacketHooks keeps its type.
THEOREM TypeCorrect == Spec => []TypeOK
<1>1. IInv => TypeOK
  BY Zenon DEF IInv
<1> QED
  BY <1>1, Invariance, PTL

\* The callbacks, the dispatcher and the receiving threads implement
\* PacketOwner, whatever codes nfp_channel_send() fails with: no packet is
\* freed twice or used by two, and none is leaked but by the worker of a vector
\* that the channel refused (NothingLost says with which codes).
THEOREM Refinement == Spec => PacketsOwned
<1> QED
  BY InitGoal, StepGoal, Invariance, PTL DEF Spec, PacketsOwned, Abstract!Spec

\* Where nfp_channel_send() fails with -1 alone, the value that
\* channel_packet_input() compares its result with, no packet is leaked at all.
THEOREM NothingLost == FailCodes \subseteq {-1} /\ Spec => [](lost = {})
<1>1. ASSUME FailCodes \subseteq {-1}, IInv, lost = {}, [Next]_vars
      PROVE  lost' = {}
  <2>1. ASSUME NEW w \in Workers, cls_send(w) PROVE lost' = {}
    <3>1. PICK sent \in Sent : lost' = lost \cup Forgotten(vec[w], sent)
      BY <2>1, Zenon DEF cls_send
    <3>2. sent < 0 => start_idx(sent) = 0
      BY <1>1, HooksAssumption DEF Sent, start_idx
    <3>3. Len(vec[w]) \in Nat
      BY <1>1 DEF IInv, TypeOK, WorkersOK
    <3>4. \A k \in 1..Len(vec[w]) : ~(k <= 0)
      BY <3>3
    <3>5. Forgotten(vec[w], sent) = {}
      BY <3>2, <3>4, Zenon DEF Forgotten
    <3> QED
      BY <1>1, <3>1, <3>5, Zenon
  <2>2. CASE lost' = lost
    BY <1>1, <2>2, Zenon
  <2> QED
    BY <1>1, <2>1, <2>2, ZenonT(60) DEF Next, Hook, Receive, vars, Datagram,
    Connect, Segment, Call, Acknowledge, Unhooked, cls_collect, Return,
    echo_notify, echo_reply, echo_mark, term_notify, term_send, term_free,
    cls_free, cls_init, web_notify, analyze_http, mysend, mysend_fails,
    web_close, web_free, Transmit, termination_loop, channel_recv,
    channel_free, posix_recv, nfp_stop_processing
<1>2. Init => lost = {}
  BY Zenon DEF Init
<1>3. SUFFICES ASSUME FailCodes \subseteq {-1} PROVE Spec => [](lost = {})
  BY Zenon
<1>4. IInv /\ lost = {} /\ [Next]_vars => (lost = {})'
  BY <1>1, <1>3, Zenon
<1> QED
  BY <1>2, <1>4, Invariance, PTL DEF Spec
=============================================================================
