--------------------------- MODULE DispatchProofs ---------------------------
(***************************************************************************)
(* The dispatch loops hand every packet on once and in order, and leave    *)
(* none behind, for any number of queues and packets, any burst size and   *)
(* any size of the vector.                                                 *)
(***************************************************************************)
EXTENDS Dispatch, TLAPS

Packets == [src : Queues \cup {"sched"}, n : Nat]
Events == [type : EventTypes, n : Nat]

\* The types of the variables.
Types ==
  /\ kind \in Kinds /\ pending \in BOOLEAN
  /\ running \in BOOLEAN /\ exit_threads \in BOOLEAN /\ haspkts \in BOOLEAN
  /\ pc \in {"test", "sched", "events", "poll", "pkts", "send", "done"}
  /\ i \in Nat \ {0} /\ sum \in Nat
  /\ arrived \in [Queues -> Nat] /\ rx \in [Queues -> Seq(Nat)]
  /\ posted \in Seq(EventTypes) /\ sched \in Seq(Events) /\ evs \in Seq(Events)
  /\ tbl \in Seq(Packets) /\ vec \in Seq(Packets) /\ out \in Seq(Packets)

\* What the worker holds depends on where it is: events only while it handles
\* them, a burst only while it handles that, and a vector that is not full.
PlaceInv ==
  /\ evs # <<>> => pc = "events"
  /\ tbl # <<>> => pc = "pkts"
  /\ vec # <<>> => \/ kind.evvec /\ pc \in {"events", "poll"}
                   \/ kind.vec /\ pc \in {"poll", "pkts"}
                   \/ pc = "done" /\ kind.err
  /\ Len(vec) < VecSize /\ Len(evs) <= Burst /\ Len(tbl) <= Burst
  /\ pc = "pkts" => kind.poll

\* How far it has got in a round.
RoundInv ==
  /\ i <= Len(Pktin) + 1 /\ sum <= Burst * i
  /\ pc = "pkts" => i <= Len(Pktin)
  /\ pc = "poll" => sum <= Burst * (i - 1)
  /\ pc \in {"sched", "events"} => i = 1 /\ sum = 0

\* The stack holds nothing back between rounds, or at all.
PendingInv ==
  ~kind.err =>
    /\ "loop" \in kind.send /\ ~kind.busy /\ pc \in {"test", "sched", "done"}
       => ~pending
    /\ {"pkt", "tmo"} \subseteq kind.send /\ ~kind.vec /\ ~kind.evvec => ~pending

\* Packets of one source are taken in the order of their numbers.
Sorted ==
  \A j, k \in 1..Len(Taken) :
    j < k /\ Taken[j].src = Taken[k].src => Taken[j].n < Taken[k].n

\* What has arrived on a queue was taken, or is queued in order.
QueueInv ==
  \A q \in Queues :
    /\ Len(rx[q]) <= arrived[q]
    /\ Got(q) = 1..(arrived[q] - Len(rx[q]))
    /\ \A k \in 1..Len(rx[q]) : rx[q][k] = arrived[q] - Len(rx[q]) + k

Handled == Len(posted) - Len(Left)

\* The events that were posted were handled, and their packets taken, or are
\* left in order.
EventInv ==
  /\ Len(Left) <= Len(posted) /\ Len(posted) <= MaxEvents
  /\ Got("sched") = {n \in 1..Handled : posted[n] = "pkt"}
  /\ \A k \in 1..Len(Left) :
       Left[k] = [type |-> posted[Handled + k], n |-> Handled + k]

\* The inductive invariant.
IInv ==
  Types /\ PlaceInv /\ RoundInv /\ PendingInv /\ Sorted /\ QueueInv /\ EventInv

-----------------------------------------------------------------------------
(* Sequences.                                                              *)

\* A concatenation, its length and its elements.
LEMMA ConcatFacts ==
  ASSUME NEW S, NEW s \in Seq(S), NEW t \in Seq(S)
  PROVE  /\ s \o t \in Seq(S) /\ Len(s) \in Nat /\ Len(t) \in Nat
         /\ Len(s \o t) = Len(s) + Len(t)
         /\ \A k \in 1..Len(s) : (s \o t)[k] = s[k]
         /\ \A k \in 1..Len(t) : (s \o t)[Len(s) + k] = t[k]
         /\ \A k \in 1..Len(s \o t) :
              \/ k \in 1..Len(s) /\ (s \o t)[k] = s[k]
              \/ /\ k - Len(s) \in 1..Len(t) /\ (s \o t)[k] = t[k - Len(s)]
                 /\ k > Len(s)
  OBVIOUS

\* Sequences with the same elements are the same.
LEMMA SameSeq ==
  ASSUME NEW S, NEW s \in Seq(S), NEW t \in Seq(S), Len(s) = Len(t),
         \A k \in 1..Len(s) : s[k] = t[k]
  PROVE  s = t
  OBVIOUS

\* The empty sequence.
LEMMA EmptyFacts ==
  ASSUME NEW S
  PROVE  /\ <<>> \in Seq(S) /\ Len(<<>>) = 0
         /\ \A s \in Seq(S) : /\ Len(s) = 0 <=> s = <<>>
                              /\ s \o <<>> = s /\ <<>> \o s = s
  OBVIOUS

\* A sequence with one more element.
LEMMA AppendFacts ==
  ASSUME NEW S, NEW s \in Seq(S), NEW e \in S
  PROVE  Append(s, e) = s \o <<e>> /\ <<e>> \in Seq(S) /\ Append(s, e) \in Seq(S)
  OBVIOUS

\* Concatenation is associative.
LEMMA ConcatAssoc ==
  ASSUME NEW S, NEW s \in Seq(S), NEW t \in Seq(S), NEW u \in Seq(S)
  PROVE  (s \o t) \o u = s \o (t \o u)
  OBVIOUS

\* A concatenation with one more element.
LEMMA ConcatAppend ==
  ASSUME NEW S, NEW s \in Seq(S), NEW t \in Seq(S), NEW e \in S
  PROVE  (s \o t) \o <<e>> = s \o Append(t, e)
<1>1. Append(t, e) = t \o <<e>> /\ <<e>> \in Seq(S)
  BY AppendFacts, Zenon
<1>2. (s \o t) \o <<e>> = s \o (t \o <<e>>)
  BY <1>1, ConcatAssoc
<1> QED
  BY <1>1, <1>2, Zenon

\* A sequence that is not empty is its first element and the rest.
LEMMA HeadFacts ==
  ASSUME NEW S, NEW s \in Seq(S), s # <<>>
  PROVE  /\ Head(s) \in S /\ Tail(s) \in Seq(S) /\ s = <<Head(s)>> \o Tail(s)
         /\ <<Head(s)>> \in Seq(S) /\ Len(Tail(s)) = Len(s) - 1 /\ Len(s) \in Nat
         /\ Head(s) = s[1]
  OBVIOUS

\* The first element of a sequence moves to the end of the one before it.
LEMMA HandOn ==
  ASSUME NEW S, NEW s \in Seq(S), NEW t \in Seq(S), t # <<>>
  PROVE  (s \o <<Head(t)>>) \o Tail(t) = s \o t
<1> DEFINE h == <<Head(t)>>
           r == Tail(t)
<1>1. h \in Seq(S) /\ r \in Seq(S) /\ t = h \o r
  BY HeadFacts, Zenon
<1> HIDE DEF h, r
<1>2. (s \o h) \o r = s \o (h \o r)
  BY <1>1, ConcatAssoc
<1>3. (s \o h) \o r = s \o t
  BY <1>1, <1>2, Zenon
<1> QED
  BY <1>3, Zenon DEF h, r

\* What is taken from the front of a sequence, and what stays.
LEMMA FrontFacts ==
  ASSUME NEW S, NEW s \in Seq(S), NEW n \in Nat
  PROVE  /\ Front(n, s) \in Seq(S) /\ Behind(n, s) \in Seq(S)
         /\ AtMost(n, s) \in Nat /\ AtMost(n, s) <= n /\ AtMost(n, s) <= Len(s)
         /\ Len(Front(n, s)) = AtMost(n, s)
         /\ Len(Behind(n, s)) = Len(s) - AtMost(n, s)
         /\ \A k \in 1..Len(Behind(n, s)) : Behind(n, s)[k] = s[AtMost(n, s) + k]
         /\ Front(n, s) \o Behind(n, s) = s
<1> DEFINE m == AtMost(n, s)
<1>1. Len(s) \in Nat /\ m \in Nat /\ m <= n /\ m <= Len(s)
  BY DEF AtMost
<1> HIDE DEF m
<1>2. /\ SubSeq(s, 1, m) \in Seq(S) /\ Len(SubSeq(s, 1, m)) = m
      /\ \A k \in 1..m : SubSeq(s, 1, m)[k] = s[k]
  BY <1>1
<1>3. /\ SubSeq(s, m + 1, Len(s)) \in Seq(S)
      /\ Len(SubSeq(s, m + 1, Len(s))) = Len(s) - m
      /\ \A k \in 1..(Len(s) - m) : SubSeq(s, m + 1, Len(s))[k] = s[m + k]
  BY <1>1
<1>4. SubSeq(s, 1, m) \o SubSeq(s, m + 1, Len(s)) = s
  <2> DEFINE a == SubSeq(s, 1, m)
             b == SubSeq(s, m + 1, Len(s))
  <2>1. /\ a \in Seq(S) /\ b \in Seq(S) /\ Len(a) = m /\ Len(b) = Len(s) - m
        /\ \A k \in 1..m : a[k] = s[k]
        /\ \A k \in 1..(Len(s) - m) : b[k] = s[m + k]
    BY <1>2, <1>3, Zenon
  <2> HIDE DEF a, b
  <2>2. a \o b \in Seq(S) /\ Len(a \o b) = Len(s)
    <3>1. a \o b \in Seq(S) /\ Len(a \o b) = m + (Len(s) - m)
      BY <2>1, ConcatFacts, Zenon
    <3>2. m + (Len(s) - m) = Len(s)
      BY <1>1
    <3> QED
      BY <3>1, <3>2, Zenon
  <2>3. ASSUME NEW k \in 1..Len(s) PROVE (a \o b)[k] = s[k]
    <3>1. k \in 1..Len(a \o b)
      BY <2>2, Zenon
    <3>2. \A j \in 1..Len(a \o b) :
            \/ j \in 1..Len(a) /\ (a \o b)[j] = a[j]
            \/ /\ j - Len(a) \in 1..Len(b) /\ (a \o b)[j] = b[j - Len(a)]
               /\ j > Len(a)
      BY <2>1, ConcatFacts, Zenon
    <3>3. m + (k - m) = k
      BY <1>1
    <3>4. CASE k \in 1..m /\ (a \o b)[k] = a[k]
      BY <2>1, <3>4, Zenon
    <3>5. CASE k - m \in 1..(Len(s) - m) /\ (a \o b)[k] = b[k - m]
      <4>1. b[k - m] = s[m + (k - m)]
        BY <2>1, <3>5, Zenon
      <4> QED
        BY <3>3, <3>5, <4>1, Zenon
    <3> QED
      BY <2>1, <3>1, <3>2, <3>4, <3>5, Zenon
  <2>4. a \o b = s
    BY <2>2, <2>3, SameSeq, Zenon
  <2> QED
    BY <2>4, Zenon DEF a, b
<1> QED
  BY <1>1, <1>2, <1>3, <1>4, Zenon DEF Front, Behind, m

-----------------------------------------------------------------------------
(* The packets taken.                                                      *)

\* Nothing changes as long as the same packets are taken.
LEMMA TakenSame ==
  ASSUME Taken' = Taken
  PROVE  (Sorted => Sorted') /\ \A r : Got(r)' = Got(r)
  BY Zenon DEF Sorted, Got

\* Packets of a source that follow those already taken.
LEMMA TakenMore ==
  ASSUME NEW t \in Seq(Packets), Taken \in Seq(Packets), Taken' = Taken \o t,
         NEW s, \A k \in 1..Len(t) : t[k].src = s,
         \A j, k \in 1..Len(t) : j < k => t[j].n < t[k].n,
         \A m \in Got(s), k \in 1..Len(t) : m < t[k].n, Sorted
  PROVE  /\ Sorted'
         /\ Got(s)' = Got(s) \cup {t[k].n : k \in 1..Len(t)}
         /\ \A r : r # s => Got(r)' = Got(r)
<1> DEFINE u == Taken \o t
<1>1. /\ u \in Seq(Packets) /\ Len(Taken) \in Nat /\ Len(t) \in Nat
      /\ Len(u) = Len(Taken) + Len(t)
      /\ \A k \in 1..Len(Taken) : u[k] = Taken[k]
      /\ \A k \in 1..Len(t) : u[Len(Taken) + k] = t[k]
      /\ \A k \in 1..Len(u) :
           \/ k \in 1..Len(Taken) /\ u[k] = Taken[k]
           \/ /\ k - Len(Taken) \in 1..Len(t) /\ u[k] = t[k - Len(Taken)]
              /\ k > Len(Taken)
  BY ConcatFacts, Zenon
<1>2. Taken' = u
  BY Zenon
<1> HIDE DEF u
<1>3. \A k \in 1..Len(u) :
        \/ k \in 1..Len(Taken) /\ u[k] = Taken[k]
        \/ /\ k - Len(Taken) \in 1..Len(t) /\ u[k] = t[k - Len(Taken)]
           /\ k > Len(Taken)
  BY <1>1, Zenon
<1>4. Sorted'
  <2> SUFFICES ASSUME NEW j \in 1..Len(u), NEW k \in 1..Len(u), j < k,
                      u[j].src = u[k].src
               PROVE  u[j].n < u[k].n
    BY <1>2, Zenon DEF Sorted
  <2>1. CASE k \in 1..Len(Taken) /\ u[k] = Taken[k]
    <3>1. j \in 1..Len(Taken) /\ u[j] = Taken[j]
      BY <1>1, <2>1
    <3> QED
      BY <2>1, <3>1, Zenon DEF Sorted
  <2>2. CASE k - Len(Taken) \in 1..Len(t) /\ u[k] = t[k - Len(Taken)]
    <3>1. CASE j \in 1..Len(Taken) /\ u[j] = Taken[j]
      <4>1. Taken[j].n \in Got(s)
        BY <2>2, <3>1, Zenon DEF Got
      <4> QED
        BY <2>2, <3>1, <4>1, Zenon
    <3>2. CASE j - Len(Taken) \in 1..Len(t) /\ u[j] = t[j - Len(Taken)]
      <4>1. j - Len(Taken) < k - Len(Taken)
        BY <1>1
      <4> QED
        BY <2>2, <3>2, <4>1, Zenon
    <3> QED
      BY <1>3, <3>1, <3>2, Zenon
  <2> QED
    BY <1>3, <2>1, <2>2, Zenon
<1>5. ASSUME NEW r, NEW m
      PROVE  m \in Got(r)' <=>
               m \in Got(r) \/ \E k \in 1..Len(t) : t[k].src = r /\ t[k].n = m
  <2>1. ASSUME NEW k \in 1..Len(u), u[k].src = r, u[k].n = m
        PROVE  m \in Got(r) \/ \E l \in 1..Len(t) : t[l].src = r /\ t[l].n = m
    BY <1>3, <2>1, Zenon DEF Got
  <2>2. ASSUME NEW k \in 1..Len(Taken), Taken[k].src = r, Taken[k].n = m
        PROVE  \E l \in 1..Len(u) : u[l].src = r /\ u[l].n = m
    <3>1. k \in 1..Len(u)
      BY <1>1
    <3> QED
      BY <1>1, <2>2, <3>1, Zenon
  <2>3. ASSUME NEW k \in 1..Len(t), t[k].src = r, t[k].n = m
        PROVE  \E l \in 1..Len(u) : u[l].src = r /\ u[l].n = m
    <3>1. Len(Taken) + k \in 1..Len(u)
      BY <1>1
    <3> QED
      BY <1>1, <2>3, <3>1, Zenon
  <2>4. m \in Got(r)' <=> \E k \in 1..Len(u) : u[k].src = r /\ u[k].n = m
    BY <1>2, Zenon DEF Got
  <2>5. m \in Got(r) <=> \E k \in 1..Len(Taken) : Taken[k].src = r /\ Taken[k].n = m
    BY Zenon DEF Got
  <2> QED
    BY <2>1, <2>2, <2>3, <2>4, <2>5, Zenon
<1>6. ASSUME NEW r, r # s PROVE Got(r)' = Got(r)
  <2>1. ASSUME NEW m PROVE m \in Got(r)' <=> m \in Got(r)
    BY <1>5, <1>6, Zenon
  <2> QED
    BY <2>1, Zenon
<1>7. Got(s)' = Got(s) \cup {t[k].n : k \in 1..Len(t)}
  <2>1. ASSUME NEW m
        PROVE  m \in Got(s)' <=> m \in Got(s) \/ \E k \in 1..Len(t) : t[k].n = m
    BY <1>5, Zenon
  <2> QED
    BY <2>1, Zenon
<1> QED
  BY <1>4, <1>6, <1>7, Zenon

-----------------------------------------------------------------------------
(* What a step leaves alone.                                               *)

\* The sequences that the worker holds are sequences of packets and events.
LEMMA Holds ==
  ASSUME Types
  PROVE  /\ out \o vec \in Seq(Packets) /\ Taken \in Seq(Packets)
         /\ Left \in Seq(Events)
<1>1. /\ out \in Seq(Packets) /\ vec \in Seq(Packets) /\ tbl \in Seq(Packets)
      /\ evs \in Seq(Events) /\ sched \in Seq(Events)
  BY Zenon DEF Types
<1>2. out \o vec \in Seq(Packets)
  BY <1>1, ConcatFacts, Zenon
<1> QED
  BY <1>1, <1>2, ConcatFacts, Zenon DEF Taken, Left

\* The queues are as they were.
LEMMA QueuesSame ==
  ASSUME Taken' = Taken, UNCHANGED <<arrived, rx>>, Sorted, QueueInv
  PROVE  Sorted' /\ QueueInv'
<1>1. Sorted' /\ \A r : Got(r)' = Got(r)
  BY TakenSame, Zenon
<1>2. arrived' = arrived /\ rx' = rx
  BY Zenon
<1> QED
  BY <1>1, <1>2, Zenon DEF QueueInv

\* The events are as they were.
LEMMA EventsSame ==
  ASSUME Got("sched")' = Got("sched"), posted' = posted, Left' = Left, EventInv
  PROVE  EventInv'
  BY Zenon DEF EventInv, Handled

\* The worker handles nothing.
LEMMA HoldsSame ==
  ASSUME UNCHANGED <<arrived, rx, posted, sched, evs, tbl, vec, out>>,
         Sorted, QueueInv, EventInv
  PROVE  Sorted' /\ QueueInv' /\ EventInv'
<1>1. Taken' = Taken /\ Left' = Left
  BY Zenon DEF Taken, Left
<1>2. Got("sched")' = Got("sched")
  BY <1>1, TakenSame, Zenon
<1> QED
  BY <1>1, <1>2, QueuesSame, EventsSame, Zenon

-----------------------------------------------------------------------------
(* Packets handed to the stack.                                            *)

\* The stack takes a packet that nothing waits in front of.
LEMMA InputFacts ==
  ASSUME Types, vec = <<>>, NEW p \in Packets, nfp_packet_input(p)
  PROVE  /\ out' \in Seq(Packets) /\ vec' = <<>> /\ pending' \in BOOLEAN
         /\ out' \o vec' = (out \o vec) \o <<p>>
         /\ "pkt" \in kind.send => ~pending'
<1>1. out \in Seq(Packets) /\ vec' = <<>> /\ out' = Append(out, p)
  BY Zenon DEF Types, nfp_packet_input
<1>2. pending' \in BOOLEAN /\ ("pkt" \in kind.send => ~pending')
  BY Zenon DEF Types, nfp_packet_input
<1>3. out' \in Seq(Packets) /\ out' = out \o <<p>>
  BY <1>1, AppendFacts, Zenon
<1>4. out' \o vec' = out' /\ out \o vec = out
  BY <1>1, <1>3, EmptyFacts, Zenon
<1> QED
  BY <1>1, <1>2, <1>3, <1>4, Zenon

\* The vector takes a packet, and is handed on when that fills it.
LEMMA CollectFacts ==
  ASSUME Types, Len(vec) < VecSize, NEW p \in Packets, CollectPacket(p)
  PROVE  /\ out' \in Seq(Packets) /\ vec' \in Seq(Packets) /\ pending' \in BOOLEAN
         /\ Len(vec') < VecSize
         /\ out' \o vec' = (out \o vec) \o <<p>>
<1>1. /\ out \in Seq(Packets) /\ vec \in Seq(Packets) /\ pending \in BOOLEAN
  BY Zenon DEF Types
<1>2. /\ Append(vec, p) = vec \o <<p>> /\ <<p>> \in Seq(Packets)
      /\ Append(vec, p) \in Seq(Packets)
  BY <1>1, AppendFacts, Zenon
<1>3. Len(Append(vec, p)) = Len(vec) + 1 /\ Len(vec) \in Nat
  BY <1>1
<1>4. (out \o vec) \o <<p>> = out \o Append(vec, p)
  BY <1>1, ConcatAppend
<1>5. CASE FlushVector(Append(vec, p))
  <2>1. out' = out \o Append(vec, p) /\ vec' = <<>> /\ pending' \in BOOLEAN
    BY <1>1, <1>5, Zenon DEF FlushVector
  <2>2. out' \in Seq(Packets)
    BY <1>1, <1>2, <2>1, ConcatFacts, Zenon
  <2>3. vec' \in Seq(Packets) /\ out' \o vec' = out' /\ Len(vec') = 0
    BY <2>1, <2>2, EmptyFacts, Zenon
  <2>4. 0 < VecSize
    BY DispatchAssumption
  <2> QED
    BY <1>4, <2>1, <2>2, <2>3, <2>4, Zenon
<1>6. CASE /\ Len(vec) + 1 < VecSize /\ vec' = Append(vec, p)
           /\ UNCHANGED <<out, pending>>
  <2>1. out' = out /\ vec' = Append(vec, p) /\ pending' = pending
    BY <1>6, Zenon
  <2> QED
    BY <1>1, <1>2, <1>3, <1>4, <1>6, <2>1, Zenon
<1>7. Len(vec) # VecSize
  BY <1>3, DispatchAssumption
<1>8. \/ FlushVector(Append(vec, p))
      \/ /\ Len(vec) + 1 < VecSize /\ vec' = Append(vec, p)
         /\ UNCHANGED <<out, pending>>
  BY <1>7, Zenon DEF CollectPacket
<1> QED
  BY <1>5, <1>6, <1>8, Zenon

-----------------------------------------------------------------------------
(* The beginning of a round.                                               *)

\* The test of the processing state, or of exit_threads.
LEMMA LoopTestStep ==
  ASSUME IInv, LoopTest PROVE IInv'
<1>1. /\ pc = "test" /\ pc' \in {"sched", "done"}
      /\ i' = 1 /\ sum' = 0 /\ haspkts' = FALSE
      /\ UNCHANGED <<kind, running, exit_threads, arrived, rx, posted, sched,
                     evs, tbl, vec, out, pending>>
  BY Zenon DEF LoopTest
<1>2. Types /\ PlaceInv /\ PendingInv
  BY Zenon DEF IInv
<1>3. Types'
  <2>1. 1 \in Nat \ {0} /\ 0 \in Nat
    OBVIOUS
  <2>2. haspkts' \in BOOLEAN
    BY <1>1, Zenon
  <2>3. pc' \in {"test", "sched", "events", "poll", "pkts", "send", "done"}
    BY <1>1, Zenon
  <2> QED
    BY <1>1, <1>2, <2>1, <2>2, <2>3, Zenon DEF Types
<1>4. PlaceInv'
  BY <1>1, <1>2, Zenon DEF PlaceInv
<1>5. RoundInv'
  <2>1. 1 <= Len(Pktin) + 1 /\ 0 <= Burst * 1
    BY DispatchAssumption
  <2> QED
    BY <1>1, <2>1, Zenon DEF RoundInv
<1>6. PendingInv'
  BY <1>1, <1>2, Zenon DEF PendingInv
<1>7. Sorted' /\ QueueInv' /\ EventInv'
  BY <1>1, HoldsSame, Zenon DEF IInv
<1> QED
  BY <1>3, <1>4, <1>5, <1>6, <1>7, Zenon DEF IInv

\* A round without a look at the scheduler.
LEMMA NoScheduleStep ==
  ASSUME IInv, NoSchedule PROVE IInv'
<1>1. /\ pc = "sched" /\ pc' = "poll"
      /\ UNCHANGED <<kind, running, exit_threads, arrived, rx, posted, sched,
                     i, sum, evs, haspkts, tbl, vec, out, pending>>
  BY Zenon DEF NoSchedule
<1>2. Types /\ PlaceInv /\ RoundInv /\ PendingInv
  BY Zenon DEF IInv
<1>3. Types'
  BY <1>1, <1>2, Zenon DEF Types
<1>4. PlaceInv'
  BY <1>1, <1>2, Zenon DEF PlaceInv
<1>5. RoundInv'
  <2>1. 0 <= Burst * (1 - 1)
    BY DispatchAssumption
  <2> QED
    BY <1>1, <1>2, <2>1, Zenon DEF RoundInv
<1>6. PendingInv'
  BY <1>1, <1>2, Zenon DEF PendingInv
<1>7. Sorted' /\ QueueInv' /\ EventInv'
  BY <1>1, HoldsSame, Zenon DEF IInv
<1> QED
  BY <1>3, <1>4, <1>5, <1>6, <1>7, Zenon DEF IInv

\* What the scheduler gives goes to the events to be handled.
LEMMA ScheduleStep ==
  ASSUME IInv, Schedule PROVE IInv'
<1> DEFINE n == IF kind.events = "burst" THEN Burst ELSE 1
<1>1. /\ pc \in {"sched", "events"} /\ (pc = "events" => evs = <<>> /\ sched # <<>>)
      /\ evs' = Front(n, sched) /\ sched' = Behind(n, sched)
      /\ pc' = IF kind.skip /\ sched = <<>> THEN "test" ELSE "events"
      /\ UNCHANGED <<kind, running, exit_threads, arrived, rx, posted,
                     i, sum, haspkts, tbl, vec, out, pending>>
  BY Zenon DEF Schedule
<1>2. n \in Nat /\ n <= Burst
  BY DispatchAssumption
<1> HIDE DEF n
<1>3. Types /\ PlaceInv /\ RoundInv /\ PendingInv
  BY Zenon DEF IInv
<1>4. evs = <<>> /\ sched \in Seq(Events)
  BY <1>1, <1>3, Zenon DEF Types, PlaceInv
<1>5. /\ evs' \in Seq(Events) /\ sched' \in Seq(Events) /\ Len(evs') <= n
      /\ Len(evs') \in Nat /\ Len(evs') <= Len(sched) /\ evs' \o sched' = sched
  BY <1>1, <1>2, <1>4, FrontFacts, Zenon
<1>6. /\ pc' \in {"test", "events"} /\ (pc = "events" => pc' = "events")
      /\ evs' # <<>> => pc' = "events"
  <2>1. sched = <<>> => evs' = <<>>
    BY <1>5, EmptyFacts
  <2> QED
    BY <1>1, <2>1, Zenon
<1>7. Types'
  BY <1>1, <1>3, <1>5, <1>6, Zenon DEF Types
<1>8. PlaceInv'
  <2>1. Len(evs') <= Burst
    BY <1>2, <1>5, DispatchAssumption
  <2> QED
    BY <1>1, <1>3, <1>6, <2>1, Zenon DEF PlaceInv
<1>9. RoundInv'
  BY <1>1, <1>3, <1>6, Zenon DEF RoundInv
<1>10. PendingInv'
  BY <1>1, <1>3, <1>6, Zenon DEF PendingInv
<1>11. Left' = Left /\ Taken' = Taken
  <2>1. evs \o sched = sched
    BY <1>4, EmptyFacts, Zenon
  <2> QED
    BY <1>1, <1>5, <2>1, Zenon DEF Left, Taken
<1>12. Sorted' /\ QueueInv'
  BY <1>1, <1>11, QueuesSame, Zenon DEF IInv
<1>13. EventInv'
  <2>1. Got("sched")' = Got("sched")
    BY <1>11, TakenSame, Zenon
  <2> QED
    BY <1>1, <1>11, <2>1, EventsSame, Zenon DEF IInv
<1> QED
  BY <1>7, <1>8, <1>9, <1>10, <1>12, <1>13, Zenon DEF IInv

\* An event of another type leaves the packets taken alone, and so does a packet
\* that is taken from an event: it follows the others.
LEMMA EventHandled ==
  ASSUME IInv, evs # <<>>, evs' = Tail(evs), UNCHANGED <<posted, sched>>,
         Got("sched")' = Got("sched") \cup
                           (IF Head(evs).type = "pkt" THEN {Head(evs).n} ELSE {})
  PROVE  EventInv'
<1>1. Types /\ EventInv
  BY Zenon DEF IInv
<1>2. evs \in Seq(Events) /\ sched \in Seq(Events) /\ posted \in Seq(EventTypes)
  BY <1>1, Zenon DEF Types
<1>3. /\ Left \in Seq(Events) /\ Left' = Tail(Left) /\ Left # <<>>
      /\ Left[1] = Head(evs)
  BY <1>2 DEF Left
<1>4. /\ Len(Left) \in Nat /\ Len(Left) >= 1 /\ Len(Left') = Len(Left) - 1
      /\ \A k \in 1..Len(Left') : Left'[k] = Left[k + 1]
  BY <1>3
<1>5. Len(posted) \in Nat /\ Len(posted) <= MaxEvents /\ Len(Left) <= Len(posted)
  BY <1>1, <1>2 DEF EventInv
<1>6. Handled \in Nat /\ Handled' = Handled + 1 /\ Handled + 1 <= Len(posted)
  BY <1>4, <1>5 DEF Handled
<1>7. Head(evs) = [type |-> posted[Handled + 1], n |-> Handled + 1]
  <2>1. 1 \in 1..Len(Left)
    BY <1>4
  <2> QED
    BY <1>1, <1>3, <2>1, Zenon DEF EventInv
<1>8. Head(evs).type = posted[Handled + 1] /\ Head(evs).n = Handled + 1
  BY <1>7
<1>9. Got("sched")' = {n \in 1..Handled' : posted'[n] = "pkt"}
  <2>1. Got("sched") = {n \in 1..Handled : posted[n] = "pkt"}
    BY <1>1, Zenon DEF EventInv
  <2>2. \A n : n \in 1..Handled' <=> n \in 1..Handled \/ n = Handled + 1
    BY <1>6
  <2>3. ASSUME NEW n
        PROVE  n \in Got("sched")' <=> n \in 1..Handled' /\ posted[n] = "pkt"
    BY <1>8, <2>1, <2>2, Zenon
  <2> QED
    BY <2>3, Zenon
<1>10. ASSUME NEW k \in 1..Len(Left')
       PROVE  Left'[k] = [type |-> posted'[Handled' + k], n |-> Handled' + k]
  <2>0. Len(Left) \in Nat /\ k \in 1..(Len(Left) - 1)
    BY <1>4, Zenon
  <2>1. k + 1 \in 1..Len(Left) /\ Handled' + k = Handled + (k + 1)
    BY <1>6, <2>0
  <2>2. Left[k + 1] = [type |-> posted[Handled + (k + 1)], n |-> Handled + (k + 1)]
    BY <1>1, <2>1, Zenon DEF EventInv
  <2> QED
    BY <1>4, <2>1, <2>2, Zenon
<1>11. Len(Left') <= Len(posted') /\ Len(posted') <= MaxEvents
  BY <1>4, <1>5
<1> QED
  BY <1>9, <1>10, <1>11, Zenon DEF EventInv

\* A packet joins those already taken.
LEMMA PacketTaken ==
  ASSUME IInv, evs # <<>>, evs' = Tail(evs),
         UNCHANGED <<arrived, rx, posted, sched>>, Head(evs).type = "pkt",
         Taken' = Taken \o <<Packet("sched", Head(evs).n)>>
  PROVE  Sorted' /\ QueueInv' /\ EventInv'
<1> DEFINE t == <<Packet("sched", Head(evs).n)>>
<1>1. Types /\ Sorted /\ QueueInv /\ EventInv
  BY Zenon DEF IInv
<1>2. evs \in Seq(Events) /\ sched \in Seq(Events) /\ posted \in Seq(EventTypes)
  BY <1>1, Zenon DEF Types
<1>3. Head(evs) \in Events /\ Head(evs).n \in Nat
  <2>1. Head(evs) \in Events
    BY <1>2, HeadFacts, Zenon
  <2> QED
    BY <2>1, Zenon DEF Events
<1>4. /\ t \in Seq(Packets) /\ Len(t) = 1
      /\ t[1].src = "sched" /\ t[1].n = Head(evs).n
  <2> DEFINE p == Packet("sched", Head(evs).n)
  <2>1. p \in Packets /\ p.src = "sched" /\ p.n = Head(evs).n
    BY <1>3, Zenon DEF Packet, Packets
  <2> HIDE DEF p
  <2>2. <<p>> \in Seq(Packets) /\ Len(<<p>>) = 1 /\ <<p>>[1] = p
    BY <2>1
  <2> QED
    BY <2>1, <2>2, Zenon DEF p
<1>5. Taken' = Taken \o t
  BY Zenon
<1> HIDE DEF t
<1>6. \A m \in Got("sched") : m < Head(evs).n
  <2>1. /\ Left \in Seq(Events) /\ Len(Left) \in Nat /\ Len(Left) >= 1
        /\ Left[1] = Head(evs)
    BY <1>2 DEF Left
  <2>2. Handled \in Nat
    BY <1>1, <1>2, <2>1 DEF Handled, EventInv
  <2>3. Left[1] = [type |-> posted[Handled + 1], n |-> Handled + 1]
    <3>1. 1 \in 1..Len(Left)
      BY <2>1
    <3> QED
      BY <1>1, <3>1, Zenon DEF EventInv
  <2>4. Head(evs).n = Handled + 1
    BY <2>1, <2>3
  <2>5. \A m \in Got("sched") : m \in 1..Handled
    BY <1>1, Zenon DEF EventInv
  <2> QED
    BY <2>2, <2>4, <2>5
<1>7. /\ \A k \in 1..Len(t) : t[k].src = "sched"
      /\ \A j, k \in 1..Len(t) : j < k => t[j].n < t[k].n
      /\ \A m \in Got("sched"), k \in 1..Len(t) : m < t[k].n
      /\ {t[k].n : k \in 1..Len(t)} = {Head(evs).n}
  <2>1. \A k : k \in 1..Len(t) <=> k = 1
    BY <1>4
  <2>2. ~ (1 < 1)
    OBVIOUS
  <2> QED
    BY <1>4, <1>6, <2>1, <2>2, Zenon
<1>8. Taken \in Seq(Packets)
  BY <1>1, Holds, Zenon
<1>9. /\ Sorted' /\ Got("sched")' = Got("sched") \cup {t[k].n : k \in 1..Len(t)}
      /\ \A r : r # "sched" => Got(r)' = Got(r)
  BY <1>1, <1>4, <1>5, <1>7, <1>8, TakenMore, Zenon
<1>10. QueueInv'
  <2>1. \A q \in Queues : Got(q)' = Got(q)
    BY <1>9, DispatchAssumption, Zenon
  <2>2. arrived' = arrived /\ rx' = rx
    BY Zenon
  <2> QED
    BY <1>1, <2>1, <2>2, Zenon DEF QueueInv
<1>11. EventInv'
  BY <1>7, <1>9, EventHandled, Zenon
<1> QED
  BY <1>9, <1>10, <1>11, Zenon

\* The handling of an event.
LEMMA HandleEventStep ==
  ASSUME IInv, HandleEvent PROVE IInv'
<1> DEFINE p == Packet("sched", Head(evs).n)
<1>1. /\ pc = "events" /\ evs # <<>> /\ evs' = Tail(evs)
      /\ haspkts' = (haspkts \/ Head(evs).type = "pkt")
      /\ UNCHANGED <<kind, running, exit_threads, arrived, rx, posted, sched,
                     pc, i, sum, tbl>>
  BY Zenon DEF HandleEvent
<1>2. Types /\ PlaceInv /\ RoundInv /\ PendingInv /\ Sorted /\ QueueInv
  BY Zenon DEF IInv
<1>3. evs \in Seq(Events)
  BY <1>2, Zenon DEF Types
<1>4. /\ Head(evs) \in Events /\ Tail(evs) \in Seq(Events)
      /\ Len(Tail(evs)) = Len(evs) - 1 /\ Len(evs) \in Nat
  BY <1>1, <1>3, HeadFacts, Zenon
<1>5. p \in Packets
  BY <1>4, Zenon DEF Events, Packet, Packets
<1>6. /\ tbl = <<>> /\ Len(vec) < VecSize /\ Len(Tail(evs)) <= Burst
      /\ vec # <<>> => kind.evvec
  BY <1>1, <1>2, <1>4, DispatchAssumption DEF PlaceInv
<1>7. /\ out \in Seq(Packets) /\ vec \in Seq(Packets) /\ pending \in BOOLEAN
      /\ tbl \in Seq(Packets)
  BY <1>2, Zenon DEF Types
<1> HIDE DEF p
<1>8. SUFFICES /\ out' \in Seq(Packets) /\ vec' \in Seq(Packets)
               /\ pending' \in BOOLEAN /\ Len(vec') < VecSize /\ (vec' # <<>> => kind.evvec)
               /\ PendingInv' /\ Sorted' /\ QueueInv' /\ EventInv'
  <2>1. haspkts' \in BOOLEAN
    BY <1>1, Zenon
  <2>2. Types'
    BY <1>1, <1>2, <1>4, <1>8, <2>1, Zenon DEF Types
  <2>3. PlaceInv'
    BY <1>1, <1>2, <1>6, <1>8, Zenon DEF PlaceInv
  <2>4. RoundInv'
    BY <1>1, <1>2, Zenon DEF RoundInv
  <2> QED
    BY <1>8, <2>2, <2>3, <2>4, Zenon DEF IInv
<1>9. CASE UNCHANGED <<vec, out>> /\ Head(evs).type # "pkt"
            /\ pending' \in {pending, pending /\ "tmo" \notin kind.send,
                             "tmo" \notin kind.send}
            /\ ("tmo" \in kind.send => pending' \in {pending, FALSE})
  <2>1. Taken' = Taken /\ arrived' = arrived /\ rx' = rx
    BY <1>1, <1>9, Zenon DEF Taken
  <2>2. Got("sched")' = Got("sched")
    BY <2>1, TakenSame, Zenon
  <2>3. Sorted' /\ QueueInv'
    BY <1>2, <2>1, QueuesSame, Zenon
  <2>4. EventInv'
    <3>1. Got("sched")' = Got("sched") \cup
                           (IF Head(evs).type = "pkt" THEN {Head(evs).n} ELSE {})
      BY <1>9, <2>2, Zenon
    <3> QED
      BY <1>1, <3>1, EventHandled, Zenon
  <2>5. PendingInv'
    BY <1>1, <1>2, <1>9, Zenon DEF PendingInv
  <2>6. pending' \in BOOLEAN
    BY <1>7, <1>9, Zenon
  <2> QED
    BY <1>1, <1>6, <1>7, <1>9, <2>3, <2>4, <2>5, <2>6, Zenon
<1>10. CASE Head(evs).type = "pkt" /\ (IF kind.evvec THEN CollectPacket(p)
                                                     ELSE nfp_packet_input(p))
  <2>1. /\ out' \in Seq(Packets) /\ vec' \in Seq(Packets) /\ pending' \in BOOLEAN
        /\ Len(vec') < VecSize /\ (vec' # <<>> => kind.evvec)
        /\ out' \o vec' = (out \o vec) \o <<p>>
        /\ (~kind.evvec /\ "pkt" \in kind.send => ~pending')
    <3>1. CASE kind.evvec
      BY <1>2, <1>5, <1>6, <1>10, <3>1, CollectFacts, Zenon
    <3>2. CASE ~kind.evvec
      <4>1. vec = <<>>
        BY <1>6, <3>2, Zenon
      <4>2. nfp_packet_input(p)
        BY <1>10, <3>2, Zenon
      <4> QED
        BY <1>2, <1>5, <1>6, <3>2, <4>1, <4>2, InputFacts, EmptyFacts, Zenon
    <3> QED
      BY <3>1, <3>2, Zenon
  <2>2. Taken' = Taken \o <<p>>
    <3>1. out \o vec \in Seq(Packets) /\ out' \o vec' \in Seq(Packets)
      BY <1>7, <2>1, ConcatFacts, Zenon
    <3>2. (out \o vec) \o tbl = out \o vec /\ (out' \o vec') \o tbl' = out' \o vec'
      BY <1>1, <1>6, <3>1, EmptyFacts, Zenon
    <3> QED
      BY <2>1, <3>2, Zenon DEF Taken
  <2>3. Sorted' /\ QueueInv' /\ EventInv'
    BY <1>1, <1>10, <2>2, PacketTaken, Zenon DEF p
  <2>4. PendingInv'
    BY <1>1, <1>2, <2>1, Zenon DEF PendingInv
  <2> QED
    BY <2>1, <2>3, <2>4, Zenon
<1> QED
  BY <1>1, <1>9, <1>10, Zenon DEF HandleEvent, p

\* The events of this round are handled.
LEMMA EventsDoneStep ==
  ASSUME IInv, EventsDone PROVE IInv'
<1>1. /\ pc = "events" /\ evs = <<>> /\ pc' = "poll"
      /\ pending' = (pending /\ ~(haspkts /\ "events" \in kind.send))
      /\ UNCHANGED <<kind, running, exit_threads, arrived, rx, posted, sched,
                     i, sum, evs, haspkts, tbl, vec, out>>
  BY Zenon DEF EventsDone
<1>2. Types /\ PlaceInv /\ RoundInv /\ PendingInv
  BY Zenon DEF IInv
<1>3. Types'
  <2>1. pending' \in BOOLEAN
    BY <1>1, Zenon
  <2> QED
    BY <1>1, <1>2, <2>1, Zenon DEF Types
<1>4. PlaceInv'
  BY <1>1, <1>2, Zenon DEF PlaceInv
<1>5. RoundInv'
  <2>1. 0 <= Burst * (1 - 1)
    BY DispatchAssumption
  <2> QED
    BY <1>1, <1>2, <2>1, Zenon DEF RoundInv
<1>6. PendingInv'
  BY <1>1, <1>2, Zenon DEF PendingInv
<1>7. Sorted' /\ QueueInv' /\ EventInv'
  BY <1>1, HoldsSame, Zenon DEF IInv
<1> QED
  BY <1>3, <1>4, <1>5, <1>6, <1>7, Zenon DEF IInv

-----------------------------------------------------------------------------
(* The packet input queues.                                                *)

\* What is received from a queue follows what was taken from it before.
LEMMA Received ==
  ASSUME IInv, Receive, NEW q \in Queues, q = Pktin[i]
  PROVE  /\ tbl' \in Seq(Packets) /\ Len(tbl') \in Nat /\ Len(tbl') <= Burst
         /\ rx' \in [Queues -> Seq(Nat)]
         /\ Sorted' /\ QueueInv' /\ EventInv'
<1> DEFINE m == AtMost(Burst, rx[q])
           base == arrived[q] - Len(rx[q])
<1>1. Types /\ PlaceInv /\ Sorted /\ QueueInv /\ EventInv
  BY Zenon DEF IInv
<1>2. /\ rx \in [Queues -> Seq(Nat)] /\ rx[q] \in Seq(Nat) /\ arrived[q] \in Nat
      /\ Len(rx[q]) \in Nat /\ Burst \in Nat
  <2>1. /\ rx \in [Queues -> Seq(Nat)] /\ rx[q] \in Seq(Nat) /\ arrived[q] \in Nat
    BY <1>1, Zenon DEF Types
  <2>2. Len(rx[q]) \in Nat /\ Burst \in Nat
    BY <2>1, DispatchAssumption
  <2> QED
    BY <2>1, <2>2, Zenon
<1>3. /\ Behind(Burst, rx[q]) \in Seq(Nat)
      /\ m \in Nat /\ m <= Burst /\ m <= Len(rx[q])
      /\ Len(Behind(Burst, rx[q])) = Len(rx[q]) - m
      /\ \A k \in 1..Len(Behind(Burst, rx[q])) :
           Behind(Burst, rx[q])[k] = rx[q][m + k]
  <2>1. rx[q] \in Seq(Nat) /\ Burst \in Nat
    BY <1>2, Zenon
  <2> QED
    BY <2>1, FrontFacts, Zenon
<1>4. /\ pc = "poll" /\ tbl' = [k \in 1..m |-> Packet(q, rx[q][k])]
      /\ rx' = [rx EXCEPT ![q] = Behind(Burst, rx[q])]
      /\ UNCHANGED <<arrived, posted, sched, evs, vec, out>>
  BY Zenon DEF Receive, Polling
<1>5. base \in Nat /\ \A k \in 1..Len(rx[q]) : rx[q][k] = base + k
  <2>1. Len(rx[q]) <= arrived[q] /\ \A k \in 1..Len(rx[q]) : rx[q][k] = base + k
    BY <1>1, Zenon DEF QueueInv
  <2>2. base \in Nat
    BY <1>2, <2>1
  <2> QED
    BY <2>1, <2>2, Zenon
<1> HIDE DEF m, base
<1>6. \A k \in 1..m : k \in 1..Len(rx[q]) /\ rx[q][k] = base + k /\ base + k \in Nat
  <2>1. \A k \in 1..m : k \in 1..Len(rx[q]) /\ base + k \in Nat
    BY <1>2, <1>3, <1>5
  <2> QED
    BY <1>5, <2>1, Zenon
<1>7. \A k \in 1..m : Packet(q, base + k) \in Packets
  BY <1>6, Zenon DEF Packet, Packets
<1>8. tbl' = [k \in 1..m |-> Packet(q, base + k)]
  BY <1>4, <1>6, Zenon
<1>9. tbl' \in Seq(Packets) /\ Len(tbl') = m
  BY <1>3, <1>7, <1>8
<1>10. \A k \in 1..m : tbl'[k].src = q /\ tbl'[k].n = base + k
  BY <1>8, Zenon DEF Packet
<1>11. Taken \in Seq(Packets) /\ Taken' = Taken \o tbl'
  <2>1. tbl = <<>> /\ out \o vec \in Seq(Packets) /\ Taken \in Seq(Packets)
    BY <1>1, <1>4, Holds, Zenon DEF PlaceInv
  <2>2. (out \o vec) \o tbl = out \o vec
    BY <2>1, EmptyFacts, Zenon
  <2> QED
    BY <1>4, <2>1, <2>2, Zenon DEF Taken
<1>12. Got(q) = 1..base
  BY <1>1, Zenon DEF QueueInv, base
<1>13. /\ \A k \in 1..Len(tbl') : tbl'[k].src = q
       /\ \A j, k \in 1..Len(tbl') : j < k => tbl'[j].n < tbl'[k].n
       /\ \A l \in Got(q), k \in 1..Len(tbl') : l < tbl'[k].n
  <2>1. \A j, k \in 1..m : j < k => base + j < base + k
    BY <1>5
  <2>2. \A l \in 1..base, k \in 1..m : l < base + k
    BY <1>5
  <2> QED
    BY <1>9, <1>10, <1>12, <2>1, <2>2, Zenon
<1>14. /\ Sorted' /\ Got(q)' = Got(q) \cup {tbl'[k].n : k \in 1..Len(tbl')}
       /\ \A r : r # q => Got(r)' = Got(r)
  BY <1>1, <1>9, <1>11, <1>13, TakenMore, Zenon
<1>15. Got(q)' = 1..(base + m)
  <2>1. ASSUME NEW l
        PROVE  l \in 1..(base + m) <=>
                 l \in 1..base \/ \E k \in 1..m : base + k = l
    <3>1. ASSUME l \in 1..(base + m), l \notin 1..base
          PROVE  l - base \in 1..m /\ base + (l - base) = l
      BY <1>3, <1>5, <3>1
    <3>2. ASSUME l \in 1..base \/ \E k \in 1..m : base + k = l
          PROVE  l \in 1..(base + m)
      BY <1>3, <1>5, <3>2
    <3> QED
      BY <3>1, <3>2, Zenon
  <2>2. ASSUME NEW l
        PROVE  l \in Got(q)' <=> l \in 1..base \/ \E k \in 1..m : base + k = l
    BY <1>9, <1>10, <1>12, <1>14, Zenon
  <2> QED
    BY <2>1, <2>2, Zenon
<1>16. QueueInv'
  <2>0. arrived' = arrived
    BY <1>4, Zenon
  <2> SUFFICES ASSUME NEW r \in Queues
               PROVE  /\ Len(rx'[r]) <= arrived[r]
                      /\ Got(r)' = 1..(arrived[r] - Len(rx'[r]))
                      /\ \A k \in 1..Len(rx'[r]) :
                           rx'[r][k] = arrived[r] - Len(rx'[r]) + k
    BY <2>0, Zenon DEF QueueInv
  <2>1. CASE r = q
    <3>1. rx'[r] = Behind(Burst, rx[q])
      BY <1>2, <1>4, <2>1, Zenon
    <3>2. arrived[q] - Len(rx'[r]) = base + m /\ Len(rx'[r]) <= arrived[q]
      <4>1. /\ Len(rx'[r]) = Len(rx[q]) - m /\ m \in Nat /\ arrived[q] \in Nat
            /\ Len(rx[q]) \in Nat /\ base = arrived[q] - Len(rx[q]) /\ base \in Nat
        BY <1>2, <1>3, <1>5, <3>1, Zenon DEF base
      <4> QED
        BY <4>1
    <3>3. ASSUME NEW k \in 1..Len(rx'[r]) PROVE rx'[r][k] = base + m + k
      <4>1. m + k \in 1..Len(rx[q]) /\ base + (m + k) = base + m + k
        BY <1>2, <1>3, <1>5, <3>1, <3>3
      <4> QED
        BY <1>3, <1>5, <3>1, <4>1, Zenon
    <3> QED
      BY <1>15, <2>1, <3>2, <3>3, Zenon
  <2>2. CASE r # q
    <3>1. rx'[r] = rx[r] /\ Got(r)' = Got(r)
      BY <1>2, <1>4, <1>14, <2>2, Zenon
    <3> QED
      BY <1>1, <3>1, Zenon DEF QueueInv
  <2> QED
    BY <2>1, <2>2, Zenon
<1>17. EventInv'
  <2>1. Got("sched")' = Got("sched") /\ Left' = Left
    BY <1>4, <1>14, DispatchAssumption, Zenon DEF Left
  <2> QED
    BY <1>1, <1>4, <2>1, EventsSame, Zenon
<1>18. rx' \in [Queues -> Seq(Nat)]
  BY <1>2, <1>3, <1>4, Zenon
<1> QED
  BY <1>3, <1>9, <1>14, <1>16, <1>17, <1>18, Zenon

\* A queue is polled.
LEMMA ReceiveStep ==
  ASSUME IInv, Receive PROVE IInv'
<1>1. /\ pc = "poll" /\ kind.poll /\ i <= Len(Pktin)
      /\ sum' = sum + Len(tbl') /\ pc' = "pkts"
      /\ UNCHANGED <<kind, running, exit_threads, arrived, posted, sched,
                     i, evs, haspkts, vec, out, pending>>
  BY Zenon DEF Receive, Polling
<1>2. Types /\ PlaceInv /\ RoundInv /\ PendingInv
  BY Zenon DEF IInv
<1>3. Pktin[i] \in Queues
  <2>1. i \in 1..Len(Pktin)
    BY <1>1, <1>2, DispatchAssumption DEF Types
  <2> QED
    BY <2>1, DispatchAssumption
<1>4. /\ tbl' \in Seq(Packets) /\ Len(tbl') \in Nat /\ Len(tbl') <= Burst
      /\ rx' \in [Queues -> Seq(Nat)]
      /\ Sorted' /\ QueueInv' /\ EventInv'
  BY <1>3, Received, Zenon
<1>5. sum' \in Nat
  BY <1>1, <1>2, <1>4 DEF Types
<1>6. Types'
  BY <1>1, <1>2, <1>4, <1>5, Zenon DEF Types
<1>7. PlaceInv'
  BY <1>1, <1>2, <1>4, KindsAssumption, Zenon DEF Types, PlaceInv
<1>8. RoundInv'
  <2>1. sum <= Burst * (i - 1) /\ sum \in Nat /\ Burst \in Nat /\ i \in Nat \ {0}
    BY <1>1, <1>2, DispatchAssumption, Zenon DEF Types, RoundInv
  <2>2. Burst * i = Burst * (i - 1) + Burst
    BY <2>1
  <2>3. sum' <= Burst * i
    BY <1>1, <1>4, <2>1, <2>2
  <2> QED
    BY <1>1, <1>2, <2>3, Zenon DEF RoundInv
<1>9. PendingInv'
  BY <1>1, <1>2, Zenon DEF PendingInv
<1> QED
  BY <1>4, <1>6, <1>7, <1>8, <1>9, Zenon DEF IInv

\* The reception fails in tcpperf, which gives up.
LEMMA ReceiveErrorStep ==
  ASSUME IInv, ReceiveError PROVE IInv'
<1>1. /\ pc = "poll" /\ kind.poll /\ kind.err /\ pc' = "done"
      /\ exit_threads' = TRUE
      /\ UNCHANGED <<kind, running, arrived, rx, posted, sched,
                     i, sum, evs, haspkts, tbl, vec, out, pending>>
  BY Zenon DEF ReceiveError, Polling
<1>2. Types /\ PlaceInv /\ RoundInv /\ PendingInv
  BY Zenon DEF IInv
<1>3. Types'
  <2>1. exit_threads' \in BOOLEAN
    BY <1>1, Zenon
  <2> QED
    BY <1>1, <1>2, <2>1, Zenon DEF Types
<1>4. PlaceInv'
  BY <1>1, <1>2, Zenon DEF PlaceInv
<1>5. RoundInv'
  BY <1>1, <1>2, Zenon DEF RoundInv
<1>6. PendingInv'
  BY <1>1, <1>2, Zenon DEF PendingInv
<1>7. Sorted' /\ QueueInv' /\ EventInv'
  BY <1>1, HoldsSame, Zenon DEF IInv
<1> QED
  BY <1>3, <1>4, <1>5, <1>6, <1>7, Zenon DEF IInv

\* A packet of the burst goes to the vector or to the stack.
LEMMA HandlePacketStep ==
  ASSUME IInv, HandlePacket PROVE IInv'
<1> DEFINE p == Head(tbl)
<1>1. /\ pc = "pkts" /\ tbl # <<>> /\ tbl' = Tail(tbl)
      /\ IF kind.vec THEN CollectPacket(p) ELSE nfp_packet_input(p)
      /\ UNCHANGED <<kind, running, exit_threads, arrived, rx, posted, sched,
                     pc, i, sum, evs, haspkts>>
  BY Zenon DEF HandlePacket
<1>2. Types /\ PlaceInv /\ RoundInv /\ PendingInv /\ Sorted /\ QueueInv /\ EventInv
  BY Zenon DEF IInv
<1>3. /\ out \in Seq(Packets) /\ vec \in Seq(Packets) /\ tbl \in Seq(Packets)
  BY <1>2, Zenon DEF Types
<1>4. /\ p \in Packets /\ Tail(tbl) \in Seq(Packets) /\ tbl = <<p>> \o Tail(tbl)
      /\ <<p>> \in Seq(Packets) /\ Len(Tail(tbl)) = Len(tbl) - 1 /\ Len(tbl) \in Nat
  BY <1>1, <1>3, HeadFacts, Zenon
<1> HIDE DEF p
<1>5. Len(vec) < VecSize /\ Len(Tail(tbl)) <= Burst /\ (vec # <<>> => kind.vec)
  BY <1>1, <1>2, <1>4, DispatchAssumption DEF PlaceInv
<1>6. /\ out' \in Seq(Packets) /\ vec' \in Seq(Packets) /\ pending' \in BOOLEAN
      /\ Len(vec') < VecSize /\ (vec' # <<>> => kind.vec)
      /\ out' \o vec' = (out \o vec) \o <<p>>
      /\ (~kind.vec /\ "pkt" \in kind.send => ~pending')
  <2>1. CASE kind.vec
    BY <1>1, <1>2, <1>4, <1>5, <2>1, CollectFacts, Zenon
  <2>2. CASE ~kind.vec
    <3>1. vec = <<>>
      BY <1>5, <2>2, Zenon
    <3>2. nfp_packet_input(p)
      BY <1>1, <2>2, Zenon
    <3> QED
      BY <1>2, <1>4, <1>5, <2>2, <3>1, <3>2, InputFacts, EmptyFacts, Zenon
  <2> QED
    BY <2>1, <2>2, Zenon
<1>7. Taken' = Taken
  <2>1. out \o vec \in Seq(Packets)
    BY <1>3, ConcatFacts, Zenon
  <2>2. ((out \o vec) \o <<p>>) \o Tail(tbl) = (out \o vec) \o tbl
    BY <1>1, <1>3, <2>1, HandOn, Zenon DEF p
  <2> QED
    BY <1>1, <1>6, <2>2, Zenon DEF Taken
<1>8. Sorted' /\ QueueInv'
  BY <1>1, <1>2, <1>7, QueuesSame, Zenon
<1>9. EventInv'
  <2>1. Got("sched")' = Got("sched") /\ Left' = Left
    BY <1>1, <1>7, TakenSame, Zenon DEF Left
  <2> QED
    BY <1>1, <1>2, <2>1, EventsSame, Zenon
<1>10. Types'
  BY <1>1, <1>2, <1>4, <1>6, Zenon DEF Types
<1>11. PlaceInv'
  BY <1>1, <1>2, <1>5, <1>6, Zenon DEF PlaceInv
<1>12. RoundInv'
  BY <1>1, <1>2, Zenon DEF RoundInv
<1>13. PendingInv'
  BY <1>1, <1>2, <1>6, Zenon DEF PendingInv
<1> QED
  BY <1>8, <1>9, <1>10, <1>11, <1>12, <1>13, Zenon DEF IInv

\* The burst is handled, and the next queue is due.
LEMMA PacketsDoneStep ==
  ASSUME IInv, PacketsDone PROVE IInv'
<1>1. /\ pc = "pkts" /\ tbl = <<>> /\ i' = i + 1 /\ pc' = "poll"
      /\ UNCHANGED <<kind, running, exit_threads, arrived, rx, posted, sched,
                     sum, evs, haspkts, tbl, vec, out, pending>>
  BY Zenon DEF PacketsDone
<1>2. Types /\ PlaceInv /\ RoundInv /\ PendingInv
  BY Zenon DEF IInv
<1>3. Types'
  BY <1>1, <1>2 DEF Types
<1>4. PlaceInv'
  BY <1>1, <1>2, Zenon DEF PlaceInv
<1>5. RoundInv'
  <2>1. /\ i \in Nat \ {0} /\ sum \in Nat /\ sum <= Burst * i /\ i <= Len(Pktin)
        /\ Burst \in Nat /\ Len(Pktin) \in Nat
    BY <1>1, <1>2, DispatchAssumption DEF Types, RoundInv
  <2>2. Burst * (i + 1) = Burst * i + Burst /\ (i + 1) - 1 = i /\ Burst * i \in Nat
    BY <2>1
  <2>3. i + 1 <= Len(Pktin) + 1 /\ sum <= Burst * (i + 1)
    BY <2>1, <2>2
  <2> QED
    BY <1>1, <2>1, <2>2, <2>3, Zenon DEF RoundInv
<1>6. PendingInv'
  BY <1>1, <1>2, Zenon DEF PendingInv
<1>7. Sorted' /\ QueueInv' /\ EventInv'
  BY <1>1, HoldsSame, Zenon DEF IInv
<1> QED
  BY <1>3, <1>4, <1>5, <1>6, <1>7, Zenon DEF IInv

-----------------------------------------------------------------------------
(* The end of a round.                                                     *)

\* The rest of the vector goes to the stack.
LEMMA FlushStep ==
  ASSUME IInv, Flush PROVE IInv'
<1>1. /\ pc = "poll" /\ pc' = "send"
      /\ IF vec # <<>> THEN FlushVector(vec) ELSE UNCHANGED <<vec, out, pending>>
      /\ UNCHANGED <<kind, running, exit_threads, arrived, rx, posted, sched,
                     i, sum, evs, haspkts, tbl>>
  BY Zenon DEF Flush, PollsDone
<1>2. Types /\ PlaceInv /\ RoundInv /\ PendingInv /\ Sorted /\ QueueInv /\ EventInv
  BY Zenon DEF IInv
<1>3. /\ out \in Seq(Packets) /\ vec \in Seq(Packets) /\ pending \in BOOLEAN
      /\ evs = <<>> /\ tbl = <<>> /\ Len(vec) < VecSize
      /\ vec # <<>> => kind.evvec \/ kind.vec
  BY <1>1, <1>2, Zenon DEF Types, PlaceInv
<1>4. /\ out' = out \o vec /\ vec' = <<>> /\ pending' \in BOOLEAN
      /\ vec = <<>> => pending' = pending
  <2>1. CASE vec = <<>>
    <3>1. out \o vec = out
      BY <1>3, <2>1, EmptyFacts, Zenon
    <3> QED
      BY <1>1, <1>3, <2>1, <3>1, Zenon
  <2>2. CASE vec # <<>>
    BY <1>1, <1>3, <2>2, Zenon DEF FlushVector
  <2> QED
    BY <2>1, <2>2, Zenon
<1>5. out' \in Seq(Packets) /\ vec' \in Seq(Packets) /\ out' \o vec' = out \o vec
  <2>1. out' \in Seq(Packets)
    BY <1>3, <1>4, ConcatFacts, Zenon
  <2>2. vec' \in Seq(Packets) /\ out' \o vec' = out'
    BY <1>4, <2>1, EmptyFacts, Zenon
  <2> QED
    BY <1>4, <2>1, <2>2, Zenon
<1>6. Taken' = Taken /\ Left' = Left
  BY <1>1, <1>5, Zenon DEF Taken, Left
<1>7. Sorted' /\ QueueInv'
  BY <1>1, <1>2, <1>6, QueuesSame, Zenon
<1>8. EventInv'
  <2>1. Got("sched")' = Got("sched")
    BY <1>6, TakenSame, Zenon
  <2> QED
    BY <1>1, <1>2, <1>6, <2>1, EventsSame, Zenon
<1>9. Types'
  BY <1>1, <1>2, <1>4, <1>5, Zenon DEF Types
<1>10. PlaceInv'
  <2>1. Len(vec') < VecSize
    BY <1>4, DispatchAssumption
  <2> QED
    BY <1>1, <1>2, <1>3, <1>4, <2>1, Zenon DEF PlaceInv
<1>11. RoundInv'
  BY <1>1, <1>2, Zenon DEF RoundInv
<1>12. PendingInv'
  BY <1>1, <1>2, <1>3, <1>4, Zenon DEF PendingInv
<1> QED
  BY <1>7, <1>8, <1>9, <1>10, <1>11, <1>12, Zenon DEF IInv

\* What the stack holds back is forced out.
LEMMA SendStep ==
  ASSUME IInv, Send PROVE IInv'
<1>1. /\ pc = "send" /\ pc' = "test"
      /\ pending' = (pending /\ ("loop" \notin kind.send
                                 \/ (kind.busy /\ sum >= Burst)))
      /\ UNCHANGED <<kind, running, exit_threads, arrived, rx, posted, sched,
                     i, sum, evs, haspkts, tbl, vec, out>>
  BY Zenon DEF Send
<1>2. Types /\ PlaceInv /\ RoundInv /\ PendingInv
  BY Zenon DEF IInv
<1>3. Types'
  <2>1. pending' \in BOOLEAN
    BY <1>1, Zenon
  <2> QED
    BY <1>1, <1>2, <2>1, Zenon DEF Types
<1>4. PlaceInv'
  BY <1>1, <1>2, Zenon DEF PlaceInv
<1>5. RoundInv'
  BY <1>1, <1>2, Zenon DEF RoundInv
<1>6. PendingInv'
  BY <1>1, <1>2, Zenon DEF PendingInv
<1>7. Sorted' /\ QueueInv' /\ EventInv'
  BY <1>1, HoldsSame, Zenon DEF IInv
<1> QED
  BY <1>3, <1>4, <1>5, <1>6, <1>7, Zenon DEF IInv

-----------------------------------------------------------------------------
(* The surroundings of the worker.                                         *)

\* A step that the worker has no part in leaves alone what it holds.
LEMMA WorkerSame ==
  ASSUME IInv, UNCHANGED <<kind, worker>>
  PROVE  /\ PlaceInv' /\ RoundInv' /\ PendingInv' /\ Sorted'
         /\ Taken' = Taken /\ \A r : Got(r)' = Got(r)
<1>1. /\ kind' = kind /\ pc' = pc /\ i' = i /\ sum' = sum /\ evs' = evs
      /\ haspkts' = haspkts /\ tbl' = tbl /\ vec' = vec /\ out' = out
      /\ pending' = pending
  BY Zenon DEF worker
<1>2. PlaceInv /\ RoundInv /\ PendingInv /\ Sorted
  BY Zenon DEF IInv
<1>3. PlaceInv' /\ RoundInv'
  BY <1>1, <1>2, Zenon DEF PlaceInv, RoundInv
<1>4. PendingInv'
  BY <1>1, <1>2, Zenon DEF PendingInv
<1>5. Taken' = Taken
  BY <1>1, Zenon DEF Taken
<1> QED
  BY <1>2, <1>3, <1>4, <1>5, TakenSame, Zenon

\* The packet after those that are queued.
LEMMA NextNumber ==
  ASSUME NEW n \in Nat, NEW m \in Nat PROVE n - m + (m + 1) = n + 1
  OBVIOUS

\* A packet arrives.
LEMMA ArriveStep ==
  ASSUME IInv, NEW q \in Queues, Arrive(q) PROVE IInv'
<1> DEFINE a == arrived[q]
<1>1. /\ arrived' = [arrived EXCEPT ![q] = a + 1]
      /\ rx' = [rx EXCEPT ![q] = Append(rx[q], a + 1)]
      /\ UNCHANGED <<kind, running, exit_threads, posted, sched, worker>>
  BY Zenon DEF Arrive
<1>2. Types /\ QueueInv /\ EventInv
  BY Zenon DEF IInv
<1>3. /\ arrived \in [Queues -> Nat] /\ rx \in [Queues -> Seq(Nat)]
      /\ a \in Nat /\ rx[q] \in Seq(Nat)
  BY <1>2, Zenon DEF Types
<1> HIDE DEF a
<1>4. a + 1 \in Nat
  BY <1>3
<1>5. Append(rx[q], a + 1) \in Seq(Nat)
  BY <1>3, <1>4, AppendFacts, Zenon
<1>6. arrived' \in [Queues -> Nat] /\ rx' \in [Queues -> Seq(Nat)]
  BY <1>1, <1>3, <1>4, <1>5, Zenon
<1>7. /\ PlaceInv' /\ RoundInv' /\ PendingInv' /\ Sorted' /\ Taken' = Taken
      /\ \A r : Got(r)' = Got(r)
  BY <1>1, WorkerSame, Zenon
<1>8. /\ pc' = pc /\ i' = i /\ sum' = sum /\ evs' = evs
      /\ haspkts' = haspkts /\ tbl' = tbl /\ vec' = vec /\ out' = out
      /\ pending' = pending
  BY <1>1, Zenon DEF worker
<1>9. Types'
  BY <1>1, <1>2, <1>6, <1>8, Zenon DEF Types
<1>10. QueueInv'
  <2> SUFFICES ASSUME NEW r \in Queues
               PROVE  /\ Len(rx'[r]) <= arrived'[r]
                      /\ Got(r) = 1..(arrived'[r] - Len(rx'[r]))
                      /\ \A k \in 1..Len(rx'[r]) :
                           rx'[r][k] = arrived'[r] - Len(rx'[r]) + k
    BY <1>7, Zenon DEF QueueInv
  <2>1. CASE r = q
    <3>1. arrived'[r] = a + 1 /\ rx'[r] = Append(rx[q], a + 1)
      BY <1>1, <1>3, <2>1, Zenon
    <3>2. /\ Len(rx[q]) <= a /\ Got(q) = 1..(a - Len(rx[q]))
          /\ \A k \in 1..Len(rx[q]) : rx[q][k] = a - Len(rx[q]) + k
      BY <1>2, Zenon DEF QueueInv, a
    <3>3. /\ Len(rx[q]) \in Nat /\ Len(rx'[r]) = Len(rx[q]) + 1
          /\ \A k \in 1..Len(rx[q]) : rx'[r][k] = rx[q][k]
          /\ rx'[r][Len(rx[q]) + 1] = a + 1
      BY <1>3, <1>4, <3>1
    <3>4. arrived'[r] - Len(rx'[r]) = a - Len(rx[q]) /\ Len(rx'[r]) <= arrived'[r]
      BY <1>3, <3>1, <3>2, <3>3
    <3>5. ASSUME NEW k \in 1..Len(rx'[r]) PROVE rx'[r][k] = a - Len(rx[q]) + k
      <4>1. /\ Len(rx[q]) \in Nat /\ Len(rx'[r]) = Len(rx[q]) + 1 /\ a \in Nat
            /\ k \in 1..Len(rx'[r])
        BY <1>3, <3>3, <3>5, Zenon
      <4>2. k \in 1..Len(rx[q]) \/ k = Len(rx[q]) + 1
        BY <4>1
      <4>3. a - Len(rx[q]) + (Len(rx[q]) + 1) = a + 1
        BY <4>1, NextNumber, Zenon
      <4> QED
        BY <3>2, <3>3, <4>2, <4>3, Zenon
    <3> QED
      BY <2>1, <3>2, <3>4, <3>5, Zenon
  <2>2. CASE r # q
    <3>1. arrived'[r] = arrived[r] /\ rx'[r] = rx[r]
      BY <1>1, <1>3, <2>2, Zenon
    <3> QED
      BY <1>2, <3>1, Zenon DEF QueueInv
  <2> QED
    BY <2>1, <2>2, Zenon
<1>11. EventInv'
  <2>1. Left' = Left /\ posted' = posted
    BY <1>1, <1>8, Zenon DEF Left
  <2> QED
    BY <1>2, <1>7, <2>1, EventsSame, Zenon
<1> QED
  BY <1>7, <1>9, <1>10, <1>11, Zenon DEF IInv

\* An event is posted.
LEMMA PostStep ==
  ASSUME IInv, NEW t \in EventTypes, Post(t) PROVE IInv'
<1> DEFINE ev == [type |-> t, n |-> Len(posted) + 1]
<1>1. /\ Len(posted) < MaxEvents /\ posted' = Append(posted, t)
      /\ sched' = Append(sched, [type |-> t, n |-> Len(posted')])
      /\ UNCHANGED <<kind, running, exit_threads, arrived, rx, worker>>
  BY Zenon DEF Post
<1>2. Types /\ QueueInv /\ EventInv
  BY Zenon DEF IInv
<1>3. /\ posted \in Seq(EventTypes) /\ sched \in Seq(Events) /\ evs \in Seq(Events)
  BY <1>2, Zenon DEF Types
<1>4. /\ posted' \in Seq(EventTypes) /\ Len(posted) \in Nat
      /\ Len(posted') = Len(posted) + 1 /\ posted'[Len(posted) + 1] = t
      /\ \A n \in 1..Len(posted) : posted'[n] = posted[n]
  BY <1>1, <1>3
<1>5. ev \in Events
  BY <1>4 DEF Events
<1>6. sched' = Append(sched, ev)
  BY <1>1, <1>4, Zenon
<1>7. /\ ev.type = t /\ ev.n = Len(posted) + 1
      /\ ev = [type |-> t, n |-> Len(posted) + 1]
  BY Zenon
<1> HIDE DEF ev
<1>8. /\ PlaceInv' /\ RoundInv' /\ PendingInv' /\ Sorted' /\ Taken' = Taken
      /\ \A r : Got(r)' = Got(r)
  BY <1>1, WorkerSame, Zenon
<1>9. /\ pc' = pc /\ i' = i /\ sum' = sum /\ evs' = evs
      /\ haspkts' = haspkts /\ tbl' = tbl /\ vec' = vec /\ out' = out
      /\ pending' = pending
  BY <1>1, Zenon DEF worker
<1>10. Types'
  <2>1. sched' \in Seq(Events)
    BY <1>3, <1>5, <1>6, AppendFacts, Zenon
  <2> QED
    BY <1>1, <1>2, <1>4, <1>9, <2>1, Zenon DEF Types
<1>11. QueueInv'
  BY <1>1, <1>2, <1>8, QueuesSame, Zenon DEF IInv
<1>12. EventInv'
  <2>1. /\ Left \in Seq(Events) /\ Len(Left) \in Nat
        /\ Len(Left') = Len(Left) + 1 /\ Left'[Len(Left) + 1] = ev
        /\ \A k \in 1..Len(Left) : Left'[k] = Left[k]
    <3>1. Left' = Append(Left, ev) /\ Left \in Seq(Events)
      BY <1>3, <1>5, <1>6, <1>9 DEF Left
    <3> QED
      BY <1>5, <3>1
  <2>2. /\ Len(Left) <= Len(posted) /\ Len(posted) <= MaxEvents
        /\ Got("sched") = {n \in 1..Handled : posted[n] = "pkt"}
        /\ \A k \in 1..Len(Left) :
             Left[k] = [type |-> posted[Handled + k], n |-> Handled + k]
    BY <1>2, Zenon DEF EventInv
  <2>3. /\ Handled \in Nat /\ Handled' = Handled /\ Handled <= Len(posted)
        /\ Handled + Len(Left) = Len(posted)
    BY <1>4, <2>1, <2>2 DEF Handled
  <2>4. Len(Left') <= Len(posted') /\ Len(posted') <= MaxEvents
    BY <1>1, <1>4, <2>1, <2>2, DispatchAssumption
  <2>5. Got("sched")' = {n \in 1..Handled' : posted'[n] = "pkt"}
    <3>1. \A n \in 1..Handled : n \in 1..Len(posted)
      BY <1>4, <2>3
    <3> QED
      BY <1>4, <1>8, <2>2, <2>3, <3>1, Zenon
  <2>6. ASSUME NEW k \in 1..Len(Left')
        PROVE  Left'[k] = [type |-> posted'[Handled' + k], n |-> Handled' + k]
    <3>1. CASE k \in 1..Len(Left)
      <4>1. Handled + k \in 1..Len(posted)
        BY <1>4, <2>1, <2>3, <3>1
      <4> QED
        BY <1>4, <2>1, <2>2, <2>3, <3>1, <4>1, Zenon
    <3>2. CASE k = Len(Left) + 1
      <4>1. Handled + k = Len(posted) + 1
        BY <1>4, <2>1, <2>3, <3>2
      <4> QED
        BY <1>4, <1>7, <2>1, <2>3, <3>2, <4>1, Zenon
    <3>3. k \in 1..Len(Left) \/ k = Len(Left) + 1
      BY <2>1
    <3> QED
      BY <3>1, <3>2, <3>3, Zenon
  <2> QED
    BY <2>4, <2>5, <2>6, Zenon DEF EventInv
<1> QED
  BY <1>8, <1>10, <1>11, <1>12, Zenon DEF IInv

\* A step that changes nothing but the processing state and exit_threads, if that.
LEMMA RunningStep ==
  ASSUME IInv, running' \in BOOLEAN, exit_threads' \in BOOLEAN,
         UNCHANGED <<kind, arrived, rx, posted, sched, worker>>
  PROVE  IInv'
<1>1. /\ pc' = pc /\ i' = i /\ sum' = sum /\ evs' = evs
      /\ haspkts' = haspkts /\ tbl' = tbl /\ vec' = vec /\ out' = out
      /\ pending' = pending
  BY Zenon DEF worker
<1>2. Types'
  <2>1. Types
    BY Zenon DEF IInv
  <2> QED
    BY <1>1, <2>1, Zenon DEF Types
<1>3. PlaceInv' /\ RoundInv' /\ PendingInv'
  BY WorkerSame, Zenon
<1>4. Sorted' /\ QueueInv' /\ EventInv'
  BY <1>1, HoldsSame, Zenon DEF IInv
<1> QED
  BY <1>2, <1>3, <1>4, Zenon DEF IInv

-----------------------------------------------------------------------------
(* What holds of every execution.                                          *)

\* The invariant holds initially.
LEMMA InitIInv == Init => IInv
<1> SUFFICES ASSUME Init PROVE IInv
  BY Zenon
<1>1. Types
  <2>1. /\ arrived \in [Queues -> Nat] /\ rx \in [Queues -> Seq(Nat)]
        /\ <<>> \in Seq(EventTypes) /\ <<>> \in Seq(Events) /\ <<>> \in Seq(Packets)
        /\ 1 \in Nat \ {0} /\ 0 \in Nat
    BY DEF Init
  <2> QED
    BY <2>1, Zenon DEF Init, Types
<1>9. PlaceInv
  <2>1. Len(<<>>) < VecSize /\ Len(<<>>) <= Burst
    BY DispatchAssumption
  <2> QED
    BY <2>1, Zenon DEF Init, PlaceInv
<1>2. RoundInv
  <2>1. 1 <= Len(Pktin) + 1 /\ 0 <= Burst * 1
    BY DispatchAssumption
  <2> QED
    BY <2>1, Zenon DEF Init, RoundInv
<1>3. PendingInv
  BY Zenon DEF Init, PendingInv
<1>4. Taken = <<>> /\ Left = <<>>
  BY DEF Init, Taken, Left
<1>5. \A k : k \notin 1..0
  OBVIOUS
<1>6. Sorted /\ \A r : Got(r) = {}
  BY <1>4, <1>5, Zenon DEF Sorted, Got
<1>7. QueueInv
  BY <1>6 DEF Init, QueueInv
<1>8. EventInv
  BY <1>4, <1>6, DispatchAssumption DEF Init, EventInv, Handled
<1> QED
  BY <1>1, <1>2, <1>3, <1>6, <1>7, <1>8, <1>9, Zenon DEF IInv

\* Every step preserves the invariant.
LEMMA NextIInv == IInv /\ [Next]_vars => IInv'
<1> SUFFICES ASSUME IInv, [Next]_vars PROVE IInv'
  BY Zenon
<1>1. running \in BOOLEAN /\ exit_threads \in BOOLEAN
  BY Zenon DEF IInv, Types
<1>2. CASE UNCHANGED vars
  <2>1. /\ running' = running /\ exit_threads' = exit_threads
        /\ UNCHANGED <<kind, arrived, rx, posted, sched, worker>>
    BY <1>2, Zenon DEF vars
  <2> QED
    BY <1>1, <2>1, RunningStep, Zenon
<1>3. CASE StopProcessing \/ ExitThreads
  <2>1. /\ running' \in BOOLEAN /\ exit_threads' \in BOOLEAN
        /\ UNCHANGED <<kind, arrived, rx, posted, sched, worker>>
    BY <1>1, <1>3, Zenon DEF StopProcessing, ExitThreads
  <2> QED
    BY <2>1, RunningStep, Zenon
<1>4. CASE Work
  BY <1>4, LoopTestStep, NoScheduleStep, ScheduleStep, HandleEventStep,
     EventsDoneStep, ReceiveStep, HandlePacketStep, PacketsDoneStep, FlushStep,
     SendStep, Zenon DEF Work
<1> QED
  BY <1>2, <1>3, <1>4, ReceiveErrorStep, ArriveStep, PostStep, Zenon
  DEF Next, Exited

\* The strengthened invariant of the dispatch loops holds throughout.
THEOREM Invariance == Spec => []IInv
  BY InitIInv, NextIInv, PTL DEF Spec

\* Every packet of a queue reaches the stack once and in the order of arrival,
\* whatever the loop of the worker, the sizes of its burst and its vector and
\* the number of its queues: the vector never overflows, and no packet is lost
\* between the bursts, the vector and the stack.
THEOREM InOrderTheorem == Spec => []InOrder
<1>1. IInv => InOrder
  <2> SUFFICES ASSUME IInv PROVE InOrder
    BY Zenon
  <2>1. Types /\ PlaceInv /\ RoundInv /\ Sorted /\ QueueInv /\ EventInv
    BY Zenon DEF IInv
  <2>2. Len(sched) <= Len(posted)
    <3>1. evs \in Seq(Events) /\ sched \in Seq(Events) /\ posted \in Seq(EventTypes)
      BY <2>1, Zenon DEF Types
    <3>2. /\ Len(evs) \in Nat /\ Len(sched) \in Nat
          /\ Len(Left) = Len(evs) + Len(sched)
      BY <3>1 DEF Left
    <3>3. Len(Left) <= Len(posted) /\ Len(posted) \in Nat
      BY <2>1, <3>1 DEF EventInv
    <3> QED
      BY <3>2, <3>3
  <2>3. i \in 1..(Len(Pktin) + 1) /\ sum \in 0..(Burst * i)
    <3>1. /\ i \in Nat \ {0} /\ sum \in Nat
          /\ i <= Len(Pktin) + 1 /\ sum <= Burst * i
      BY <2>1, Zenon DEF Types, RoundInv
    <3>2. Len(Pktin) \in Nat /\ Burst \in Nat
      BY DispatchAssumption
    <3>3. Burst * i \in Nat
      BY <3>1, <3>2
    <3> QED
      BY <3>1, <3>2, <3>3
  <2>4. \A q \in Queues : arrived[q] \in Nat /\ Len(rx[q]) <= arrived[q]
    BY <2>1, Zenon DEF Types, QueueInv
  <2>5. Len(vec) <= VecSize
    <3>1. vec \in Seq(Packets) /\ Len(vec) < VecSize
      BY <2>1, Zenon DEF Types, PlaceInv
    <3> QED
      BY <3>1, DispatchAssumption
  <2>6. TypeOK
    BY <2>1, <2>2, <2>3, <2>4, <2>5, Zenon DEF TypeOK, Types, PlaceInv, EventInv
  <2> QED
    BY <2>1, <2>6, Zenon DEF InOrder, Sorted, QueueInv, EventInv, Handled
<1> QED
  BY <1>1, Invariance, PTL

\* A worker that leaves its loop leaves nothing behind, for every loop that
\* forces out what the stack holds.
THEOREM NothingLeftBehindTheorem == Spec => []NothingLeftBehind
<1>1. IInv => NothingLeftBehind
  BY Zenon DEF IInv, PlaceInv, PendingInv, Flushing, NothingLeftBehind
<1> QED
  BY <1>1, Invariance, PTL

=============================================================================
