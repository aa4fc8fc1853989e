------------------------- MODULE SocketSuiteProofs -------------------------
(***************************************************************************)
(* The tests of the socket example work only on sockets that are open and  *)
(* of their own suite, and a suite closes what it opened: for every table  *)
(* of suites whose lines are orderly, every size of the descriptor table   *)
(* and any number of failing calls.                                        *)
(***************************************************************************)
EXTENDS OrderlySockets, TLAPS

\* The library chooses one of the descriptors it may choose.
LEMMA SomeIn ==
  ASSUME NEW fds, fds # {}
  PROVE  Some(fds) \in fds
  BY Zenon DEF Some

\* A pair of members is a pair of the product.
LEMMA PairIn ==
  ASSUME NEW A, NEW B, NEW a \in A, NEW b \in B
  PROVE  <<a, b>> \in A \X B /\ <<a, b>>[1] = a /\ <<a, b>>[2] = b
  OBVIOUS

\* A receive takes no more than there is, and than it asks for.
LEMMA SizeFacts ==
  ASSUME NEW t, Available(t) \in Nat, Cur(t).len \in Nat, NEW got \in Sizes(t)
  PROVE  got \in Nat /\ got <= Available(t) /\ got <= Cur(t).len
<1> DEFINE a == Available(t)
           len == Cur(t).len
           most == Most(t)
<1>1. a \in Nat /\ len \in Nat /\ most = IF a < len THEN a ELSE len
  BY Zenon DEF Most
<1>2. got = most \/ (got \in Nat /\ got < most)
  BY BoundsAssumption, Zenon DEF Sizes
<1> HIDE DEF a, len, most
<1>3. most \in Nat /\ most <= a /\ most <= len
  BY <1>1
<1>4. got \in Nat /\ got <= a /\ got <= len
  BY <1>1, <1>2, <1>3
<1> QED
  BY <1>4, Zenon DEF a, len

\* The threads of a suite, and where the table has their functions.
LEMMA Slots ==
  /\ DOMAIN Slot = {"main", "t1", "t2"}
  /\ Slot["main"] = 1 /\ Slot["t1"] = 2 /\ Slot["t2"] = 3
  BY DEF Slot

-----------------------------------------------------------------------------
(* What a line of calls holds.                                             *)

\* What is filled in and what is closed grows by what the next call does.
LEMMA LineNext ==
  ASSUME NEW p \in Seq(Instr), NEW i \in DOMAIN p
  PROVE  /\ Filled(p, i + 1) = Filled(p, i) \cup ({p[i].to} \ {""})
         /\ Shut(p, i + 1) = Shut(p, i) \cup (IF p[i].op = "close" THEN {p[i].fd} ELSE {})
<1>1. \A k \in DOMAIN p : k < i + 1 <=> k < i \/ k = i
  OBVIOUS
<1>2. Filled(p, i + 1) = Filled(p, i) \cup ({p[i].to} \ {""})
  BY <1>1, Zenon DEF Filled
<1>3. Shut(p, i + 1) = Shut(p, i) \cup (IF p[i].op = "close" THEN {p[i].fd} ELSE {})
  BY <1>1, Zenon DEF Shut
<1> QED
  BY <1>2, <1>3, Zenon

\* What an orderly line says of one of its calls.
LEMMA OrderlyAt ==
  ASSUME NEW p, NEW i \in DOMAIN p, Orderly(p)
  PROVE  /\ p[i].op \in OnFd => p[i].fd # ""
         /\ p[i].fd # "" => p[i].op \in OnFd \cup {"call"}
         /\ p[i].to # "" <=> p[i].op \in {"socket", "accept"}
         /\ p[i].fd \notin Shut(p, i)
         /\ Range(p[i].undo) \subseteq Held(p, i)
         /\ p[i].op = "close" => p[i].fd \in Held(p, i) /\ p[i].undo = <<>>
         /\ p[i].to = "fd" \/ p[i].op = "getaddrinfo" => p[i].must
         /\ p[i].op = "getaddrinfo" => i + 1 \in DOMAIN p /\ p[i + 1].op = "freeaddrinfo"
         /\ p[i].op = "freeaddrinfo" => i - 1 \in DOMAIN p /\ p[i - 1].op = "getaddrinfo"
  BY Zenon DEF Orderly

\* What is held after a call: a call that makes a descriptor adds it, a close
\* takes one away, and no other call changes it.
LEMMA HeldNext ==
  \A p \in Seq(Instr) : \A i \in DOMAIN p :
    Orderly(p) =>
      /\ p[i].to = "" => Filled(p, i + 1) = Filled(p, i)
      /\ p[i].to = "" /\ p[i].op # "close" => Held(p, i + 1) = Held(p, i)
      /\ p[i].to # "" => /\ Filled(p, i + 1) = Filled(p, i) \cup {p[i].to}
                         /\ Held(p, i + 1) = Held(p, i) \cup {p[i].to}
                         /\ p[i].to \notin Filled(p, i)
                         /\ p[i].to \notin Held(p, i)
      /\ p[i].op = "close" => /\ p[i].to = ""
                              /\ Held(p, i + 1) = Held(p, i) \ {p[i].fd}
                              /\ p[i].fd \in Held(p, i)
\* Only what is filled in is closed.
<1>ShutFilled. ASSUME NEW p \in Seq(Instr), NEW i \in DOMAIN p \cup {Len(p) + 1}, Orderly(p)
               PROVE  Shut(p, i) \subseteq Filled(p, i)
  <2> USE <1>ShutFilled
  <2> SUFFICES ASSUME NEW k \in DOMAIN p, k < i, p[k].op = "close"
               PROVE  p[k].fd \in Filled(p, i)
    BY Zenon DEF Shut
  <2>1. p[k].fd \in Filled(p, k)
    BY Zenon DEF Orderly, Held
  <2>2. \A j \in DOMAIN p : j < k => j < i
    OBVIOUS
  <2> QED
    BY <2>1, <2>2, Zenon DEF Filled
<1>1. ASSUME NEW p \in Seq(Instr), NEW i \in DOMAIN p, Orderly(p)
      PROVE  /\ p[i].to = "" => Filled(p, i + 1) = Filled(p, i)
             /\ p[i].to = "" /\ p[i].op # "close" => Held(p, i + 1) = Held(p, i)
             /\ p[i].to # "" => /\ Filled(p, i + 1) = Filled(p, i) \cup {p[i].to}
                                /\ Held(p, i + 1) = Held(p, i) \cup {p[i].to}
                                /\ p[i].to \notin Filled(p, i)
                                /\ p[i].to \notin Held(p, i)
             /\ p[i].op = "close" => /\ p[i].to = ""
                                     /\ Held(p, i + 1) = Held(p, i) \ {p[i].fd}
                                     /\ p[i].fd \in Held(p, i)
  <2> USE <1>1
  <2>1. p[i].to # "" => p[i].op # "close"
    BY DEF Orderly
  <2>2. p[i].to # "" => p[i].to \notin Filled(p, i)
    BY Zenon DEF Orderly
  <2>3. p[i].op = "close" => p[i].fd \in Held(p, i)
    BY Zenon DEF Orderly
  <2>4. Shut(p, i) \subseteq Filled(p, i)
    BY <1>ShutFilled, Zenon
  <2>5. /\ Filled(p, i + 1) = Filled(p, i) \cup ({p[i].to} \ {""})
        /\ Shut(p, i + 1) = Shut(p, i) \cup (IF p[i].op = "close" THEN {p[i].fd} ELSE {})
    BY LineNext, Zenon
  <2>6. p[i].to = "" => Filled(p, i + 1) = Filled(p, i)
    BY <2>5
  <2>7. p[i].op # "close" => Shut(p, i + 1) = Shut(p, i)
    BY <2>5
  <2>8. p[i].to # "" => Filled(p, i + 1) = Filled(p, i) \cup {p[i].to}
    BY <2>5
  <2>9. p[i].op = "close" => Shut(p, i + 1) = Shut(p, i) \cup {p[i].fd}
    BY <2>5
  <2>10. p[i].to = "" /\ p[i].op # "close" => Held(p, i + 1) = Held(p, i)
    BY <2>6, <2>7, Zenon DEF Held
  <2>11. p[i].to # "" => Held(p, i + 1) = Held(p, i) \cup {p[i].to}
    BY <2>1, <2>2, <2>4, <2>7, <2>8, Zenon DEF Held
  <2>12. p[i].op = "close" => Held(p, i + 1) = Held(p, i) \ {p[i].fd}
    BY <2>1, <2>6, <2>9, Zenon DEF Held
  <2> QED
    BY <2>1, <2>2, <2>3, <2>6, <2>8, <2>10, <2>11, <2>12, Zenon DEF Held
<1> QED
  BY <1>1, Zenon

-----------------------------------------------------------------------------
(* The state.                                                              *)

\* The line a thread runs is one of the table.
LEMMA ProgFacts ==
  ASSUME Types, NEW t \in DOMAIN Slot
  PROVE  /\ Prog(t) = Suites[suite.num][Slot[t]] /\ Prog(t) \in Seq(Instr)
         /\ Orderly(Prog(t))
         /\ t = "main" => OrderlyInit(Prog(t))
         /\ t # "main" => Prog(t) \in Leaky \/ Tidy(Prog(t))
<1>1. Slot[t] \in 1..3 /\ (t = "main" => Slot[t] = 1) /\ (t # "main" => Slot[t] \in 2..3)
  BY Slots
<1>2. suite.num \in DOMAIN Suites /\ suite.code = Suites[suite.num]
  BY DEF Types, Load
<1>3. Prog(t) = Suites[suite.num][Slot[t]]
  BY <1>2 DEF Prog
<1>4. Suites[suite.num] \in [1..3 -> Seq(Instr)]
  BY <1>2, SuitesAssumption
<1>5. Prog(t) \in Seq(Instr)
  BY <1>1, <1>3, <1>4
<1>6. Orderly(Prog(t))
  BY <1>1, <1>2, <1>3, OrderlyAssumption
<1>7. t = "main" => OrderlyInit(Prog(t))
  BY <1>1, <1>2, <1>3, InitAssumption
<1>8. t # "main" => Prog(t) \in Leaky \/ Tidy(Prog(t))
  BY <1>1, <1>2, <1>3, TidyAssumption
<1> QED
  BY <1>3, <1>5, <1>6, <1>7, <1>8, Zenon

\* The call a running thread is at.
LEMMA CurFacts ==
  ASSUME Types, Phases, NEW t \in DOMAIN Slot, th[t].st = "run"
  PROVE  /\ th[t].ip \in DOMAIN Prog(t) /\ Cur(t) = Prog(t)[th[t].ip]
         /\ Cur(t).op \in Ops /\ Cur(t).fd \in Names \cup {""}
         /\ Cur(t).to \in Names \cup {""} /\ Cur(t).kind \in Kinds
         /\ Cur(t).addr \in Address /\ Cur(t).len \in Nat
         /\ Cur(t).undo \in Seq(Names) /\ Cur(t).ret \in {-1, 0} /\ Cur(t).must \in BOOLEAN
         /\ Cur(t).to # "" <=> Cur(t).op \in {"socket", "accept"}
         /\ Cur(t).op \in OnFd => Cur(t).fd \in Names
         /\ Cur(t).fd # "" => Cur(t).op \in OnFd \cup {"call"}
<1>1. th[t].ip \in DOMAIN Prog(t)
  BY Zenon DEF Phases
<1>2. Prog(t) \in Seq(Instr) /\ Orderly(Prog(t))
  BY ProgFacts, Zenon
<1>3. Cur(t) = Prog(t)[th[t].ip]
  BY Zenon DEF Cur
<1>4. Cur(t) \in Instr
  BY <1>1, <1>2, <1>3
<1>5. /\ Cur(t).to # "" <=> Cur(t).op \in {"socket", "accept"}
      /\ Cur(t).op \in OnFd => Cur(t).fd # ""
      /\ Cur(t).fd # "" => Cur(t).op \in OnFd \cup {"call"}
  <2> DEFINE p == Prog(t)
             i == th[t].ip
  <2> HIDE DEF p, i
  <2>1. i \in DOMAIN p /\ Orderly(p)
    BY <1>1, <1>2, Zenon DEF p, i
  <2>2. /\ p[i].to # "" <=> p[i].op \in {"socket", "accept"}
        /\ p[i].op \in OnFd => p[i].fd # ""
        /\ p[i].fd # "" => p[i].op \in OnFd \cup {"call"}
    BY <2>1, Zenon DEF Orderly
  <2> QED
    BY <2>2, <1>3 DEF p, i
<1>6. /\ Cur(t).op \in Ops /\ Cur(t).fd \in Names \cup {""}
      /\ Cur(t).to \in Names \cup {""} /\ Cur(t).kind \in Kinds
      /\ Cur(t).addr \in Address /\ Cur(t).len \in Nat
      /\ Cur(t).undo \in Seq(Names) /\ Cur(t).ret \in {-1, 0} /\ Cur(t).must \in BOOLEAN
  BY <1>4 DEF Instr
<1>7. Cur(t).op \in OnFd => Cur(t).fd \in Names
  BY <1>5, <1>6
<1> QED
  BY <1>1, <1>3, <1>5, <1>6, <1>7, Zenon

\* The record of a thread and of a socket, field by field.
LEMMA ThreadFields ==
  ASSUME Types, NEW t \in DOMAIN Slot
  PROVE  /\ th[t] \in ThreadRec /\ th[t].ip \in Nat \ {0} /\ th[t].got \in Nat
         /\ th[t].sum \in Nat
         /\ th[t].env \in [Names -> Fds \cup {0}]
         /\ \A x \in Names : th[t].env[x] \in Fds \cup {0}
<1>1. th[t] \in ThreadRec
  BY DEF Types
<1> QED
  BY <1>1 DEF ThreadRec

\* The record of a socket, field by field.
LEMMA SockFields ==
  ASSUME NEW s \in [Fds -> SockRec], NEW fd \in Fds
  PROVE  /\ s[fd] \in SockRec /\ s[fd].open \in BOOLEAN /\ s[fd].pend \in Seq(Fds)
         /\ s[fd].q \in Seq(Nat) /\ s[fd].ev \in Seq(Nat) /\ s[fd].bytes \in Nat
         /\ s[fd].peer \in Fds \cup {0} /\ s[fd].by \in Makers
         /\ s[fd].hook \in Kinds /\ s[fd].dest \in Address
         /\ Range(s[fd].pend) \subseteq Fds
<1>1. s[fd] \in SockRec
  OBVIOUS
<1>2. /\ s[fd].open \in BOOLEAN /\ s[fd].pend \in Seq(Fds)
      /\ s[fd].q \in Seq(Nat) /\ s[fd].ev \in Seq(Nat) /\ s[fd].bytes \in Nat
      /\ s[fd].peer \in Fds \cup {0} /\ s[fd].by \in Makers
      /\ s[fd].hook \in Kinds /\ s[fd].dest \in Address
  BY <1>1 DEF SockRec
<1>3. Range(s[fd].pend) \subseteq Fds
  BY <1>2 DEF Range
<1> QED
  BY <1>1, <1>2, <1>3, Zenon

\* A free entry of the descriptor table.
LEMMA FreeFacts ==
  /\ Free \in SockRec /\ Free.open = FALSE /\ Free.pend = <<>> /\ 0 \notin Fds
  /\ ~Free.listening /\ NoAddr \in Address
<1>1. NoAddr \in Address
  BY DEF NoAddr, Addr, Address
<1>3. Nobody \in Makers
  BY DEF Nobody, Makers
<1>2. Free \in SockRec
  BY <1>1, <1>3 DEF Free, SockRec, Kinds
<1>4. Free.open = FALSE /\ Free.pend = <<>> /\ 0 \notin Fds /\ ~Free.listening
  BY DEF Free, Fds
<1> QED
  BY <1>1, <1>2, <1>4, Zenon

\* A thread that has not been started.
LEMMA IdleFacts ==
  Idle \in ThreadRec /\ Idle.st = "idle" /\ Idle.ip = 1 /\ Idle.env = [n \in Names |-> 0]
  BY DEF Idle, ThreadRec, Names, Kinds

\* The places of main() between the start and the end of a suite.
LEMMA PlacesAre ==
  {"start", "init", "create t1", "create t2", "join t1", "join t2", "end", "done", "crashed"}
    \subseteq Places
<1>1. CreateAt["t1"] = "create t1" /\ CreateAt["t2"] = "create t2" /\ DOMAIN CreateAt = {"t1", "t2"}
  BY DEF CreateAt
<1>2. JoinAt["t1"] = "join t1" /\ JoinAt["t2"] = "join t2" /\ DOMAIN JoinAt = {"t1", "t2"}
  BY DEF JoinAt
<1>3. {"create t1", "create t2"} \subseteq Range(CreateAt)
  BY <1>1 DEF Range
<1>4. {"join t1", "join t2"} \subseteq Range(JoinAt)
  BY <1>2 DEF Range
<1> QED
  BY <1>3, <1>4 DEF Places

\* What a close changes of the sockets: dead are those it closes.
Dead(s, fds) == fds \union UNION {Range(s[fd].pend) : fd \in fds \ {0}}

Books(s, r, dead) ==
  \A fd \in Fds :
    /\ fd \in dead => ~r[fd].open /\ r[fd].pend = <<>>
    /\ fd \notin dead =>
         (r[fd].open <=> s[fd].open) /\ r[fd].by = s[fd].by /\ r[fd].pend = s[fd].pend

\* A descriptor that some thread holds.
Kept(fd) == \E t \in DOMAIN Slot : \E x \in Mine(t) : th[t].env[x] = fd

\* A close frees the dead and leaves the rest open, with its maker and queue.
LEMMA ClosedFacts ==
  ASSUME NEW s \in [Fds -> SockRec], NEW fds
  PROVE  /\ Closed(s, fds) \in [Fds -> SockRec]
         /\ \A fd \in Fds : Closed(s, fds)[fd].listening => s[fd].listening
         /\ Books(s, Closed(s, fds), Dead(s, fds))
<1> DEFINE dead == Dead(s, fds)
           r(fd) == CASE fd \in dead -> Free
                      [] fd \notin dead /\ s[fd].peer \in dead \ {0} ->
                           [s[fd] EXCEPT !.peer = 0, !.eof = TRUE]
                      [] OTHER -> s[fd]
<1>1. Closed(s, fds) = [fd \in Fds |-> r(fd)]
  BY Zenon DEF Closed, Dead
<1>2. ASSUME NEW fd \in Fds
      PROVE  /\ r(fd) \in SockRec
             /\ fd \in dead => ~r(fd).open /\ r(fd).pend = <<>>
             /\ fd \notin dead =>
                  (r(fd).open <=> s[fd].open) /\ r(fd).by = s[fd].by /\ r(fd).pend = s[fd].pend
             /\ r(fd).listening => s[fd].listening
  <2> HIDE DEF dead
  <2>1. s[fd] \in SockRec
    OBVIOUS
  <2>2. CASE fd \in dead
    BY <2>2, FreeFacts
  <2>3. CASE fd \notin dead /\ s[fd].peer \in dead \ {0}
    BY <2>1, <2>3, Zenon DEF SockRec
  <2>4. CASE fd \notin dead /\ ~(s[fd].peer \in dead \ {0})
    BY <2>1, <2>4 DEF SockRec
  <2> QED
    BY <2>2, <2>3, <2>4, Zenon
<1> HIDE DEF r, dead
<1>3. \A fd \in Fds : Closed(s, fds)[fd] = r(fd)
  BY <1>1
<1>4. Closed(s, fds) \in [Fds -> SockRec]
  BY <1>1, <1>2
<1>5. Books(s, Closed(s, fds), dead)
  BY <1>2, <1>3, Zenon DEF Books
<1>6. \A fd \in Fds : Closed(s, fds)[fd].listening => s[fd].listening
  BY <1>2, <1>3, Zenon
<1> QED
  BY <1>4, <1>5, <1>6, Zenon DEF dead

\* Closing nothing.
LEMMA NoneDead ==
  ASSUME NEW s
  PROVE  Dead(s, {}) = {}
  BY Zenon DEF Dead

\* What a thread holds has a name.
LEMMA MineNames ==
  \A t \in DOMAIN Slot :
    Types =>
      /\ Mine(t) \subseteq Names
      /\ \A x \in Mine(t) : th[t].env[x] \in Fds \cup {0}
\* What a line holds has a name.
<1>HeldNames. ASSUME NEW p \in Seq(Instr), NEW i
              PROVE  Filled(p, i) \subseteq Names /\ Held(p, i) \subseteq Filled(p, i)
  <2>1. \A k \in DOMAIN p : p[k].to \in Names \cup {""}
    <3> SUFFICES ASSUME NEW k \in DOMAIN p PROVE p[k].to \in Names \cup {""}
      BY Zenon
    <3>1. p[k] \in Instr
      OBVIOUS
    <3> QED
      BY <3>1 DEF Instr
  <2> QED
    BY <2>1, Zenon DEF Filled, Held
<1>1. ASSUME Types, NEW t \in DOMAIN Slot
      PROVE  /\ Mine(t) \subseteq Names
             /\ \A x \in Mine(t) : th[t].env[x] \in Fds \cup {0}
  <2> USE <1>1
  <2>1. Prog(t) \in Seq(Instr)
    BY ProgFacts, Zenon
  <2>2. Held(Prog(t), th[t].ip) \subseteq Names
    BY <2>1, <1>HeldNames, Zenon
  <2> QED
    BY <2>2, ThreadFields, Zenon DEF Mine
<1> QED
  BY <1>1, Zenon

\* A held descriptor that is not -1 is owned.
LEMMA OwnAt ==
  ASSUME OwnInv, NEW t \in DOMAIN Slot, NEW x \in Mine(t), th[t].env[x] # 0
  PROVE  Owns(t, x, th[t].env[x])
  BY Zenon DEF OwnInv

Others(t) == \A u \in DOMAIN Slot : u # t => th'[u] = th[u]

\* Thread t goes on to the next call, with the descriptors e.
Advance(t, e) ==
  /\ Others(t)
  /\ th'[t].ip = th[t].ip + 1
  /\ th'[t].st = IF th[t].ip + 1 > Len(Prog(t)) THEN "done" ELSE "run"
  /\ th'[t].env = e

Return(t) ==
  /\ Others(t)
  /\ th'[t].ip = th[t].ip /\ th'[t].st = "done" /\ th'[t].env = th[t].env

\* A call that succeeds advances its thread.
LEMMA PassFacts ==
  ASSUME Types, NEW t \in DOMAIN Slot, NEW r \in ThreadRec, r.ip = th[t].ip, Pass(t, r)
  PROVE  th' \in [DOMAIN Slot -> ThreadRec] /\ Advance(t, r.env)
<1> DEFINE r1 == [r EXCEPT !.ip = @ + 1]
           r2 == Ready(t, r1)
<1>1. r1 \in ThreadRec /\ r1.ip = th[t].ip + 1 /\ r1.env = r.env
  BY DEF ThreadRec
<1>2. th \in [DOMAIN Slot -> ThreadRec]
  BY Zenon DEF Types
<1>3. th' = [th EXCEPT ![t] = r2]
  BY Zenon DEF Pass
<1> HIDE DEF r1
<1>4. /\ r2 \in ThreadRec /\ r2.ip = th[t].ip + 1 /\ r2.env = r.env
      /\ r2.st = IF th[t].ip + 1 > Len(Prog(t)) THEN "done" ELSE "run"
  <2> DEFINE v == IF r1.ip > Len(Prog(t)) THEN "done" ELSE "run"
  <2>1. r2 = [r1 EXCEPT !.st = v]
    BY Zenon DEF Ready
  <2>2. v \in {"idle", "run", "done", "absent"}
    BY Zenon
  <2>3. v = IF th[t].ip + 1 > Len(Prog(t)) THEN "done" ELSE "run"
    BY <1>1
  <2> HIDE DEF v
  <2>4. [r1 EXCEPT !.st = v] \in ThreadRec
    BY <1>1, <2>2, Zenon DEF ThreadRec
  <2>5. r2.ip = r1.ip /\ r2.env = r1.env /\ r2.st = v
    BY <1>1, <2>1, Zenon DEF ThreadRec
  <2> QED
    BY <1>1, <2>1, <2>3, <2>4, <2>5, Zenon
<1> HIDE DEF r2
<1>5. th' \in [DOMAIN Slot -> ThreadRec] /\ th'[t] = r2 /\ Others(t)
  BY <1>2, <1>3, <1>4 DEF Others
<1> QED
  BY <1>4, <1>5, Zenon DEF Advance

\* It is -1 or one that the test, or the init function for it, holds.
LEMMA OnHeld ==
  ASSUME IInv, NEW t \in DOMAIN Slot, th[t].st = "run", Cur(t).fd # "", Fd(t) # 0
  PROVE  /\ Fd(t) \in Fds /\ Kept(Fd(t)) /\ sock[Fd(t)].open
         /\ sock[Fd(t)].by[1] = suite.num
<1> DEFINE x == Cur(t).fd
<1>1. Types /\ Phases /\ OwnInv /\ UnsetInv
  BY Zenon DEF IInv
<1>2. x \in Names /\ Fd(t) = th[t].env[x]
  BY <1>1, CurFacts, Zenon DEF Fd
<1>3. x \notin Shut(Prog(t), th[t].ip)
  BY <1>1, CurFacts, ProgFacts, OrderlyAt, Zenon
<1>4. ASSUME NEW u \in DOMAIN Slot, NEW y \in Mine(u), th[u].env[y] = Fd(t)
      PROVE  /\ Fd(t) \in Fds /\ Kept(Fd(t)) /\ sock[Fd(t)].open
             /\ sock[Fd(t)].by[1] = suite.num
  <2> DEFINE fd == Fd(t)
  <2>1. th[u].env[y] \in Fds \cup {0}
    BY <1>1, MineNames, Zenon
  <2>2. Owns(u, y, th[u].env[y])
    BY <1>1, <1>4, OwnAt, Zenon
  <2> HIDE DEF fd
  <2>3. fd \in Fds
    <3>1. fd \in Fds \cup {0} /\ fd # 0
      BY <1>4, <2>1, Zenon DEF fd
    <3> QED
      BY <3>1, Zenon
  <2>4. sock[fd].open /\ sock[fd].by = <<suite.num, u>>
    BY <1>4, <2>2, Zenon DEF Owns, fd
  <2>5. sock[fd].by[1] = suite.num
    <3>1. <<suite.num, u>>[1] = suite.num
      OBVIOUS
    <3> QED
      BY <2>4, <3>1, Zenon
  <2>6. Kept(fd)
    BY <1>4, Zenon DEF Kept, fd
  <2> QED
    BY <2>3, <2>4, <2>5, <2>6, Zenon DEF fd
<1> HIDE DEF x
<1>5. CASE x \in Filled(Prog(t), th[t].ip)
  <2>1. x \in Mine(t)
    BY <1>3, <1>5, Zenon DEF Mine, Live, Held
  <2> QED
    BY <1>2, <1>4, <2>1, Zenon
<1>6. CASE x \notin Filled(Prog(t), th[t].ip)
  <2>1. Fd(t) = IF t # "main" /\ x = "fd" THEN th["main"].env[Globals[t]] ELSE 0
    BY <1>1, <1>2, <1>6, Zenon DEF UnsetInv, Live
  <2>2. t # "main" /\ Fd(t) = th["main"].env[Globals[t]]
    BY <2>1, Zenon
  <2>3. t \in {"t1", "t2"}
    BY <2>2, Slots, Zenon
  <2> DEFINE g == Globals[t]
             q == Prog("main")
             i == th["main"].ip
  <2>4. g \in Names
    <3>1. Globals["t1"] \in Names /\ Globals["t2"] \in Names
      BY DEF Globals, Names
    <3> QED
      BY <2>3, <3>1, Zenon
  <2>5. th["main"].st = "done"
    <3>1. th[t].st # "idle"
      OBVIOUS
    <3>2. at \notin {"start", "init", "done"}
      BY <1>1, <2>3, <3>1, Zenon DEF Phases
    <3> QED
      BY <1>1, <3>2, Zenon DEF Phases
  <2>6. "main" \in DOMAIN Slot /\ Live("main")
    BY <2>5, Slots, Zenon DEF Live
  <2>7. OrderlyInit(q)
    BY <1>1, <2>6, ProgFacts, Zenon
  <2> HIDE DEF g
  <2>8. g \in Filled(q, i)
    <3> SUFFICES ASSUME g \notin Filled(q, i) PROVE FALSE
      BY Zenon
    <3>1. th["main"].env[g] = 0
      BY <1>1, <2>4, <2>6, Zenon DEF UnsetInv
    <3> QED
      BY <2>2, <3>1, Zenon DEF g
  <2>9. g \in Held(q, i)
    BY <2>7, <2>8, Zenon DEF OrderlyInit, Held, Shut
  <2>10. g \in Mine("main")
    BY <2>6, <2>9, Zenon DEF Mine
  <2> QED
    BY <1>4, <2>2, <2>6, <2>10, Zenon DEF g
<1> QED
  BY <1>5, <1>6, Zenon

\* A call on a descriptor that is not -1.
LEMMA OnFacts ==
  ASSUME IInv, NEW t \in DOMAIN Slot, NEW op \in OnFd, On(t, op)
  PROVE  /\ th[t].st = "run" /\ Cur(t).op = op /\ Fd(t) \in Fds /\ Kept(Fd(t))
         /\ sock[Fd(t)].open /\ th[t] \in ThreadRec /\ sock \in [Fds -> SockRec]
<1>1. Types /\ Phases
  BY Zenon DEF IInv
<1>2. th[t].st = "run" /\ Cur(t).op = op /\ Fd(t) # 0
  BY Zenon DEF On, At
<1>3. Cur(t).op \in OnFd
  BY <1>2, Zenon
<1>4. Cur(t).fd \in Names
  BY <1>1, <1>2, <1>3, CurFacts, Zenon
<1>5. Cur(t).fd # ""
  BY <1>4 DEF Names
<1>6. Fd(t) \in Fds /\ Kept(Fd(t)) /\ sock[Fd(t)].open
  BY <1>2, <1>5, OnHeld, Zenon
<1>7. th[t] \in ThreadRec /\ sock \in [Fds -> SockRec]
  BY <1>1, ThreadFields, Zenon DEF Types
<1> QED
  BY <1>2, <1>6, <1>7, Zenon

\* A socket that is not open; nobody knows it.
LEMMA FreeFd ==
  ASSUME IInv, FreeFds(sock) # {}, NEW n, n = Some(FreeFds(sock))
  PROVE  /\ n \in Fds /\ ~sock[n].open /\ ~Kept(n)
         /\ \A srv \in Fds : \A j \in DOMAIN sock[srv].pend : sock[srv].pend[j] # n
         /\ \A j \in DOMAIN sock[n].pend : FALSE
<1>2. n \in FreeFds(sock)
  BY SomeIn, Zenon
<1>3. n \in Fds /\ ~sock[n].open
  BY <1>2, Zenon DEF FreeFds
<1>4. Types /\ OwnInv /\ PendInv
  BY Zenon DEF IInv
<1>5. n # 0
  BY <1>3, FreeFacts, Zenon
<1>6. ASSUME NEW u \in DOMAIN Slot, NEW x \in Mine(u) PROVE th[u].env[x] # n
  <2> SUFFICES ASSUME th[u].env[x] = n PROVE FALSE
    BY Zenon
  <2>1. th[u].env[x] # 0
    BY <1>5, Zenon
  <2>2. sock[th[u].env[x]].open
    BY <1>4, <2>1, OwnAt, Zenon DEF Owns
  <2> QED
    BY <1>3, <2>2, Zenon
<1>7. ~Kept(n)
  BY <1>6, Zenon DEF Kept
<1>8. ASSUME NEW srv \in Fds, NEW j \in DOMAIN sock[srv].pend PROVE sock[srv].pend[j] # n /\ srv # n
  <2>1. WaitsIn(sock[srv].pend[j], srv, j)
    BY <1>4, Zenon DEF PendInv
  <2>2. sock[sock[srv].pend[j]].open /\ sock[srv].open
    BY <2>1, Zenon DEF WaitsIn
  <2>3. sock[srv].pend[j] # n
    <3> SUFFICES ASSUME sock[srv].pend[j] = n PROVE FALSE
      BY Zenon
    <3> QED
      BY <1>3, <2>2, Zenon
  <2>4. srv # n
    <3> SUFFICES ASSUME srv = n PROVE FALSE
      BY Zenon
    <3> QED
      BY <1>3, <2>2, Zenon
  <2> QED
    BY <2>3, <2>4, Zenon
<1> QED
  BY <1>3, <1>7, <1>8, Zenon

\* The sockets q after a connection from fd to srv, whose other end is n.
Linked(q, s, fd, srv, n, a, v, r) ==
  q = [s EXCEPT ![fd].dest = a, ![fd].peer = n, ![srv].pend = Append(@, n), ![srv].ev = v, ![n] = r]

\* The same, one socket after the other.
LinkedBy(q, s, fd, srv, n, a, v, r) ==
  \E s1 :
    /\ s1 = [s EXCEPT ![fd] = [s[fd] EXCEPT !.dest = a, !.peer = n]]
    /\ q = [[s1 EXCEPT ![srv] = [s1[srv] EXCEPT !.pend = Append(s1[srv].pend, n), !.ev = v]]
              EXCEPT ![n] = r]

\* A connection changes three sockets.
LEMMA LinkSteps ==
  ASSUME NEW q, NEW s, NEW fd, NEW srv, NEW n, NEW a, NEW v, NEW r,
         Linked(q, s, fd, srv, n, a, v, r)
  PROVE  LinkedBy(q, s, fd, srv, n, a, v, r)
<1> DEFINE s1 == [s EXCEPT ![fd] = [s[fd] EXCEPT !.dest = a, !.peer = n]]
           y == [s EXCEPT ![fd].dest = a, ![fd].peer = n]
           x == [s EXCEPT ![fd].dest = a, ![fd].peer = n, ![srv].pend = Append(@, n), ![srv].ev = v]
           z == [s1 EXCEPT ![srv] = [s1[srv] EXCEPT !.pend = Append(s1[srv].pend, n), !.ev = v]]
<1>1. q = [x EXCEPT ![n] = r]
  BY Zenon DEF Linked
<1>2. x = [y EXCEPT ![srv].pend = Append(@, n), ![srv].ev = v]
  BY Zenon
<1>3. y = s1
  BY Zenon
<1>5. s1 = [s EXCEPT ![fd] = [s[fd] EXCEPT !.dest = a, !.peer = n]]
  BY Zenon
<1> HIDE DEF x, y, s1
<1>4. [y EXCEPT ![srv].pend = Append(@, n), ![srv].ev = v] = z
  <2>1. [s1 EXCEPT ![srv].pend = Append(@, n), ![srv].ev = v] = z
    BY Zenon
  <2> HIDE DEF z
  <2> QED
    BY <1>3, <2>1, Zenon
<1>6. z = [s1 EXCEPT ![srv] = [s1[srv] EXCEPT !.pend = Append(s1[srv].pend, n), !.ev = v]]
  BY Zenon
<1> HIDE DEF z
<1>7. x = z
  BY <1>2, <1>4, Zenon
<1>8. q = [z EXCEPT ![n] = r]
  BY <1>1, <1>7, Zenon
<1>9. q = [[s1 EXCEPT ![srv] = [s1[srv] EXCEPT !.pend = Append(s1[srv].pend, n), !.ev = v]]
             EXCEPT ![n] = r]
  BY <1>6, <1>8, Zenon
<1> QED
  BY <1>5, <1>9, Zenon DEF LinkedBy

-----------------------------------------------------------------------------
(* What the tests of a suite send each other.                              *)

\* The socket is as it was, as far as its maker and what it carries go.
Alike(s, r) ==
  r.open =>
    /\ s.open /\ r.by[1] = s.by[1] /\ r.kind = s.kind /\ r.hook = s.hook
    /\ r.q = s.q /\ r.ev = s.ev /\ r.bytes = s.bytes

\* It has changed and is in order.
Settled(fd) ==
  sock'[fd].open =>
    /\ sock'[fd].by[1] <= suite.num /\ (at' = "start" => sock'[fd].by[1] < suite.num)
    /\ sock'[fd].by[1] = suite.num =>
         Carries(suite.num, sock'[fd]) /\ (OneSend(suite.num) => Sent' \/ sock'[fd].bytes = 0)

\* Thread t makes a step, after which its last receive has got g bytes.
Goes(t, g) ==
  /\ Others(t) /\ th'[t].ip \in {th[t].ip, th[t].ip + 1}
  /\ th'[t].st # "idle" /\ th'[t].got = g

\* What arrives is shorter than what the suite allows for, and is the first
\* thing sent if the suite sends once.
Fitting(len) ==
  /\ len \in Nat /\ \A c \in Lens : Whole(suite.num, c) => len < c
  /\ OneSend(suite.num) => ~Sent /\ Sent'

\* What a callback leaves to the worker is queued at the socket.
Left(fd, ev, h) ==
  \E r : /\ sock' = [sock EXCEPT ![fd] = r]
         /\ r.open = sock[fd].open /\ r.by = sock[fd].by /\ r.kind = sock[fd].kind
         /\ r.hook = sock[fd].hook /\ r.ev = ev
         /\ sock[fd].kind = "dgram" =>
              r.q = Append(sock[fd].q, h) /\ r.bytes = sock[fd].bytes

\* An empty queue, and no bytes at all, are short enough.
LEMMA NoneBelow == \A c \in Lens : Below(<<>>, c) /\ 0 < c
  BY DEF Lens, Below

\* A thread that is running is within a suite.
LEMMA WithinSuite ==
  ASSUME IInv, DataInv, NEW t \in DOMAIN Slot, th[t].st = "run"
  PROVE  SuiteInv /\ GotInv /\ at # "start"
<1>1. t \in {"main", "t1", "t2"}
  BY Slots, Zenon
<1>2. Phases
  BY Zenon DEF IInv
<1>3. at # "done" /\ at # "start"
  BY <1>1, <1>2 DEF Phases
<1> QED
  BY <1>3, Zenon DEF DataInv

\* The call of a test is one of its suite's.
LEMMA CallOf ==
  ASSUME IInv, NEW t \in DOMAIN Slot, th[t].st = "run"
  PROVE  /\ Slot[t] \in 1..3 /\ th[t].ip \in DOMAIN Suites[suite.num][Slot[t]]
         /\ Cur(t) = Suites[suite.num][Slot[t]][th[t].ip]
<1>1. Types /\ Phases
  BY Zenon DEF IInv
<1>2. Slot[t] \in 1..3
  BY Slots
<1> QED
  BY <1>1, <1>2, CurFacts, ProgFacts, Zenon

\* It leaves room for the terminator.
LEMMA InvTerminatorFits == IInv /\ DataInv => TerminatorFits
<1> SUFFICES ASSUME IInv, DataInv, NEW t \in Threads, At(t, "terminate"), Prog(t) \notin Overrun
             PROVE  th[t].got < Cur(t).len
  BY Zenon DEF TerminatorFits
<1>1. t \in DOMAIN Slot /\ Slot[t] \in 2..3
  BY Slots DEF Threads
<1>2. th[t].st = "run" /\ Cur(t).op = "terminate"
  BY Zenon DEF At
<1>3. Types /\ GotInv
  BY <1>1, <1>2, WithinSuite, Zenon DEF IInv
<1> DEFINE p == Suites[suite.num][Slot[t]]
           i == th[t].ip
<1>4. suite.num \in DOMAIN Suites /\ Prog(t) = p /\ i \in DOMAIN p /\ Cur(t) = p[i]
  BY <1>1, <1>2, <1>3, CallOf, ProgFacts, Zenon DEF Types
<1>5. p[i].op = "terminate" => p \in Overrun \/ (p[i].len \in Lens /\ Room(suite.num, Slot[t], p[i].len))
  BY <1>1, <1>4, RoomAssumption, Zenon
<1> HIDE DEF p, i
<1>6. Cur(t).len \in Lens /\ Room(suite.num, Slot[t], Cur(t).len)
  BY <1>2, <1>4, <1>5, Zenon
<1> QED
  BY <1>1, <1>3, <1>6, Zenon DEF GotInv

\* The second invariant holds at the start.
LEMMA InitData ==
Init => DataInv
\* Nobody has received anything before a suite starts.
<1>NothingGot. ASSUME th = [t \in DOMAIN Slot |-> Idle]
               PROVE  GotInv
  <2> USE <1>NothingGot
  <2>1. Idle.ip = 1 /\ Idle.got = 0
    BY Zenon DEF Idle
  <2>2. \A t \in DOMAIN Slot : th[t].ip = 1 /\ th[t].got = 0
    BY <2>1, Zenon
  <2> QED
    BY <2>2, NoneBelow, Zenon DEF GotInv
<1> SUFFICES ASSUME Init PROVE DataInv
  BY Zenon
<1>1. \A fd \in Fds : ~sock[fd].open
  <2>1. sock = [fd \in Fds |-> Free]
    BY Zenon DEF Init
  <2> QED
    BY <2>1, FreeFacts, Zenon
<1>2. SuiteInv
  BY <1>1, Zenon DEF SuiteInv
<1>3. GotInv
  BY <1>NothingGot, Zenon DEF Init
<1> QED
  BY <1>2, <1>3, Zenon DEF DataInv

\* Every step of main(), of a thread and of a worker preserves the second
\* invariant.
LEMMA StepData ==
IInv /\ DataInv /\ [Next]_vars => DataInv'
\* A socket is like itself.
<1>AlikeSelf. ASSUME NEW s
              PROVE  Alike(s, s)
  BY <1>AlikeSelf, Zenon DEF Alike
\* Two steps that leave a socket alike.
<1>AlikeTwice. ASSUME NEW a, NEW b, NEW c, Alike(a, b), Alike(b, c)
               PROVE  Alike(a, c)
  BY <1>AlikeTwice, Zenon DEF Alike
\* A text of the suite never gets longer than Room says.
<1>WholeRoom. ASSUME NEW n, NEW s, NEW c, Whole(n, c)
              PROVE  Room(n, s, c)
  BY <1>WholeRoom, Zenon DEF Room
\* The positions of a sequence are numbers.
<1>SeqIndex. ASSUME NEW S, NEW s \in Seq(S), NEW i \in DOMAIN s
             PROVE  i \in Nat
  BY <1>SeqIndex
\* The smallest length.
<1>ZeroNat. 0 \in Nat
  OBVIOUS
\* A text that is added.
<1>Grows. ASSUME NEW q \in Seq(Nat), NEW b \in Nat, NEW h \in Nat
          PROVE  Append(q, h) \in Seq(Nat) /\ b + h \in Nat
  BY <1>Grows
\* The first text of a queue, and the others.
<1>Ends. ASSUME NEW q \in Seq(Nat), q # <<>>
         PROVE  Tail(q) \in Seq(Nat) /\ Head(q) \in Nat
  BY <1>Ends
\* A queue of texts that are short stays one.
<1>BelowEnds. ASSUME NEW q \in Seq(Nat), NEW c \in Nat, Below(q, c)
              PROVE  /\ \A v \in Nat : v < c => Below(Append(q, v), c)
                     /\ q # <<>> => Below(Tail(q), c) /\ Head(q) < c
  BY <1>BelowEnds DEF Below
\* What has been sent stays sent.
<1>SentOn. ASSUME Types, suite' = suite, \A u \in DOMAIN Slot : th'[u].ip \in {th[u].ip, th[u].ip + 1}, Sent
           PROVE  Sent'
  <2> USE <1>SentOn
  <2>1. PICK u \in DOMAIN Slot : \E i \in DOMAIN Prog(u) : i < th[u].ip /\ Prog(u)[i].op \in Sending
    BY Zenon DEF Sent
  <2>2. PICK i \in DOMAIN Prog(u) : i < th[u].ip /\ Prog(u)[i].op \in Sending
    BY <2>1, Zenon
  <2>3. Prog(u)' = Prog(u)
    BY Zenon DEF Prog
  <2>4. i < th'[u].ip
    <3>1. i \in Nat /\ th[u].ip \in Nat /\ th'[u].ip \in {th[u].ip, th[u].ip + 1}
      <4>1. Prog(u) \in Seq(Instr)
        BY ProgFacts, Zenon
      <4> QED
        BY <4>1, ThreadFields
    <3> QED
      BY <2>2, <3>1
  <2> QED
    BY <2>2, <2>3, <2>4, Zenon DEF Sent
\* The sockets after a step that stays within the suite.
<1>SuiteStep. ASSUME SuiteInv, suite' = suite, at' = "start" => at = "start", Sent => Sent',
                     \A fd \in Fds : Alike(sock[fd], sock'[fd]) \/ Settled(fd)
              PROVE  SuiteInv'
  <2> USE <1>SuiteStep
  <2> SUFFICES ASSUME NEW fd \in Fds, sock'[fd].open
               PROVE  /\ sock'[fd].by[1] <= suite.num /\ (at' = "start" => sock'[fd].by[1] < suite.num)
                      /\ sock'[fd].by[1] = suite.num =>
                           /\ Carries(suite.num, sock'[fd])
                           /\ OneSend(suite.num) => Sent' \/ sock'[fd].bytes = 0
    BY Zenon DEF SuiteInv
  <2>1. CASE Settled(fd)
    BY <2>1, Zenon DEF Settled
  <2>2. CASE Alike(sock[fd], sock'[fd])
    <3>1. /\ sock[fd].open /\ sock'[fd].by[1] = sock[fd].by[1] /\ sock'[fd].kind = sock[fd].kind
          /\ sock'[fd].hook = sock[fd].hook /\ sock'[fd].q = sock[fd].q
          /\ sock'[fd].ev = sock[fd].ev /\ sock'[fd].bytes = sock[fd].bytes
      BY <2>2, Zenon DEF Alike
    <3>2. /\ sock[fd].by[1] <= suite.num /\ (at = "start" => sock[fd].by[1] < suite.num)
          /\ sock[fd].by[1] = suite.num =>
               Carries(suite.num, sock[fd]) /\ (OneSend(suite.num) => Sent \/ sock[fd].bytes = 0)
      BY <3>1, Zenon DEF SuiteInv
    <3>3. Carries(suite.num, sock[fd]) => Carries(suite.num, sock'[fd])
      BY <3>1, Zenon DEF Carries
    <3> QED
      BY <3>1, <3>2, <3>3, Zenon
  <2> QED
    BY <2>1, <2>2, Zenon
\* A call of thread t that stays within these bounds.
<1>CallData. ASSUME IInv, DataInv, NEW t \in DOMAIN Slot, th[t].st = "run", suite' = suite, at' = at,
                    NEW g, Goes(t, g),
                    g = th[t].got \/ \A c \in Lens : Room(suite.num, Slot[t], c) => g < c,
                    \A fd \in Fds : Alike(sock[fd], sock'[fd]) \/ Settled(fd)
             PROVE  DataInv'
  <2> USE <1>CallData
  <2>1. Types /\ Phases
    BY Zenon DEF IInv
  <2>2. at # "done" /\ at # "start"
    <3>1. t \in {"main", "t1", "t2"}
      BY Slots, Zenon
    <3> QED
      BY <2>1, <3>1 DEF Phases
  <2>3. SuiteInv /\ GotInv
    BY <2>2, Zenon DEF DataInv
  <2>4. \A u \in DOMAIN Slot : th'[u].ip \in {th[u].ip, th[u].ip + 1}
    BY Zenon DEF Goes, Others
  <2>5. Sent => Sent'
    BY <2>1, <2>4, <1>SentOn, Zenon
  <2>6. SuiteInv'
    BY <2>3, <2>5, <1>SuiteStep, Zenon
  <2>7. GotInv'
    <3> SUFFICES ASSUME NEW u \in DOMAIN Slot
                 PROVE  /\ th'[u].st = "idle" => th'[u].ip = 1
                        /\ \A c \in Lens : Room(suite.num, Slot[u], c) => th'[u].got < c
      BY Zenon DEF GotInv
    <3>1. CASE u = t
      BY <2>3, <3>1, Zenon DEF Goes, GotInv
    <3>2. CASE u # t
      BY <2>3, <3>2, Zenon DEF Goes, Others, GotInv
    <3> QED
      BY <3>1, <3>2, Zenon
  <2> QED
    BY <2>6, <2>7, Zenon DEF DataInv
\* A call that succeeds, as far as data go.
<1>GoesPass. ASSUME Types, NEW t \in DOMAIN Slot, NEW r \in ThreadRec, r.ip = th[t].ip, Pass(t, r)
             PROVE  Goes(t, r.got)
  <2> USE <1>GoesPass
  <2> DEFINE r1 == [r EXCEPT !.ip = @ + 1]
             v == IF r1.ip > Len(Prog(t)) THEN "done" ELSE "run"
             r2 == [r1 EXCEPT !.st = v]
  <2>1. th \in [DOMAIN Slot -> ThreadRec] /\ th' = [th EXCEPT ![t] = r2]
    BY Zenon DEF Types, Pass, Ready
  <2>2. r1 \in ThreadRec /\ r1.ip = th[t].ip + 1 /\ r1.got = r.got
    BY DEF ThreadRec
  <2> HIDE DEF r1
  <2>3. v # "idle"
    OBVIOUS
  <2> HIDE DEF v
  <2>4. r2.ip = th[t].ip + 1 /\ r2.got = r.got /\ r2.st # "idle"
    BY <2>2, <2>3, Zenon DEF ThreadRec
  <2> HIDE DEF r2
  <2>5. th'[t] = r2 /\ Others(t)
    BY <2>1 DEF Others
  <2> QED
    BY <2>4, <2>5, Zenon DEF Goes
\* Closing changes nothing of what stays open.
<1>ClosedAlike. ASSUME NEW s \in [Fds -> SockRec], NEW fds
                PROVE  \A fd \in Fds : Alike(s[fd], Closed(s, fds)[fd])
  <2> SUFFICES ASSUME NEW fd \in Fds PROVE Alike(s[fd], Closed(s, fds)[fd])
    BY Zenon
  <2> DEFINE dead == Dead(s, fds)
             r == Closed(s, fds)[fd]
  <2>1. r = CASE fd \in dead -> Free
              [] fd \notin dead /\ s[fd].peer \in dead \ {0} -> [s[fd] EXCEPT !.peer = 0, !.eof = TRUE]
              [] OTHER -> s[fd]
    BY DEF Closed, Dead
  <2>2. s[fd] \in SockRec
    BY SockFields, Zenon
  <2> HIDE DEF dead, r
  <2>3. r = Free \/ r = s[fd] \/ r = [s[fd] EXCEPT !.peer = 0, !.eof = TRUE]
    BY <2>1
  <2>4. CASE r = Free
    BY <2>4, FreeFacts, Zenon DEF Alike, r
  <2>5. CASE r = s[fd]
    BY <2>5, <1>AlikeSelf, Zenon DEF r
  <2>6. CASE r = [s[fd] EXCEPT !.peer = 0, !.eof = TRUE]
    <3>1. /\ r.open = s[fd].open /\ r.by = s[fd].by /\ r.kind = s[fd].kind /\ r.hook = s[fd].hook
          /\ r.q = s[fd].q /\ r.ev = s[fd].ev /\ r.bytes = s[fd].bytes
      BY <2>2, <2>6, Zenon DEF SockRec
    <3> QED
      BY <3>1, Zenon DEF Alike, r
  <2> QED
    BY <2>3, <2>4, <2>5, <2>6, Zenon
\* A call that fails closes sockets, and changes none of the others.
<1>FailAlike. ASSUME Types, NEW t \in DOMAIN Slot, NEW r \in ThreadRec, r.ip = th[t].ip,
                     NEW s \in [Fds -> SockRec], Fail(t, r, s)
              PROVE  Goes(t, r.got) /\ \A fd \in Fds : Alike(s[fd], sock'[fd])
  <2> USE <1>FailAlike
  <2>1. CASE Cur(t).must
    <3> DEFINE r1 == [r EXCEPT !.st = "done", !.ret = Cur(t).ret]
    <3>1. th' = [th EXCEPT ![t] = r1] /\ \E fds : sock' = Closed(s, fds)
      BY <2>1, Zenon DEF Fail
    <3>2. th \in [DOMAIN Slot -> ThreadRec]
      BY Zenon DEF Types
    <3>3. r1.ip = th[t].ip /\ r1.got = r.got /\ r1.st = "done"
      BY Zenon DEF ThreadRec
    <3> HIDE DEF r1
    <3>4. th'[t] = r1 /\ Others(t)
      BY <3>1, <3>2 DEF Others
    <3>5. "done" # "idle"
      OBVIOUS
    <3>6. Goes(t, r.got)
      BY <3>3, <3>4, <3>5, Zenon DEF Goes
    <3> QED
      BY <3>1, <3>6, <1>ClosedAlike, Zenon
  <2>2. CASE ~Cur(t).must
    <3>1. Pass(t, r) /\ sock' = s
      BY <2>2, Zenon DEF Fail
    <3> QED
      BY <3>1, <1>GoesPass, <1>AlikeSelf, Zenon
  <2> QED
    BY <2>1, <2>2, Zenon
\* A call that passes or fails and leaves the sockets alike.
<1>QuietCall. ASSUME IInv, DataInv, NEW t \in DOMAIN Slot, th[t].st = "run", suite' = suite, at' = at,
                     NEW r \in ThreadRec, r.ip = th[t].ip, r.got = th[t].got,
                     NEW s \in [Fds -> SockRec], \A fd \in Fds : Alike(sock[fd], s[fd]),
                     (Pass(t, r) /\ sock' = s) \/ Fail(t, r, s)
              PROVE  DataInv'
  <2> USE <1>QuietCall
  <2>1. Types
    BY Zenon DEF IInv
  <2>2. Goes(t, th[t].got) /\ \A fd \in Fds : Alike(s[fd], sock'[fd])
    <3>1. CASE Pass(t, r) /\ sock' = s
      BY <2>1, <3>1, <1>GoesPass, <1>AlikeSelf, Zenon
    <3>2. CASE Fail(t, r, s)
      BY <2>1, <3>2, <1>FailAlike, Zenon
    <3> QED
      BY <3>1, <3>2, Zenon
  <2>3. \A fd \in Fds : Alike(sock[fd], sock'[fd])
    BY <2>2, <1>AlikeTwice, Zenon
  <2> QED
    BY <2>2, <2>3, <1>CallData, Zenon
\* One socket is replaced by one that is alike.
<1>OneAlike. ASSUME NEW s \in [Fds -> SockRec], NEW fd \in Fds, NEW r, Alike(s[fd], r)
             PROVE  \A g \in Fds : Alike(s[g], [s EXCEPT ![fd] = r][g])
  <2> USE <1>OneAlike
  <2> SUFFICES ASSUME NEW g \in Fds PROVE Alike(s[g], [s EXCEPT ![fd] = r][g])
    BY Zenon
  <2> DEFINE q == [s EXCEPT ![fd] = r][g]
  <2>1. q = IF g = fd THEN r ELSE s[g]
    OBVIOUS
  <2> HIDE DEF q
  <2>2. CASE g = fd
    BY <2>1, <2>2, Zenon DEF q
  <2>3. CASE g # fd
    BY <2>1, <2>3, <1>AlikeSelf, Zenon DEF q
  <2> QED
    BY <2>2, <2>3, Zenon
\* One socket is replaced by one that is in order.
<1>OneSettled. ASSUME SuiteInv, Types, NEW fd \in Fds, NEW r, sock' = [sock EXCEPT ![fd] = r],
                      at' = "start" => at = "start", r.open => sock[fd].open, r.by = sock[fd].by,
                      /\ sock[fd].by[1] = suite.num /\ Carries(suite.num, sock[fd])
                      /\ OneSend(suite.num) => Sent \/ sock[fd].bytes = 0
                      => Carries(suite.num, r) /\ (OneSend(suite.num) => Sent' \/ r.bytes = 0)
               PROVE  \A g \in Fds : Alike(sock[g], sock'[g]) \/ Settled(g)
  <2> USE <1>OneSettled
  <2> SUFFICES ASSUME NEW g \in Fds PROVE Alike(sock[g], sock'[g]) \/ Settled(g)
    BY Zenon
  <2>1. sock \in [Fds -> SockRec]
    BY Zenon DEF Types
  <2>2. CASE g = fd
    <3>1. sock'[g] = r
      BY <2>1, <2>2
    <3>2. r.open =>
            /\ sock[fd].by[1] <= suite.num /\ (at = "start" => sock[fd].by[1] < suite.num)
            /\ sock[fd].by[1] = suite.num =>
                 Carries(suite.num, sock[fd]) /\ (OneSend(suite.num) => Sent \/ sock[fd].bytes = 0)
      BY Zenon DEF SuiteInv
    <3> QED
      BY <2>2, <3>1, <3>2, Zenon DEF Settled
  <2>3. CASE g # fd
    <3>1. sock'[g] = sock[g]
      BY <2>1, <2>3
    <3> QED
      BY <3>1, <1>AlikeSelf, Zenon
  <2> QED
    BY <2>2, <2>3, Zenon
\* The calls that move no data, whether they pass or fail.
<1>QuietCalls. ASSUME IInv, DataInv, NEW t \in DOMAIN Slot,
                      \/ nfp_bind(t) \/ nfp_listen(t) \/ nfp_close(t)
                      \/ Check(t) \/ Terminator(t) \/ nfp_select(t) \/ NFP_FD_ISSET(t)
                      \/ nfp_shutdown(t) \/ nfp_getpeername(t) \/ Answer(t)
                      \/ nfp_getaddrinfo(t) \/ nfp_freeaddrinfo(t) \/ BadFd(t) \/ Fault(t)
               PROVE  DataInv'
  <2> USE <1>QuietCalls
  <2> DEFINE x == [th[t] EXCEPT !.excused = TRUE]
             w == [th[t] EXCEPT !.sel = Readable(t)]
             bd == [sock EXCEPT ![Fd(t)] = [sock[Fd(t)] EXCEPT !.bound = Cur(t).addr]]
             ls == [sock EXCEPT ![Fd(t)] = [sock[Fd(t)] EXCEPT !.listening = TRUE]]
             cl == Closed(sock, {Fd(t)})
             Calls(r, s) == (Pass(t, r) /\ sock' = s) \/ Fail(t, r, s)
  <2>1. th[t].st = "run" /\ suite' = suite /\ at' = at
    BY Zenon DEF nfp_bind, nfp_listen, nfp_close, Check, Terminator, nfp_select, NFP_FD_ISSET,
       nfp_shutdown, nfp_getpeername, Answer, nfp_getaddrinfo, nfp_freeaddrinfo, BadFd, Fault,
       On, At, OnlySock
  <2>2. Types /\ Phases
    BY Zenon DEF IInv
  <2>3. th[t] \in ThreadRec /\ sock \in [Fds -> SockRec]
    BY <2>2, ThreadFields, Zenon DEF Types
  <2>4. Readable(t) \in SUBSET (Names \cup Kinds)
    <3>1. Cur(t).fd \in Names \cup {""} /\ Cur(t).kind \in Kinds
      BY <2>1, <2>2, CurFacts, Zenon
    <3> QED
      BY <3>1, Zenon DEF Readable
  <2>5. x \in ThreadRec /\ x.ip = th[t].ip /\ x.got = th[t].got
    BY <2>3, Zenon DEF ThreadRec
  <2>6. w \in ThreadRec /\ w.ip = th[t].ip /\ w.got = th[t].got
    BY <2>3, <2>4, Zenon DEF ThreadRec
  <2>7. \/ Calls(th[t], sock) \/ Calls(x, sock) \/ Calls(w, sock) \/ Calls(th[t], cl)
        \/ (On(t, "bind") /\ Calls(th[t], bd)) \/ (On(t, "listen") /\ Calls(th[t], ls))
    <3>1. CASE \/ Check(t) \/ Terminator(t) \/ nfp_select(t) \/ NFP_FD_ISSET(t)
               \/ nfp_shutdown(t) \/ nfp_getpeername(t) \/ Answer(t)
               \/ nfp_getaddrinfo(t) \/ nfp_freeaddrinfo(t)
      BY <3>1, Zenon DEF Check, Terminator, nfp_select, NFP_FD_ISSET,
         nfp_shutdown, nfp_getpeername, Answer, nfp_getaddrinfo, nfp_freeaddrinfo
    <3>2. CASE nfp_bind(t)
      BY <3>2, Zenon DEF nfp_bind
    <3>3. CASE nfp_listen(t)
      BY <3>3, Zenon DEF nfp_listen
    <3>4. CASE nfp_close(t)
      BY <3>4, Zenon DEF nfp_close
    <3>5. CASE BadFd(t) \/ Fault(t)
      BY <3>5, Zenon DEF BadFd, Fault
    <3> QED
      BY <3>1, <3>2, <3>3, <3>4, <3>5, Zenon
  <2>8. ASSUME On(t, "bind")
        PROVE  bd \in [Fds -> SockRec] /\ \A g \in Fds : Alike(sock[g], bd[g])
    <3>1. "bind" \in OnFd
      BY Zenon DEF OnFd
    <3>2. Fd(t) \in Fds
      BY <2>8, <3>1, OnFacts, Zenon
    <3>3. Cur(t).addr \in Address /\ sock[Fd(t)] \in SockRec
      BY <2>1, <2>2, <2>3, <3>2, CurFacts, SockFields, Zenon
    <3> DEFINE r == [sock[Fd(t)] EXCEPT !.bound = Cur(t).addr]
    <3>4. r \in SockRec /\ Alike(sock[Fd(t)], r)
      BY <3>3, Zenon DEF SockRec, Alike
    <3> HIDE DEF r
    <3>5. [sock EXCEPT ![Fd(t)] = r] \in [Fds -> SockRec]
      BY <2>3, <3>4, Zenon
    <3>6. \A g \in Fds : Alike(sock[g], [sock EXCEPT ![Fd(t)] = r][g])
      BY <2>3, <3>2, <3>4, <1>OneAlike, Zenon
    <3> QED
      BY <3>5, <3>6, Zenon DEF r
  <2>9. ASSUME On(t, "listen")
        PROVE  ls \in [Fds -> SockRec] /\ \A g \in Fds : Alike(sock[g], ls[g])
    <3>1. "listen" \in OnFd
      BY Zenon DEF OnFd
    <3>2. Fd(t) \in Fds
      BY <2>9, <3>1, OnFacts, Zenon
    <3>3. sock[Fd(t)] \in SockRec
      BY <2>3, <3>2, SockFields, Zenon
    <3> DEFINE r == [sock[Fd(t)] EXCEPT !.listening = TRUE]
    <3>4. r \in SockRec /\ Alike(sock[Fd(t)], r)
      BY <3>3, Zenon DEF SockRec, Alike
    <3> HIDE DEF r
    <3>5. [sock EXCEPT ![Fd(t)] = r] \in [Fds -> SockRec]
      BY <2>3, <3>4, Zenon
    <3>6. \A g \in Fds : Alike(sock[g], [sock EXCEPT ![Fd(t)] = r][g])
      BY <2>3, <3>2, <3>4, <1>OneAlike, Zenon
    <3> QED
      BY <3>5, <3>6, Zenon DEF r
  <2>10. cl \in [Fds -> SockRec] /\ \A g \in Fds : Alike(sock[g], cl[g])
    BY <2>3, ClosedFacts, <1>ClosedAlike, Zenon
  <2>11. \A g \in Fds : Alike(sock[g], sock[g])
    BY <1>AlikeSelf, Zenon
  <2> HIDE DEF x, w, bd, ls, cl
  <2>12. ASSUME NEW r \in ThreadRec, r.ip = th[t].ip, r.got = th[t].got, NEW s \in [Fds -> SockRec],
                \A g \in Fds : Alike(sock[g], s[g]), Calls(r, s)
         PROVE  DataInv'
    BY <2>1, <2>12, <1>QuietCall, Zenon
  <2> HIDE DEF Calls
  <2> QED
    BY <2>3, <2>5, <2>6, <2>7, <2>8, <2>9, <2>10, <2>11, <2>12, Zenon
\* A text that arrives leaves the sockets in order.
<1>ArriveSettled. ASSUME SuiteInv, Types, at' = "start" => at = "start", NEW fd \in Fds, NEW len, Fitting(len),
                         sock' = Arrive(sock, fd, len)
                  PROVE  \A g \in Fds : Alike(sock[g], sock'[g]) \/ Settled(g)
  <2> USE <1>ArriveSettled
  <2> DEFINE s == sock[fd]
             e == [s EXCEPT !.ev = Append(s.ev, len)]
             q == [s EXCEPT !.q = Append(s.q, len)]
             b == [s EXCEPT !.bytes = s.bytes + len]
             n == suite.num
  <2>1. s \in SockRec /\ s.ev \in Seq(Nat) /\ s.q \in Seq(Nat) /\ s.bytes \in Nat
    BY SockFields, Zenon DEF Types
  <2>2. len \in Nat /\ \A c \in Lens : Whole(n, c) => len < c
    BY Zenon DEF Fitting
  <2>3. \A c \in Lens : c \in Nat
    BY DEF Lens
  <2>4. CASE s.hook # ""
    <3>1. sock' = [sock EXCEPT ![fd] = e]
      BY <2>4, Zenon DEF Arrive
    <3>2. /\ e.open = s.open /\ e.by = s.by /\ e.kind = s.kind /\ e.hook = s.hook
          /\ e.q = s.q /\ e.ev = Append(s.ev, len) /\ e.bytes = s.bytes
      BY <2>1, Zenon DEF SockRec
    <3> HIDE DEF s, e, n
    <3>3. ASSUME Carries(n, s) PROVE Carries(n, e) /\ ~OneSend(n)
      <4>1. \A c \in Lens : Whole(n, c) => Below(Append(s.ev, len), c)
        BY <2>1, <2>2, <2>3, <3>3, <1>BelowEnds, Zenon DEF Carries
      <4> QED
        BY <2>4, <3>2, <3>3, <4>1, Zenon DEF Carries
    <3> QED
      BY <3>1, <3>2, <3>3, <1>OneSettled, Zenon DEF s, n
  <2>5. CASE ~(s.hook # "") /\ s.kind = "dgram"
    <3>1. sock' = [sock EXCEPT ![fd] = q]
      BY <2>5, Zenon DEF Arrive
    <3>2. /\ q.open = s.open /\ q.by = s.by /\ q.kind = s.kind /\ q.hook = s.hook
          /\ q.q = Append(s.q, len) /\ q.ev = s.ev /\ q.bytes = s.bytes
      BY <2>1, Zenon DEF SockRec
    <3>3. OneSend(n) => Sent'
      BY Zenon DEF Fitting
    <3> HIDE DEF s, q, n
    <3>4. ASSUME Carries(n, s) PROVE Carries(n, q)
      <4>1. \A c \in Lens : Whole(n, c) => Below(Append(s.q, len), c)
        BY <2>1, <2>2, <2>3, <3>4, <1>BelowEnds, Zenon DEF Carries
      <4> QED
        BY <3>2, <3>4, <4>1, Zenon DEF Carries
    <3> QED
      BY <3>1, <3>2, <3>3, <3>4, <1>OneSettled, Zenon DEF s, n
  <2>6. CASE ~(s.hook # "") /\ ~(s.kind = "dgram")
    <3>1. sock' = [sock EXCEPT ![fd] = b]
      BY <2>6, Zenon DEF Arrive
    <3>2. /\ b.open = s.open /\ b.by = s.by /\ b.kind = s.kind /\ b.hook = s.hook
          /\ b.q = s.q /\ b.ev = s.ev /\ b.bytes = s.bytes + len
      BY <2>1, Zenon DEF SockRec
    <3>3. OneSend(n) => ~Sent /\ Sent'
      BY Zenon DEF Fitting
    <3> HIDE DEF s, b, n
    <3>4. ASSUME Carries(n, s), OneSend(n) => s.bytes = 0 PROVE Carries(n, b)
      <4>1. ~Datagrams(n)
        BY <2>6, <3>4, Zenon DEF Carries
      <4>2. \A c \in Lens : Whole(n, c) => s.bytes + len < c
        <5> SUFFICES ASSUME NEW c \in Lens, Whole(n, c) PROVE s.bytes + len < c
          BY Zenon
        <5>1. s.bytes = 0
          BY <3>4, <4>1, Zenon DEF Whole
        <5>2. len < c
          BY <2>2, Zenon
        <5> QED
          BY <2>2, <5>1, <5>2
      <4> QED
        BY <3>2, <3>4, <4>2, Zenon DEF Carries
    <3> QED
      BY <3>1, <3>2, <3>3, <3>4, <1>OneSettled, Zenon DEF s, n
  <2> QED
    BY <2>4, <2>5, <2>6, Zenon
\* What a call sends is short enough, and the first if the suite sends once.
<1>SendsFit. ASSUME IInv, GotInv, NEW t \in DOMAIN Slot, th[t].st = "run", Cur(t).op \in Sending,
                    suite' = suite, Pass(t, th[t]),
                    NEW len, len = IF Cur(t).op = "send" THEN Cur(t).len ELSE th[t].got
             PROVE  Fitting(len)
  <2> USE <1>SendsFit
  <2> DEFINE n == suite.num
             p == Prog(t)
             i == th[t].ip
  <2>1. Types /\ Phases
    BY Zenon DEF IInv
  <2>2. th[t] \in ThreadRec /\ th[t].got \in Nat /\ i \in Nat
    BY <2>1, ThreadFields, Zenon
  <2>3. i \in DOMAIN p /\ Cur(t) = p[i] /\ Cur(t).len \in Nat
    BY <2>1, CurFacts, Zenon
  <2>4. p = Suites[n][Slot[t]]
    BY <2>1, ProgFacts, Zenon
  <2>5. \A u \in DOMAIN Slot : Slot[u] \in 1..3 /\ (Slot[u] = Slot[t] => u = t)
    BY Slots
  <2>6. len \in Nat
    BY <2>2, <2>3, Zenon
  <2> HIDE DEF n, p, i
  <2>7. ASSUME NEW c \in Lens, Whole(n, c) PROVE len < c
    <3>1. CASE Cur(t).op = "send"
      <4>1. SendsBelow(n, c)
        BY <2>7, Zenon DEF Whole
      <4>2. Suites[n][Slot[t]][i].op = "send" => Suites[n][Slot[t]][i].len < c
        BY <2>3, <2>4, <2>5, <4>1, Zenon DEF SendsBelow
      <4> QED
        BY <2>3, <2>4, <3>1, <4>2, Zenon
    <3>2. CASE Cur(t).op # "send"
      <4>1. Room(n, Slot[t], c)
        BY <2>7, <1>WholeRoom, Zenon
      <4> QED
        BY <3>2, <4>1, Zenon DEF GotInv, n
    <3> QED
      BY <3>1, <3>2, Zenon
  <2>8. ASSUME OneSend(n), Sent PROVE FALSE
    <3>1. PICK u \in DOMAIN Slot : \E j \in DOMAIN Prog(u) : j < th[u].ip /\ Prog(u)[j].op \in Sending
      BY <2>8, Zenon DEF Sent
    <3>2. PICK j \in DOMAIN Prog(u) : j < th[u].ip /\ Prog(u)[j].op \in Sending
      BY <3>1, Zenon
    <3>3. Prog(u) = Suites[n][Slot[u]] /\ Prog(u) \in Seq(Instr)
      BY <2>1, ProgFacts, Zenon DEF n
    <3>4. Slot[u] = Slot[t] /\ j = i
      BY <2>3, <2>4, <2>5, <2>8, <3>2, <3>3, Zenon DEF OneSend
    <3>5. u = t
      BY <2>5, <3>4, Zenon
    <3>6. i < i
      BY <3>2, <3>4, <3>5, Zenon DEF i
    <3> QED
      BY <2>2, <3>6
  <2>9. Sent'
    <3>1. th'[t].ip = i + 1
      BY <2>1, <2>2, PassFacts, Zenon DEF Advance, i
    <3>2. i < th'[t].ip
      BY <2>2, <3>1
    <3>3. Prog(t)' = p
      BY Zenon DEF Prog, p
    <3> QED
      BY <2>3, <3>2, <3>3, Zenon DEF Sent
  <2> QED
    BY <2>6, <2>7, <2>8, <2>9, Zenon DEF Fitting, n
\* nfp_send() and the replies.
<1>SendData. ASSUME IInv, DataInv, NEW t \in DOMAIN Slot, nfp_send(t) \/ Reply_(t)
             PROVE  DataInv'
  <2> USE <1>SendData
  <2> DEFINE len == IF Cur(t).op = "send" THEN Cur(t).len ELSE th[t].got
             gone == [th[t] EXCEPT !.excused = TRUE]
             s == sock[Fd(t)]
             dest == IF Cur(t).addr = NoAddr THEN s.dest ELSE Cur(t).addr
             B == BoundTo("dgram", dest)
  <2>1. Cur(t).op \in Sending /\ OnlySock /\ SendOn(t, len) /\ th[t].st = "run" /\ Fd(t) \in Fds
    <3>1. CASE nfp_send(t)
      <4>1. On(t, "send") /\ "send" \in OnFd /\ "send" \in Sending
        BY <3>1, Zenon DEF nfp_send, OnFd, Sending
      <4>2. th[t].st = "run" /\ Cur(t).op = "send" /\ Fd(t) \in Fds
        BY <4>1, OnFacts, Zenon
      <4> QED
        BY <3>1, <4>1, <4>2, Zenon DEF nfp_send
    <3>2. CASE Reply_(t)
      <4>1. On(t, "reply") /\ "reply" \in OnFd /\ "reply" \in Sending
        BY <3>2, Zenon DEF Reply_, OnFd, Sending
      <4>2. th[t].st = "run" /\ Cur(t).op = "reply" /\ Fd(t) \in Fds
        BY <4>1, OnFacts, Zenon
      <4>3. Cur(t).op # "send"
        BY <4>2
      <4> QED
        BY <3>2, <4>1, <4>2, <4>3, Zenon DEF Reply_
    <3> QED
      BY <3>1, <3>2, Zenon
  <2>2. Types /\ Phases
    BY Zenon DEF IInv
  <2>3. th[t] \in ThreadRec /\ sock \in [Fds -> SockRec]
    BY <2>2, ThreadFields, Zenon DEF Types
  <2>4. suite' = suite /\ at' = at
    BY <2>1, Zenon DEF OnlySock
  <2>5. gone \in ThreadRec /\ gone.ip = th[t].ip /\ gone.got = th[t].got
    BY <2>3, Zenon DEF ThreadRec
  <2>6. at # "done"
    <3>1. t \in {"main", "t1", "t2"}
      BY Slots, Zenon
    <3> QED
      BY <2>1, <2>2, <3>1 DEF Phases
  <2>7. SuiteInv /\ GotInv
    BY <2>6, Zenon DEF DataInv
  <2>8. B = {} \/ Some(B) \in Fds
    <3>1. B \subseteq Fds
      BY Zenon DEF BoundTo
    <3> HIDE DEF B
    <3>2. B = {} \/ Some(B) \in B
      BY SomeIn, Zenon
    <3> QED
      BY <3>1, <3>2, Zenon
  <2> HIDE DEF gone
  <2>9. \/ Fail(t, th[t], sock) \/ (Pass(t, th[t]) /\ sock' = sock)
        \/ Fail(t, gone, sock) \/ (Pass(t, gone) /\ sock' = sock)
        \/ B # {} /\ Pass(t, th[t]) /\ sock' = Arrive(sock, Some(B), len)
        \/ s.peer # 0 /\ Pass(t, th[t]) /\ sock' = Arrive(sock, s.peer, len)
    BY <2>1 DEF SendOn, gone
  <2>10. \A g \in Fds : Alike(sock[g], sock[g])
    BY <1>AlikeSelf, Zenon
  <2> HIDE DEF B
  <2>11. len = IF Cur(t).op = "send" THEN Cur(t).len ELSE th[t].got
    BY Zenon
  <2>12. s.peer # 0 => s.peer \in Fds
    BY <2>1, <2>3, SockFields, Zenon
  <2> HIDE DEF len, s
  <2>13. ASSUME NEW fd \in Fds, Pass(t, th[t]), sock' = Arrive(sock, fd, len) PROVE DataInv'
    <3>1. Fitting(len)
      BY <2>1, <2>4, <2>7, <2>11, <2>13, <1>SendsFit, Zenon
    <3>2. \A g \in Fds : Alike(sock[g], sock'[g]) \/ Settled(g)
      BY <2>2, <2>4, <2>7, <2>13, <3>1, <1>ArriveSettled, Zenon
    <3>3. Goes(t, th[t].got)
      BY <2>2, <2>3, <2>13, <1>GoesPass, Zenon
    <3> QED
      BY <2>1, <2>4, <3>2, <3>3, <1>CallData, Zenon
  <2>14. CASE Fail(t, th[t], sock) \/ (Pass(t, th[t]) /\ sock' = sock)
    BY <2>1, <2>3, <2>4, <2>10, <2>14, <1>QuietCall, Zenon
  <2>15. CASE Fail(t, gone, sock) \/ (Pass(t, gone) /\ sock' = sock)
    BY <2>1, <2>3, <2>4, <2>5, <2>10, <2>15, <1>QuietCall, Zenon
  <2> QED
    BY <2>8, <2>9, <2>12, <2>13, <2>14, <2>15, Zenon
\* A call takes back nothing that has been sent.
<1>SentKept. ASSUME Types, suite' = suite, NEW t, NEW g, Goes(t, g), Sent
             PROVE  Sent'
  <2> USE <1>SentKept
  <2>1. \A u \in DOMAIN Slot : th'[u].ip \in {th[u].ip, th[u].ip + 1}
    BY Zenon DEF Goes, Others
  <2> QED
    BY <2>1, <1>SentOn, Zenon
\* A receive finds whole texts, or asks for less than the buffer has.
<1>RecvData. ASSUME IInv, DataInv, NEW t \in DOMAIN Slot, nfp_recv(t)
             PROVE  DataInv'
  <2> USE <1>RecvData
  <2>1. "recv" \in OnFd /\ On(t, "recv") /\ suite' = suite /\ at' = at
    BY Zenon DEF OnFd, nfp_recv, OnlySock
  <2>2. /\ th[t].st = "run" /\ Cur(t).op = "recv" /\ Fd(t) \in Fds /\ sock[Fd(t)].open
        /\ th[t] \in ThreadRec /\ sock \in [Fds -> SockRec]
    BY <2>1, OnFacts, Zenon
  <2>3. Types /\ Phases
    BY Zenon DEF IInv
  <2>4. th[t].ip \in DOMAIN Prog(t) /\ Cur(t) = Prog(t)[th[t].ip] /\ Cur(t).len \in Nat
    BY <2>2, <2>3, CurFacts, Zenon
  <2>5. sock[Fd(t)].by[1] = suite.num
    <3>1. Cur(t).fd # "" /\ Fd(t) # 0
      <4>1. Cur(t).fd \in Names
        BY <2>1, <2>2, <2>3, CurFacts, Zenon
      <4>2. Cur(t).fd # ""
        BY <4>1 DEF Names
      <4> QED
        BY <2>1, <4>2, Zenon DEF On
    <3> QED
      BY <2>2, <3>1, OnHeld, Zenon
  <2>6. SuiteInv /\ GotInv
    <3>1. t \in {"main", "t1", "t2"}
      BY Slots, Zenon
    <3>2. at # "done"
      BY <2>2, <2>3, <3>1 DEF Phases
    <3> QED
      BY <3>2, Zenon DEF DataInv
  <2>22. PICK got \in Sizes(t) : Takes(t, got)
    BY Zenon DEF nfp_recv
  <2> DEFINE n == suite.num
             fd == Fd(t)
             s == sock[fd]
             a == Available(t)
             r == [th[t] EXCEPT !.got = got, !.sum = @ + got, !.excused = @ \/ got = 0 \/ got < Most(t)]
             sb == [s EXCEPT !.bytes = s.bytes - got]
             sq == [s EXCEPT !.q = Tail(s.q)]
  <2>7. Carries(n, s) /\ (OneSend(n) => Sent \/ s.bytes = 0)
    BY <2>2, <2>5, <2>6, Zenon DEF SuiteInv
  <2>8. s \in SockRec /\ s.bytes \in Nat /\ s.q \in Seq(Nat)
    BY <2>2, SockFields, Zenon
  <2>9. a = IF s.kind = "stream" THEN s.bytes ELSE IF s.q = <<>> THEN 0 ELSE Head(s.q)
    BY Zenon DEF Available
  <2>10. /\ Pass(t, r)
         /\ sock' = CASE Cur(t).kind = "peek" \/ got = 0 -> sock
                      [] Cur(t).kind # "peek" /\ got > 0 /\ s.kind = "stream" -> [sock EXCEPT ![fd] = sb]
                      [] OTHER -> [sock EXCEPT ![fd] = sq]
    BY <2>22, Zenon DEF Takes
  <2>11. /\ sb.open = s.open /\ sb.by = s.by /\ sb.kind = s.kind /\ sb.hook = s.hook
         /\ sb.q = s.q /\ sb.ev = s.ev /\ sb.bytes = s.bytes - got
    BY <2>8, Zenon DEF SockRec
  <2>12. /\ sq.open = s.open /\ sq.by = s.by /\ sq.kind = s.kind /\ sq.hook = s.hook
         /\ sq.q = Tail(s.q) /\ sq.ev = s.ev /\ sq.bytes = s.bytes
    BY <2>8, Zenon DEF SockRec
  <2>13. th[t].sum \in Nat /\ th[t].excused \in BOOLEAN
    BY <2>2, Zenon DEF ThreadRec
  <2> HIDE DEF fd, s, a, sb, sq, n
  <2>14. a \in Nat
    BY <2>8, <2>9
  <2>15. got \in Nat /\ got <= a /\ got <= Cur(t).len
    BY <2>4, <2>14, <2>22, SizeFacts, Zenon DEF a
  <2>16. r \in ThreadRec /\ r.ip = th[t].ip /\ r.got = got
    <3>1. th[t].sum + got \in Nat
      BY <2>13, <2>15
    <3> QED
      BY <2>2, <2>13, <2>15, <3>1, Zenon DEF ThreadRec
  <2> HIDE DEF r
  <2>17. Goes(t, got)
    <3>1. Goes(t, r.got)
      BY <2>3, <2>10, <2>16, <1>GoesPass, Zenon
    <3> QED
      BY <2>16, <3>1, Zenon
  <2>18. Sent => Sent'
    BY <2>1, <2>3, <2>17, <1>SentKept, Zenon
  <2>19. \A c \in Lens : c \in Nat /\ 0 < c
    BY DEF Lens
  <2>20. ASSUME NEW c \in Lens, Room(n, Slot[t], c) PROVE got < c
    <3>1. CASE Whole(n, c)
      <4>1. Below(s.q, c) /\ s.bytes < c
        BY <2>7, <3>1, Zenon DEF Carries
      <4>2. s.q # <<>> => Head(s.q) < c
        BY <2>8, <2>19, <4>1, <1>BelowEnds, Zenon
      <4>3. a < c
        BY <2>9, <2>19, <4>1, <4>2, Zenon
      <4> QED
        BY <2>14, <2>15, <2>19, <4>3
    <3>2. CASE ~Whole(n, c)
      <4>1. Prog(t) = Suites[n][Slot[t]]
        BY <2>3, ProgFacts, Zenon DEF n
      <4>2. Cur(t).len < c
        BY <2>2, <2>4, <2>20, <3>2, <4>1, Zenon DEF Room
      <4> QED
        BY <2>4, <2>15, <2>19, <4>2
    <3> QED
      BY <3>1, <3>2, Zenon
  <2>21. \A g \in Fds : Alike(sock[g], sock'[g]) \/ Settled(g)
    <3>1. got # 0 => got > 0
      BY <2>15
    <3>2. \/ sock' = sock
          \/ s.kind = "stream" /\ sock' = [sock EXCEPT ![fd] = sb]
          \/ s.kind # "stream" /\ got # 0 /\ sock' = [sock EXCEPT ![fd] = sq]
      <4> DEFINE x == [sock EXCEPT ![fd] = sb]
                 y == [sock EXCEPT ![fd] = sq]
      <4>1. sock' = CASE Cur(t).kind = "peek" \/ got = 0 -> sock
                      [] Cur(t).kind # "peek" /\ got > 0 /\ s.kind = "stream" -> x
                      [] OTHER -> y
        BY <2>10, Zenon
      <4> HIDE DEF x, y
      <4>2. \/ sock' = sock
            \/ s.kind = "stream" /\ sock' = x
            \/ s.kind # "stream" /\ got # 0 /\ sock' = y
        BY <3>1, <4>1
      <4> QED
        BY <4>2, Zenon DEF x, y
    <3>3. CASE sock' = sock
      BY <3>3, <1>AlikeSelf, Zenon
    <3>4. CASE s.kind = "stream" /\ sock' = [sock EXCEPT ![fd] = sb]
      <4>1. got <= s.bytes
        BY <2>9, <2>15, <3>4, Zenon
      <4>2. \A c \in Lens : s.bytes < c => s.bytes - got < c
        BY <2>8, <2>15, <2>19, <4>1
      <4>3. s.bytes = 0 => s.bytes - got = 0
        BY <2>15, <4>1
      <4>4. Carries(n, sb)
        BY <2>7, <2>11, <4>2, Zenon DEF Carries
      <4>5. OneSend(n) => Sent' \/ sb.bytes = 0
        BY <2>7, <2>11, <2>18, <4>3, Zenon
      <4> QED
        BY <2>1, <2>2, <2>3, <2>6, <2>11, <3>4, <4>4, <4>5, <1>OneSettled, Zenon DEF s, fd, n
    <3>5. CASE s.kind # "stream" /\ got # 0 /\ sock' = [sock EXCEPT ![fd] = sq]
      <4>1. s.q # <<>>
        <5> SUFFICES ASSUME s.q = <<>> PROVE FALSE
          BY Zenon
        <5>1. a = 0
          BY <2>9, <3>5, Zenon
        <5> QED
          BY <2>15, <3>5, <5>1
      <4>2. \A c \in Lens : Below(s.q, c) => Below(Tail(s.q), c)
        BY <2>8, <2>19, <4>1, <1>BelowEnds, Zenon
      <4>3. Carries(n, sq)
        BY <2>7, <2>12, <4>2, Zenon DEF Carries
      <4>4. OneSend(n) => Sent' \/ sq.bytes = 0
        BY <2>7, <2>12, <2>18, Zenon
      <4> QED
        BY <2>1, <2>2, <2>3, <2>6, <2>12, <3>5, <4>3, <4>4, <1>OneSettled, Zenon DEF s, fd, n
    <3> QED
      BY <3>2, <3>3, <3>4, <3>5, Zenon
  <2> QED
    BY <2>1, <2>2, <2>17, <2>20, <2>21, <1>CallData, Zenon DEF n
\* nfp_socket_sigevent(): only a suite that sends more than once has callbacks.
<1>SigeventData. ASSUME IInv, DataInv, NEW t \in DOMAIN Slot, nfp_socket_sigevent(t)
                 PROVE  DataInv'
  <2> USE <1>SigeventData
  <2>1. "sigevent" \in OnFd /\ On(t, "sigevent") /\ suite' = suite /\ at' = at /\ Pass(t, th[t])
    BY Zenon DEF OnFd, nfp_socket_sigevent, OnlySock
  <2>2. /\ th[t].st = "run" /\ Cur(t).op = "sigevent" /\ Fd(t) \in Fds
        /\ th[t] \in ThreadRec /\ sock \in [Fds -> SockRec]
    BY <2>1, OnFacts, Zenon
  <2> DEFINE s == sock[Fd(t)]
             r == [s EXCEPT !.hook = Cur(t).kind]
             n == suite.num
  <2>3. s \in SockRec
    BY <2>2, SockFields, Zenon
  <2>4. /\ r.open = s.open /\ r.by = s.by /\ r.kind = s.kind
        /\ r.q = s.q /\ r.ev = s.ev /\ r.bytes = s.bytes
    BY <2>3, Zenon DEF SockRec
  <2>5. sock' = [sock EXCEPT ![Fd(t)] = r]
    BY Zenon DEF nfp_socket_sigevent
  <2>6. ~OneSend(n)
    <3>1. /\ Slot[t] \in 1..3 /\ th[t].ip \in DOMAIN Suites[n][Slot[t]]
          /\ Suites[n][Slot[t]][th[t].ip].op = "sigevent"
      BY <2>2, CallOf, Zenon
    <3> HIDE DEF n
    <3>2. OneSend(n) => Suites[n][Slot[t]][th[t].ip].op # "sigevent"
      BY <3>1, Zenon DEF OneSend
    <3> QED
      BY <3>1, <3>2, Zenon
  <2>7. SuiteInv /\ Types
    BY <2>2, WithinSuite, Zenon DEF IInv
  <2> HIDE DEF r, n
  <2>8. Carries(n, s) => Carries(n, r)
    BY <2>4, <2>6, Zenon DEF Carries
  <2>9. \A g \in Fds : Alike(sock[g], sock'[g]) \/ Settled(g)
    BY <2>1, <2>2, <2>4, <2>5, <2>6, <2>7, <2>8, <1>OneSettled, Zenon DEF n
  <2>10. Goes(t, th[t].got)
    BY <2>1, <2>2, <2>7, <1>GoesPass, Zenon
  <2> QED
    BY <2>1, <2>2, <2>9, <2>10, <1>CallData, Zenon
\* A new socket carries nothing.
<1>FreshCarries. ASSUME NEW n, NEW r, Datagrams(n) => r.kind = "dgram",
                        r.hook = "" /\ r.q = <<>> /\ r.ev = <<>> /\ r.bytes = 0
                 PROVE  Carries(n, r)
  <2> USE <1>FreshCarries
  <2>1. \A c \in Lens : Below(r.q, c) /\ Below(r.ev, c) /\ r.bytes < c
    BY NoneBelow, Zenon
  <2> QED
    BY <2>1, Zenon DEF Carries
\* The thread stores a descriptor.
<1>GoesStored. ASSUME Types, NEW t \in DOMAIN Slot, NEW x \in Names, NEW n \in Fds,
                      Pass(t, [th[t] EXCEPT !.env[x] = n])
               PROVE  Goes(t, th[t].got)
  <2> USE <1>GoesStored
  <2> DEFINE e == [th[t].env EXCEPT ![x] = n]
             q == [th[t] EXCEPT !.env = e]
  <2>1. th[t] \in ThreadRec /\ th[t].env \in [Names -> Fds \cup {0}]
    BY ThreadFields, Zenon
  <2>2. e \in [Names -> Fds \cup {0}]
    BY <2>1
  <2> HIDE DEF e
  <2>3. q \in ThreadRec /\ q.ip = th[t].ip /\ q.got = th[t].got
    BY <2>1, <2>2, Zenon DEF ThreadRec
  <2>4. Pass(t, q)
    BY Zenon DEF e
  <2> HIDE DEF q
  <2>5. Goes(t, q.got)
    BY <2>3, <2>4, <1>GoesPass, Zenon
  <2> QED
    BY <2>3, <2>5, Zenon
\* nfp_socket() makes an empty socket of this suite.
<1>SocketData. ASSUME IInv, DataInv, NEW t \in DOMAIN Slot, nfp_socket(t)
               PROVE  DataInv'
  <2> USE <1>SocketData
  <2> DEFINE n == Some(FreeFds(sock))
             b == <<suite.num, t>>
             r == [Free EXCEPT !.open = TRUE, !.fam = Cur(t).addr.fam, !.kind = Cur(t).kind, !.by = b]
  <2>1. /\ th[t].st = "run" /\ Cur(t).op = "socket" /\ FreeFds(sock) # {} /\ suite' = suite /\ at' = at
        /\ sock' = [sock EXCEPT ![n] = r]
        /\ Pass(t, [th[t] EXCEPT !.env[Cur(t).to] = n])
    BY Zenon DEF nfp_socket, At, OnlySock
  <2>2. Types /\ Phases /\ at # "start"
    BY <2>1, WithinSuite, Zenon DEF IInv
  <2>3. Cur(t).to \in Names
    BY <2>1, <2>2, CurFacts, Zenon
  <2>4. b[1] = suite.num /\ suite.num \in Nat
    <3>1. suite.num \in DOMAIN Suites
      BY <2>2, Zenon DEF Types
    <3>2. suite.num \in Nat
      BY <3>1, SuitesAssumption, <1>SeqIndex, Zenon
    <3> QED
      BY <3>2, PairIn, Zenon
  <2> HIDE DEF n, b
  <2>5. n \in Fds
    BY <2>1, FreeFd, Zenon DEF n
  <2>6. r.by = b /\ r.kind = Cur(t).kind /\ r.hook = "" /\ r.q = <<>> /\ r.ev = <<>> /\ r.bytes = 0
    BY Zenon DEF Free
  <2> HIDE DEF r
  <2>7. sock \in [Fds -> SockRec]
    BY <2>2, Zenon DEF Types
  <2>8. sock'[n] = r /\ \A fd \in Fds : fd # n => sock'[fd] = sock[fd]
    BY <2>1, <2>5, <2>7
  <2>9. Carries(suite.num, r)
    <3>1. Datagrams(suite.num) => r.kind = "dgram"
      BY <2>1, <2>6, CallOf, Zenon DEF Datagrams
    <3> QED
      BY <2>6, <3>1, <1>FreshCarries, Zenon
  <2>10. Settled(n)
    <3>1. suite.num <= suite.num
      BY <2>4
    <3> QED
      BY <2>1, <2>2, <2>4, <2>6, <2>8, <2>9, <3>1, Zenon DEF Settled
  <2>11. \A fd \in Fds : Alike(sock[fd], sock'[fd]) \/ Settled(fd)
    BY <2>8, <2>10, <1>AlikeSelf, Zenon
  <2>12. Goes(t, th[t].got)
    BY <2>1, <2>2, <2>3, <2>5, <1>GoesStored, Zenon
  <2> QED
    BY <2>1, <2>11, <2>12, <1>CallData, Zenon
\* nfp_accept() hands out a socket that the suite has made already.
<1>AcceptData. ASSUME IInv, DataInv, NEW t \in DOMAIN Slot, nfp_accept(t)
               PROVE  DataInv'
  <2> USE <1>AcceptData
  <2> DEFINE srv == Fd(t)
             p == sock[srv].pend
             n == Head(p)
             b == <<suite.num, t>>
             rs == [sock[srv] EXCEPT !.pend = Tail(p)]
             z == [sock EXCEPT ![srv] = rs]
             rn == [z[n] EXCEPT !.by = b]
  <2>1. "accept" \in OnFd /\ On(t, "accept") /\ suite' = suite /\ at' = at /\ p # <<>>
    BY Zenon DEF OnFd, nfp_accept, OnlySock
  <2>2. /\ th[t].st = "run" /\ Cur(t).op = "accept" /\ srv \in Fds
        /\ th[t] \in ThreadRec /\ sock \in [Fds -> SockRec]
    BY <2>1, OnFacts, Zenon
  <2>3. Types /\ Phases /\ PendInv
    BY Zenon DEF IInv
  <2>4. Cur(t).to \in Names /\ Cur(t).fd \in Names
    BY <2>1, <2>2, <2>3, CurFacts, Zenon
  <2>5. sock[srv].by[1] = suite.num
    <3>1. "" \notin Names
      BY Zenon DEF Names
    <3>2. Cur(t).fd # "" /\ srv # 0
      BY <2>1, <2>4, <3>1, Zenon DEF On
    <3> QED
      BY <2>2, <3>2, OnHeld, Zenon
  <2>6. sock[srv] \in SockRec /\ p \in Seq(Fds)
    BY <2>2, SockFields, Zenon
  <2>7. Pass(t, [th[t] EXCEPT !.env[Cur(t).to] = n])
    BY Zenon DEF nfp_accept
  <2>8. sock' = [z EXCEPT ![n] = rn]
    BY Zenon DEF nfp_accept
  <2>9. b[1] = suite.num
    OBVIOUS
  <2> HIDE DEF p, b
  <2>10. n \in Fds /\ 1 \in DOMAIN p /\ n = p[1] /\ Tail(p) \in Seq(Fds)
    BY <2>1, <2>6
  <2>11. rs \in SockRec /\ Alike(sock[srv], rs)
    BY <2>6, <2>10, Zenon DEF SockRec, Alike
  <2>12. sock[n].by[1] = suite.num
    <3>1. WaitsIn(n, srv, 1)
      BY <2>2, <2>3, <2>10, Zenon DEF PendInv, p
    <3> QED
      BY <2>5, <3>1, Zenon DEF WaitsIn
  <2> HIDE DEF n, rs
  <2>13. z \in [Fds -> SockRec] /\ \A g \in Fds : Alike(sock[g], z[g])
    <3>1. z \in [Fds -> SockRec]
      BY <2>2, <2>11, Zenon
    <3> QED
      BY <2>2, <2>11, <3>1, <1>OneAlike, Zenon
  <2>14. Alike(z[n], rn)
    <3>1. z[n].open => z[n].by[1] = suite.num
      BY <2>10, <2>12, <2>13, Zenon DEF Alike
    <3>2. z[n] \in SockRec
      BY <2>10, <2>13, SockFields, Zenon
    <3> HIDE DEF z
    <3>3. /\ rn.open = z[n].open /\ rn.by = b /\ rn.kind = z[n].kind /\ rn.hook = z[n].hook
          /\ rn.q = z[n].q /\ rn.ev = z[n].ev /\ rn.bytes = z[n].bytes
      BY <3>2, Zenon DEF SockRec
    <3> QED
      BY <2>9, <3>1, <3>3, Zenon DEF Alike
  <2> HIDE DEF z, rn
  <2>15. \A g \in Fds : Alike(z[g], sock'[g])
    BY <2>8, <2>10, <2>13, <2>14, <1>OneAlike, Zenon
  <2>16. \A g \in Fds : Alike(sock[g], sock'[g])
    BY <2>13, <2>15, <1>AlikeTwice, Zenon
  <2>17. Goes(t, th[t].got)
    BY <2>3, <2>4, <2>7, <2>10, <1>GoesStored, Zenon
  <2> QED
    BY <2>1, <2>2, <2>16, <2>17, <1>CallData, Zenon
\* A stream connection: the new socket is the server's suite's, which has no
\* datagrams only; the server has an event if it has a callback.
<1>LinkData. ASSUME IInv, DataInv, NEW t \in DOMAIN Slot, NEW srv \in Fds, NEW n, NEW a \in Address, NEW v,
                    On(t, "connect"), suite' = suite, at' = at, Pass(t, th[t]),
                    FreeFds(sock) # {}, n = Some(FreeFds(sock)), sock[srv].open, sock[Fd(t)].kind # "dgram",
                    v = IF sock[srv].hook = "" THEN sock[srv].ev ELSE Append(sock[srv].ev, 0),
                    NEW r, r.by = sock[srv].by, r.hook = "", r.q = <<>>, r.ev = <<>>, r.bytes = 0,
                    Linked(sock', sock, Fd(t), srv, n, a, v, r)
             PROVE  DataInv'
  <2> USE <1>LinkData
  <2> DEFINE N == suite.num
             fd == Fd(t)
  <2>1. "connect" \in OnFd
    BY Zenon DEF OnFd
  <2>2. /\ th[t].st = "run" /\ Cur(t).op = "connect" /\ fd \in Fds /\ sock[fd].open
        /\ th[t] \in ThreadRec /\ sock \in [Fds -> SockRec]
    BY <2>1, OnFacts, Zenon
  <2>3. Types /\ Phases /\ SuiteInv /\ at # "start"
    BY <2>2, WithinSuite, Zenon DEF IInv
  <2>4. sock[fd].by[1] = N
    <3>1. "" \notin Names
      BY Zenon DEF Names
    <3>2. Cur(t).fd \in Names
      BY <2>1, <2>2, <2>3, CurFacts, Zenon
    <3>3. Cur(t).fd # "" /\ fd # 0
      BY <3>1, <3>2, Zenon DEF On
    <3> QED
      BY <2>2, <3>3, OnHeld, Zenon
  <2>5. ~Datagrams(N)
    BY <2>2, <2>3, <2>4, Zenon DEF SuiteInv, Carries
  <2>6. n \in Fds /\ ~sock[n].open
    BY FreeFd, Zenon
  <2>7. PICK s1 :
          /\ s1 = [sock EXCEPT ![fd] = [sock[fd] EXCEPT !.dest = a, !.peer = n]]
          /\ sock' = [[s1 EXCEPT ![srv] = [s1[srv] EXCEPT !.pend = Append(s1[srv].pend, n), !.ev = v]]
                        EXCEPT ![n] = r]
    <3>1. LinkedBy(sock', sock, fd, srv, n, a, v, r)
      BY LinkSteps, Zenon
    <3> QED
      BY <3>1, Zenon DEF LinkedBy
  <2> DEFINE f == [sock[fd] EXCEPT !.dest = a, !.peer = n]
             x == [s1[srv] EXCEPT !.pend = Append(s1[srv].pend, n), !.ev = v]
             Fields(i, j) == /\ i.open = j.open /\ i.by = j.by /\ i.kind = j.kind /\ i.hook = j.hook
                             /\ i.q = j.q /\ i.bytes = j.bytes
  <2>8. sock[fd] \in SockRec /\ sock[srv] \in SockRec /\ sock[srv].ev \in Seq(Nat)
    BY <2>2, SockFields, Zenon
  <2>9. Fields(f, sock[fd]) /\ f.ev = sock[fd].ev /\ f \in SockRec
    <3>1. n \in Fds \cup {0}
      BY <2>6, Zenon
    <3>2. f \in SockRec
      BY <2>8, <3>1, Zenon DEF SockRec
    <3>3. Fields(f, sock[fd]) /\ f.ev = sock[fd].ev
      BY <2>8, Zenon DEF SockRec
    <3> QED
      BY <3>2, <3>3, Zenon
  <2> HIDE DEF f, fd
  <2>10. DOMAIN s1 = Fds /\ s1[fd] = f /\ \A g \in Fds : g # fd => s1[g] = sock[g]
    BY <2>2, <2>7 DEF f
  <2>11. \A g \in Fds : Fields(s1[g], sock[g]) /\ s1[g].ev = sock[g].ev /\ s1[g] \in SockRec
    <3> SUFFICES ASSUME NEW g \in Fds
                 PROVE  Fields(s1[g], sock[g]) /\ s1[g].ev = sock[g].ev /\ s1[g] \in SockRec
      BY Zenon
    <3>1. CASE g = fd
      BY <2>9, <2>10, <3>1, Zenon
    <3>2. CASE g # fd
      BY <2>2, <2>10, <3>2, SockFields, Zenon
    <3> QED
      BY <3>1, <3>2, Zenon
  <2>12. /\ sock'[n] = r
         /\ srv # n => sock'[srv] = x
         /\ \A g \in Fds : g # n /\ g # srv => sock'[g] = s1[g]
    BY <2>6, <2>7, <2>10
  <2>13. Fields(x, s1[srv]) /\ x.ev = v
    <3>1. s1[srv] \in SockRec
      BY <2>11, Zenon
    <3> QED
      BY <3>1, Zenon DEF SockRec
  <2> HIDE DEF x
  <2>14. srv # n
    BY <2>6, Zenon
  <2>15. /\ sock[srv].by[1] <= N
         /\ sock[srv].by[1] = N =>
              Carries(N, sock[srv]) /\ (OneSend(N) => Sent \/ sock[srv].bytes = 0)
    BY <2>3, Zenon DEF SuiteInv
  <2>16. Settled(n)
    <3>1. Carries(N, r)
      BY <2>5, <1>FreshCarries, Zenon
    <3> QED
      BY <2>3, <2>12, <2>15, <3>1, Zenon DEF Settled
  <2>17. Goes(t, th[t].got)
    BY <2>2, <2>3, <1>GoesPass, Zenon
  <2>18. Alike(sock[srv], sock'[srv]) \/ Settled(srv)
    <3>1. Fields(sock'[srv], sock[srv]) /\ sock'[srv].ev = v
      BY <2>11, <2>12, <2>13, <2>14, Zenon
    <3>2. CASE sock[srv].hook = ""
      <4>1. v = sock[srv].ev
        BY <3>2, Zenon
      <4> QED
        BY <3>1, <4>1, Zenon DEF Alike
    <3>3. CASE sock[srv].hook # ""
      <4>1. v = Append(sock[srv].ev, 0)
        BY <3>3, Zenon
      <4>2. ASSUME Carries(N, sock[srv]) PROVE Carries(N, sock'[srv]) /\ ~OneSend(N)
        <5>2. ASSUME NEW c \in Lens, Below(sock[srv].ev, c) PROVE Below(v, c)
          <6>1. c \in Nat /\ 0 < c
            BY NoneBelow, Zenon DEF Lens
          <6>2. \A w \in Nat : w < c => Below(Append(sock[srv].ev, w), c)
            BY <2>8, <5>2, <6>1, <1>BelowEnds, Zenon
          <6> QED
            BY <4>1, <6>1, <6>2, <1>ZeroNat, Zenon
        <5> QED
          BY <3>1, <3>3, <4>2, <5>2, Zenon DEF Carries
      <4> HIDE DEF Fields
      <4>3. sock'[srv].by = sock[srv].by
        BY <3>1, Zenon DEF Fields
      <4> QED
        BY <2>3, <2>15, <4>2, <4>3, Zenon DEF Settled
    <3> QED
      BY <3>2, <3>3, Zenon
  <2>19. ASSUME NEW g \in Fds PROVE Alike(sock[g], sock'[g]) \/ Settled(g)
    <3>1. CASE g # n /\ g # srv
      <4>1. Fields(sock'[g], sock[g]) /\ sock'[g].ev = sock[g].ev
        BY <2>11, <2>12, <3>1, Zenon
      <4> QED
        BY <4>1, Zenon DEF Alike
    <3> QED
      BY <2>16, <2>18, <3>1, Zenon
  <2> QED
    BY <2>2, <2>17, <2>19, <1>CallData, Zenon
\* nfp_connect().
<1>ConnectData. ASSUME IInv, DataInv, NEW t \in DOMAIN Slot, nfp_connect(t)
                PROVE  DataInv'
  <2> USE <1>ConnectData
  <2> DEFINE addr == Cur(t).addr
             servers == {fd \in BoundTo("stream", addr) : sock[fd].listening}
             srv == Some(servers)
             n == Some(FreeFds(sock))
             v == IF sock[srv].hook = "" THEN sock[srv].ev ELSE Append(sock[srv].ev, 0)
             rn == [Free EXCEPT !.open = TRUE, !.fam = addr.fam, !.kind = "stream",
                                !.by = sock[srv].by, !.dest = addr, !.peer = Fd(t)]
             d == [sock[Fd(t)] EXCEPT !.dest = addr]
             s == [sock EXCEPT ![Fd(t)] = d]
  <2>1. "connect" \in OnFd /\ On(t, "connect") /\ suite' = suite /\ at' = at
    BY Zenon DEF OnFd, nfp_connect, OnlySock
  <2>2. /\ th[t].st = "run" /\ Fd(t) \in Fds /\ th[t] \in ThreadRec /\ sock \in [Fds -> SockRec]
    BY <2>1, OnFacts, Zenon
  <2>3. addr \in Address /\ sock[Fd(t)] \in SockRec
    BY <2>2, CurFacts, SockFields, Zenon DEF IInv
  <2>4. \/ Pass(t, th[t]) /\ sock' = s
        \/ Fail(t, th[t], sock)
        \/ /\ servers # {} /\ FreeFds(sock) # {} /\ Pass(t, th[t]) /\ sock[Fd(t)].kind # "dgram"
           /\ Linked(sock', sock, Fd(t), srv, n, addr, v, rn)
    BY Zenon DEF nfp_connect, Linked
  <2>5. CASE Pass(t, th[t]) /\ sock' = s
    <3>1. d \in SockRec /\ Alike(sock[Fd(t)], d)
      BY <2>3, Zenon DEF SockRec, Alike
    <3> HIDE DEF d
    <3>2. s \in [Fds -> SockRec] /\ \A g \in Fds : Alike(sock[g], s[g])
      <4>1. s \in [Fds -> SockRec]
        BY <2>2, <3>1, Zenon
      <4> QED
        BY <2>2, <3>1, <4>1, <1>OneAlike, Zenon
    <3> HIDE DEF s
    <3> QED
      BY <2>1, <2>2, <2>5, <3>2, <1>QuietCall, Zenon
  <2>6. CASE Fail(t, th[t], sock)
    BY <2>1, <2>2, <2>6, <1>AlikeSelf, <1>QuietCall, Zenon
  <2>7. CASE /\ servers # {} /\ FreeFds(sock) # {} /\ Pass(t, th[t]) /\ sock[Fd(t)].kind # "dgram"
             /\ Linked(sock', sock, Fd(t), srv, n, addr, v, rn)
    <3>1. servers \subseteq Fds
      BY Zenon DEF BoundTo
    <3>2. srv \in servers
      <4> HIDE DEF servers
      <4> QED
        BY <2>7, SomeIn, Zenon
    <3>3. srv \in Fds /\ sock[srv].open
      BY <3>2, Zenon DEF BoundTo
    <3> HIDE DEF srv, servers, addr
    <3>4. rn.by = sock[srv].by /\ rn.hook = "" /\ rn.q = <<>> /\ rn.ev = <<>> /\ rn.bytes = 0
      BY Zenon DEF Free
    <3>5. n = Some(FreeFds(sock)) /\ v = IF sock[srv].hook = "" THEN sock[srv].ev ELSE Append(sock[srv].ev, 0)
      BY Zenon
    <3> HIDE DEF rn, n, v
    <3> QED
      BY <2>1, <2>3, <2>7, <3>3, <3>4, <3>5, <1>LinkData, Zenon
  <2> QED
    BY <2>4, <2>5, <2>6, <2>7, Zenon
\* A step of no thread, within a suite.
<1>WorldData. ASSUME DataInv, suite' = suite, at' = at, th' = th,
                     at # "done" => \A fd \in Fds : Alike(sock[fd], sock'[fd]) \/ Settled(fd)
              PROVE  DataInv'
  <2> USE <1>WorldData
  <2> SUFFICES ASSUME at # "done" PROVE SuiteInv' /\ GotInv'
    BY Zenon DEF DataInv
  <2>1. SuiteInv /\ GotInv
    BY Zenon DEF DataInv
  <2>2. Sent => Sent'
    BY Zenon DEF Sent, Prog
  <2>3. SuiteInv'
    BY <2>1, <2>2, <1>SuiteStep, Zenon
  <2> QED
    BY <2>1, <2>3, Zenon DEF GotInv
\* The socket whose event is left to the worker.
<1>LeaveFields. ASSUME Types, NEW fd \in Fds, NEW ev \in Seq(Nat), NEW h \in Nat,
                       sock' = [Arrive([sock EXCEPT ![fd].ev = ev, ![fd].hook = ""], fd, h) EXCEPT ![fd].hook = sock[fd].hook]
                PROVE  Left(fd, ev, h)
  <2> USE <1>LeaveFields
  <2> DEFINE s == sock[fd]
             k == [s EXCEPT !.ev = ev, !.hook = ""]
             s2 == [sock EXCEPT ![fd] = k]
             kq == [k EXCEPT !.q = Append(k.q, h)]
             kb == [k EXCEPT !.bytes = k.bytes + h]
             y == Arrive(s2, fd, h)
  <2>1. sock \in [Fds -> SockRec] /\ s \in SockRec /\ s.q \in Seq(Nat) /\ s.bytes \in Nat /\ s.hook \in Kinds
    BY SockFields, Zenon DEF Types
  <2>2. sock' = [y EXCEPT ![fd].hook = s.hook]
    BY Zenon
  <2>3. /\ k \in SockRec /\ k.open = s.open /\ k.by = s.by /\ k.kind = s.kind /\ k.ev = ev
        /\ k.q = s.q /\ k.bytes = s.bytes /\ k.hook = ""
    <3>1. "" \in Kinds
      BY Zenon DEF Kinds
    <3> QED
      BY <2>1, <3>1, Zenon DEF SockRec
  <2>4. s2 \in [Fds -> SockRec]
    <3> HIDE DEF k
    <3> QED
      BY <2>1, <2>3, Zenon
  <2>5. s2[fd] = k /\ s2 = [sock EXCEPT ![fd] = k]
    <3> HIDE DEF k
    <3> QED
      BY <2>1, Zenon
  <2>6. Append(s.q, h) \in Seq(Nat) /\ s.bytes + h \in Nat
    BY <2>1, <1>Grows, Zenon
  <2> HIDE DEF k, s2
  <2>7. \E j : /\ y = [s2 EXCEPT ![fd] = j] /\ j \in SockRec /\ j.open = s.open /\ j.by = s.by
               /\ j.kind = s.kind /\ j.ev = ev
               /\ s.kind = "dgram" => j.q = Append(s.q, h) /\ j.bytes = s.bytes
    <3>1. CASE s.kind = "dgram"
      <4>1. y = [s2 EXCEPT ![fd] = kq]
        BY <2>3, <2>5, <3>1, Zenon DEF Arrive
      <4>2. /\ kq \in SockRec /\ kq.open = s.open /\ kq.by = s.by /\ kq.kind = s.kind /\ kq.ev = ev
            /\ kq.q = Append(s.q, h) /\ kq.bytes = s.bytes
        <5> HIDE DEF s
        <5> QED
          BY <2>3, <2>6, Zenon DEF SockRec
      <4> HIDE DEF kq, y, s
      <4> QED
        BY <4>1, <4>2, Zenon
    <3>2. CASE s.kind # "dgram"
      <4>1. y = [s2 EXCEPT ![fd] = kb]
        BY <2>3, <2>5, <3>2, Zenon DEF Arrive
      <4>2. kb \in SockRec /\ kb.open = s.open /\ kb.by = s.by /\ kb.kind = s.kind /\ kb.ev = ev
        <5> HIDE DEF s
        <5> QED
          BY <2>3, <2>6, Zenon DEF SockRec
      <4> HIDE DEF kb, y, s
      <4> QED
        BY <3>2, <4>1, <4>2, Zenon
    <3> QED
      BY <3>1, <3>2, Zenon
  <2>8. PICK j : /\ y = [s2 EXCEPT ![fd] = j] /\ j \in SockRec /\ j.open = s.open /\ j.by = s.by
                 /\ j.kind = s.kind /\ j.ev = ev
                 /\ s.kind = "dgram" => j.q = Append(s.q, h) /\ j.bytes = s.bytes
    BY <2>7, Zenon
  <2> DEFINE r == [j EXCEPT !.hook = s.hook]
  <2> HIDE DEF y
  <2>9. sock' = [sock EXCEPT ![fd] = r]
    <3> HIDE DEF s
    <3>1. y = [sock EXCEPT ![fd] = j]
      BY <2>1, <2>5, <2>8, Zenon
    <3>2. y[fd] = j
      BY <2>1, <3>1, Zenon
    <3>3. sock' = [y EXCEPT ![fd] = r]
      BY <2>2, <3>2, Zenon
    <3> HIDE DEF r
    <3> QED
      BY <2>1, <3>1, <3>3, Zenon
  <2>10. /\ r.open = s.open /\ r.by = s.by /\ r.kind = s.kind /\ r.hook = s.hook /\ r.ev = ev
         /\ s.kind = "dgram" => r.q = Append(s.q, h) /\ r.bytes = s.bytes
    <3>1. /\ r.open = j.open /\ r.by = j.by /\ r.kind = j.kind /\ r.hook = s.hook /\ r.ev = j.ev
          /\ r.q = j.q /\ r.bytes = j.bytes
      BY <2>8, Zenon DEF SockRec
    <3> HIDE DEF r, s
    <3> QED
      BY <2>8, <3>1, Zenon
  <2> HIDE DEF r
  <2> QED
    BY <2>9, <2>10, Zenon DEF Left
\* The callbacks: a suite that has one sends no two texts into one stream.
<1>WorkerData. ASSUME IInv, DataInv, Worker
               PROVE  DataInv'
  <2> USE <1>WorkerData
  <2>1. Types
    BY Zenon DEF IInv
  <2>2. PICK fd \in Fds : \/ notify_udp_ipv4(fd) \/ notify_udp_ipv6(fd)
                          \/ notify_tcp_rcv(fd) \/ notify_tcp_accept(fd)
    BY Zenon DEF Worker
  <2>3. /\ sock[fd].ev # <<>> /\ (Consume(fd) \/ Leave(fd))
        /\ suite' = suite /\ at' = at /\ th' = th
    BY <2>2, Zenon DEF notify_udp_ipv4, notify_udp_ipv6, notify_tcp_rcv, notify_tcp_accept, Event,
       WrongAddress
  <2>4. sock[fd].hook # ""
    <3>1. sock[fd].hook \in {"notify_udp_ipv4", "notify_udp_ipv6", "notify_tcp_rcv", "notify_tcp_accept"}
      BY <2>2, Zenon DEF notify_udp_ipv4, notify_udp_ipv6, notify_tcp_rcv, notify_tcp_accept, Event
    <3>2. "" \notin {"notify_udp_ipv4", "notify_udp_ipv6", "notify_tcp_rcv", "notify_tcp_accept"}
      BY Zenon
    <3> QED
      BY <3>1, <3>2, Zenon
  <2> DEFINE s == sock[fd]
             n == suite.num
             q == s.ev
             r1 == [s EXCEPT !.ev = Tail(q)]
  <2>5. s \in SockRec /\ q \in Seq(Nat) /\ s.q \in Seq(Nat) /\ s.bytes \in Nat
    BY <2>1, SockFields, Zenon DEF Types
  <2>6. Tail(q) \in Seq(Nat) /\ Head(q) \in Nat
    BY <2>3, <2>5, <1>Ends, Zenon
  <2>7. Sent => Sent'
    BY <2>3, Zenon DEF Sent, Prog
  <2>8. PICK r : /\ sock' = [sock EXCEPT ![fd] = r] /\ r.open = s.open /\ r.by = s.by
                 /\ r.kind = s.kind /\ r.hook = s.hook /\ r.ev = Tail(q)
                 /\ s.kind = "dgram" => (r.q = s.q \/ r.q = Append(s.q, Head(q))) /\ r.bytes = s.bytes
    <3>1. CASE Consume(fd)
      <4>1. sock' = [sock EXCEPT ![fd] = r1]
        BY <3>1, Zenon DEF Consume
      <4>2. /\ r1.open = s.open /\ r1.by = s.by /\ r1.kind = s.kind /\ r1.hook = s.hook
            /\ r1.ev = Tail(q) /\ r1.q = s.q /\ r1.bytes = s.bytes
        BY <2>5, <2>6, Zenon DEF SockRec
      <4> HIDE DEF r1, s, q
      <4> QED
        BY <4>1, <4>2, Zenon
    <3>2. CASE Leave(fd)
      <4>1. sock' = [Arrive([sock EXCEPT ![fd].ev = Tail(q), ![fd].hook = ""], fd, Head(q))
                       EXCEPT ![fd].hook = sock[fd].hook]
        BY <3>2, Zenon DEF Leave
      <4> HIDE DEF q
      <4>2. Left(fd, Tail(q), Head(q))
        BY <2>1, <2>6, <4>1, <1>LeaveFields, Zenon
      <4> QED
        BY <4>2, Zenon DEF Left
    <3> QED
      BY <2>3, <3>1, <3>2, Zenon
  <2>9. ASSUME Carries(n, s) PROVE Carries(n, r) /\ ~OneSend(n)
    <3>1. ~OneSend(n)
      BY <2>4, <2>9, Zenon DEF Carries
    <3>2. \A c \in Lens : c \in Nat
      BY Zenon DEF Lens
    <3>3. ASSUME NEW c \in Lens, Whole(n, c) PROVE Below(r.q, c) /\ Below(Tail(q), c) /\ r.bytes < c
      <4>1. s.kind = "dgram"
        BY <2>9, <3>1, <3>3, Zenon DEF Carries, Whole
      <4>2. Below(s.q, c) /\ Below(q, c) /\ s.bytes < c
        BY <2>9, <3>3, Zenon DEF Carries
      <4>3. Below(Tail(q), c) /\ Head(q) < c
        BY <2>3, <2>5, <3>2, <4>2, <1>BelowEnds, Zenon
      <4>4. Below(Append(s.q, Head(q)), c)
        <5>1. \A v \in Nat : v < c => Below(Append(s.q, v), c)
          BY <2>5, <3>2, <4>2, <1>BelowEnds, Zenon
        <5> QED
          BY <2>6, <4>3, <5>1, Zenon
      <4> HIDE DEF s, q
      <4> QED
        BY <2>8, <4>1, <4>2, <4>3, <4>4, Zenon
    <3> HIDE DEF s, q
    <3> QED
      BY <2>8, <2>9, <3>1, <3>3, Zenon DEF Carries
  <2> HIDE DEF q
  <2>10. ASSUME at # "done" PROVE \A g \in Fds : Alike(sock[g], sock'[g]) \/ Settled(g)
    <3>1. SuiteInv
      BY <2>10, Zenon DEF DataInv
    <3> QED
      BY <2>1, <2>3, <2>8, <2>9, <3>1, <1>OneSettled, Zenon
  <2> QED
    BY <2>3, <2>10, <1>WorldData, Zenon
\* The init function is called; a thread is created, or is not.
<1>StartData. ASSUME IInv, DataInv, init_suite \/ \E t \in Threads : nfp_thread_create(t)
              PROVE  DataInv'
  <2> USE <1>StartData
  <2>1. Types /\ Phases
    BY Zenon DEF IInv
  <2>2. /\ th \in [DOMAIN Slot -> ThreadRec] /\ suite' = suite /\ sock' = sock
    BY <2>1, Zenon DEF init_suite, nfp_thread_create, Types
  <2>3. ASSUME NEW t \in DOMAIN Slot, th[t].st = "idle", NEW r \in ThreadRec,
               th' = [th EXCEPT ![t] = r], r.ip = 1, r.got = 0, at # "done", at' # "start"
        PROVE  DataInv'
    <3>1. SuiteInv /\ GotInv
      BY <2>3, Zenon DEF DataInv
    <3>2. th'[t] = r /\ Others(t)
      BY <2>2, <2>3 DEF Others
    <3>3. th[t].ip = 1
      BY <2>3, <3>1, Zenon DEF GotInv
    <3>4. \A u \in DOMAIN Slot : th'[u].ip \in {th[u].ip, th[u].ip + 1}
      BY <2>3, <3>2, <3>3, Zenon DEF Others
    <3>5. Sent => Sent'
      BY <2>1, <2>2, <3>4, <1>SentOn, Zenon
    <3>6. \A fd \in Fds : Alike(sock[fd], sock'[fd])
      BY <2>2, <1>AlikeSelf, Zenon
    <3>7. SuiteInv'
      BY <2>2, <2>3, <3>1, <3>5, <3>6, <1>SuiteStep, Zenon
    <3>8. GotInv'
      <4> SUFFICES ASSUME NEW u \in DOMAIN Slot
                   PROVE  /\ th'[u].st = "idle" => th'[u].ip = 1
                          /\ \A c \in Lens : Room(suite.num, Slot[u], c) => th'[u].got < c
        BY <2>2, Zenon DEF GotInv
      <4>1. CASE u = t
        BY <2>3, <3>2, <4>1, NoneBelow, Zenon
      <4>2. CASE u # t
        BY <3>1, <3>2, <4>2, Zenon DEF Others, GotInv
      <4> QED
        BY <4>1, <4>2, Zenon
    <3> QED
      BY <3>7, <3>8, Zenon DEF DataInv
  <2>4. Idle \in ThreadRec /\ Idle.ip = 1
    BY IdleFacts, Zenon
  <2>5. Idle.got = 0
    BY Zenon DEF Idle
  <2>6. ASSUME NEW t \in DOMAIN Slot, NEW r \in ThreadRec, r.ip = 1, r.got = 0
        PROVE  Ready(t, r) \in ThreadRec /\ Ready(t, r).ip = 1 /\ Ready(t, r).got = 0
    <3> DEFINE v == IF r.ip > Len(Prog(t)) THEN "done" ELSE "run"
    <3>1. Ready(t, r) = [r EXCEPT !.st = v]
      BY Zenon DEF Ready
    <3>2. v \in {"idle", "run", "done", "absent"}
      BY Zenon
    <3> HIDE DEF v
    <3> QED
      BY <2>6, <3>1, <3>2, Zenon DEF ThreadRec
  <2>7. CASE init_suite
    <3>1. /\ at = "start" /\ at' = "init" /\ th' = [th EXCEPT !["main"] = Ready("main", Idle)]
      BY <2>7, Zenon DEF init_suite
    <3>2. "main" \in DOMAIN Slot
      BY Slots, Zenon
    <3>3. at # "done" /\ at' # "start" /\ th["main"].st = "idle"
      BY <2>1, <3>1 DEF Phases
    <3> QED
      BY <2>3, <2>4, <2>5, <2>6, <3>1, <3>2, <3>3, Zenon
  <2>8. CASE \E t \in Threads : nfp_thread_create(t)
    <3>1. PICK t \in Threads : nfp_thread_create(t)
      BY <2>8, Zenon
    <3> DEFINE e == th["main"].env[Globals[t]]
               i == [Idle EXCEPT !.env["fd"] = e]
               a == [Idle EXCEPT !.st = "absent"]
    <3>2. t \in DOMAIN Slot
      BY Slots DEF Threads
    <3>3. th[t].st = "idle" /\ at # "done" /\ at' # "start"
      <4>1. at = CreateAt[t] /\ at' \in {"create t2", "join t1"}
        BY <3>1, Zenon DEF nfp_thread_create
      <4>2. t \in {"t1", "t2"}
        BY Zenon DEF Threads
      <4>3. CreateAt["t1"] = "create t1" /\ CreateAt["t2"] = "create t2"
        BY DEF CreateAt
      <4>4. (t = "t1" => at = "create t1") /\ (t = "t2" => at = "create t2")
        BY <4>1, <4>3, Zenon
      <4> QED
        BY <2>1, <4>1, <4>2, <4>4 DEF Phases
    <3>4. e \in Fds \cup {0}
      <4>1. Globals[t] \in Names
        BY DEF Globals, Names, Threads
      <4>2. "main" \in DOMAIN Slot
        BY Slots, Zenon
      <4> QED
        BY <2>1, <4>1, <4>2, ThreadFields, Zenon
    <3>5. th' = [th EXCEPT ![t] = Ready(t, i)] \/ th' = [th EXCEPT ![t] = a]
      BY <3>1, Zenon DEF nfp_thread_create
    <3> HIDE DEF e
    <3>6. i \in ThreadRec /\ i.ip = 1 /\ i.got = 0
      <4> DEFINE E == [Idle.env EXCEPT !["fd"] = e]
      <4>1. Idle.env \in [Names -> Fds \cup {0}]
        BY <2>4, Zenon DEF ThreadRec
      <4>2. i = [Idle EXCEPT !.env = E]
        BY Zenon
      <4>3. E \in [Names -> Fds \cup {0}]
        BY <3>4, <4>1, Zenon
      <4> HIDE DEF E, i
      <4> QED
        BY <2>4, <2>5, <4>2, <4>3, Zenon DEF ThreadRec
    <3>7. a \in ThreadRec /\ a.ip = 1 /\ a.got = 0
      BY <2>4, <2>5, Zenon DEF ThreadRec
    <3> HIDE DEF i, a
    <3> QED
      BY <2>3, <2>6, <3>2, <3>3, <3>5, <3>6, <3>7, Zenon
  <2> QED
    BY <2>7, <2>8, Zenon
\* main() goes on from the init function, and joins a thread.
<1>PlaceData. ASSUME DataInv, InitDone \/ \E t \in Threads : nfp_thread_join(t)
              PROVE  DataInv'
  <2> USE <1>PlaceData
  <2>1. suite' = suite /\ th' = th /\ sock' = sock
    BY Zenon DEF InitDone, nfp_thread_join
  <2>2. at # "done" /\ at' # "start"
    <3>1. JoinAt["t1"] = "join t1" /\ JoinAt["t2"] = "join t2"
      BY DEF JoinAt
    <3>2. /\ at \in {"init", "join t1", "join t2"}
          /\ at' \in {"create t1", "end", "join t2", "crashed"}
      <4>1. CASE InitDone
        BY <4>1, Zenon DEF InitDone
      <4>2. CASE \E t \in Threads : nfp_thread_join(t)
        BY <3>1, <4>2, Zenon DEF nfp_thread_join, Threads
      <4> QED
        BY <4>1, <4>2, Zenon
    <3> QED
      BY <3>2
  <2>3. SuiteInv /\ GotInv
    BY <2>2, Zenon DEF DataInv
  <2>4. Sent => Sent'
    BY <2>1, Zenon DEF Sent, Prog
  <2>5. SuiteInv'
    BY <2>1, <2>2, <2>3, <2>4, <1>AlikeSelf, <1>SuiteStep, Zenon
  <2> QED
    BY <2>1, <2>3, <2>5, Zenon DEF GotInv, DataInv
\* What a suite leaves open is an earlier suite's to the next.
<1>EndData. ASSUME IInv, DataInv, end_suite
            PROVE  DataInv'
  <2> USE <1>EndData
  <2>1. /\ at = "end" /\ sock' = Closed(sock, SuiteFds) /\ th' = [t \in DOMAIN Slot |-> Idle]
        /\ at' = "done" \/ (at' = "start" /\ suite' = Load(suite.num + 1))
    BY Zenon DEF end_suite
  <2> SUFFICES ASSUME at' # "done" PROVE SuiteInv' /\ GotInv'
    BY Zenon DEF DataInv
  <2>2. at # "done"
    BY <2>1
  <2>3. SuiteInv /\ Types
    BY <2>2, Zenon DEF DataInv, IInv
  <2> DEFINE n == suite.num
             m == n + 1
  <2>4. n \in Nat
    <3>1. n \in DOMAIN Suites
      BY <2>3, Zenon DEF Types
    <3> QED
      BY <3>1, SuitesAssumption, <1>SeqIndex, Zenon
  <2>5. suite'.num = m
    <3>1. suite' = Load(m)
      BY <2>1, Zenon
    <3> HIDE DEF m
    <3>2. Load(m).num = m
      BY Zenon DEF Load
    <3> QED
      BY <3>1, <3>2, Zenon
  <2>6. sock \in [Fds -> SockRec]
    BY <2>3, Zenon DEF Types
  <2>7. \A fd \in Fds : Alike(sock[fd], sock'[fd])
    BY <2>1, <2>6, <1>ClosedAlike, Zenon
  <2>8. SuiteInv'
    <3> SUFFICES ASSUME NEW fd \in Fds, sock'[fd].open
                 PROVE  sock'[fd].by[1] < m /\ sock'[fd].by[1] <= m /\ sock'[fd].by[1] # m
      BY <2>5, Zenon DEF SuiteInv
    <3>1. sock[fd].open /\ sock'[fd].by[1] = sock[fd].by[1]
      BY <2>7, Zenon DEF Alike
    <3>2. sock[fd].by[1] <= n
      BY <2>3, <3>1, Zenon DEF SuiteInv
    <3>3. sock[fd].by[1] \in Nat
      <4>1. sock[fd].by \in Makers
        BY <2>6, SockFields, Zenon
      <4> DEFINE S == DOMAIN Slot \cup {""}
      <4>2. sock[fd].by \in Nat \X S
        BY <4>1, Zenon DEF Makers
      <4> HIDE DEF S
      <4> QED
        BY <4>2
    <3> DEFINE k == sock[fd].by[1]
    <3> HIDE DEF k, n
    <3>4. k \in Nat /\ k <= n
      BY <3>2, <3>3, Zenon DEF k, n
    <3>5. k < m /\ k <= m /\ k # m
      BY <2>4, <3>4
    <3> QED
      BY <3>1, <3>5, Zenon DEF k
  <2>9. GotInv'
    <3>1. Idle.ip = 1 /\ Idle.got = 0
      BY Zenon DEF Idle
    <3>2. \A t \in DOMAIN Slot : th'[t].ip = 1 /\ th'[t].got = 0
      BY <2>1, <3>1, Zenon
    <3> QED
      BY <3>2, NoneBelow, Zenon DEF GotInv
  <2> QED
    BY <2>8, <2>9, Zenon
<1> SUFFICES ASSUME IInv, DataInv, [Next]_vars PROVE DataInv'
  BY Zenon
<1>1. "main" \in DOMAIN Slot /\ Threads \subseteq DOMAIN Slot
  BY Slots DEF Threads
<1>2. ASSUME NEW t \in DOMAIN Slot, Step(t) PROVE DataInv'
  <2>1. CASE nfp_socket(t)
    BY <2>1, <1>SocketData, Zenon
  <2>2. CASE nfp_connect(t)
    BY <2>2, <1>ConnectData, Zenon
  <2>3. CASE nfp_accept(t)
    BY <2>3, <1>AcceptData, Zenon
  <2>4. CASE nfp_send(t) \/ Reply_(t)
    BY <2>4, <1>SendData, Zenon
  <2>5. CASE nfp_recv(t)
    BY <2>5, <1>RecvData, Zenon
  <2>6. CASE nfp_socket_sigevent(t)
    BY <2>6, <1>SigeventData, Zenon
  <2>7. CASE \/ nfp_bind(t) \/ nfp_listen(t) \/ nfp_close(t)
             \/ Check(t) \/ Terminator(t) \/ nfp_select(t) \/ NFP_FD_ISSET(t)
             \/ nfp_shutdown(t) \/ nfp_getpeername(t) \/ Answer(t)
             \/ nfp_getaddrinfo(t) \/ nfp_freeaddrinfo(t) \/ BadFd(t)
    BY <2>7, <1>QuietCalls, Zenon
  <2> QED
    BY <1>2, <2>1, <2>2, <2>3, <2>4, <2>5, <2>6, <2>7, Zenon DEF Step
<1>3. ASSUME NEW t \in DOMAIN Slot, Fault(t) PROVE DataInv'
  BY <1>3, <1>QuietCalls, Zenon
<1>4. CASE Main
  <2>1. CASE init_suite \/ \E t \in Threads : nfp_thread_create(t)
    BY <2>1, <1>StartData, Zenon
  <2>2. CASE InitDone \/ \E t \in Threads : nfp_thread_join(t)
    BY <2>2, <1>PlaceData, Zenon
  <2>3. CASE end_suite
    BY <2>3, <1>EndData, Zenon
  <2> QED
    BY <1>1, <1>2, <1>4, <2>1, <2>2, <2>3, Zenon DEF Main
<1>5. CASE Worker
  BY <1>5, <1>WorkerData, Zenon
<1>6. CASE UNCHANGED vars
  <2>1. suite' = suite /\ at' = at /\ th' = th /\ sock' = sock
    BY <1>6 DEF vars
  <2> QED
    BY <2>1, <1>AlikeSelf, <1>WorldData, Zenon
<1> QED
  BY <1>1, <1>2, <1>3, <1>4, <1>5, <1>6, Zenon DEF Next

-----------------------------------------------------------------------------
(* What is closed.                                                         *)

\* Nobody starts to listen but on a descriptor that is held.
Hearing == \A fd \in Fds : sock'[fd].listening => sock[fd].listening \/ Kept(fd)

\* Thread t closes what the names of X hold.  Nobody gains a descriptor, and
\* whoever lets one go has closed it or is a leaky test.
Closing(t, X) ==
  /\ X \subseteq Mine(t)
  /\ \A u \in DOMAIN Slot : \A x \in Mine(u)' :
       \/ th'[u].env[x] = 0
       \/ x \in Mine(u) /\ th'[u].env[x] = th[u].env[x] /\ ~(u = t /\ x \in X)
  /\ \A u \in DOMAIN Slot : \A x \in Mine(u) :
       \/ x \in Mine(u)' /\ th'[u].env[x] = th[u].env[x]
       \/ th[u].env[x] = 0
       \/ u = t /\ x \in X
       \/ Suites[suite.num][Slot[u]] \in Leaky
  /\ Books(sock, sock', Dead(sock, {th[t].env[x] : x \in X}))
  /\ Hearing
  /\ suite'.num = suite.num \/ \A u \in DOMAIN Slot : Mine(u)' = {}

\* Such a step keeps the ownership of the sockets in order.
LEMMA ClosingStep ==
  \A t \in DOMAIN Slot : \A X :
    Types /\ Types' /\ OwnInv /\ PendInv /\ OpenInv /\ Closing(t, X) =>
      OwnInv' /\ PendInv' /\ OpenInv'
\* A descriptor that is held and not given up stays clear of what is closed.
<1>HeldAlive. ASSUME Types, OwnInv, PendInv, NEW t \in DOMAIN Slot, NEW X, X \subseteq Mine(t),
                     NEW u \in DOMAIN Slot, NEW x \in Mine(u), th[u].env[x] # 0, ~(u = t /\ x \in X)
              PROVE  th[u].env[x] \notin Dead(sock, {th[t].env[y] : y \in X})
  <2> USE <1>HeldAlive
  <2> DEFINE fd == th[u].env[x]
  <2>1. fd \in Fds
    BY MineNames, Zenon
  <2>2. ASSUME NEW y \in X PROVE th[t].env[y] # fd
    <3>1. th[t].env[y] # 0 => Owns(t, y, th[t].env[y])
      BY OwnAt, Zenon
    <3>2. Owns(u, x, fd)
      BY OwnAt, Zenon
    <3>3. y \in Mine(t)
      BY Zenon
    <3> SUFFICES ASSUME th[t].env[y] = fd PROVE FALSE
      BY Zenon
    <3>4. sock[th[t].env[y]].by = <<suite.num, t>> /\ sock[th[t].env[y]].by = <<suite.num, u>>
      BY <3>1, <3>2, Zenon DEF Owns
    <3>5. u = t
      BY <3>4
    <3>6. y = x
      BY <3>2, <3>3, <3>5, Zenon DEF Owns
    <3> QED
      BY <3>5, <3>6, Zenon
  <2>3. ASSUME NEW y \in X, th[t].env[y] # 0, fd \in Range(sock[th[t].env[y]].pend)
        PROVE  FALSE
    <3> DEFINE srv == th[t].env[y]
    <3>1. srv \in Fds
      BY <2>3, MineNames, Zenon
    <3>2. PICK i \in DOMAIN sock[srv].pend : sock[srv].pend[i] = fd
      BY <2>3, Zenon DEF Range
    <3>3. WaitsIn(sock[srv].pend[i], srv, i)
      BY <3>1, Zenon DEF PendInv
    <3> QED
      BY <3>2, <3>3, Zenon DEF WaitsIn
  <2> QED
    BY <2>2, <2>3, Zenon DEF Dead
\* A connection that waits is closed exactly when the socket it waits in is.
<1>WaitAlive. ASSUME Types, OwnInv, PendInv, NEW t \in DOMAIN Slot, NEW X, X \subseteq Mine(t),
                     NEW srv \in Fds, NEW i \in DOMAIN sock[srv].pend
              PROVE  sock[srv].pend[i] \in Dead(sock, {th[t].env[y] : y \in X})
                       <=> srv \in Dead(sock, {th[t].env[y] : y \in X})
  <2> USE <1>WaitAlive
  <2> DEFINE fd == sock[srv].pend[i]
             F == {th[t].env[y] : y \in X}
  <2>0. WaitsIn(fd, srv, i)
    BY Zenon DEF PendInv
  <2>1. fd \notin F
    BY <2>0, Zenon DEF WaitsIn
  <2>2. 0 \notin Fds
    BY FreeFacts, Zenon
  <2>3. F \subseteq Fds \cup {0}
    BY MineNames, Zenon
  <2> HIDE DEF F
  <2>4. ASSUME fd \in Dead(sock, F) PROVE srv \in F
    <3>1. PICK srv2 \in F \ {0} : fd \in Range(sock[srv2].pend)
      BY <2>1, <2>4, Zenon DEF Dead
    <3>2. srv2 \in Fds
      BY <2>3, Zenon
    <3>3. PICK j \in DOMAIN sock[srv2].pend : sock[srv2].pend[j] = fd
      BY <3>1, Zenon DEF Range
    <3>4. srv2 = srv
      BY <2>0, <3>2, <3>3, Zenon DEF WaitsIn
    <3> QED
      BY <3>4, Zenon
  <2>5. ASSUME srv \in Dead(sock, F) PROVE srv \in F
    <3> SUFFICES ASSUME NEW srv2 \in F \ {0}, srv \in Range(sock[srv2].pend) PROVE FALSE
      BY <2>5, Zenon DEF Dead
    <3>1. srv2 \in Fds
      BY <2>3, Zenon
    <3>2. PICK j \in DOMAIN sock[srv2].pend : sock[srv2].pend[j] = srv
      BY Zenon DEF Range
    <3>3. WaitsIn(srv, srv2, j)
      BY <3>1, <3>2, Zenon DEF PendInv
    <3>4. sock[srv].pend = <<>>
      BY <3>3, Zenon DEF WaitsIn
    <3> QED
      BY <3>4
  <2>6. fd \in Range(sock[srv].pend)
    BY Zenon DEF Range
  <2>7. srv \in F => srv \in Dead(sock, F) /\ fd \in Dead(sock, F)
    BY <2>2, <2>6, Zenon DEF Dead
  <2> QED
    BY <2>4, <2>5, <2>7, Zenon DEF F
<1>1. ASSUME Types, Types', OwnInv, PendInv, OpenInv,
             NEW t \in DOMAIN Slot, NEW X, Closing(t, X)
      PROVE  OwnInv' /\ PendInv' /\ OpenInv'
  <2> USE <1>1
  <2> DEFINE D == Dead(sock, {th[t].env[y] : y \in X})
  <2>1. \A u \in DOMAIN Slot : \A x \in Mine(u) :
          th[u].env[x] # 0 /\ ~(u = t /\ x \in X) => th[u].env[x] \notin D
    BY <1>HeldAlive, Zenon DEF Closing
  <2>2. \A srv \in Fds : \A i \in DOMAIN sock[srv].pend : sock[srv].pend[i] \in D <=> srv \in D
    <3> SUFFICES ASSUME NEW srv \in Fds, NEW i \in DOMAIN sock[srv].pend
                 PROVE  sock[srv].pend[i] \in D <=> srv \in D
      BY Zenon
    <3>1. X \subseteq Mine(t)
      BY Zenon DEF Closing
    <3> QED
      BY <3>1, <1>WaitAlive, Zenon
  <2>3. Books(sock, sock', D)
    BY Zenon DEF Closing
  <2>4. \A x \in X : th[t].env[x] \in D
    BY Zenon DEF Dead
  <2>5. 0 \notin Fds
    BY FreeFacts, Zenon
  <2> HIDE DEF D
  <2>6. \A srv \in Fds : \A i \in DOMAIN sock[srv].pend : sock[srv].pend[i] \in Fds
    <3> SUFFICES ASSUME NEW srv \in Fds, NEW i \in DOMAIN sock[srv].pend
                 PROVE  sock[srv].pend[i] \in Fds
      BY Zenon
    <3>1. sock[srv].pend \in Seq(Fds)
      BY SockFields, Zenon DEF Types
    <3> QED
      BY <3>1
  <2>7. OwnInv'
    <3> SUFFICES ASSUME NEW u \in DOMAIN Slot, NEW x \in Mine(u)', th'[u].env[x] # 0
                 PROVE  Owns(u, x, th[u].env[x])'
      BY Zenon DEF OwnInv
    <3>1. x \in Mine(u) /\ th'[u].env[x] = th[u].env[x] /\ ~(u = t /\ x \in X)
      BY Zenon DEF Closing
    <3>2. th[u].env[x] \in Fds /\ th[u].env[x] \notin D
      BY <2>1, <3>1, MineNames, Zenon
    <3>3. /\ sock[th[u].env[x]].open /\ sock[th[u].env[x]].by = <<suite.num, u>>
          /\ \A y \in Mine(u) : th[u].env[y] = th[u].env[x] => y = x
      BY <3>1, Zenon DEF OwnInv, Owns
    <3>4. sock'[th[u].env[x]].open /\ sock'[th[u].env[x]].by = <<suite.num, u>>
      BY <2>3, <3>2, <3>3, Zenon DEF Books
    <3>5. suite'.num = suite.num
      BY Zenon DEF Closing
    <3>6. \A y \in Mine(u)' : th'[u].env[y] = th'[u].env[x] => y = x
      BY <3>1, <3>3, Zenon DEF Closing
    <3> QED
      BY <3>1, <3>4, <3>5, <3>6, Zenon DEF Owns
  <2>8. PendInv'
    <3> SUFFICES ASSUME NEW srv \in Fds, NEW i \in DOMAIN sock'[srv].pend
                 PROVE  WaitsIn(sock[srv].pend[i], srv, i)'
      BY Zenon DEF PendInv
    <3>1. \A s \in Fds : \A j \in DOMAIN sock'[s].pend :
            s \notin D /\ sock'[s].pend = sock[s].pend
      <4> SUFFICES ASSUME NEW s \in Fds, NEW j \in DOMAIN sock'[s].pend, s \in D PROVE FALSE
        BY <2>3, Zenon DEF Books
      <4>1. sock'[s].pend = <<>>
        BY <2>3, Zenon DEF Books
      <4> QED
        BY <4>1
    <3>2. sock'[srv].pend = sock[srv].pend /\ srv \notin D
      BY <3>1, Zenon
    <3> DEFINE fd == sock[srv].pend[i]
    <3>3. fd \in Fds /\ fd \notin D /\ i \in DOMAIN sock[srv].pend
      BY <2>2, <2>6, <3>2, Zenon
    <3>4. WaitsIn(fd, srv, i)
      BY <3>3, Zenon DEF PendInv
    <3>5. /\ sock'[srv].open /\ sock'[fd].open /\ sock'[fd].by = sock'[srv].by
          /\ sock'[fd].pend = <<>>
      BY <2>3, <3>2, <3>3, <3>4, Zenon DEF Books, WaitsIn
    <3>6. \A u \in DOMAIN Slot : \A x \in Mine(u)' : th'[u].env[x] # fd
      <4> SUFFICES ASSUME NEW u \in DOMAIN Slot, NEW x \in Mine(u)' PROVE th'[u].env[x] # fd
        BY Zenon
      <4>1. \A y \in Mine(u) : th[u].env[y] # fd
        BY <3>4, Zenon DEF WaitsIn
      <4>2. th'[u].env[x] = 0 \/ (x \in Mine(u) /\ th'[u].env[x] = th[u].env[x])
        BY Zenon DEF Closing
      <4>3. fd # 0
        BY <2>5, <3>3, Zenon
      <4> QED
        BY <4>1, <4>2, <4>3, Zenon
    <3>7. \A srv2 \in Fds : \A j \in DOMAIN sock'[srv2].pend :
            sock'[srv2].pend[j] = fd => srv2 = srv /\ j = i
      BY <3>1, <3>4, Zenon DEF WaitsIn
    <3>8. sock'[srv].pend[i] = fd
      BY <3>2, Zenon
    <3>9. ~sock'[fd].listening
      <4>1. ~sock[fd].listening /\ ~Kept(fd)
        BY <3>4, Zenon DEF WaitsIn, Kept
      <4>2. sock'[fd].listening => sock[fd].listening \/ Kept(fd)
        BY <3>3, Zenon DEF Closing, Hearing
      <4> QED
        BY <4>1, <4>2, Zenon
    <3> HIDE DEF fd
    <3> QED
      BY <3>5, <3>6, <3>7, <3>8, <3>9, Zenon DEF WaitsIn
  <2>9. OpenInv'
    <3> SUFFICES ASSUME NEW fd \in Fds, sock'[fd].open
                 PROVE  /\ sock'[fd].by \in (DOMAIN Suites) \X (DOMAIN Slot)
                        /\ \/ Suites[sock'[fd].by[1]][Slot[sock'[fd].by[2]]] \in Leaky
                           \/ \E u \in DOMAIN Slot : \E x \in Mine(u)' : th'[u].env[x] = fd
                           \/ Waits(fd)'
      BY Zenon DEF OpenInv
    <3>1. fd \notin D /\ sock[fd].open /\ sock'[fd].by = sock[fd].by
      BY <2>3, Zenon DEF Books
    <3>2. sock[fd].by \in (DOMAIN Suites) \X (DOMAIN Slot)
      BY <3>1, Zenon DEF OpenInv
    <3>3. CASE Suites[sock[fd].by[1]][Slot[sock[fd].by[2]]] \in Leaky
      BY <3>1, <3>2, <3>3, Zenon
    <3>4. CASE \E u \in DOMAIN Slot : \E x \in Mine(u) : th[u].env[x] = fd
      <4>1. PICK u \in DOMAIN Slot : \E x \in Mine(u) : th[u].env[x] = fd
        BY <3>4, Zenon
      <4>2. PICK x \in Mine(u) : th[u].env[x] = fd
        BY <4>1, Zenon
      <4>3. fd # 0 /\ sock[fd].by = <<suite.num, u>>
        BY <2>5, <4>2, Zenon DEF OwnInv, Owns
      <4>4. CASE Suites[suite.num][Slot[u]] \in Leaky
        <5>1. sock[fd].by[1] = suite.num /\ sock[fd].by[2] = u
          BY <4>3
        <5> QED
          BY <3>1, <3>2, <4>4, <5>1, Zenon
      <4>5. CASE x \in Mine(u)' /\ th'[u].env[x] = th[u].env[x]
        BY <3>1, <3>2, <4>2, <4>5, Zenon
      <4> QED
        BY <2>4, <3>1, <4>2, <4>3, <4>4, <4>5, Zenon DEF Closing
    <3>5. CASE Waits(fd)
      <4>1. PICK srv \in Fds : \E i \in DOMAIN sock[srv].pend : sock[srv].pend[i] = fd
        BY <3>5, Zenon DEF Waits
      <4>2. srv \notin D
        <5>1. PICK i \in DOMAIN sock[srv].pend : sock[srv].pend[i] = fd
          BY <4>1, Zenon
        <5>2. sock[srv].pend[i] \in D <=> srv \in D
          BY <2>2, Zenon
        <5> QED
          BY <3>1, <5>1, <5>2
      <4>3. sock'[srv].pend = sock[srv].pend
        BY <2>3, <4>2, Zenon DEF Books
      <4>4. Waits(fd)'
        BY <4>1, <4>3, Zenon DEF Waits
      <4> QED
        BY <3>1, <3>2, <4>4, Zenon
    <3> QED
      BY <3>1, <3>3, <3>4, <3>5, Zenon DEF OpenInv
  <2> QED
    BY <2>7, <2>8, <2>9, Zenon
<1> QED
  BY <1>1, Zenon

-----------------------------------------------------------------------------
(* main(): the steps at the start and the end of a suite, and what they leave.*)

\* A thread that does not exist holds nothing and frees nothing.
LEMMA NotThere ==
  ASSUME NEW t, th[t].st \in {"idle", "absent"} \/ (th[t].st = "done" /\ t # "main")
  PROVE  ~Live(t) /\ Mine(t) = {} /\ Frees(t) = 0
<1>1. th[t].st # "run" /\ ~(t = "main" /\ th[t].st = "done")
  OBVIOUS
<1> QED
  BY <1>1, Zenon DEF Live, Mine, Frees, At

\* main() starts with an empty table of descriptors and no thread.
LEMMA InitInv == Init => IInv
<1> SUFFICES ASSUME Init PROVE IInv
  OBVIOUS
<1>1. \A u \in DOMAIN Slot : th[u] = Idle
  BY Zenon DEF Init
<1>2. \A u \in DOMAIN Slot : th[u].st = "idle"
  BY <1>1, IdleFacts, Zenon
<1>3. \A u \in DOMAIN Slot : th[u].st # "run" /\ th[u].st # "done"
  BY <1>2
<1>4. \A u \in DOMAIN Slot : ~Live(u) /\ Mine(u) = {} /\ Frees(u) = 0
  BY <1>3, Zenon DEF Live, Mine, Frees, At
<1>5. \A fd \in Fds : sock[fd] = Free
  BY Zenon DEF Init
<1>6. \A fd \in Fds : ~sock[fd].open /\ sock[fd].pend = <<>>
  BY <1>5, FreeFacts, Zenon
<1>7. Types
  <2>1. suite.num \in DOMAIN Suites /\ suite = Load(suite.num)
    <3>1. Load(1).num = 1
      BY DEF Load
    <3>2. 1 \in DOMAIN Suites
      <4>1. Len(Suites) \in Nat /\ DOMAIN Suites = 1..Len(Suites) /\ Len(Suites) # 0
        BY SuitesAssumption
      <4> QED
        BY <4>1
    <3> QED
      BY <3>1, <3>2, Zenon DEF Init
  <2>2. th \in [DOMAIN Slot -> ThreadRec]
    BY IdleFacts, Zenon DEF Init
  <2>3. sock \in [Fds -> SockRec]
    BY FreeFacts, Zenon DEF Init
  <2>4. at \in Places
    BY PlacesAre, Zenon DEF Init
  <2>5. faults \in 0..MaxFaults
    BY BoundsAssumption DEF Init
  <2> QED
    BY <2>1, <2>2, <2>3, <2>4, <2>5, Zenon DEF Types
<1>8. Phases
  <2>1. th["main"].st = "idle" /\ th["t1"].st = "idle" /\ th["t2"].st = "idle"
    BY <1>2, Slots, Zenon
  <2>2. at = "start"
    BY Zenon DEF Init
  <2> QED
    BY <1>3, <2>1, <2>2 DEF Phases
<1>9. ListInv
  <2>1. Frees("main") = 0 /\ Frees("t1") = 0 /\ Frees("t2") = 0
    BY <1>4, Slots, Zenon
  <2>2. lists = 0
    BY Zenon DEF Init
  <2> QED
    BY <2>1, <2>2 DEF ListInv
<1>10. OwnInv /\ UnsetInv
  BY <1>4, Zenon DEF OwnInv, UnsetInv
<1>11. PendInv
  <2>1. \A fd \in Fds : DOMAIN sock[fd].pend = {}
    BY <1>6
  <2> QED
    BY <2>1, Zenon DEF PendInv
<1>12. OpenInv
  BY <1>6, Zenon DEF OpenInv
<1> QED
  BY <1>7, <1>8, <1>9, <1>10, <1>11, <1>12, Zenon DEF IInv

\* The inductive invariant implies that a suite leaves nothing behind: no
\* thread holds anything, and a connection that still waits to be accepted
\* waits in a socket that the same leaky test made.
LEMMA InvDescriptorsClosed == IInv => DescriptorsClosed
<1> SUFFICES ASSUME IInv, at \in {"start", "done"}
             PROVE  /\ lists = 0
                    /\ \A fd \in Fds : sock[fd].open =>
                         Suites[sock[fd].by[1]][Slot[sock[fd].by[2]]] \in Leaky
  BY Zenon DEF DescriptorsClosed
<1>1. Types /\ Phases /\ PendInv /\ OpenInv /\ ListInv
  BY Zenon DEF IInv
<1>2. th["main"].st = "idle" /\ th["t1"].st = "idle" /\ th["t2"].st = "idle"
  BY <1>1 DEF Phases
<1>3. \A u \in DOMAIN Slot : th[u].st \in {"idle", "absent"}
  BY <1>2, Slots
<1>4. \A u \in DOMAIN Slot : Mine(u) = {} /\ Frees(u) = 0
  BY <1>3, NotThere, Zenon
<1>5. lists = 0
  <2>1. Frees("main") = 0 /\ Frees("t1") = 0 /\ Frees("t2") = 0
    BY <1>4, Slots, Zenon
  <2> QED
    BY <1>1, <2>1 DEF ListInv
<1>6. \A fd \in Fds : sock[fd].open =>
        Suites[sock[fd].by[1]][Slot[sock[fd].by[2]]] \in Leaky \/ Waits(fd)
  BY <1>1, <1>4, Zenon DEF OpenInv
<1>7. ASSUME NEW fd \in Fds, NEW srv \in Fds, NEW i \in DOMAIN sock[srv].pend,
             sock[srv].pend[i] = fd
      PROVE  Suites[sock[fd].by[1]][Slot[sock[fd].by[2]]] \in Leaky
  <2>1. WaitsIn(fd, srv, i)
    BY <1>1, <1>7, Zenon DEF PendInv
  <2>2. sock[srv].open /\ sock[fd].by = sock[srv].by
    BY <2>1, Zenon DEF WaitsIn
  <2>3. ~Waits(srv)
    <3> SUFFICES ASSUME NEW s \in Fds, NEW j \in DOMAIN sock[s].pend, sock[s].pend[j] = srv
                 PROVE  FALSE
      BY Zenon DEF Waits
    <3>1. WaitsIn(srv, s, j)
      BY <1>1, Zenon DEF PendInv
    <3>2. sock[srv].pend = <<>>
      BY <3>1, Zenon DEF WaitsIn
    <3> QED
      BY <1>7, <3>2
  <2>4. Suites[sock[srv].by[1]][Slot[sock[srv].by[2]]] \in Leaky
    BY <1>6, <2>2, <2>3, Zenon
  <2> QED
    BY <2>2, <2>4, Zenon
<1> QED
  BY <1>5, <1>6, <1>7, Zenon DEF Waits

\* end_suite() closes the sockets of the suite when nobody can use them.
LEMMA EndStep ==
  IInv /\ end_suite => IInv'
\* Closing the descriptor -1 closes nothing.
<1>DeadAgree. ASSUME NEW s, NEW A, NEW B, A \ {0} = B \ {0}, NEW fd, fd # 0
              PROVE  fd \in Dead(s, A) <=> fd \in Dead(s, B)
  BY <1>DeadAgree, Zenon DEF Dead
\* The init function leaves descriptors only in the two names that end_suite()
\* closes, and a name of the two that it does not hold is -1.
<1>SuiteHolds. ASSUME Types, Phases, UnsetInv, th["main"].st = "done"
               PROVE  SuiteFds \ {0} = {th["main"].env[x] : x \in Mine("main")} \ {0}
  <2> USE <1>SuiteHolds
  <2> DEFINE p == Prog("main")
             i == th["main"].ip
             E == {"fd_thread1", "fd_thread2"}
  <2>1. "main" \in DOMAIN Slot /\ Slot["main"] = 1 /\ Live("main")
    BY Slots, Zenon DEF Live
  <2>2. p \in Seq(Instr) /\ OrderlyInit(p)
    BY <2>1, ProgFacts, Zenon
  <2>3. Mine("main") = Held(p, i)
    BY <2>1, Zenon DEF Mine
  <2>4. E \subseteq Names
    BY DEF Names
  <2>5. Range(Globals) = E
    <3>1. DOMAIN Globals = {"t1", "t2"} /\ Globals["t1"] = "fd_thread1" /\ Globals["t2"] = "fd_thread2"
      BY DEF Globals
    <3> QED
      BY <3>1 DEF Range
  <2> HIDE DEF p, i
  <2>6. Filled(p, i) \subseteq E
    BY <2>2, Zenon DEF OrderlyInit, Filled
  <2>7. Shut(p, i) = {}
    BY <2>2, Zenon DEF OrderlyInit, Shut
  <2>8. Held(p, i) = Filled(p, i)
    BY <2>7, Zenon DEF Held
  <2>9. \A x \in Names \ Filled(p, i) : th["main"].env[x] = 0
    BY <2>1, Zenon DEF UnsetInv, p, i
  <2> HIDE DEF E
  <2>10. \A x \in E : x \in Mine("main") \/ th["main"].env[x] = 0
    BY <2>3, <2>4, <2>8, <2>9, Zenon
  <2>11. Mine("main") \subseteq E
    BY <2>3, <2>6, <2>8, Zenon
  <2> QED
    BY <2>5, <2>10, <2>11, Zenon DEF SuiteFds
<1>1. ASSUME IInv, end_suite
      PROVE  IInv'
  <2> USE <1>1
  <2>1. Types /\ Phases /\ OwnInv /\ UnsetInv /\ PendInv /\ OpenInv /\ ListInv
    BY Zenon DEF IInv
  <2>2. /\ at = "end" /\ sock' = Closed(sock, SuiteFds) /\ th' = [u \in DOMAIN Slot |-> Idle]
        /\ lists' = lists /\ faults' = faults
    BY Zenon DEF end_suite
  <2>3. /\ suite'.num \in DOMAIN Suites /\ suite' = Load(suite'.num)
        /\ at' = "start" \/ at' = "done"
    <3>1. suite.num \in DOMAIN Suites /\ suite = Load(suite.num)
      BY <2>1, Zenon DEF Types
    <3>2. CASE at' = "done" /\ suite' = suite
      BY <3>1, <3>2, Zenon
    <3>3. CASE at' = "start" /\ suite' = Load(suite.num + 1) /\ suite.num # Len(Suites)
      <4> DEFINE n == suite.num
      <4> HIDE DEF n
      <4>1. \A m : Load(m).num = m
        BY DEF Load
      <4>2. n \in DOMAIN Suites /\ n # Len(Suites) /\ suite' = Load(n + 1)
        BY <3>1, <3>3, Zenon DEF n
      <4>3. n + 1 \in DOMAIN Suites
        BY <4>2, SuitesAssumption
      <4> QED
        BY <3>3, <4>1, <4>2, <4>3, Zenon
    <3> QED
      BY <3>2, <3>3, Zenon DEF end_suite
  <2>4. th["main"].st = "done" /\ th["t1"].st # "run" /\ th["t2"].st # "run"
    BY <2>1, <2>2 DEF Phases
  <2>5. \A u \in DOMAIN Slot : th'[u] = Idle
    BY <2>2, Zenon
  <2>6. \A u \in DOMAIN Slot : th'[u].st = "idle"
    BY <2>5, IdleFacts, Zenon
  <2>7. \A u \in DOMAIN Slot : th'[u].st # "run" /\ th'[u].st # "done"
    BY <2>6
  <2>8. \A u \in DOMAIN Slot : ~Live(u)' /\ Mine(u)' = {} /\ Frees(u)' = 0
    BY <2>7, Zenon DEF Live, Mine, Frees, At
  <2>9. /\ sock' \in [Fds -> SockRec] /\ Hearing
        /\ Books(sock, sock', Dead(sock, SuiteFds))
    BY <2>1, <2>2, ClosedFacts, Zenon DEF Types, Hearing
  <2>10. Types'
    <3>1. th' \in [DOMAIN Slot -> ThreadRec]
      BY <2>2, IdleFacts, Zenon
    <3>2. at' \in Places
      BY <2>3, PlacesAre, Zenon
    <3>3. faults' \in 0..MaxFaults
      BY <2>1, <2>2, Zenon DEF Types
    <3> QED
      BY <2>3, <2>9, <3>1, <3>2, <3>3, Zenon DEF Types
  <2>11. Phases'
    <3>1. th'["main"].st = "idle" /\ th'["t1"].st = "idle" /\ th'["t2"].st = "idle"
      BY <2>6, Slots, Zenon
    <3> QED
      BY <2>3, <2>7, <3>1 DEF Phases
  <2>12. UnsetInv'
    BY <2>8, Zenon DEF UnsetInv
  <2>13. ListInv'
    <3>1. Frees("main") = 0 /\ Frees("t1") = 0 /\ Frees("t2") = 0
      <4>1. th["main"].st # "run"
        BY <2>4
      <4> QED
        BY <2>4, <4>1, Zenon DEF Frees, At
    <3>2. Frees("main")' = 0 /\ Frees("t1")' = 0 /\ Frees("t2")' = 0
      BY <2>8, Slots, Zenon
    <3>3. lists = 0
      BY <2>1, <3>1 DEF ListInv
    <3>4. lists' = 0
      BY <2>2, <3>3, Zenon
    <3> QED
      BY <3>2, <3>4 DEF ListInv
  <2>14. Closing("main", Mine("main"))
    <3> DEFINE A == SuiteFds
               B == {th["main"].env[x] : x \in Mine("main")}
    <3>1. A \ {0} = B \ {0}
      BY <2>1, <2>4, <1>SuiteHolds, Zenon
    <3> HIDE DEF A, B
    <3>2. \A fd \in Fds : fd # 0
      BY DEF Fds
    <3>3. \A fd \in Fds : fd \in Dead(sock, A) <=> fd \in Dead(sock, B)
      BY <3>1, <3>2, <1>DeadAgree, Zenon
    <3>4. Books(sock, sock', Dead(sock, A))
      BY <2>9, Zenon DEF A
    <3>5. Books(sock, sock', Dead(sock, B))
      BY <3>3, <3>4, Zenon DEF Books
    <3>6. \A u \in DOMAIN Slot : u # "main" => Mine(u) = {}
      <4>1. \A u \in DOMAIN Slot : u # "main" => th[u].st # "run"
        BY <2>4, Slots
      <4> QED
        BY <4>1, Zenon DEF Mine, Live
    <3> QED
      BY <2>8, <2>9, <3>5, <3>6, Zenon DEF Closing, B
  <2>15. OwnInv' /\ PendInv' /\ OpenInv'
    <3>1. "main" \in DOMAIN Slot
      BY Slots, Zenon
    <3> QED
      BY <2>1, <2>10, <2>14, <3>1, ClosingStep, Zenon
  <2> QED
    BY <2>10, <2>11, <2>12, <2>13, <2>15, Zenon DEF IInv
<1> QED
  BY <1>1, Zenon

\* Nothing is closed, and whoever listens did so before.
Same(s, r) ==
  /\ r \in [Fds -> SockRec] /\ Books(s, r, {})
  /\ \A fd \in Fds : r[fd].listening => s[fd].listening

\* Nothing changes.
LEMMA SameSelf ==
  ASSUME NEW s \in [Fds -> SockRec]
  PROVE  Same(s, s)
<1>1. \A g : g \notin {}
  OBVIOUS
<1> QED
  BY <1>1, Zenon DEF Same, Books

\* What the init function and a test find in their descriptors.
Fresh(t, x) == IF t # "main" /\ x = "fd" THEN th["main"].env[Globals[t]] ELSE 0

\* The init function is called; a thread is created, or is not.
LEMMA StartSteps ==
  IInv /\ (init_suite \/ \E t \in Threads : nfp_thread_create(t)) => IInv'
\* The first call finds nothing filled in.
<1>LineStart. ASSUME NEW p \in Seq(Instr)
              PROVE  Filled(p, 1) = {} /\ Held(p, 1) = {}
  <2>1. \A k \in DOMAIN p : ~(k < 1)
    OBVIOUS
  <2> QED
    BY <2>1, Zenon DEF Filled, Held
\* The first call of a line frees nothing.
<1>FirstCall. ASSUME NEW p \in Seq(Instr), Orderly(p), 1 \in DOMAIN p
              PROVE  p[1].op # "freeaddrinfo"
  <2> USE <1>FirstCall
  <2> SUFFICES ASSUME p[1].op = "freeaddrinfo" PROVE FALSE
    BY Zenon
  <2>1. 1 - 1 \in DOMAIN p
    BY OrderlyAt, Zenon
  <2> QED
    BY <2>1
\* The record of a thread that starts.
<1>ReadyFacts. ASSUME Types, NEW t \in DOMAIN Slot, NEW r \in ThreadRec, r.ip = 1
               PROVE  /\ Ready(t, r) \in ThreadRec /\ Ready(t, r).ip = 1 /\ Ready(t, r).env = r.env
                      /\ Ready(t, r).st \in {"run", "done"}
                      /\ Ready(t, r).st = "run" => 1 \in DOMAIN Prog(t)
  <2> USE <1>ReadyFacts
  <2> DEFINE p == Prog(t)
             v == IF 1 > Len(p) THEN "done" ELSE "run"
             q == [r EXCEPT !.st = v]
  <2>1. p \in Seq(Instr)
    BY ProgFacts, Zenon
  <2>2. Ready(t, r) = q
    BY Zenon DEF Ready
  <2> HIDE DEF p
  <2>3. v \in {"run", "done"} /\ (v = "run" => 1 \in DOMAIN p)
    BY <2>1
  <2> HIDE DEF v
  <2>4. q \in ThreadRec /\ q.ip = 1 /\ q.env = r.env /\ q.st = v
    BY <2>3, Zenon DEF ThreadRec
  <2> HIDE DEF q
  <2> QED
    BY <2>2, <2>3, <2>4, Zenon DEF p
\* The init function, or a test, is called or turns out not to be.
<1>StartStep. ASSUME IInv, Types', Phases', NEW t \in DOMAIN Slot, th[t].st = "idle", Others(t),
                     th'[t].ip = 1, \A x \in Names : Live(t)' => th'[t].env[x] = Fresh(t, x),
                     t = "main" => at = "start",
                     suite' = suite, sock' = sock, lists' = lists
              PROVE  IInv'
  <2> USE <1>StartStep
  <2>1. Types /\ Phases /\ OwnInv /\ UnsetInv /\ PendInv /\ OpenInv /\ ListInv
    BY Zenon DEF IInv
  <2>2. ~Live(t) /\ Mine(t) = {} /\ Frees(t) = 0
    BY NotThere, Zenon
  <2>3. Mine(t)' = {} /\ Frees(t)' = 0
    <3>1. Prog(t) \in Seq(Instr) /\ Orderly(Prog(t))
      BY <2>1, ProgFacts, Zenon
    <3>2. Prog(t)' = Prog(t)
      BY Zenon DEF Prog
    <3>3. Held(Prog(t), 1) = {}
      BY <3>1, <1>LineStart, Zenon
    <3>4. Mine(t)' = {}
      BY <3>2, <3>3, Zenon DEF Mine
    <3>5. ASSUME At(t, "freeaddrinfo")' PROVE FALSE
      <4>1. 1 \in DOMAIN Prog(t)
        BY <3>2, <3>5, Zenon DEF At, Phases
      <4>2. Prog(t)[1].op = "freeaddrinfo"
        BY <3>2, <3>5, Zenon DEF At, Cur
      <4> QED
        BY <3>1, <4>1, <4>2, <1>FirstCall, Zenon
    <3> QED
      BY <3>4, <3>5, Zenon DEF Frees
  <2>4. ASSUME NEW u \in DOMAIN Slot, u # t
        PROVE  /\ th'[u] = th[u] /\ Prog(u)' = Prog(u) /\ Live(u)' = Live(u)
               /\ Mine(u)' = Mine(u) /\ Frees(u)' = Frees(u)
    <3>1. th'[u] = th[u]
      BY <2>4, Zenon DEF Others
    <3>2. Prog(u)' = Prog(u)
      BY Zenon DEF Prog
    <3>3. Live(u)' = Live(u)
      BY <3>1, Zenon DEF Live
    <3>4. Mine(u)' = Mine(u) /\ Frees(u)' = Frees(u)
      BY <3>1, <3>2, <3>3, Zenon DEF Mine, Frees, At, Cur
    <3> QED
      BY <3>1, <3>2, <3>3, <3>4, Zenon
  <2>5. \A u \in DOMAIN Slot : Mine(u)' = Mine(u) /\ Frees(u)' = Frees(u)
    BY <2>2, <2>3, <2>4, Zenon
  <2>6. ListInv'
    BY <2>1, <2>5, Slots, Zenon DEF ListInv
  <2>7. UnsetInv'
    <3> SUFFICES ASSUME NEW u \in DOMAIN Slot, Live(u)', NEW x \in Names \ Filled(Prog(u), th[u].ip)'
                 PROVE  th'[u].env[x] = IF u # "main" /\ x = "fd" THEN th'["main"].env[Globals[u]] ELSE 0
      BY Zenon DEF UnsetInv
    <3>1. "main" \in DOMAIN Slot
      BY Slots, Zenon
    <3>2. x \in Names
      BY Zenon
    <3>3. CASE u = t
      <4>1. th'[t].env[x] = Fresh(t, x)
        BY <3>2, <3>3, Zenon
      <4>2. t # "main" => th'["main"] = th["main"]
        BY <2>4, <3>1, Zenon
      <4> QED
        BY <3>3, <4>1, <4>2, Zenon DEF Fresh
    <3>4. CASE u # t
      <4>1. /\ th'[u] = th[u] /\ Live(u)
            /\ x \in Names \ Filled(Prog(u), th[u].ip)
        BY <2>4, <3>4, Zenon
      <4>2. th[u].env[x] = IF u # "main" /\ x = "fd" THEN th["main"].env[Globals[u]] ELSE 0
        BY <2>1, <4>1, Zenon DEF UnsetInv
      <4>3. t # "main" => th'["main"] = th["main"]
        BY <2>4, <3>1, Zenon
      <4>4. t = "main" => u = "main"
        <5> SUFFICES ASSUME t = "main" PROVE u = "main"
          BY Zenon
        <5>1. th["t1"].st = "idle" /\ th["t2"].st = "idle"
          BY <2>1, Zenon DEF Phases
        <5>2. ~Live("t1") /\ ~Live("t2")
          BY <5>1, NotThere, Zenon
        <5> QED
          BY <4>1, <5>2, Slots, Zenon
      <4> QED
        BY <4>1, <4>2, <4>3, <4>4, Zenon
    <3> QED
      BY <3>3, <3>4, Zenon
  <2>8. Closing(t, {})
    <3>1. \A x : x \notin {}
      BY Zenon
    <3>2. \A u \in DOMAIN Slot : \A x \in Mine(u) : th'[u].env[x] = th[u].env[x]
      BY <2>2, <2>4, <3>1, Zenon
    <3>3. {th[t].env[x] : x \in {}} = {}
      BY Zenon
    <3>4. Same(sock, sock')
      BY <2>1, SameSelf, Zenon DEF Types
    <3>5. Books(sock, sock', Dead(sock, {th[t].env[x] : x \in {}})) /\ Hearing
      BY <3>3, <3>4, NoneDead, Zenon DEF Same, Hearing
    <3> QED
      BY <2>5, <3>1, <3>2, <3>5, Zenon DEF Closing
  <2>9. OwnInv' /\ PendInv' /\ OpenInv'
    BY <2>1, <2>8, ClosingStep, Zenon
  <2> QED
    BY <2>6, <2>7, <2>9, Zenon DEF IInv
<1>1. ASSUME IInv, init_suite \/ \E t \in Threads : nfp_thread_create(t)
      PROVE  IInv'
  <2> USE <1>1
  <2>1. Types /\ Phases
    BY Zenon DEF IInv
  <2>2. /\ th \in [DOMAIN Slot -> ThreadRec] /\ sock \in [Fds -> SockRec] /\ faults \in 0..MaxFaults
    BY <2>1, Zenon DEF Types
  <2>3. suite' = suite /\ sock' = sock /\ lists' = lists
    BY Zenon DEF init_suite, nfp_thread_create
  <2>4. ASSUME NEW t \in DOMAIN Slot, NEW r \in ThreadRec, th' = [th EXCEPT ![t] = r],
               at' \in Places, faults' \in 0..MaxFaults
        PROVE  th'[t] = r /\ Others(t) /\ Types'
    <3>1. th' \in [DOMAIN Slot -> ThreadRec] /\ th'[t] = r /\ Others(t)
      BY <2>2, <2>4 DEF Others
    <3> QED
      BY <2>1, <2>2, <2>3, <2>4, <3>1, Zenon DEF Types
  <2>5. CASE init_suite
    <3> DEFINE r == Ready("main", Idle)
    <3>1. at = "start" /\ at' = "init" /\ th' = [th EXCEPT !["main"] = r] /\ faults' = faults
      BY <2>5, Zenon DEF init_suite
    <3>2. "main" \in DOMAIN Slot
      BY Slots, Zenon
    <3>3. /\ r \in ThreadRec /\ r.ip = 1 /\ r.env = [n \in Names |-> 0] /\ r.st \in {"run", "done"}
          /\ r.st = "run" => 1 \in DOMAIN Prog("main")
      BY <2>1, <3>2, IdleFacts, <1>ReadyFacts, Zenon
    <3> HIDE DEF r
    <3>4. at' \in Places
      BY <3>1, PlacesAre, Zenon
    <3>5. th'["main"] = r /\ Others("main") /\ Types'
      BY <2>2, <2>4, <3>1, <3>2, <3>3, <3>4, Zenon
    <3>6. th["main"].st = "idle" /\ th["t1"].st = "idle" /\ th["t2"].st = "idle"
      BY <2>1, <3>1, Zenon DEF Phases
    <3>7. th'["t1"] = th["t1"] /\ th'["t2"] = th["t2"]
      BY <3>5, Slots DEF Others
    <3>8. Phases'
      <4>1. Prog("main")' = Prog("main")
        BY <2>3, Zenon DEF Prog
      <4>2. /\ th'["main"].st = "run" => th'["main"].ip \in DOMAIN Prog("main")'
            /\ th'["t1"].st = "idle" /\ th'["t2"].st = "idle"
        BY <3>3, <3>5, <3>6, <3>7, <4>1, Zenon
      <4>3. \A u \in DOMAIN Slot : th'[u].st = "run" => th'[u].ip \in DOMAIN Prog(u)'
        BY <4>2, Slots
      <4> QED
        BY <3>1, <4>2, <4>3 DEF Phases
    <3>9. \A x \in Names : th'["main"].env[x] = Fresh("main", x)
      <4>1. \A x \in Names : r.env[x] = 0
        BY <3>3
      <4> QED
        BY <3>5, <4>1, Zenon DEF Fresh
    <3>10. th'["main"].ip = 1
      BY <3>3, <3>5, Zenon
    <3> QED
      BY <2>3, <3>1, <3>2, <3>5, <3>6, <3>8, <3>9, <3>10, <1>StartStep, Zenon
  <2>6. ASSUME NEW t \in Threads, nfp_thread_create(t) PROVE IInv'
    <3> DEFINE e == [Idle EXCEPT !.env["fd"] = th["main"].env[Globals[t]]]
               a == [Idle EXCEPT !.st = "absent"]
    <3>1. /\ t \in DOMAIN Slot /\ "main" \in DOMAIN Slot /\ t # "main"
          /\ t \in {"t1", "t2"}
      BY <2>6, Slots DEF Threads
    <3>2. /\ at = IF t = "t1" THEN "create t1" ELSE "create t2"
          /\ at' = IF t = "t1" THEN "create t2" ELSE "join t1"
      <4>1. at = CreateAt[t] /\ at' = IF t = "t1" THEN "create t2" ELSE "join t1"
        BY <2>6, Zenon DEF nfp_thread_create
      <4>2. CreateAt["t1"] = "create t1" /\ CreateAt["t2"] = "create t2"
        BY DEF CreateAt
      <4> QED
        BY <3>1, <4>1, <4>2
    <3>3. \/ th' = [th EXCEPT ![t] = Ready(t, e)] /\ faults' = faults
          \/ faults < MaxFaults /\ faults' = faults + 1 /\ th' = [th EXCEPT ![t] = a]
      BY <2>6, Zenon DEF nfp_thread_create
    <3>4. /\ e \in ThreadRec /\ e.ip = 1 /\ \A x \in Names : e.env[x] = Fresh(t, x)
      <4>1. Globals[t] \in Names /\ "fd" \in Names
        BY <3>1 DEF Globals, Names
      <4>2. th["main"].env[Globals[t]] \in Fds \cup {0}
        BY <2>1, <3>1, <4>1, ThreadFields, Zenon
      <4> DEFINE g == th["main"].env[Globals[t]]
                 f == [Idle.env EXCEPT !["fd"] = g]
      <4> HIDE DEF g
      <4>3. Idle \in ThreadRec /\ Idle.ip = 1 /\ Idle.env = [n \in Names |-> 0]
        BY IdleFacts, Zenon
      <4>4. /\ f \in [Names -> Fds \cup {0}]
            /\ \A x \in Names : f[x] = IF x = "fd" THEN g ELSE 0
        BY <4>1, <4>2, <4>3 DEF g
      <4>5. e = [Idle EXCEPT !.env = f]
        BY Zenon DEF g
      <4> HIDE DEF e, f
      <4>6. e \in ThreadRec /\ e.ip = 1 /\ e.env = f
        BY <4>3, <4>4, <4>5, Zenon DEF ThreadRec
      <4>7. \A x \in Names : e.env[x] = IF x = "fd" THEN g ELSE 0
        BY <4>4, <4>6, Zenon
      <4> QED
        BY <3>1, <4>6, <4>7, Zenon DEF Fresh, g
    <3>5. a \in ThreadRec /\ a.ip = 1 /\ a.st = "absent"
      BY IdleFacts, Zenon DEF ThreadRec
    <3> HIDE DEF e, a
    <3>6. at' \in Places /\ faults' \in 0..MaxFaults
      <4>1. at' \in Places
        BY <3>2, PlacesAre, Zenon
      <4>2. faults' \in 0..MaxFaults
        BY <2>2, <3>3, BoundsAssumption
      <4> QED
        BY <4>1, <4>2, Zenon
    <3>7. PICK r \in ThreadRec :
            /\ th' = [th EXCEPT ![t] = r] /\ r.ip = 1
            /\ r.st = "run" => 1 \in DOMAIN Prog(t)
            /\ r.st = "absent" \/ \A x \in Names : r.env[x] = Fresh(t, x)
      <4>1. /\ Ready(t, e) \in ThreadRec /\ Ready(t, e).ip = 1 /\ Ready(t, e).env = e.env
            /\ Ready(t, e).st = "run" => 1 \in DOMAIN Prog(t)
        BY <2>1, <3>1, <3>4, <1>ReadyFacts, Zenon
      <4>2. \A x \in Names : Ready(t, e).env[x] = Fresh(t, x)
        BY <3>4, <4>1, Zenon
      <4>3. a.st # "run"
        BY <3>5
      <4> QED
        BY <3>3, <3>5, <4>1, <4>2, <4>3, Zenon
    <3>8. th'[t] = r /\ Others(t) /\ Types'
      BY <2>4, <3>1, <3>6, <3>7, Zenon
    <3>9. /\ th[t].st = "idle" /\ th["main"].st = "done"
          /\ t = "t1" => th["t2"].st = "idle"
      BY <2>1, <3>1, <3>2 DEF Phases
    <3>10. Phases'
      <4>1. \A u \in DOMAIN Slot : Prog(u)' = Prog(u)
        BY <2>3, Zenon DEF Prog
      <4>2. \A u \in DOMAIN Slot : th'[u].st = "run" => th'[u].ip \in DOMAIN Prog(u)'
        <5> SUFFICES ASSUME NEW u \in DOMAIN Slot, th'[u].st = "run" PROVE th'[u].ip \in DOMAIN Prog(u)
          BY <4>1, Zenon
        <5>1. CASE u = t
          BY <3>7, <3>8, <5>1, Zenon
        <5>2. CASE u # t
          <6>1. th'[u] = th[u]
            BY <3>8, <5>2, Zenon DEF Others
          <6> QED
            BY <2>1, <6>1, Zenon DEF Phases
        <5> QED
          BY <5>1, <5>2, Zenon
      <4>3. /\ th'["main"] = th["main"]
            /\ t = "t1" => th'["t2"] = th["t2"]
        BY <3>1, <3>8, Slots DEF Others
      <4>4. at' = "create t2" => t = "t1"
        BY <3>1, <3>2
      <4>5. at' \in {"create t2", "join t1"}
        BY <3>2, Zenon
      <4>6. th'["main"].st = "done" /\ (at' = "create t2" => th'["t2"].st = "idle")
        BY <3>9, <4>3, <4>4, Zenon
      <4> QED
        BY <4>2, <4>5, <4>6 DEF Phases
    <3>11. \A x \in Names : Live(t)' => th'[t].env[x] = Fresh(t, x)
      <4>1. Live(t)' => r.st # "absent"
        BY <3>1, <3>8 DEF Live
      <4> QED
        BY <3>7, <3>8, <4>1, Zenon
    <3>12. th'[t].ip = 1
      BY <3>7, <3>8, Zenon
    <3> QED
      BY <2>3, <3>1, <3>8, <3>9, <3>10, <3>11, <3>12, <1>StartStep, Zenon
  <2> QED
    BY <2>5, <2>6, Zenon
<1> QED
  BY <1>1, Zenon

-----------------------------------------------------------------------------
(* The workers.                                                            *)

\* A step within a suite keeps the types.
LEMMA TypesStep ==
  ASSUME Types, suite' = suite, at' = at, faults' \in 0..MaxFaults,
         th' \in [DOMAIN Slot -> ThreadRec], sock' \in [Fds -> SockRec]
  PROVE  Types'
  BY Zenon DEF Types

\* A change of one socket that leaves its books alone.
LEMMA Update ==
  ASSUME NEW s \in [Fds -> SockRec], NEW fd \in Fds, NEW r \in SockRec,
         r.open <=> s[fd].open, r.by = s[fd].by, r.pend = s[fd].pend,
         r.listening => s[fd].listening
  PROVE  Same(s, [s EXCEPT ![fd] = r])
<1> DEFINE s2 == [s EXCEPT ![fd] = r]
<1>1. s2 \in [Fds -> SockRec] /\ s2[fd] = r /\ \A g \in Fds : g # fd => s2[g] = s[g]
  OBVIOUS
<1> HIDE DEF s2
<1>2. \A g \in Fds : s2[g] = s[g] \/ (g = fd /\ s2[g] = r)
  BY <1>1, Zenon
<1>3. ASSUME NEW g \in Fds
      PROVE  /\ (s2[g].open <=> s[g].open) /\ s2[g].by = s[g].by /\ s2[g].pend = s[g].pend
             /\ s2[g].listening => s[g].listening
  BY <1>2
<1>4. \A g : g \notin {}
  OBVIOUS
<1>5. Books(s, s2, {})
  BY <1>3, <1>4, Zenon DEF Books
<1> QED
  BY <1>1, <1>3, <1>5, Zenon DEF Same, s2

\* Every field but those is free to change.
LEMMA FieldSame ==
  ASSUME NEW s \in [Fds -> SockRec], NEW fd \in Fds
  PROVE  /\ \A v \in Seq(Nat) : Same(s, [s EXCEPT ![fd] = [s[fd] EXCEPT !.ev = v]])
         /\ \A v \in Seq(Nat) : Same(s, [s EXCEPT ![fd] = [s[fd] EXCEPT !.q = v]])
         /\ \A v \in Nat : Same(s, [s EXCEPT ![fd] = [s[fd] EXCEPT !.bytes = v]])
         /\ \A v \in Address : Same(s, [s EXCEPT ![fd] = [s[fd] EXCEPT !.bound = v]])
         /\ \A v \in Address : Same(s, [s EXCEPT ![fd] = [s[fd] EXCEPT !.dest = v]])
         /\ \A v \in Kinds : Same(s, [s EXCEPT ![fd] = [s[fd] EXCEPT !.hook = v]])
<1> DEFINE r == s[fd]
           Fits(n) == /\ n \in SockRec /\ (n.open <=> r.open)
                      /\ n.by = r.by /\ n.pend = r.pend
                      /\ (n.listening => r.listening)
<1>1. r \in SockRec
  BY SockFields, Zenon
<1>2. ASSUME NEW n, Fits(n) PROVE Same(s, [s EXCEPT ![fd] = n])
  BY <1>2, Update, Zenon
<1> HIDE DEF r
<1>3. \A v \in Seq(Nat) : Fits([r EXCEPT !.ev = v]) /\ Fits([r EXCEPT !.q = v])
  BY <1>1, Zenon DEF SockRec
<1>4. \A v \in Nat : Fits([r EXCEPT !.bytes = v])
  BY <1>1, Zenon DEF SockRec
<1>5. \A v \in Address : Fits([r EXCEPT !.bound = v]) /\ Fits([r EXCEPT !.dest = v])
  BY <1>1, Zenon DEF SockRec
<1>6. \A v \in Kinds : Fits([r EXCEPT !.hook = v])
  BY <1>1, Zenon DEF SockRec
<1> HIDE DEF Fits
<1>7. \A v \in Seq(Nat) : Same(s, [s EXCEPT ![fd] = [r EXCEPT !.ev = v]])
  BY <1>2, <1>3, Zenon
<1>8. \A v \in Seq(Nat) : Same(s, [s EXCEPT ![fd] = [r EXCEPT !.q = v]])
  BY <1>2, <1>3, Zenon
<1>9. \A v \in Nat : Same(s, [s EXCEPT ![fd] = [r EXCEPT !.bytes = v]])
  BY <1>2, <1>4, Zenon
<1>10. \A v \in Address : Same(s, [s EXCEPT ![fd] = [r EXCEPT !.bound = v]])
  BY <1>2, <1>5, Zenon
<1>11. \A v \in Address : Same(s, [s EXCEPT ![fd] = [r EXCEPT !.dest = v]])
  BY <1>2, <1>5, Zenon
<1>12. \A v \in Kinds : Same(s, [s EXCEPT ![fd] = [r EXCEPT !.hook = v]])
  BY <1>2, <1>6, Zenon
<1> QED
  BY <1>7, <1>8, <1>9, <1>10, <1>11, <1>12, Zenon DEF r

\* What arrives at a socket changes its queue, its bytes or its events.
LEMMA ArriveSame ==
  ASSUME NEW s \in [Fds -> SockRec], NEW fd \in Fds, NEW len \in Nat
  PROVE  Same(s, Arrive(s, fd, len))
<1>1. s[fd] \in SockRec /\ s[fd].ev \in Seq(Nat) /\ s[fd].q \in Seq(Nat) /\ s[fd].bytes \in Nat
  BY SockFields, Zenon
<1> DEFINE e == [s[fd] EXCEPT !.ev = Append(s[fd].ev, len)]
           q == [s[fd] EXCEPT !.q = Append(s[fd].q, len)]
           b == [s[fd] EXCEPT !.bytes = s[fd].bytes + len]
<1>2. Append(s[fd].ev, len) \in Seq(Nat) /\ Append(s[fd].q, len) \in Seq(Nat) /\ s[fd].bytes + len \in Nat
  BY <1>1
<1>3. Same(s, [s EXCEPT ![fd] = e])
  BY <1>1, <1>2, FieldSame, Zenon
<1>4. Same(s, [s EXCEPT ![fd] = q])
  BY <1>1, <1>2, FieldSame, Zenon
<1>5. Same(s, [s EXCEPT ![fd] = b])
  BY <1>1, <1>2, FieldSame, Zenon
<1>6. CASE s[fd].hook # ""
  <2>1. Arrive(s, fd, len) = [s EXCEPT ![fd] = e]
    BY <1>6, Zenon DEF Arrive
  <2> QED
    BY <1>3, <2>1, Zenon
<1>7. CASE ~(s[fd].hook # "") /\ s[fd].kind = "dgram"
  <2>1. Arrive(s, fd, len) = [s EXCEPT ![fd] = q]
    BY <1>7, Zenon DEF Arrive
  <2> QED
    BY <1>4, <2>1, Zenon
<1>8. CASE ~(s[fd].hook # "") /\ ~(s[fd].kind = "dgram")
  <2>1. Arrive(s, fd, len) = [s EXCEPT ![fd] = b]
    BY <1>8, Zenon DEF Arrive
  <2> QED
    BY <1>5, <2>1, Zenon
<1> QED
  BY <1>6, <1>7, <1>8, Zenon

\* The steps that change no thread: a worker runs a callback, main() goes on to
\* another place, nothing happens.
LEMMA WorldStep ==
  IInv /\ (Worker \/ InitDone \/ (\E t \in Threads : nfp_thread_join(t)) \/ UNCHANGED vars) =>
    IInv'
\* Two such changes in a row.
<1>SameTwice. ASSUME NEW a, NEW b, NEW c, Same(a, b), Same(b, c)
              PROVE  Same(a, c)
  <2> USE <1>SameTwice
  <2>1. Books(a, b, {}) /\ Books(b, c, {})
    BY Zenon DEF Same
  <2>2. Books(a, c, {})
    BY <2>1, Zenon DEF Books
  <2>3. \A fd \in Fds : c[fd].listening => a[fd].listening
    BY Zenon DEF Same
  <2> QED
    BY <2>2, <2>3, Zenon DEF Same
\* The threads stay where they are and the sockets keep their books.
<1>CalmWorld. ASSUME IInv, Types', Phases', th' = th, suite' = suite, lists' = lists, Same(sock, sock')
              PROVE  IInv'
  <2> USE <1>CalmWorld
  <2>1. Types /\ OwnInv /\ UnsetInv /\ PendInv /\ OpenInv /\ ListInv
    BY Zenon DEF IInv
  <2>2. \A u : Prog(u)' = Prog(u) /\ Live(u)' = Live(u)
    BY Zenon DEF Prog, Live
  <2>3. \A u : Mine(u)' = Mine(u) /\ Frees(u)' = Frees(u)
    BY <2>2, Zenon DEF Mine, Frees, At, Cur
  <2>4. UnsetInv'
    BY <2>1, <2>2, Zenon DEF UnsetInv
  <2>5. ListInv'
    BY <2>1, <2>3, Zenon DEF ListInv
  <2>6. "main" \in DOMAIN Slot
    BY Slots, Zenon
  <2>7. Closing("main", {})
    <3>1. Books(sock, sock', {}) /\ Hearing
      BY Zenon DEF Same, Hearing
    <3>2. {th["main"].env[x] : x \in {}} = {}
      BY Zenon
    <3>3. Books(sock, sock', Dead(sock, {th["main"].env[x] : x \in {}}))
      BY <3>1, <3>2, NoneDead, Zenon
    <3>4. \A x : x \notin {}
      BY Zenon
    <3> QED
      BY <2>3, <3>1, <3>3, <3>4, Zenon DEF Closing
  <2>8. OwnInv' /\ PendInv' /\ OpenInv'
    BY <2>1, <2>6, <2>7, ClosingStep, Zenon
  <2> QED
    BY <2>4, <2>5, <2>8, Zenon DEF IInv
\* main() goes on to another place; nothing else changes.
<1>PlaceStep. ASSUME IInv, InitDone \/ \E t \in Threads : nfp_thread_join(t)
              PROVE  IInv'
  <2> USE <1>PlaceStep
  <2>1. Types /\ Phases
    BY Zenon DEF IInv
  <2>2. suite' = suite /\ th' = th /\ sock' = sock /\ lists' = lists /\ faults' = faults
    BY Zenon DEF InitDone, nfp_thread_join
  <2>3. /\ at' \in {"create t1", "end", "join t2", "crashed"}
        /\ th["main"].st = "done"
        /\ at' = "create t1" => th["t1"].st = "idle" /\ th["t2"].st = "idle"
        /\ at' \in {"join t2", "end"} => th["t1"].st # "run"
        /\ at' = "end" => th["t2"].st # "run"
    <3>1. CASE InitDone
      <4>1. at = "init" /\ th["main"].st = "done" /\ (at' = "create t1" \/ at' = "end")
        BY <3>1, Zenon DEF InitDone
      <4>2. th["t1"].st = "idle" /\ th["t2"].st = "idle"
        BY <2>1, <4>1, Zenon DEF Phases
      <4> QED
        BY <4>1, <4>2
    <3>2. CASE nfp_thread_join("t1")
      <4>1. /\ at = "join t1" /\ th["t1"].st \in {"done", "absent"}
            /\ at' = "join t2" \/ at' = "crashed"
        BY <3>2 DEF nfp_thread_join, JoinAt
      <4>2. th["main"].st = "done"
        BY <2>1, <4>1 DEF Phases
      <4> QED
        BY <4>1, <4>2
    <3>3. CASE nfp_thread_join("t2")
      <4>1. /\ at = "join t2" /\ th["t2"].st \in {"done", "absent"}
            /\ at' = "end" \/ at' = "crashed"
        BY <3>3 DEF nfp_thread_join, JoinAt
      <4>2. th["main"].st = "done" /\ th["t1"].st # "run"
        BY <2>1, <4>1 DEF Phases
      <4> QED
        BY <4>1, <4>2
    <3> QED
      BY <3>1, <3>2, <3>3, Zenon DEF Threads
  <2>4. Phases'
    <3>1. \A t \in DOMAIN Slot : th'[t].st = "run" => th'[t].ip \in DOMAIN Prog(t)'
      BY <2>1, <2>2, Zenon DEF Phases, Prog
    <3> QED
      BY <2>2, <2>3, <3>1 DEF Phases
  <2>5. Types'
    <3>1. at' \in Places
      BY <2>3, PlacesAre, Zenon
    <3> QED
      BY <2>1, <2>2, <3>1, Zenon DEF Types
  <2>6. Same(sock, sock')
    BY <2>1, <2>2, SameSelf, Zenon DEF Types
  <2> QED
    BY <2>2, <2>4, <2>5, <2>6, <1>CalmWorld, Zenon
\* A worker runs a callback: nobody's descriptors change.
<1>WorkerStep. ASSUME IInv, Worker
               PROVE  IInv'
  <2> USE <1>WorkerStep
  <2>1. Types /\ Phases
    BY Zenon DEF IInv
  <2>2. sock \in [Fds -> SockRec] /\ th \in [DOMAIN Slot -> ThreadRec] /\ faults \in 0..MaxFaults
    BY <2>1, Zenon DEF Types
  <2>3. PICK fd \in Fds : \/ notify_udp_ipv4(fd) \/ notify_udp_ipv6(fd)
                          \/ notify_tcp_rcv(fd) \/ notify_tcp_accept(fd)
    BY Zenon DEF Worker
  <2>4. /\ sock[fd].ev # <<>> /\ (Consume(fd) \/ Leave(fd))
        /\ suite' = suite /\ at' = at /\ th' = th /\ lists' = lists
        /\ faults' = faults \/ (faults < MaxFaults /\ faults' = faults + 1)
    BY <2>3, Zenon DEF notify_udp_ipv4, notify_udp_ipv6, notify_tcp_rcv, notify_tcp_accept, Event,
       WrongAddress
  <2>5. sock[fd].ev \in Seq(Nat) /\ sock[fd].hook \in Kinds
    BY <2>2, SockFields, Zenon
  <2>6. Tail(sock[fd].ev) \in Seq(Nat) /\ Head(sock[fd].ev) \in Nat
    <3>1. sock[fd].ev # <<>>
      BY <2>4, Zenon
    <3> QED
      BY <2>5, <3>1
  <2> DEFINE s1 == [sock EXCEPT ![fd].ev = Tail(@)]
             s2 == [s1 EXCEPT ![fd].hook = ""]
             s3 == Arrive(s2, fd, Head(sock[fd].ev))
  <2>7. Same(sock, s1)
    BY <2>2, <2>6, FieldSame, Zenon
  <2>8. ASSUME Consume(fd) PROVE Same(sock, sock')
    BY <2>7, <2>8, Zenon DEF Consume
  <2>9. ASSUME Leave(fd) PROVE Same(sock, sock')
    <3>1. sock' = [s3 EXCEPT ![fd].hook = sock[fd].hook]
      BY <2>9, Zenon DEF Leave
    <3>2. s1 \in [Fds -> SockRec]
      BY <2>7, Zenon DEF Same
    <3> HIDE DEF s1
    <3>3. Same(s1, s2)
      <4>1. "" \in Kinds
        BY Zenon DEF Kinds
      <4> QED
        BY <3>2, <4>1, FieldSame, Zenon
    <3>4. s2 \in [Fds -> SockRec]
      BY <3>3, Zenon DEF Same
    <3> HIDE DEF s2
    <3>5. Same(s2, s3)
      BY <2>6, <3>4, ArriveSame, Zenon
    <3>6. s3 \in [Fds -> SockRec]
      BY <3>5, Zenon DEF Same
    <3> HIDE DEF s3
    <3>7. Same(s3, sock')
      BY <2>5, <3>1, <3>6, FieldSame, Zenon
    <3>8. Same(sock, s2)
      BY <2>7, <3>3, <1>SameTwice, Zenon
    <3>9. Same(sock, s3)
      BY <3>5, <3>8, <1>SameTwice, Zenon
    <3> QED
      BY <3>7, <3>9, <1>SameTwice, Zenon
  <2> HIDE DEF s1, s2, s3
  <2>10. Same(sock, sock')
    BY <2>4, <2>8, <2>9, Zenon
  <2>11. faults' \in 0..MaxFaults
    BY <2>2, <2>4, BoundsAssumption
  <2>12. Types'
    <3>1. sock' \in [Fds -> SockRec]
      BY <2>10, Zenon DEF Same
    <3> QED
      BY <2>1, <2>2, <2>4, <2>11, <3>1, TypesStep, Zenon
  <2>13. Phases'
    BY <2>1, <2>4, Zenon DEF Phases, Prog
  <2> QED
    BY <2>4, <2>10, <2>12, <2>13, <1>CalmWorld, Zenon
<1>1. ASSUME IInv, Worker \/ InitDone \/ (\E t \in Threads : nfp_thread_join(t)) \/ UNCHANGED vars
      PROVE  IInv'
  <2> USE <1>1
  <2>1. CASE Worker
    BY <2>1, <1>WorkerStep, Zenon
  <2>2. CASE InitDone \/ \E t \in Threads : nfp_thread_join(t)
    BY <2>2, <1>PlaceStep, Zenon
  <2>3. CASE UNCHANGED vars
    <3>1. /\ suite' = suite /\ at' = at /\ th' = th /\ sock' = sock /\ lists' = lists
          /\ faults' = faults
      BY <2>3 DEF vars
    <3>2. Types /\ Phases
      BY Zenon DEF IInv
    <3>3. Types'
      BY <3>1, <3>2, Zenon DEF Types
    <3>4. Phases'
      BY <3>1, <3>2, Zenon DEF Phases, Prog
    <3>5. Same(sock, sock')
      BY <3>1, <3>2, SameSelf, Zenon DEF Types
    <3> QED
      BY <3>1, <3>3, <3>4, <3>5, <1>CalmWorld, Zenon
  <2> QED
    BY <2>1, <2>2, <2>3, Zenon
<1> QED
  BY <1>1, Zenon

-----------------------------------------------------------------------------
(* The calls that succeed.                                                 *)

\* The main thread runs alone.
LEMMA MainAlone ==
  ASSUME Phases, th["main"].st = "run", NEW u \in DOMAIN Slot, u # "main"
  PROVE  ~Live(u) /\ th[u].st = "idle"
<1>1. at = "init"
  BY Zenon DEF Phases
<1>2. th["t1"].st = "idle" /\ th["t2"].st = "idle"
  BY <1>1 DEF Phases
<1>3. u \in {"t1", "t2"}
  BY Slots
<1> QED
  BY <1>2, <1>3 DEF Live

\* What the threads hold once t has gone on to the next call.
LEMMA MineAdvance ==
  ASSUME Types, Phases, NEW t \in DOMAIN Slot, th[t].st = "run", suite' = suite,
         NEW e, Advance(t, e)
  PROVE  /\ \A u \in DOMAIN Slot : u # t => Mine(u)' = Mine(u)
         /\ Mine(t) = Held(Prog(t), th[t].ip)
         /\ Mine(t)' \subseteq Held(Prog(t), th[t].ip + 1)
         /\ Mine(t)' = Held(Prog(t), th[t].ip + 1) \/ Prog(t) \in Leaky
<1>1. \A u \in DOMAIN Slot : Prog(u)' = Prog(u)
  BY Zenon DEF Prog
<1>2. \A u \in DOMAIN Slot : u # t => Mine(u)' = Mine(u)
  BY <1>1, Zenon DEF Mine, Live, Advance, Others
<1>3. Mine(t) = Held(Prog(t), th[t].ip)
  BY Zenon DEF Mine, Live
<1>4. Mine(t)' = IF Live(t)' THEN Held(Prog(t), th[t].ip + 1) ELSE {}
  BY <1>1, Zenon DEF Mine, Advance
<1>5. ASSUME ~Live(t)' PROVE Held(Prog(t), th[t].ip + 1) = {} \/ Prog(t) \in Leaky
  <2>1. t # "main" /\ th[t].ip + 1 > Len(Prog(t))
    BY <1>5 DEF Live, Advance
  <2>2. Prog(t) \in Seq(Instr) /\ (Prog(t) \in Leaky \/ Tidy(Prog(t)))
    BY <2>1, ProgFacts, Zenon
  <2>3. th[t].ip \in DOMAIN Prog(t)
    BY Zenon DEF Phases
  <2>4. th[t].ip + 1 = Len(Prog(t)) + 1
    BY <2>1, <2>2, <2>3
  <2> QED
    BY <2>2, <2>4, Zenon DEF Tidy
<1> QED
  BY <1>2, <1>3, <1>4, <1>5, Zenon

\* A name that is filled in is one that the call makes.
LEMMA UnsetAdvance ==
  ASSUME Types, Phases, UnsetInv, NEW t \in DOMAIN Slot, th[t].st = "run", suite' = suite,
         NEW e, Advance(t, e), \A x \in Names : x # Cur(t).to => e[x] = th[t].env[x]
  PROVE  UnsetInv'
<1>1. \A u \in DOMAIN Slot : Prog(u)' = Prog(u)
  BY Zenon DEF Prog
<1>2. ASSUME t # "main" PROVE th'["main"] = th["main"]
  BY <1>2, Slots, Zenon DEF Advance, Others
<1>3. ASSUME t = "main", NEW u \in DOMAIN Slot, u # t PROVE ~Live(u)'
  <2>1. ~Live(u) /\ th'[u] = th[u]
    BY <1>3, MainAlone, Zenon DEF Advance, Others
  <2> QED
    BY <2>1, Zenon DEF Live
<1>4. ASSUME NEW u \in DOMAIN Slot, u # t, Live(u)', NEW x \in Names \ Filled(Prog(u)', th'[u].ip)
      PROVE  th'[u].env[x] = IF u # "main" /\ x = "fd" THEN th'["main"].env[Globals[u]] ELSE 0
  <2>1. th'[u] = th[u] /\ Prog(u)' = Prog(u)
    BY <1>1, <1>4, Zenon DEF Advance, Others
  <2>2. Live(u)
    BY <1>4, <2>1, Zenon DEF Live
  <2>3. th[u].env[x] = IF u # "main" /\ x = "fd" THEN th["main"].env[Globals[u]] ELSE 0
    BY <2>1, <2>2, Zenon DEF UnsetInv
  <2>4. t # "main"
    BY <1>3, <1>4, Zenon
  <2> QED
    BY <1>2, <2>1, <2>3, <2>4, Zenon
<1>5. ASSUME NEW x \in Names \ Filled(Prog(t)', th'[t].ip)
      PROVE  th'[t].env[x] = IF t # "main" /\ x = "fd" THEN th'["main"].env[Globals[t]] ELSE 0
  <2> DEFINE p == Prog(t)
             i == th[t].ip
  <2>1. p \in Seq(Instr) /\ i \in DOMAIN p /\ Orderly(p) /\ Cur(t) = p[i]
    BY CurFacts, ProgFacts, Zenon
  <2>2. x \notin Filled(p, i + 1)
    BY <1>1, Zenon DEF Advance
  <2> HIDE DEF p, i
  <2>3. Filled(p, i + 1) = Filled(p, i) \cup ({p[i].to} \ {""})
    BY <2>1, LineNext, Zenon
  <2>4. x # ""
    BY DEF Names
  <2>5. x \notin Filled(p, i) /\ x # Cur(t).to
    BY <2>1, <2>2, <2>3, <2>4, Zenon
  <2>6. th'[t].env[x] = th[t].env[x]
    BY <2>5, Zenon DEF Advance
  <2>7. th[t].env[x] = IF t # "main" /\ x = "fd" THEN th["main"].env[Globals[t]] ELSE 0
    BY <2>5, Zenon DEF UnsetInv, Live, p, i
  <2> QED
    BY <1>2, <2>6, <2>7, Zenon
<1> QED
  BY <1>4, <1>5, Zenon DEF UnsetInv

\* A running thread that goes on or returns is where main() expects it.
LEMMA PhasesStep ==
  ASSUME Types, Phases, NEW t \in DOMAIN Slot, th[t].st = "run", suite' = suite, at' = at,
         (\E e : Advance(t, e)) \/ Return(t)
  PROVE  Phases'
<1>1. \A u \in DOMAIN Slot : Prog(u)' = Prog(u)
  BY Zenon DEF Prog
<1>2. Others(t) /\ th'[t].st \in {"run", "done"}
  BY Zenon DEF Advance, Return
<1>3. th[t].ip \in DOMAIN Prog(t) /\ Prog(t) \in Seq(Instr)
  BY CurFacts, ProgFacts, Zenon
<1>4. th'[t].st = "run" => th'[t].ip \in DOMAIN Prog(t)
  <2> SUFFICES ASSUME th'[t].st = "run" PROVE th'[t].ip \in DOMAIN Prog(t)
    BY Zenon
  <2>1. th'[t].ip = th[t].ip + 1 /\ ~(th[t].ip + 1 > Len(Prog(t)))
    BY DEF Advance, Return
  <2> QED
    BY <1>3, <2>1
<1>5. \A u \in DOMAIN Slot : th'[u].st = "run" => th'[u].ip \in DOMAIN Prog(u)'
  BY <1>1, <1>2, <1>4, Zenon DEF Phases, Others
<1>6. CASE t = "main"
  BY <1>2, <1>5, <1>6, Slots DEF Phases, Others
<1>7. CASE t = "t1"
  BY <1>2, <1>5, <1>7, Slots DEF Phases, Others
<1>8. CASE t = "t2"
  BY <1>2, <1>5, <1>8, Slots DEF Phases, Others
<1> QED
  BY <1>6, <1>7, <1>8, Slots, Zenon

\* What a call does to the number of lists, when t goes on to the next.
Handed(t) == IF Cur(t).op = "getaddrinfo" THEN 1 ELSE 0

\* The address lists in use when a thread goes on to its next call.
LEMMA ListsAdvance ==
  \A t \in DOMAIN Slot : \A e :
    Types /\ Phases /\ ListInv /\ th[t].st = "run" /\ suite' = suite /\ Advance(t, e) /\
    lists' = lists + Handed(t) - Frees(t) =>
      ListInv'
\* The list that a call of t hands out is freed by its next call.
<1>FreesAdvance. ASSUME Types, Phases, NEW t \in DOMAIN Slot, th[t].st = "run", suite' = suite,
                        NEW e, Advance(t, e)
                 PROVE  /\ \A u \in DOMAIN Slot : u # t => Frees(u)' = Frees(u)
                        /\ Frees(t) = IF Cur(t).op = "freeaddrinfo" THEN 1 ELSE 0
                        /\ Frees(t)' = IF Cur(t).op = "getaddrinfo" THEN 1 ELSE 0
  <2> USE <1>FreesAdvance
  <2> DEFINE p == Prog(t)
             i == th[t].ip
  <2>1. \A u \in DOMAIN Slot : Prog(u)' = Prog(u)
    BY Zenon DEF Prog
  <2>2. \A u \in DOMAIN Slot : u # t => Frees(u)' = Frees(u)
    BY <2>1, Zenon DEF Frees, At, Cur, Advance, Others
  <2>3. Frees(t) = IF Cur(t).op = "freeaddrinfo" THEN 1 ELSE 0
    BY Zenon DEF Frees, At
  <2>4. p \in Seq(Instr) /\ i \in DOMAIN p /\ Orderly(p) /\ Cur(t) = p[i]
    BY CurFacts, ProgFacts, Zenon
  <2>5. At(t, "freeaddrinfo")' <=> ~(i + 1 > Len(p)) /\ p[i + 1].op = "freeaddrinfo"
    <3>1. Cur(t)' = p[i + 1]
      BY <2>1, Zenon DEF Cur, Advance
    <3>2. th'[t].st = "run" <=> ~(i + 1 > Len(p))
      BY DEF Advance
    <3> QED
      BY <3>1, <3>2, Zenon DEF At
  <2> HIDE DEF p, i
  <2>6. i + 1 \in DOMAIN p <=> ~(i + 1 > Len(p))
    BY <2>4
  <2>7. p[i].op = "getaddrinfo" => i + 1 \in DOMAIN p /\ p[i + 1].op = "freeaddrinfo"
    BY <2>4, OrderlyAt, Zenon
  <2>8. i + 1 \in DOMAIN p /\ p[i + 1].op = "freeaddrinfo" => p[i].op = "getaddrinfo"
    <3> SUFFICES ASSUME i + 1 \in DOMAIN p, p[i + 1].op = "freeaddrinfo"
                 PROVE  p[i].op = "getaddrinfo"
      BY Zenon
    <3>1. (i + 1) - 1 = i
      BY <2>4
    <3>2. p[(i + 1) - 1].op = "getaddrinfo"
      BY <2>4, OrderlyAt, Zenon
    <3> QED
      BY <3>1, <3>2, Zenon
  <2>9. At(t, "freeaddrinfo")' <=> p[i].op = "getaddrinfo"
    BY <2>5, <2>6, <2>7, <2>8, Zenon
  <2> QED
    BY <2>2, <2>3, <2>4, <2>9, Zenon DEF Frees
<1>1. ASSUME Types, Phases, ListInv, NEW t \in DOMAIN Slot, th[t].st = "run", suite' = suite,
             NEW e, Advance(t, e), lists' = lists + Handed(t) - Frees(t)
      PROVE  ListInv'
  <2> USE <1>1
  <2>1. /\ \A u \in DOMAIN Slot : u # t => Frees(u)' = Frees(u)
        /\ Frees(t)' = Handed(t)
    BY <1>FreesAdvance, Zenon DEF Handed
  <2>2. \A u \in DOMAIN Slot : Frees(u) \in {0, 1}
    BY Zenon DEF Frees
  <2>3. Handed(t) \in {0, 1}
    BY Zenon DEF Handed
  <2>4. lists = Frees("main") + Frees("t1") + Frees("t2")
    BY Zenon DEF ListInv
  <2>5. /\ Frees("main") \in {0, 1} /\ Frees("t1") \in {0, 1} /\ Frees("t2") \in {0, 1}
    BY <2>2, Slots, Zenon
  <2>6. CASE t = "main"
    <3>1. Frees("t1")' = Frees("t1") /\ Frees("t2")' = Frees("t2") /\ Frees("main")' = Handed(t)
      BY <2>1, <2>6, Slots, Zenon
    <3>2. lists' = Frees("main")' + Frees("t1")' + Frees("t2")'
      BY <2>3, <2>4, <2>5, <2>6, <3>1
    <3> QED
      BY <3>2, Zenon DEF ListInv
  <2>7. CASE t = "t1"
    <3>1. Frees("main")' = Frees("main") /\ Frees("t2")' = Frees("t2") /\ Frees("t1")' = Handed(t)
      BY <2>1, <2>7, Slots
    <3>2. lists' = Frees("main")' + Frees("t1")' + Frees("t2")'
      BY <2>3, <2>4, <2>5, <2>7, <3>1
    <3> QED
      BY <3>2, Zenon DEF ListInv
  <2>8. CASE t = "t2"
    <3>1. Frees("main")' = Frees("main") /\ Frees("t1")' = Frees("t1") /\ Frees("t2")' = Handed(t)
      BY <2>1, <2>8, Slots
    <3>2. lists' = Frees("main")' + Frees("t1")' + Frees("t2")'
      BY <2>3, <2>4, <2>5, <2>8, <3>1
    <3> QED
      BY <3>2, Zenon DEF ListInv
  <2> QED
    BY <2>6, <2>7, <2>8, Slots, Zenon
<1> QED
  BY <1>1, Zenon

\* The calls that neither hand out nor take back an address list.
LEMMA NothingHanded ==
  ASSUME Types, ListInv, NEW t \in DOMAIN Slot, Cur(t).op \notin {"getaddrinfo", "freeaddrinfo"},
         lists' = lists
  PROVE  lists' = lists + Handed(t) - Frees(t)
<1>1. Handed(t) = 0
  BY Zenon DEF Handed
<1>2. \A u : Frees(u) \in {0, 1}
  BY Zenon DEF Frees
<1>3. Frees(t) = 0
  BY Zenon DEF Frees, At
<1>4. lists \in Int
  <2>1. Frees("main") \in {0, 1} /\ Frees("t1") \in {0, 1} /\ Frees("t2") \in {0, 1}
    BY <1>2, Zenon
  <2> QED
    BY <2>1 DEF ListInv
<1> QED
  BY <1>1, <1>3, <1>4

\* The inductive invariant implies that no test works on a closed descriptor.
LEMMA InvUsesOpen ==
IInv => UsesOpen
\* At most one address list per thread is out, and none of main() together
\* with one of a test.
<1>ListsBound. ASSUME IInv
               PROVE  lists \in 0..2
  <2> USE <1>ListsBound
  <2>1. Phases /\ ListInv
    BY Zenon DEF IInv
  <2>2. \A t \in DOMAIN Slot : Frees(t) = 0 \/ (Frees(t) = 1 /\ th[t].st = "run")
    BY Zenon DEF Frees, At
  <2>3. CASE th["main"].st = "run"
    <3>1. th["t1"].st = "idle" /\ th["t2"].st = "idle"
      BY <2>1, <2>3, MainAlone, Slots
    <3>2. Frees("t1") = 0 /\ Frees("t2") = 0
      BY <2>2, <3>1, Slots
    <3>3. Frees("main") \in 0..1
      BY <2>2, Slots
    <3> QED
      BY <2>1, <3>2, <3>3 DEF ListInv
  <2>4. CASE th["main"].st # "run"
    <3>1. Frees("main") = 0 /\ Frees("t1") \in 0..1 /\ Frees("t2") \in 0..1
      BY <2>2, <2>4, Slots
    <3> QED
      BY <2>1, <3>1 DEF ListInv
  <2> QED
    BY <2>3, <2>4, Zenon
<1> SUFFICES ASSUME IInv PROVE UsesOpen
  OBVIOUS
<1>1. Types /\ Phases
  BY Zenon DEF IInv
<1>2. \A t \in DOMAIN Slot :
        /\ th[t].st \in {"idle", "run", "done", "absent"} /\ th[t].ret \in {-1, 0}
        /\ th[t].env \in [Names -> Fds \union {0}]
  <2> SUFFICES ASSUME NEW t \in DOMAIN Slot
               PROVE  /\ th[t].st \in {"idle", "run", "done", "absent"} /\ th[t].ret \in {-1, 0}
                      /\ th[t].env \in [Names -> Fds \union {0}]
    BY Zenon
  <2>1. th[t] \in ThreadRec
    BY <1>1, ThreadFields, Zenon
  <2> QED
    BY <2>1 DEF ThreadRec
<1>3. \A fd \in Fds :
        /\ sock[fd].peer \in Fds \union {0} /\ sock[fd].bytes \in Nat
        /\ Range(sock[fd].pend) \subseteq Fds
  <2>1. sock \in [Fds -> SockRec]
    BY <1>1, Zenon DEF Types
  <2> QED
    BY <2>1, SockFields, Zenon
<1>4. TypeOK
  <2>1. lists \in 0..2
    BY <1>ListsBound, Zenon
  <2>2. \A t \in DOMAIN Slot : th[t].st = "run" => th[t].ip \in DOMAIN Prog(t)
    BY <1>1, Zenon DEF Phases
  <2>3. suite.num \in DOMAIN Suites /\ at \in Places /\ faults \in 0..MaxFaults
    BY <1>1, Zenon DEF Types
  <2> QED
    BY <1>2, <1>3, <2>1, <2>2, <2>3, Zenon DEF TypeOK
<1> QED
  BY <1>4, OnHeld, Zenon DEF UsesOpen

-----------------------------------------------------------------------------
(* The calls that make a descriptor.                                       *)

\* Thread t fills in x with the socket n, which nobody held; it does not wait
\* to be accepted any more.
NewName(t, n, x) ==
  /\ x \notin Mine(t) /\ Mine(t)' \subseteq Mine(t) \cup {x}
  /\ Mine(t)' = Mine(t) \cup {x} \/ Suites[suite.num][Slot[t]] \in Leaky
  /\ th'[t].env[x] = n /\ \A y \in Mine(t) : th'[t].env[y] = th[t].env[y]

Shifted(n, srv, d) ==
  \A j \in DOMAIN sock'[srv].pend :
    /\ j + d \in DOMAIN sock[srv].pend /\ sock'[srv].pend[j] = sock[srv].pend[j + d]
    /\ sock'[srv].pend[j] # n

\* The socket n becomes a descriptor of t, and waits nowhere any more.
Making(t, n) ==
  /\ n \in Fds /\ ~Kept(n)
  /\ sock'[n].open /\ sock'[n].by = <<suite.num, t>> /\ sock'[n].pend = <<>>
  /\ \A fd \in Fds : fd # n => (sock'[fd].open <=> sock[fd].open) /\ sock'[fd].by = sock[fd].by
  /\ \A fd \in Fds : fd # n => (sock'[fd].listening => sock[fd].listening)
  /\ \A srv \in Fds : \E d \in {0, 1} : Shifted(n, srv, d)
  /\ \A srv \in Fds : \A k \in DOMAIN sock[srv].pend :
       sock[srv].pend[k] = n \/ \E j \in DOMAIN sock'[srv].pend : sock'[srv].pend[j] = sock[srv].pend[k]

Gaining(t, n) ==
  /\ Making(t, n) /\ suite' = suite
  /\ \A u \in DOMAIN Slot : u # t => Mine(u)' = Mine(u) /\ th'[u] = th[u]
  /\ \E x : NewName(t, n, x)

\* The two calls that make a descriptor.
LEMMA MakeStep ==
  \A t \in DOMAIN Slot :
    IInv /\ (nfp_socket(t) \/ nfp_accept(t)) => IInv'
\* A sequence with no position is empty.
<1>EmptySeq. ASSUME NEW S, NEW s \in Seq(S), \A j \in DOMAIN s : FALSE
             PROVE  s = <<>>
  <2> USE <1>EmptySeq
  <2>1. Len(s) \in Nat /\ DOMAIN s = 1..Len(s)
    OBVIOUS
  <2>2. Len(s) = 0
    <3> SUFFICES ASSUME Len(s) # 0 PROVE FALSE
      BY Zenon
    <3>1. 1 \in 1..Len(s)
      BY <2>1
    <3> QED
      BY <2>1, <3>1, Zenon
  <2> QED
    BY <2>2
\* A descriptor that is gained is owned, and no other loses its owner.
<1>GainOwn. ASSUME Types, OwnInv, NEW t \in DOMAIN Slot, NEW n, Gaining(t, n)
            PROVE  OwnInv'
  <2> USE <1>GainOwn
  <2>1. PICK z : NewName(t, n, z)
    BY Zenon DEF Gaining, Making
  <2>2. n \in Fds /\ suite' = suite /\ ~Kept(n)
    BY Zenon DEF Gaining, Making
  <2> SUFFICES ASSUME NEW u \in DOMAIN Slot, NEW x \in Mine(u)', th'[u].env[x] # 0
               PROVE  Owns(u, x, th[u].env[x])'
    BY Zenon DEF OwnInv
  <2>3. ASSUME x \in Mine(u), th'[u].env[x] = th[u].env[x],
               \A y \in Mine(u)' :
                 (y \in Mine(u) /\ th'[u].env[y] = th[u].env[y]) \/ th'[u].env[y] = n
        PROVE  Owns(u, x, th[u].env[x])'
    <3> DEFINE fd == th[u].env[x]
    <3>1. Owns(u, x, fd)
      BY <2>3, OwnAt, Zenon
    <3>2. fd \in Fds /\ fd # n
      BY <2>2, <2>3, MineNames, Zenon DEF Kept
    <3>3. (sock'[fd].open <=> sock[fd].open) /\ sock'[fd].by = sock[fd].by
      BY <3>2, Zenon DEF Gaining, Making
    <3>4. th'[u].env[x] = fd
      BY <2>3, Zenon
    <3> HIDE DEF fd
    <3>5. sock'[fd].open /\ sock'[fd].by = <<suite'.num, u>>
      BY <2>2, <3>1, <3>3, Zenon DEF Owns
    <3>6. \A y \in Mine(u)' : th'[u].env[y] = fd => y = x
      BY <2>3, <3>1, <3>2, Zenon DEF Owns
    <3> QED
      BY <3>4, <3>5, <3>6, Zenon DEF Owns
  <2>4. CASE u # t
    <3>1. Mine(u)' = Mine(u) /\ th'[u] = th[u]
      BY <2>4, Zenon DEF Gaining, Making
    <3> QED
      BY <2>3, <3>1, Zenon
  <2>5. CASE u = t /\ x # z
    <3>1. /\ Mine(t)' \subseteq Mine(t) \cup {z} /\ th'[t].env[z] = n
          /\ \A y \in Mine(t) : th'[t].env[y] = th[t].env[y]
      BY <2>1, Zenon DEF NewName
    <3>2. x \in Mine(u) /\ th'[u].env[x] = th[u].env[x]
      BY <2>5, <3>1, Zenon
    <3>3. \A y \in Mine(u)' : (y \in Mine(u) /\ th'[u].env[y] = th[u].env[y]) \/ th'[u].env[y] = n
      BY <2>5, <3>1, Zenon
    <3> QED
      BY <2>3, <3>2, <3>3, Zenon
  <2>6. CASE u = t /\ x = z
    <3>1. th'[t].env[z] = n
      BY <2>1, Zenon DEF NewName
    <3>2. sock'[n].open /\ sock'[n].by = <<suite'.num, t>>
      BY <2>2, Zenon DEF Gaining, Making
    <3>3. ASSUME NEW y \in Mine(t)', th'[t].env[y] = n PROVE y = z
      <4> SUFFICES ASSUME y # z PROVE FALSE
        BY Zenon
      <4>1. y \in Mine(t) /\ th'[t].env[y] = th[t].env[y]
        BY <2>1, Zenon DEF NewName
      <4> QED
        BY <2>2, <3>3, <4>1, Zenon DEF Kept
    <3> QED
      BY <2>6, <3>1, <3>2, <3>3, Zenon DEF Owns
  <2> QED
    BY <2>4, <2>5, <2>6, Zenon
\* The connections that wait when a descriptor is gained.
<1>GainPend. ASSUME Types, Types', PendInv, NEW t \in DOMAIN Slot, NEW n, Gaining(t, n)
             PROVE  PendInv'
  <2> USE <1>GainPend
  <2> SUFFICES ASSUME NEW srv \in Fds, NEW i \in DOMAIN sock'[srv].pend
               PROVE  WaitsIn(sock[srv].pend[i], srv, i)'
    BY Zenon DEF PendInv
  <2>1. n \in Fds /\ sock'[n].pend = <<>>
    BY Zenon DEF Gaining, Making
  <2>2. srv # n
    <3>1. ~(i \in DOMAIN <<>>)
      OBVIOUS
    <3> QED
      BY <2>1, <3>1, Zenon
  <2>3. PICK d \in {0, 1} : Shifted(n, srv, d)
    BY Zenon DEF Gaining, Making
  <2> DEFINE fd == sock'[srv].pend[i]
  <2>4. i + d \in DOMAIN sock[srv].pend /\ fd = sock[srv].pend[i + d] /\ fd # n
    BY <2>3, Zenon DEF Shifted
  <2>5. sock[srv].pend \in Seq(Fds) /\ sock'[srv].pend \in Seq(Fds)
    BY SockFields, Zenon DEF Types
  <2>6. fd \in Fds
    BY <2>5
  <2>7. WaitsIn(fd, srv, i + d)
    BY <2>4, Zenon DEF PendInv
  <2>8. fd = sock'[srv].pend[i]
    BY Zenon
  <2> HIDE DEF fd
  <2>9. /\ sock'[srv].open /\ sock'[fd].open /\ sock'[fd].by = sock'[srv].by
        /\ ~sock'[fd].listening
    <3>1. /\ sock[srv].open /\ sock[fd].open /\ sock[fd].by = sock[srv].by /\ ~sock[fd].listening
      BY <2>7, Zenon DEF WaitsIn
    <3>2. (sock'[srv].open <=> sock[srv].open) /\ sock'[srv].by = sock[srv].by
      BY <2>2, Zenon DEF Gaining, Making
    <3>3. /\ (sock'[fd].open <=> sock[fd].open) /\ sock'[fd].by = sock[fd].by
          /\ sock'[fd].listening => sock[fd].listening
      BY <2>4, <2>6, Zenon DEF Gaining, Making
    <3> QED
      BY <3>1, <3>2, <3>3, Zenon
  <2>10. sock'[fd].pend = <<>>
    <3>1. PICK d2 \in {0, 1} : Shifted(n, fd, d2)
      BY <2>6, Zenon DEF Gaining, Making
    <3>2. sock[fd].pend = <<>>
      BY <2>7, Zenon DEF WaitsIn
    <3>3. \A k : ~(k \in DOMAIN <<>>)
      OBVIOUS
    <3>4. \A j \in DOMAIN sock'[fd].pend : FALSE
      BY <3>1, <3>2, <3>3, Zenon DEF Shifted
    <3>5. sock'[fd].pend \in Seq(Fds)
      BY <2>6, SockFields, Zenon DEF Types
    <3> QED
      BY <3>4, <3>5, <1>EmptySeq, Zenon
  <2>11. \A u \in DOMAIN Slot : \A x \in Mine(u)' : th'[u].env[x] # fd
    <3> SUFFICES ASSUME NEW u \in DOMAIN Slot, NEW x \in Mine(u)' PROVE th'[u].env[x] # fd
      BY Zenon
    <3>1. \A y \in Mine(u) : th[u].env[y] # fd
      BY <2>7, Zenon DEF WaitsIn
    <3>2. CASE u # t
      BY <3>1, <3>2, Zenon DEF Gaining, Making
    <3>3. CASE u = t
      <4>1. PICK z : NewName(t, n, z)
        BY Zenon DEF Gaining, Making
      <4>2. (x \in Mine(t) /\ th'[t].env[x] = th[t].env[x]) \/ th'[t].env[x] = n
        BY <3>3, <4>1, Zenon DEF NewName
      <4> QED
        BY <2>4, <3>1, <3>3, <4>2, Zenon
    <3> QED
      BY <3>2, <3>3, Zenon
  <2>12. ASSUME NEW srv2 \in Fds, NEW j \in DOMAIN sock'[srv2].pend, sock'[srv2].pend[j] = fd
         PROVE  srv2 = srv /\ j = i
    <3>1. PICK d2 \in {0, 1} : Shifted(n, srv2, d2)
      BY Zenon DEF Gaining, Making
    <3>2. j + d2 \in DOMAIN sock[srv2].pend /\ sock[srv2].pend[j + d2] = fd
      BY <2>12, <3>1, Zenon DEF Shifted
    <3>3. srv2 = srv
      BY <2>7, <3>2, Zenon DEF WaitsIn
    <3>4. j + d \in DOMAIN sock[srv].pend /\ sock[srv].pend[j + d] = fd
      BY <2>3, <2>12, <3>3, Zenon DEF Shifted
    <3>5. j + d = i + d
      BY <2>7, <3>4, Zenon DEF WaitsIn
    <3>6. j \in Nat /\ i \in Nat
      BY <2>5, <3>3
    <3> QED
      BY <3>3, <3>5, <3>6
  <2> QED
    BY <2>8, <2>9, <2>10, <2>11, <2>12, Zenon DEF WaitsIn
\* The open sockets when a descriptor is gained.
<1>GainOpen. ASSUME Types, OwnInv, OpenInv, NEW t \in DOMAIN Slot, NEW n, Gaining(t, n)
             PROVE  OpenInv'
  <2> USE <1>GainOpen
  <2> SUFFICES ASSUME NEW fd \in Fds, sock'[fd].open
               PROVE  /\ sock'[fd].by \in (DOMAIN Suites) \X (DOMAIN Slot)
                      /\ \/ Suites[sock'[fd].by[1]][Slot[sock'[fd].by[2]]] \in Leaky
                         \/ \E u \in DOMAIN Slot : \E x \in Mine(u)' : th'[u].env[x] = fd
                         \/ Waits(fd)'
    BY Zenon DEF OpenInv
  <2>0. suite.num \in DOMAIN Suites
    BY Zenon DEF Types
  <2>1. PICK z : NewName(t, n, z)
    BY Zenon DEF Gaining, Making
  <2>2. CASE fd = n
    <3>1. sock'[fd].by = <<suite.num, t>>
      BY <2>2, Zenon DEF Gaining, Making
    <3>2. sock'[fd].by[1] = suite.num /\ sock'[fd].by[2] = t
      BY <3>1
    <3>3. sock'[fd].by \in (DOMAIN Suites) \X (DOMAIN Slot)
      <4>1. <<suite.num, t>> \in (DOMAIN Suites) \X (DOMAIN Slot)
        BY <2>0, PairIn, Zenon
      <4> QED
        BY <3>1, <4>1, Zenon
    <3>4. CASE Suites[suite.num][Slot[t]] \in Leaky
      BY <3>2, <3>3, <3>4, Zenon
    <3>5. CASE Mine(t)' = Mine(t) \cup {z}
      <4>1. z \in Mine(t)' /\ th'[t].env[z] = fd
        BY <2>1, <2>2, <3>5, Zenon DEF NewName
      <4> QED
        BY <3>3, <4>1, Zenon
    <3> QED
      BY <2>1, <3>4, <3>5, Zenon DEF NewName
  <2>3. CASE fd # n
    <3>1. sock[fd].open /\ sock'[fd].by = sock[fd].by
      BY <2>3, Zenon DEF Gaining, Making
    <3>2. sock[fd].by \in (DOMAIN Suites) \X (DOMAIN Slot)
      BY <3>1, Zenon DEF OpenInv
    <3>3. CASE Suites[sock[fd].by[1]][Slot[sock[fd].by[2]]] \in Leaky
      BY <3>1, <3>2, <3>3, Zenon
    <3>4. CASE \E u \in DOMAIN Slot : \E x \in Mine(u) : th[u].env[x] = fd
      <4>1. PICK u \in DOMAIN Slot : \E x \in Mine(u) : th[u].env[x] = fd
        BY <3>4, Zenon
      <4>2. PICK x \in Mine(u) : th[u].env[x] = fd
        BY <4>1, Zenon
      <4>3. CASE u # t
        <5>1. x \in Mine(u)' /\ th'[u].env[x] = fd
          BY <4>2, <4>3, Zenon DEF Gaining, Making
        <5> QED
          BY <3>1, <3>2, <5>1, Zenon
      <4>4. CASE u = t /\ Suites[suite.num][Slot[t]] \in Leaky
        <5>1. fd # 0
          BY FreeFacts, Zenon
        <5>2. sock[fd].by = <<suite.num, t>>
          BY <4>2, <4>4, <5>1, Zenon DEF OwnInv, Owns
        <5>3. sock[fd].by[1] = suite.num /\ sock[fd].by[2] = t
          BY <5>2
        <5> QED
          BY <3>1, <3>2, <4>4, <5>3, Zenon
      <4>5. CASE u = t /\ Mine(t)' = Mine(t) \cup {z}
        <5>1. x \in Mine(u)' /\ th'[u].env[x] = fd
          BY <2>1, <4>2, <4>5, Zenon DEF NewName
        <5> QED
          BY <3>1, <3>2, <5>1, Zenon
      <4> QED
        BY <2>1, <4>3, <4>4, <4>5, Zenon DEF NewName
    <3>5. CASE Waits(fd)
      <4>1. PICK srv \in Fds : \E k \in DOMAIN sock[srv].pend : sock[srv].pend[k] = fd
        BY <3>5, Zenon DEF Waits
      <4>2. PICK k \in DOMAIN sock[srv].pend : sock[srv].pend[k] = fd
        BY <4>1, Zenon
      <4>3. \E j \in DOMAIN sock'[srv].pend : sock'[srv].pend[j] = fd
        BY <2>3, <4>2, Zenon DEF Gaining, Making
      <4>4. Waits(fd)'
        BY <4>3, Zenon DEF Waits
      <4> QED
        BY <3>1, <3>2, <4>4, Zenon
    <3> QED
      BY <3>1, <3>3, <3>4, <3>5, Zenon DEF OpenInv
  <2> QED
    BY <2>2, <2>3, Zenon
\* A call that makes a descriptor.
<1>GainStep. ASSUME IInv, Types', NEW t \in DOMAIN Slot, th[t].st = "run",
                    Cur(t).op \in {"socket", "accept"}, OnlySock, NEW n, Making(t, n),
                    Advance(t, [th[t].env EXCEPT ![Cur(t).to] = n])
             PROVE  IInv'
  <2> USE <1>GainStep
  <2> DEFINE x == Cur(t).to
             p == Prog(t)
             i == th[t].ip
             e == [th[t].env EXCEPT ![x] = n]
  <2>1. Types /\ Phases /\ OwnInv /\ UnsetInv /\ PendInv /\ OpenInv /\ ListInv
    BY Zenon DEF IInv
  <2>2. suite' = suite /\ at' = at /\ lists' = lists
    BY Zenon DEF OnlySock
  <2>3. /\ i \in DOMAIN p /\ p \in Seq(Instr) /\ Orderly(p) /\ Cur(t) = p[i]
        /\ p = Suites[suite.num][Slot[t]]
    BY <2>1, CurFacts, ProgFacts, Zenon
  <2>4. x # "" /\ x \in Names
    <3>1. x # "" /\ x \in Names \cup {""}
      BY <2>1, CurFacts, Zenon
    <3> QED
      BY <3>1, Zenon
  <2>5. th[t].env \in [Names -> Fds \cup {0}]
    BY <2>1, ThreadFields, Zenon
  <2>6. e[x] = n /\ \A y \in Names : y # x => e[y] = th[t].env[y]
    BY <2>4, <2>5
  <2>7. /\ Advance(t, e) /\ th'[t].env = e
        /\ \A u \in DOMAIN Slot : u # t => th'[u] = th[u]
    BY Zenon DEF Advance, Others
  <2> HIDE DEF e
  <2>8. Held(p, i + 1) = Held(p, i) \cup {x} /\ x \notin Held(p, i)
    <3>1. p[i].to = x
      BY <2>3, Zenon
    <3> HIDE DEF p, i, x
    <3> QED
      BY <2>3, <2>4, <3>1, HeldNext, Zenon
  <2>9. /\ \A u \in DOMAIN Slot : u # t => Mine(u)' = Mine(u)
        /\ Mine(t) = Held(p, i) /\ Mine(t)' \subseteq Held(p, i + 1)
        /\ Mine(t)' = Held(p, i + 1) \/ p \in Leaky
    BY <2>1, <2>2, <2>7, MineAdvance, Zenon
  <2> HIDE DEF x, p, i
  <2>10. NewName(t, n, x)
    <3>1. x \notin Mine(t) /\ Mine(t)' \subseteq Mine(t) \cup {x}
      BY <2>8, <2>9, Zenon
    <3>2. Mine(t)' = Mine(t) \cup {x} \/ Suites[suite.num][Slot[t]] \in Leaky
      BY <2>3, <2>8, <2>9, Zenon
    <3>3. th'[t].env[x] = n
      BY <2>6, <2>7, Zenon
    <3>4. \A y \in Mine(t) : th'[t].env[y] = th[t].env[y]
      <4> SUFFICES ASSUME NEW y \in Mine(t) PROVE th'[t].env[y] = th[t].env[y]
        BY Zenon
      <4>1. y # x
        BY <3>1, Zenon
      <4>2. y \in Names
        BY <2>1, MineNames, Zenon
      <4>3. e[y] = th[t].env[y]
        BY <2>6, <4>1, <4>2, Zenon
      <4> QED
        BY <2>7, <4>3, Zenon
    <3> QED
      BY <3>1, <3>2, <3>3, <3>4, Zenon DEF NewName
  <2>11. Gaining(t, n)
    BY <2>2, <2>7, <2>9, <2>10, Zenon DEF Gaining
  <2>12. OwnInv' /\ PendInv' /\ OpenInv'
    BY <2>1, <2>11, <1>GainOwn, <1>GainPend, <1>GainOpen, Zenon
  <2>13. UnsetInv'
    <3>1. \A y \in Names : y # Cur(t).to => e[y] = th[t].env[y]
      BY <2>6, Zenon DEF x
    <3>2. Types /\ Phases /\ UnsetInv /\ Advance(t, e)
      BY <2>1, <2>7, Zenon
    <3>3. suite' = suite
      BY <2>2, Zenon
    <3> QED
      BY <3>1, <3>2, <3>3, UnsetAdvance, Zenon
  <2>14. Phases'
    BY <2>1, <2>2, <2>7, PhasesStep, Zenon
  <2>15. ListInv'
    <3>1. Cur(t).op \notin {"getaddrinfo", "freeaddrinfo"}
      OBVIOUS
    <3>2. lists' = lists + Handed(t) - Frees(t)
      BY <2>1, <2>2, <3>1, NothingHanded, Zenon
    <3> QED
      BY <2>1, <2>2, <2>7, <3>2, ListsAdvance, Zenon
  <2> QED
    BY <2>12, <2>13, <2>14, <2>15, Zenon DEF IInv
\* Who makes a socket is recorded with it.
<1>Maker. ASSUME Types, NEW t \in DOMAIN Slot
          PROVE  <<suite.num, t>> \in Makers
  <2> USE <1>Maker
  <2>1. suite.num \in Nat
    BY SuitesAssumption DEF Types
  <2>2. t \in DOMAIN Slot \cup {""}
    BY Zenon
  <2> QED
    BY <2>1, <2>2, PairIn, Zenon DEF Makers
\* The thread stores the new descriptor.
<1>Stored. ASSUME Types, NEW t \in DOMAIN Slot, NEW x \in Names, NEW n \in Fds,
                  Pass(t, [th[t] EXCEPT !.env[x] = n])
           PROVE  th' \in [DOMAIN Slot -> ThreadRec] /\ Advance(t, [th[t].env EXCEPT ![x] = n])
  <2> USE <1>Stored
  <2> DEFINE e == [th[t].env EXCEPT ![x] = n]
             q == [th[t] EXCEPT !.env = e]
  <2>1. th[t] \in ThreadRec /\ th[t].env \in [Names -> Fds \cup {0}]
    BY ThreadFields, Zenon
  <2>2. e \in [Names -> Fds \cup {0}]
    BY <2>1
  <2> HIDE DEF e
  <2>3. q \in ThreadRec /\ q.ip = th[t].ip /\ q.env = e
    BY <2>1, <2>2, Zenon DEF ThreadRec
  <2>4. Pass(t, q)
    BY Zenon DEF e
  <2> HIDE DEF q
  <2>5. th' \in [DOMAIN Slot -> ThreadRec] /\ Advance(t, q.env)
    BY <2>3, <2>4, PassFacts, Zenon
  <2> QED
    BY <2>3, <2>5, Zenon DEF e
\* nfp_socket() makes a descriptor and stores it.
<1>SocketStep. ASSUME IInv, NEW t \in DOMAIN Slot, nfp_socket(t)
               PROVE  IInv'
  <2> USE <1>SocketStep
  <2> DEFINE n == Some(FreeFds(sock))
             b == <<suite.num, t>>
             r == [Free EXCEPT !.open = TRUE, !.fam = Cur(t).addr.fam, !.kind = Cur(t).kind, !.by = b]
  <2>1. /\ th[t].st = "run" /\ Cur(t).op = "socket" /\ FreeFds(sock) # {} /\ OnlySock
        /\ sock' = [sock EXCEPT ![n] = r]
        /\ Pass(t, [th[t] EXCEPT !.env[Cur(t).to] = n])
    BY Zenon DEF nfp_socket, At
  <2>2. Types /\ Phases
    BY Zenon DEF IInv
  <2>3. Cur(t).to \in Names /\ Cur(t).kind \in Kinds /\ Cur(t).addr.fam \in Nat
    <3>1. /\ Cur(t).to \in Names \cup {""} /\ Cur(t).kind \in Kinds /\ Cur(t).addr \in Address
          /\ Cur(t).to # ""
      BY <2>1, <2>2, CurFacts, Zenon
    <3>2. Cur(t).addr.fam \in Nat
      BY <3>1, Zenon DEF Address
    <3> QED
      BY <3>1, <3>2, Zenon
  <2>4. b \in Makers
    BY <2>2, <1>Maker, Zenon
  <2> HIDE DEF n, b
  <2>5. /\ n \in Fds /\ ~sock[n].open /\ ~Kept(n)
        /\ \A srv \in Fds : \A j \in DOMAIN sock[srv].pend : sock[srv].pend[j] # n
        /\ \A j \in DOMAIN sock[n].pend : FALSE
    BY <2>1, FreeFd, Zenon DEF n
  <2>6. r \in SockRec /\ r.open /\ r.by = b /\ r.pend = <<>>
    <3>1. Free \in SockRec /\ Free.pend = <<>>
      BY FreeFacts, Zenon
    <3> QED
      BY <2>3, <2>4, <3>1, Zenon DEF SockRec
  <2> HIDE DEF r
  <2>7. sock \in [Fds -> SockRec] /\ faults \in 0..MaxFaults
    BY <2>2, Zenon DEF Types
  <2>8. /\ sock' \in [Fds -> SockRec] /\ sock'[n] = r
        /\ \A fd \in Fds : fd # n => sock'[fd] = sock[fd]
    BY <2>1, <2>5, <2>6, <2>7
  <2>9. sock'[n].open /\ sock'[n].by = b /\ sock'[n].pend = <<>>
    BY <2>6, <2>8, Zenon
  <2>10. DOMAIN sock'[n].pend = {}
    BY <2>9
  <2>11. ASSUME NEW srv \in Fds PROVE Shifted(n, srv, 0)
    <3>1. CASE srv = n
      BY <2>10, <3>1, Zenon DEF Shifted
    <3>2. CASE srv # n
      <4>1. sock'[srv].pend = sock[srv].pend
        BY <2>8, <3>2, Zenon
      <4>2. sock[srv].pend \in Seq(Fds)
        BY <2>7, SockFields, Zenon
      <4>3. \A j \in DOMAIN sock[srv].pend : j + 0 = j
        BY <4>2
      <4> QED
        BY <2>5, <4>1, <4>3, Zenon DEF Shifted
    <3> QED
      BY <3>1, <3>2, Zenon
  <2>12. ASSUME NEW srv \in Fds, NEW k \in DOMAIN sock[srv].pend
         PROVE  \E j \in DOMAIN sock'[srv].pend : sock'[srv].pend[j] = sock[srv].pend[k]
    <3>1. srv # n
      BY <2>5, Zenon
    <3>2. sock'[srv].pend = sock[srv].pend
      BY <2>8, <3>1, Zenon
    <3> QED
      BY <3>2, Zenon
  <2>13. Making(t, n)
    <3>1. \A fd \in Fds : fd # n => /\ (sock'[fd].open <=> sock[fd].open) /\ sock'[fd].by = sock[fd].by
                                    /\ sock'[fd].listening => sock[fd].listening
      BY <2>8, Zenon
    <3>2. \A srv \in Fds : \E d \in {0, 1} : Shifted(n, srv, d)
      BY <2>11, Zenon
    <3> QED
      BY <2>5, <2>9, <2>12, <3>1, <3>2, Zenon DEF Making, b
  <2>14. th' \in [DOMAIN Slot -> ThreadRec] /\ Advance(t, [th[t].env EXCEPT ![Cur(t).to] = n])
    BY <2>1, <2>2, <2>3, <2>5, <1>Stored, Zenon
  <2>15. Types'
    <3>1. suite' = suite /\ at' = at /\ faults' \in 0..MaxFaults
      BY <2>1, <2>7, Zenon DEF OnlySock
    <3> QED
      BY <2>2, <2>8, <2>14, <3>1, TypesStep, Zenon
  <2>16. Cur(t).op \in {"socket", "accept"}
    BY <2>1, Zenon
  <2> QED
    BY <2>1, <2>13, <2>14, <2>15, <2>16, <1>GainStep, Zenon
\* nfp_accept() stores the first connection that waits.
<1>AcceptStep. ASSUME IInv, NEW t \in DOMAIN Slot, nfp_accept(t)
               PROVE  IInv'
  <2> USE <1>AcceptStep
  <2> DEFINE srv0 == Fd(t)
             p0 == sock[srv0].pend
             n == Head(p0)
             b == <<suite.num, t>>
             rs == [sock[srv0] EXCEPT !.pend = Tail(p0)]
             rn == [sock[n] EXCEPT !.by = b]
  <2>1. /\ "accept" \in OnFd /\ On(t, "accept") /\ p0 # <<>> /\ OnlySock
        /\ sock' = [sock EXCEPT ![srv0].pend = Tail(@), ![n].by = b]
        /\ Pass(t, [th[t] EXCEPT !.env[Cur(t).to] = n])
    BY Zenon DEF nfp_accept, OnFd
  <2>2. /\ th[t].st = "run" /\ Cur(t).op = "accept" /\ srv0 \in Fds /\ sock \in [Fds -> SockRec]
    BY <2>1, OnFacts, Zenon
  <2>3. Types /\ Phases /\ PendInv
    BY Zenon DEF IInv
  <2>4. Cur(t).to \in Names
    <3>1. Cur(t).to \in Names \cup {""} /\ Cur(t).to # ""
      BY <2>2, <2>3, CurFacts, Zenon
    <3> QED
      BY <3>1, Zenon
  <2>5. b \in Makers
    BY <2>3, <1>Maker, Zenon
  <2>6. p0 \in Seq(Fds) /\ sock[srv0] \in SockRec
    BY <2>2, SockFields, Zenon
  <2> HIDE DEF srv0, b
  <2>7. /\ n \in Fds /\ 1 \in DOMAIN p0 /\ n = p0[1] /\ Tail(p0) \in Seq(Fds)
        /\ \A j \in DOMAIN Tail(p0) : j + 1 \in DOMAIN p0 /\ Tail(p0)[j] = p0[j + 1] /\ j + 1 # 1
        /\ \A k \in DOMAIN p0 : k = 1 \/ (k - 1 \in DOMAIN Tail(p0) /\ Tail(p0)[k - 1] = p0[k])
    <3> HIDE DEF p0
    <3> QED
      BY <2>1, <2>6
  <2>8. WaitsIn(n, srv0, 1)
    <3>1. WaitsIn(p0[1], srv0, 1)
      BY <2>2, <2>3, <2>7, Zenon DEF PendInv
    <3> QED
      BY <2>7, <3>1, Zenon
  <2>9. /\ sock[n].open /\ sock[n].pend = <<>> /\ ~Kept(n)
        /\ \A s \in Fds : \A j \in DOMAIN sock[s].pend : sock[s].pend[j] = n => s = srv0 /\ j = 1
    BY <2>8, Zenon DEF WaitsIn, Kept
  <2>10. sock[n] \in SockRec
    BY <2>2, <2>7, SockFields, Zenon
  <2>11. n # srv0
    BY <2>1, <2>9, Zenon
  <2>12. sock' = [[sock EXCEPT ![srv0] = rs] EXCEPT ![n] = rn]
    <3>1. sock' = [[sock EXCEPT ![srv0] = rs] EXCEPT ![n] = [[sock EXCEPT ![srv0] = rs][n] EXCEPT !.by = b]]
      BY <2>1, Zenon
    <3> HIDE DEF rs, n
    <3>2. [sock EXCEPT ![srv0] = rs][n] = sock[n]
      BY <2>2, <2>7, <2>11
    <3> QED
      BY <3>1, <3>2, Zenon
  <2>13. /\ rs \in SockRec /\ rs.open = sock[srv0].open /\ rs.by = sock[srv0].by
         /\ rs.listening = sock[srv0].listening /\ rs.pend = Tail(p0)
    BY <2>6, <2>7, Zenon DEF SockRec
  <2>14. /\ rn \in SockRec /\ rn.open = sock[n].open /\ rn.by = b
         /\ rn.listening = sock[n].listening /\ rn.pend = sock[n].pend
    BY <2>5, <2>10, Zenon DEF SockRec
  <2> HIDE DEF rs, rn, n, p0
  <2>15. /\ sock' \in [Fds -> SockRec] /\ sock'[n] = rn /\ sock'[srv0] = rs
         /\ \A fd \in Fds : fd # n /\ fd # srv0 => sock'[fd] = sock[fd]
    BY <2>2, <2>7, <2>11, <2>12, <2>13, <2>14
  <2>16. /\ sock'[n].open /\ sock'[n].by = b /\ sock'[n].pend = <<>>
         /\ sock'[srv0].pend = Tail(p0)
         /\ \A fd \in Fds : fd # srv0 => sock'[fd].pend = sock[fd].pend
    <3>1. sock'[n].open /\ sock'[n].by = b /\ sock'[n].pend = <<>>
      BY <2>9, <2>14, <2>15, Zenon
    <3>2. sock'[srv0].pend = Tail(p0)
      BY <2>13, <2>15, Zenon
    <3>3. ASSUME NEW fd \in Fds, fd # srv0 PROVE sock'[fd].pend = sock[fd].pend
      <4>1. CASE fd = n
        BY <2>14, <2>15, <4>1, Zenon
      <4>2. CASE fd # n
        BY <2>15, <3>3, <4>2, Zenon
      <4> QED
        BY <4>1, <4>2, Zenon
    <3> QED
      BY <3>1, <3>2, <3>3, Zenon
  <2>17. p0 = sock[srv0].pend
    BY Zenon DEF p0
  <2>18. ASSUME NEW srv \in Fds PROVE \E d \in {0, 1} : Shifted(n, srv, d)
    <3>1. CASE srv = srv0
      <4>1. \A j \in DOMAIN Tail(p0) : j + 1 \in DOMAIN p0 /\ Tail(p0)[j] = p0[j + 1] /\ Tail(p0)[j] # n
        <5> SUFFICES ASSUME NEW j \in DOMAIN Tail(p0)
                     PROVE  j + 1 \in DOMAIN p0 /\ Tail(p0)[j] = p0[j + 1] /\ Tail(p0)[j] # n
          BY Zenon
        <5>1. j + 1 \in DOMAIN p0 /\ Tail(p0)[j] = p0[j + 1] /\ j + 1 # 1
          BY <2>7, Zenon
        <5>2. p0[j + 1] # n
          BY <2>2, <2>9, <2>17, <5>1, Zenon
        <5> QED
          BY <5>1, <5>2, Zenon
      <4>2. Shifted(n, srv, 1)
        BY <2>16, <2>17, <3>1, <4>1, Zenon DEF Shifted
      <4> QED
        BY <4>2, Zenon
    <3>2. CASE srv # srv0
      <4>1. sock'[srv].pend = sock[srv].pend
        BY <2>16, <3>2, Zenon
      <4>2. sock[srv].pend \in Seq(Fds)
        BY <2>2, SockFields, Zenon
      <4>3. \A j \in DOMAIN sock[srv].pend : j + 0 = j
        BY <4>2
      <4>4. \A j \in DOMAIN sock[srv].pend : sock[srv].pend[j] # n
        BY <2>9, <3>2, Zenon
      <4>5. Shifted(n, srv, 0)
        BY <4>1, <4>3, <4>4, Zenon DEF Shifted
      <4> QED
        BY <4>5, Zenon
    <3> QED
      BY <3>1, <3>2, Zenon
  <2>19. ASSUME NEW srv \in Fds, NEW k \in DOMAIN sock[srv].pend
         PROVE  \/ sock[srv].pend[k] = n
                \/ \E j \in DOMAIN sock'[srv].pend : sock'[srv].pend[j] = sock[srv].pend[k]
    <3>1. CASE srv = srv0
      <4>1. k \in DOMAIN p0
        BY <2>17, <3>1, Zenon
      <4>2. k = 1 \/ (k - 1 \in DOMAIN Tail(p0) /\ Tail(p0)[k - 1] = p0[k])
        BY <2>7, <4>1, Zenon
      <4>3. CASE k = 1
        BY <2>7, <2>17, <3>1, <4>3, Zenon
      <4>4. CASE k - 1 \in DOMAIN Tail(p0) /\ Tail(p0)[k - 1] = p0[k]
        BY <2>16, <2>17, <3>1, <4>4, Zenon
      <4> QED
        BY <4>2, <4>3, <4>4, Zenon
    <3>2. CASE srv # srv0
      <4>1. sock'[srv].pend = sock[srv].pend
        BY <2>16, <3>2, Zenon
      <4> QED
        BY <4>1, Zenon
    <3> QED
      BY <3>1, <3>2, Zenon
  <2>20. Making(t, n)
    <3>1. ASSUME NEW fd \in Fds, fd # n
          PROVE  /\ (sock'[fd].open <=> sock[fd].open) /\ sock'[fd].by = sock[fd].by
                 /\ sock'[fd].listening => sock[fd].listening
      <4>1. CASE fd = srv0
        BY <2>13, <2>15, <4>1, Zenon
      <4>2. CASE fd # srv0
        BY <2>15, <3>1, <4>2, Zenon
      <4> QED
        BY <4>1, <4>2, Zenon
    <3> QED
      BY <2>7, <2>9, <2>16, <2>18, <2>19, <3>1, Zenon DEF Making, b
  <2>21. th' \in [DOMAIN Slot -> ThreadRec] /\ Advance(t, [th[t].env EXCEPT ![Cur(t).to] = n])
    BY <2>1, <2>3, <2>4, <2>7, <1>Stored, Zenon
  <2>22. Types'
    <3>1. suite' = suite /\ at' = at /\ faults' \in 0..MaxFaults
      BY <2>1, <2>3, Zenon DEF OnlySock, Types
    <3> QED
      BY <2>3, <2>15, <2>21, <3>1, TypesStep, Zenon
  <2>23. Cur(t).op \in {"socket", "accept"}
    BY <2>2, Zenon
  <2> QED
    BY <2>1, <2>2, <2>20, <2>21, <2>22, <2>23, <1>GainStep, Zenon
<1>1. ASSUME IInv, NEW t \in DOMAIN Slot, nfp_socket(t) \/ nfp_accept(t)
      PROVE  IInv'
  <2> USE <1>1
  <2> QED
    BY <1>SocketStep, <1>AcceptStep, Zenon
<1> QED
  BY <1>1, Zenon

-----------------------------------------------------------------------------
(* The call that makes a connection.                                       *)

\* The socket n is made and waits in srv; nobody gains a descriptor.
Connecting(srv, n) ==
  /\ suite' = suite /\ srv \in Fds /\ n \in Fds
  /\ sock[srv].open /\ sock[srv].listening /\ ~sock[n].open
  /\ \A u \in DOMAIN Slot :
       /\ th'[u].env = th[u].env /\ Mine(u)' \subseteq Mine(u)
       /\ Mine(u)' = Mine(u) \/ Suites[suite.num][Slot[u]] \in Leaky
  /\ sock'[n].open /\ sock'[n].by = sock[srv].by /\ sock'[n].pend = <<>>
  /\ ~sock'[n].listening
  /\ sock'[srv].pend = Append(sock[srv].pend, n)
  /\ \A fd \in Fds : fd # n =>
       /\ (sock'[fd].open <=> sock[fd].open) /\ sock'[fd].by = sock[fd].by
       /\ sock'[fd].listening => sock[fd].listening
       /\ fd # srv => sock'[fd].pend = sock[fd].pend

\* Thread t connects to srv: a free socket n becomes the other end.
LinkedTo(t, srv, n, a, v) ==
  /\ On(t, "connect") /\ OnlySock /\ Pass(t, th[t])
  /\ FreeFds(sock) # {} /\ n = Some(FreeFds(sock))
  /\ sock[srv].open /\ sock[srv].listening
  /\ Linked(sock', sock, Fd(t), srv, n, a, v,
            [Free EXCEPT !.open = TRUE, !.fam = a.fam, !.kind = "stream",
                         !.by = sock[srv].by, !.dest = a, !.peer = Fd(t)])

\* A connection is made: the socket at its other end waits in the server.
LEMMA Connected ==
  \A t \in DOMAIN Slot : \A n : \A srv \in Fds : \A a \in Address : \A v \in Seq(Nat) :
    IInv /\ LinkedTo(t, srv, n, a, v) => IInv'
\* A connection takes no descriptor from its owner.
<1>ConnectOwn. ASSUME Types, OwnInv, NEW srv, NEW n, Connecting(srv, n)
               PROVE  OwnInv'
  <2> USE <1>ConnectOwn
  <2> SUFFICES ASSUME NEW u \in DOMAIN Slot, NEW x \in Mine(u)', th'[u].env[x] # 0
               PROVE  Owns(u, x, th[u].env[x])'
    BY Zenon DEF OwnInv
  <2> DEFINE fd == th[u].env[x]
  <2>1. th'[u].env = th[u].env /\ Mine(u)' \subseteq Mine(u) /\ suite' = suite
    BY Zenon DEF Connecting
  <2>2. x \in Mine(u) /\ fd # 0
    BY <2>1, Zenon
  <2>3. Owns(u, x, fd)
    BY <2>2, OwnAt, Zenon
  <2>4. fd \in Fds
    BY <2>2, MineNames, Zenon
  <2>5. th'[u].env[x] = fd
    BY <2>1, Zenon
  <2> HIDE DEF fd
  <2>6. sock[fd].open /\ ~sock[n].open
    BY <2>3, Zenon DEF Owns, Connecting
  <2>7. (sock'[fd].open <=> sock[fd].open) /\ sock'[fd].by = sock[fd].by
    BY <2>4, <2>6, Zenon DEF Connecting
  <2>8. \A y \in Mine(u)' : th'[u].env[y] = fd => y = x
    BY <2>1, <2>3, Zenon DEF Owns
  <2> QED
    BY <2>1, <2>3, <2>5, <2>7, <2>8, Zenon DEF Owns
\* A new connection waits in one socket, once.
<1>ConnectPend. ASSUME Types, OwnInv, PendInv, NEW srv, NEW n, Connecting(srv, n)
                PROVE  PendInv'
  <2> USE <1>ConnectPend
  <2>1. srv \in Fds /\ n \in Fds /\ ~sock[n].open /\ n # srv
    BY Zenon DEF Connecting
  <2>2. sock[srv].pend \in Seq(Fds)
    BY <2>1, SockFields, Zenon DEF Types
  <2> DEFINE L == Len(sock[srv].pend)
  <2>3. /\ L \in Nat /\ DOMAIN sock'[srv].pend = 1..(L + 1) /\ DOMAIN sock[srv].pend = 1..L
        /\ sock'[srv].pend[L + 1] = n
        /\ \A j \in 1..L : sock'[srv].pend[j] = sock[srv].pend[j]
    BY <2>2 DEF Connecting
  <2> HIDE DEF L
  <2>4. \A s \in Fds : \A j \in DOMAIN sock[s].pend : sock[s].pend[j] \in Fds
    <3> SUFFICES ASSUME NEW s \in Fds, NEW j \in DOMAIN sock[s].pend PROVE sock[s].pend[j] \in Fds
      BY Zenon
    <3>1. sock[s].pend \in Seq(Fds)
      BY SockFields, Zenon DEF Types
    <3> QED
      BY <3>1
  <2>5. ASSUME NEW s \in Fds, NEW j \in DOMAIN sock'[s].pend
        PROVE  \/ j \in DOMAIN sock[s].pend /\ sock'[s].pend[j] = sock[s].pend[j]
               \/ s = srv /\ j = L + 1 /\ sock'[s].pend[j] = n
    <3>1. CASE s = srv
      <4>1. j \in 1..(L + 1)
        BY <2>3, <3>1, Zenon
      <4>2. j \in 1..L \/ j = L + 1
        BY <2>3, <4>1
      <4> QED
        BY <2>3, <3>1, <4>2, Zenon
    <3>2. CASE s = n
      <4>1. sock'[s].pend = <<>>
        BY <3>2, Zenon DEF Connecting
      <4> QED
        BY <4>1
    <3>3. CASE s # srv /\ s # n
      BY <3>3, Zenon DEF Connecting
    <3> QED
      BY <3>1, <3>2, <3>3, Zenon
  <2>6. \A s \in Fds : \A j \in DOMAIN sock[s].pend : sock[s].pend[j] # n
    <3> SUFFICES ASSUME NEW s \in Fds, NEW j \in DOMAIN sock[s].pend
                 PROVE  sock[s].pend[j] # n
      BY Zenon
    <3>1. WaitsIn(sock[s].pend[j], s, j)
      BY Zenon DEF PendInv
    <3>2. sock[sock[s].pend[j]].open
      BY <3>1, Zenon DEF WaitsIn
    <3> QED
      BY <2>1, <3>2, Z3
  <2> SUFFICES ASSUME NEW s \in Fds, NEW i \in DOMAIN sock'[s].pend
               PROVE  WaitsIn(sock[s].pend[i], s, i)'
    BY Zenon DEF PendInv
  <2>7. CASE i \in DOMAIN sock[s].pend /\ sock'[s].pend[i] = sock[s].pend[i]
    <3> DEFINE fd == sock[s].pend[i]
    <3>1. WaitsIn(fd, s, i) /\ fd \in Fds /\ fd # n
      BY <2>4, <2>6, <2>7, Zenon DEF PendInv
    <3>2. sock'[s].pend[i] = fd
      BY <2>7, Zenon
    <3> HIDE DEF fd
    <3>3. /\ sock[s].open /\ sock[fd].open /\ sock[fd].by = sock[s].by
          /\ sock[fd].pend = <<>> /\ ~sock[fd].listening
      BY <3>1, Zenon DEF WaitsIn
    <3>4. s # n /\ fd # srv
      BY <2>1, <3>3, Zenon DEF Connecting
    <3>5. /\ (sock'[s].open <=> sock[s].open) /\ sock'[s].by = sock[s].by
      BY <3>4, Zenon DEF Connecting
    <3>6. /\ (sock'[fd].open <=> sock[fd].open) /\ sock'[fd].by = sock[fd].by
          /\ sock'[fd].listening => sock[fd].listening
          /\ sock'[fd].pend = sock[fd].pend
      BY <3>1, <3>4, Zenon DEF Connecting
    <3>7. \A u \in DOMAIN Slot : \A x \in Mine(u)' : th'[u].env[x] # fd
      <4>1. \A u \in DOMAIN Slot : \A x \in Mine(u) : th[u].env[x] # fd
        BY <3>1, Zenon DEF WaitsIn
      <4>2. \A u \in DOMAIN Slot : Mine(u)' \subseteq Mine(u) /\ th'[u].env = th[u].env
        BY Zenon DEF Connecting
      <4> SUFFICES ASSUME NEW u \in DOMAIN Slot, NEW x \in Mine(u)' PROVE th'[u].env[x] # fd
        BY Zenon
      <4>3. x \in Mine(u) /\ th'[u].env[x] = th[u].env[x]
        BY <4>2, Zenon
      <4>4. th[u].env[x] # fd
        BY <4>1, <4>3, Zenon
      <4> QED
        BY <4>3, <4>4, Z3
    <3>8. \A s2 \in Fds : \A j \in DOMAIN sock'[s2].pend : sock'[s2].pend[j] = fd => s2 = s /\ j = i
      BY <2>5, <3>1, Zenon DEF WaitsIn
    <3> QED
      BY <3>2, <3>3, <3>5, <3>6, <3>7, <3>8, Zenon DEF WaitsIn
  <2>8. CASE s = srv /\ i = L + 1 /\ sock'[s].pend[i] = n
    <3>1. /\ sock'[srv].open /\ sock'[srv].by = sock[srv].by
      BY <2>1, Zenon DEF Connecting
    <3>2. /\ sock'[n].open /\ sock'[n].by = sock[srv].by /\ sock'[n].pend = <<>>
          /\ ~sock'[n].listening
      BY Zenon DEF Connecting
    <3>3. \A u \in DOMAIN Slot : \A x \in Mine(u)' : th'[u].env[x] # n
      <4> SUFFICES ASSUME NEW u \in DOMAIN Slot, NEW x \in Mine(u)', th'[u].env[x] = n PROVE FALSE
        BY Zenon
      <4>1. x \in Mine(u) /\ th[u].env[x] = n
        BY Zenon DEF Connecting
      <4>2. n # 0
        BY <2>1, FreeFacts, Zenon
      <4>3. sock[th[u].env[x]].open
        BY <4>1, <4>2, OwnAt, Z3 DEF Owns
      <4>4. sock[n].open
        BY <4>1, <4>3, Z3
      <4> QED
        BY <2>1, <4>4, Zenon
    <3>4. \A s2 \in Fds : \A j \in DOMAIN sock'[s2].pend : sock'[s2].pend[j] = n => s2 = s /\ j = i
      <4> SUFFICES ASSUME NEW s2 \in Fds, NEW j \in DOMAIN sock'[s2].pend, sock'[s2].pend[j] = n
                   PROVE  s2 = s /\ j = i
        BY Zenon
      <4>1. CASE j \in DOMAIN sock[s2].pend /\ sock'[s2].pend[j] = sock[s2].pend[j]
        <5>1. sock[s2].pend[j] # n
          BY <2>6, <4>1, Zenon
        <5> QED
          BY <4>1, <5>1, Z3
      <4>2. CASE s2 = srv /\ j = L + 1 /\ sock'[s2].pend[j] = n
        BY <2>8, <4>2, Zenon
      <4> QED
        BY <2>5, <4>1, <4>2, Z3
    <3> QED
      BY <2>8, <3>1, <3>2, <3>3, <3>4, Zenon DEF WaitsIn
  <2> QED
    BY <2>5, <2>7, <2>8, Zenon
\* The open sockets after a connection: the new one waits.
<1>ConnectOpen. ASSUME Types, OwnInv, PendInv, OpenInv, NEW srv, NEW n, Connecting(srv, n)
                PROVE  OpenInv'
  <2> USE <1>ConnectOpen
  <2> SUFFICES ASSUME NEW fd \in Fds, sock'[fd].open
               PROVE  /\ sock'[fd].by \in (DOMAIN Suites) \X (DOMAIN Slot)
                      /\ \/ Suites[sock'[fd].by[1]][Slot[sock'[fd].by[2]]] \in Leaky
                         \/ \E u \in DOMAIN Slot : \E x \in Mine(u)' : th'[u].env[x] = fd
                         \/ Waits(fd)'
    BY Zenon DEF OpenInv
  <2>1. srv \in Fds /\ sock[srv].open /\ sock'[srv].pend = Append(sock[srv].pend, n)
    BY Zenon DEF Connecting
  <2>2. sock[srv].pend \in Seq(Fds)
    BY <2>1, SockFields, Zenon DEF Types
  <2> DEFINE L == Len(sock[srv].pend)
  <2>3. /\ L + 1 \in DOMAIN sock'[srv].pend /\ sock'[srv].pend[L + 1] = n
        /\ \A j \in DOMAIN sock[srv].pend :
             j \in DOMAIN sock'[srv].pend /\ sock'[srv].pend[j] = sock[srv].pend[j]
    BY <2>1, <2>2
  <2> HIDE DEF L
  <2>4. CASE fd = n
    <3>1. sock'[fd].by = sock[srv].by
      BY <2>4, Zenon DEF Connecting
    <3>2. sock[srv].by \in (DOMAIN Suites) \X (DOMAIN Slot)
      BY <2>1, Zenon DEF OpenInv
    <3>3. Waits(fd)'
      BY <2>1, <2>3, <2>4, Zenon DEF Waits
    <3> QED
      BY <3>1, <3>2, <3>3, Zenon
  <2>5. CASE fd # n
    <3>1. sock[fd].open /\ sock'[fd].by = sock[fd].by
      BY <2>5, Zenon DEF Connecting
    <3>2. sock[fd].by \in (DOMAIN Suites) \X (DOMAIN Slot)
      BY <3>1, Zenon DEF OpenInv
    <3>3. CASE Suites[sock[fd].by[1]][Slot[sock[fd].by[2]]] \in Leaky
      BY <3>1, <3>2, <3>3, Zenon
    <3>4. CASE \E u \in DOMAIN Slot : \E x \in Mine(u) : th[u].env[x] = fd
      <4>1. PICK u \in DOMAIN Slot : \E x \in Mine(u) : th[u].env[x] = fd
        BY <3>4, Zenon
      <4>2. PICK x \in Mine(u) : th[u].env[x] = fd
        BY <4>1, Zenon
      <4>3. CASE Mine(u)' = Mine(u)
        <5>1. x \in Mine(u)' /\ th'[u].env[x] = fd
          BY <4>2, <4>3, Zenon DEF Connecting
        <5> QED
          BY <3>1, <3>2, <5>1, Zenon
      <4>4. CASE Suites[suite.num][Slot[u]] \in Leaky
        <5>1. fd # 0
          BY FreeFacts, Zenon
        <5>2. sock[fd].by = <<suite.num, u>>
          BY <4>2, <5>1, Zenon DEF OwnInv, Owns
        <5>3. sock[fd].by[1] = suite.num /\ sock[fd].by[2] = u
          BY <5>2
        <5> QED
          BY <3>1, <3>2, <4>4, <5>3, Zenon
      <4> QED
        BY <4>3, <4>4, Zenon DEF Connecting
    <3>5. CASE Waits(fd)
      <4>1. PICK s \in Fds : \E k \in DOMAIN sock[s].pend : sock[s].pend[k] = fd
        BY <3>5, Zenon DEF Waits
      <4>2. PICK k \in DOMAIN sock[s].pend : sock[s].pend[k] = fd
        BY <4>1, Zenon
      <4>3. CASE s = srv
        <5>1. k \in DOMAIN sock'[s].pend /\ sock'[s].pend[k] = fd
          BY <2>3, <4>2, <4>3, Zenon
        <5>2. Waits(fd)'
          BY <5>1, Zenon DEF Waits
        <5> QED
          BY <3>1, <3>2, <5>2, Zenon
      <4>4. CASE s # srv
        <5>1. s # n
          BY <4>2, Zenon DEF Connecting, PendInv, WaitsIn
        <5>2. sock'[s].pend = sock[s].pend
          BY <4>4, <5>1, Zenon DEF Connecting
        <5>3. Waits(fd)'
          BY <4>2, <5>2, Zenon DEF Waits
        <5> QED
          BY <3>1, <3>2, <5>3, Zenon
      <4> QED
        BY <4>3, <4>4, Zenon
    <3> QED
      BY <3>1, <3>3, <3>4, <3>5, Zenon DEF OpenInv
  <2> QED
    BY <2>4, <2>5, Zenon
<1>1. ASSUME NEW t \in DOMAIN Slot, NEW n, NEW srv \in Fds, NEW a \in Address, NEW v \in Seq(Nat),
             IInv, LinkedTo(t, srv, n, a, v)
      PROVE  IInv'
  <2> USE <1>1
  <2> USE DEF LinkedTo
  <2> DEFINE c == Fd(t)
             b == sock[srv].by
             rc == [sock[c] EXCEPT !.dest = a, !.peer = n]
             rn == [Free EXCEPT !.open = TRUE, !.fam = a.fam, !.kind = "stream", !.by = b,
                                !.dest = a, !.peer = c]
  <2>1. "connect" \in OnFd
    BY Zenon DEF OnFd
  <2>2. /\ th[t].st = "run" /\ Cur(t).op = "connect" /\ c \in Fds /\ sock[c].open
        /\ sock \in [Fds -> SockRec] /\ th[t] \in ThreadRec
    BY <2>1, OnFacts, Zenon
  <2>3. Types /\ Phases /\ OwnInv /\ UnsetInv /\ PendInv /\ OpenInv /\ ListInv
    BY Zenon DEF IInv
  <2>4. n \in Fds /\ ~sock[n].open
    BY FreeFd, Zenon
  <2>5. n # c /\ n # srv
    BY <2>2, <2>4, Zenon
  <2>0. LinkedBy(sock', sock, c, srv, n, a, v, rn)
    <3>1. Linked(sock', sock, c, srv, n, a, v, rn)
      BY Zenon
    <3> HIDE DEF c, rn
    <3> QED
      BY <3>1, LinkSteps, Zenon
  <2> HIDE DEF rn
  <2>6. PICK s1 :
          /\ s1 = [sock EXCEPT ![c] = rc]
          /\ sock' = [[s1 EXCEPT ![srv] = [s1[srv] EXCEPT !.pend = Append(s1[srv].pend, n), !.ev = v]]
                        EXCEPT ![n] = rn]
    BY <2>0, Zenon DEF LinkedBy
  <2> DEFINE rs == [s1[srv] EXCEPT !.pend = Append(s1[srv].pend, n), !.ev = v]
  <2>7. Same(sock, s1)
    <3>1. sock[c] \in SockRec
      BY <2>2, SockFields, Zenon
    <3>2. n \in Fds \cup {0}
      BY <2>4, Zenon
    <3>3. /\ rc \in SockRec /\ (rc.open <=> sock[c].open) /\ rc.by = sock[c].by
          /\ rc.pend = sock[c].pend /\ (rc.listening => sock[c].listening)
      BY <3>1, <3>2, Zenon DEF SockRec
    <3> HIDE DEF rc
    <3>4. Same(sock, [sock EXCEPT ![c] = rc])
      BY <2>2, <3>3, Update, Zenon
    <3> QED
      BY <2>6, <3>4, Zenon
  <2>8. s1 \in [Fds -> SockRec] /\ s1[srv] \in SockRec /\ s1[srv].pend \in Seq(Fds)
    <3>1. s1 \in [Fds -> SockRec]
      BY <2>7, Zenon DEF Same
    <3> QED
      BY <3>1, SockFields, Zenon
  <2>9. \A fd \in Fds : /\ (s1[fd].open <=> sock[fd].open) /\ s1[fd].by = sock[fd].by
                        /\ s1[fd].pend = sock[fd].pend
                        /\ s1[fd].listening => sock[fd].listening
    <3>1. \A fd : fd \notin {}
      OBVIOUS
    <3> QED
      BY <2>7, <3>1, Zenon DEF Same, Books
  <2> HIDE DEF rc, c
  <2>10. Append(s1[srv].pend, n) \in Seq(Fds)
    BY <2>4, <2>8
  <2>11. /\ rs \in SockRec /\ rs.open = s1[srv].open /\ rs.by = s1[srv].by
         /\ rs.listening = s1[srv].listening /\ rs.pend = Append(s1[srv].pend, n)
    BY <2>8, <2>10, Zenon DEF SockRec
  <2>12. /\ rn \in SockRec /\ rn.open /\ rn.by = b /\ rn.pend = <<>> /\ ~rn.listening
    <3>1. Free \in SockRec /\ Free.pend = <<>> /\ ~Free.listening
      BY FreeFacts, Zenon
    <3>2. b \in Makers /\ a.fam \in Nat /\ "stream" \in Kinds /\ c \in Fds \cup {0}
      <4>1. b \in Makers
        BY <2>2, SockFields, Zenon
      <4>2. a.fam \in Nat
        BY Zenon DEF Address
      <4>3. "stream" \in Kinds
        BY Zenon DEF Kinds
      <4> QED
        BY <2>2, <4>1, <4>2, <4>3, Zenon
    <3> HIDE DEF b
    <3> QED
      BY <3>1, <3>2, Zenon DEF SockRec, rn
  <2>22. sock' = [[s1 EXCEPT ![srv] = rs] EXCEPT ![n] = rn]
    BY <2>6, Zenon
  <2> HIDE DEF rs
  <2>13. /\ sock' \in [Fds -> SockRec] /\ sock'[n] = rn /\ sock'[srv] = rs
         /\ \A fd \in Fds : fd # n /\ fd # srv => sock'[fd] = s1[fd]
    <3>1. rs \in SockRec /\ rn \in SockRec /\ s1 \in [Fds -> SockRec]
      BY <2>8, <2>11, <2>12, Zenon
    <3> QED
      BY <2>4, <2>5, <2>22, <3>1
  <2>14. th' \in [DOMAIN Slot -> ThreadRec] /\ Advance(t, th[t].env)
    BY <2>2, <2>3, PassFacts, Zenon
  <2>15. suite' = suite /\ at' = at /\ lists' = lists /\ faults' \in 0..MaxFaults
    BY <2>3, Zenon DEF OnlySock, Types
  <2>16. Types'
    BY <2>3, <2>13, <2>14, <2>15, TypesStep, Zenon
  <2>17. Connecting(srv, n)
    <3>1. sock'[n].open /\ sock'[n].by = sock[srv].by /\ sock'[n].pend = <<>> /\ ~sock'[n].listening
      BY <2>12, <2>13, Zenon
    <3>2. sock'[srv].pend = Append(sock[srv].pend, n)
      BY <2>9, <2>11, <2>13, Zenon
    <3>3. ASSUME NEW fd \in Fds, fd # n
          PROVE  /\ (sock'[fd].open <=> sock[fd].open) /\ sock'[fd].by = sock[fd].by
                 /\ sock'[fd].listening => sock[fd].listening
                 /\ fd # srv => sock'[fd].pend = sock[fd].pend
      <4>1. CASE fd = srv
        BY <2>9, <2>11, <2>13, <4>1, Zenon
      <4>2. CASE fd # srv
        BY <2>9, <2>13, <3>3, <4>2, Zenon
      <4> QED
        BY <4>1, <4>2, Zenon
    <3>4. ASSUME NEW u \in DOMAIN Slot
          PROVE  /\ th'[u].env = th[u].env /\ Mine(u)' \subseteq Mine(u)
                 /\ Mine(u)' = Mine(u) \/ Suites[suite.num][Slot[u]] \in Leaky
      <4>1. th'[u].env = th[u].env
        BY <2>14, Zenon DEF Advance, Others
      <4>2. CASE u # t
        <5>1. Mine(u)' = Mine(u)
          BY <2>2, <2>3, <2>14, <2>15, <4>2, MineAdvance, Zenon
        <5> QED
          BY <4>1, <5>1, Zenon
      <4>3. CASE u = t
        <5> DEFINE p == Prog(t)
                   i == th[t].ip
        <5>1. /\ Mine(t) = Held(p, i) /\ Mine(t)' \subseteq Held(p, i + 1)
              /\ Mine(t)' = Held(p, i + 1) \/ p \in Leaky
          BY <2>2, <2>3, <2>14, <2>15, MineAdvance, Zenon
        <5>2. /\ i \in DOMAIN p /\ p \in Seq(Instr) /\ Orderly(p) /\ Cur(t) = p[i]
              /\ p = Suites[suite.num][Slot[t]] /\ Cur(t).to = ""
          <6>1. Cur(t).op = "connect"
            BY <2>2, Zenon
          <6>2. Cur(t).op \notin {"socket", "accept"}
            BY <6>1, Zenon
          <6> QED
            BY <2>2, <2>3, <6>2, CurFacts, ProgFacts, Zenon
        <5> HIDE DEF p, i
        <5>3. p[i].to = "" /\ p[i].op # "close"
          BY <2>2, <5>2
        <5>4. Held(p, i + 1) = Held(p, i)
          BY <5>2, <5>3, HeldNext, Zenon
        <5>5. Mine(t)' \subseteq Mine(t) /\ (Mine(t)' = Mine(t) \/ Suites[suite.num][Slot[t]] \in Leaky)
          BY <5>1, <5>2, <5>4, Zenon
        <5> QED
          BY <4>1, <4>3, <5>5, Zenon
      <4> QED
        BY <4>2, <4>3, Zenon
    <3> QED
      BY <2>4, <2>15, <3>1, <3>2, <3>3, <3>4, Zenon DEF Connecting
  <2>18. OwnInv' /\ PendInv' /\ OpenInv'
    BY <2>3, <2>17, <1>ConnectOwn, <1>ConnectPend, <1>ConnectOpen, Zenon
  <2>19. UnsetInv'
    BY <2>2, <2>3, <2>14, <2>15, UnsetAdvance, Zenon
  <2>20. Phases'
    BY <2>2, <2>3, <2>14, <2>15, PhasesStep, Zenon
  <2>21. ListInv'
    <3>1. Cur(t).op \notin {"getaddrinfo", "freeaddrinfo"}
      BY <2>2
    <3>2. lists' = lists + Handed(t) - Frees(t)
      BY <2>3, <2>15, <3>1, NothingHanded, Zenon
    <3> QED
      BY <2>2, <2>3, <2>14, <2>15, <3>2, ListsAdvance, Zenon
  <2> QED
    BY <2>16, <2>18, <2>19, <2>20, <2>21, Zenon DEF IInv
<1> QED
  BY <1>1, Zenon

-----------------------------------------------------------------------------
(* The calls that close, and those that fail.                              *)

\* What the error path closes.
UndoFds(t) == {th[t].env[n] : n \in Range(Cur(t).undo)}

\* The names whose descriptors a failing call of t closes, and those that a
\* call closes that does not make the test return.
Closes(t) == IF Cur(t).op = "close" THEN {Cur(t).fd} ELSE {}

Undoes(t) == IF Cur(t).op = "close" THEN {Cur(t).fd} ELSE Range(Cur(t).undo)

\* A call that fails makes its thread return, or is ignored.
LEMMA FailFacts ==
  ASSUME Types, Phases, NEW t \in DOMAIN Slot, th[t].st = "run",
         NEW r \in ThreadRec, r.ip = th[t].ip, r.env = th[t].env,
         NEW s \in [Fds -> SockRec], Fail(t, r, s)
  PROVE  /\ th' \in [DOMAIN Slot -> ThreadRec] /\ sock' \in [Fds -> SockRec]
         /\ \/ Cur(t).must /\ Return(t) /\ Books(s, sock', Dead(s, UndoFds(t)))
            \/ ~Cur(t).must /\ Advance(t, th[t].env) /\ sock' = s
         /\ \A fd \in Fds : sock'[fd].listening => s[fd].listening
<1>1. CASE Cur(t).must
  <2> DEFINE r1 == [r EXCEPT !.st = "done", !.ret = Cur(t).ret]
  <2>1. th' = [th EXCEPT ![t] = r1] /\ sock' = Closed(s, UndoFds(t))
    BY <1>1, Zenon DEF Fail, UndoFds
  <2>2. Cur(t).ret \in {-1, 0}
    BY CurFacts, Zenon
  <2>3. r1 \in ThreadRec /\ r1.ip = th[t].ip /\ r1.env = th[t].env /\ r1.st = "done"
    BY <2>2, Zenon DEF ThreadRec
  <2>4. th \in [DOMAIN Slot -> ThreadRec]
    BY Zenon DEF Types
  <2> HIDE DEF r1
  <2>5. th' \in [DOMAIN Slot -> ThreadRec] /\ th'[t] = r1 /\ Others(t)
    BY <2>1, <2>3, <2>4 DEF Others
  <2>6. /\ sock' \in [Fds -> SockRec] /\ Books(s, sock', Dead(s, UndoFds(t)))
        /\ \A fd \in Fds : sock'[fd].listening => s[fd].listening
    BY <2>1, ClosedFacts, Zenon
  <2> QED
    BY <1>1, <2>3, <2>5, <2>6, Zenon DEF Return
<1>2. CASE ~Cur(t).must
  <2>1. Pass(t, r) /\ sock' = s
    BY <1>2, Zenon DEF Fail
  <2>2. th' \in [DOMAIN Slot -> ThreadRec] /\ Advance(t, r.env)
    BY <2>1, PassFacts, Zenon
  <2> QED
    BY <1>2, <2>1, <2>2, Zenon
<1> QED
  BY <1>1, <1>2, Zenon

\* A step of t to its next call keeps the invariant, as long as it makes no
\* descriptor.
LEMMA GoOn ==
  \A t \in DOMAIN Slot :
    IInv /\ Types' /\ th[t].st = "run" /\ suite' = suite /\ at' = at /\ Advance(t, th[t].env) /\
    (Cur(t).to = "" \/ ~Cur(t).must) /\
    Books(sock, sock', Dead(sock, {th[t].env[x] : x \in Closes(t)})) /\ Hearing /\
    lists' = lists + Handed(t) - Frees(t) =>
      IInv'
\* A call of t that makes no descriptor closes at most what it names.
<1>AdvanceCloses. ASSUME Types, Phases, UnsetInv, NEW t \in DOMAIN Slot, th[t].st = "run", suite' = suite,
                         Advance(t, th[t].env), Cur(t).to = "" \/ ~Cur(t).must,
                         Books(sock, sock', Dead(sock, {th[t].env[x] : x \in Closes(t)})), Hearing
                  PROVE  Closing(t, Closes(t))
  <2> USE <1>AdvanceCloses
  <2> DEFINE p == Prog(t)
             i == th[t].ip
  <2>1. p \in Seq(Instr) /\ i \in DOMAIN p /\ Orderly(p) /\ Cur(t) = p[i]
    BY CurFacts, ProgFacts, Zenon
  <2>2. Cur(t).to \in Names \cup {""} /\ (Cur(t).to # "" => Cur(t).op # "close")
    BY CurFacts
  <2>3. /\ \A u \in DOMAIN Slot : u # t => Mine(u)' = Mine(u)
        /\ Mine(t) = Held(p, i)
        /\ Mine(t)' \subseteq Held(p, i + 1)
        /\ Mine(t)' = Held(p, i + 1) \/ p \in Leaky
    BY MineAdvance, Zenon
  <2>5. p = Suites[suite.num][Slot[t]]
    BY ProgFacts, Zenon
  <2> HIDE DEF p, i
  <2>4. ASSUME p[i].to # "" PROVE th[t].env[p[i].to] = 0
    <3>1. ~p[i].must
      BY <2>1, <2>4, Zenon
    <3>2. p[i].to # "fd"
      BY <2>1, <3>1, OrderlyAt, Zenon
    <3>3. p[i].to \notin Filled(p, i)
      BY <2>1, <2>4, HeldNext, Zenon
    <3>4. Live(t)
      BY Zenon DEF Live
    <3>5. p[i].to \in Names \ Filled(Prog(t), th[t].ip)
      BY <2>1, <2>2, <2>4, <3>3, Zenon DEF p, i
    <3> QED
      BY <3>2, <3>4, <3>5, Zenon DEF UnsetInv
  <2>6. /\ Closes(t) \subseteq Held(p, i)
        /\ \A x \in Held(p, i + 1) : (x \in Held(p, i) /\ x \notin Closes(t)) \/ th[t].env[x] = 0
        /\ \A x \in Held(p, i) : x \in Held(p, i + 1) \/ x \in Closes(t)
    <3>1. CASE p[i].to = "" /\ p[i].op # "close"
      <4>1. Held(p, i + 1) = Held(p, i)
        BY <2>1, <3>1, HeldNext, Zenon
      <4>2. Closes(t) = {}
        BY <2>1, <3>1, Zenon DEF Closes
      <4> QED
        BY <4>1, <4>2, Zenon
    <3>2. CASE p[i].op = "close"
      <4>1. Held(p, i + 1) = Held(p, i) \ {p[i].fd} /\ p[i].fd \in Held(p, i)
        BY <2>1, <3>2, HeldNext, Zenon
      <4>2. Closes(t) = {p[i].fd}
        BY <2>1, <3>2, Zenon DEF Closes
      <4> QED
        BY <4>1, <4>2, Zenon
    <3>3. CASE p[i].to # "" /\ p[i].op # "close"
      <4>1. Held(p, i + 1) = Held(p, i) \cup {p[i].to}
        BY <2>1, <3>3, HeldNext, Zenon
      <4>2. Closes(t) = {}
        BY <2>1, <3>3, Zenon DEF Closes
      <4>3. th[t].env[p[i].to] = 0
        BY <2>1, <2>4, <3>3, Zenon
      <4> QED
        BY <4>1, <4>2, <4>3, Zenon
    <3> QED
      BY <3>1, <3>2, <3>3, Zenon
  <2>7. \A u \in DOMAIN Slot : th'[u].env = th[u].env
    BY Zenon DEF Advance, Others
  <2>8. \A u \in DOMAIN Slot : \A x \in Mine(u)' :
          \/ th'[u].env[x] = 0
          \/ x \in Mine(u) /\ th'[u].env[x] = th[u].env[x] /\ ~(u = t /\ x \in Closes(t))
    BY <2>3, <2>6, <2>7, Zenon
  <2>9. \A u \in DOMAIN Slot : \A x \in Mine(u) :
          \/ x \in Mine(u)' /\ th'[u].env[x] = th[u].env[x]
          \/ th[u].env[x] = 0
          \/ u = t /\ x \in Closes(t)
          \/ Suites[suite.num][Slot[u]] \in Leaky
    BY <2>3, <2>5, <2>6, <2>7, Zenon
  <2>10. suite'.num = suite.num
    BY Zenon
  <2> QED
    BY <2>3, <2>6, <2>8, <2>9, <2>10, Zenon DEF Closing
<1>1. ASSUME IInv, Types', NEW t \in DOMAIN Slot, th[t].st = "run", suite' = suite, at' = at,
             Advance(t, th[t].env), Cur(t).to = "" \/ ~Cur(t).must,
             Books(sock, sock', Dead(sock, {th[t].env[x] : x \in Closes(t)})), Hearing,
             lists' = lists + Handed(t) - Frees(t)
      PROVE  IInv'
  <2> USE <1>1
  <2>1. Types /\ Phases /\ OwnInv /\ UnsetInv /\ PendInv /\ OpenInv /\ ListInv
    BY Zenon DEF IInv
  <2>2. Closing(t, Closes(t))
    BY <2>1, <1>AdvanceCloses, Zenon
  <2>3. OwnInv' /\ PendInv' /\ OpenInv'
    BY <2>1, <2>2, ClosingStep, Zenon
  <2>4. UnsetInv'
    BY <2>1, UnsetAdvance, Zenon
  <2>5. Phases'
    BY <2>1, PhasesStep, Zenon
  <2>6. ListInv'
    BY <2>1, ListsAdvance, Zenon
  <2> QED
    BY <2>3, <2>4, <2>5, <2>6, Zenon DEF IInv
<1> QED
  BY <1>1, Zenon

\* So does a call that makes the test return.
LEMMA GiveUp ==
  \A t \in DOMAIN Slot :
    IInv /\ Types' /\ th[t].st = "run" /\ suite' = suite /\ at' = at /\ Return(t) /\ Cur(t).must /\
    Cur(t).op \notin {"terminate", "freeaddrinfo"} /\
    Books(sock, sock', Dead(sock, {th[t].env[x] : x \in Undoes(t)})) /\ Hearing /\
    lists' = lists =>
      IInv'
\* What the threads hold once t has returned from its test.
<1>MineReturn. ASSUME Types, Phases, NEW t \in DOMAIN Slot, th[t].st = "run", suite' = suite,
                      Return(t), Cur(t).must, Cur(t).op \notin {"terminate", "freeaddrinfo"}
               PROVE  /\ \A u \in DOMAIN Slot : u # t => Mine(u)' = Mine(u)
                      /\ Undoes(t) \subseteq Mine(t)
                      /\ \A x \in Mine(t)' : x \in Mine(t) /\ x \notin Undoes(t)
                      /\ \A x \in Mine(t) : x \in Mine(t)' \/ x \in Undoes(t) \/ Prog(t) \in Leaky
  <2> USE <1>MineReturn
  <2> DEFINE p == Prog(t)
             i == th[t].ip
  <2>1. \A u \in DOMAIN Slot : Prog(u)' = Prog(u)
    BY Zenon DEF Prog
  <2>2. \A u \in DOMAIN Slot : u # t => Mine(u)' = Mine(u)
    BY <2>1, Zenon DEF Mine, Live, Return, Others
  <2>3. Mine(t) = Held(p, i)
    BY Zenon DEF Mine, Live
  <2>4. Mine(t)' = IF t = "main" THEN Held(p, i) ELSE {}
    <3>1. th'[t].st = "done" /\ th'[t].ip = th[t].ip
      BY Zenon DEF Return
    <3>2. Live(t)' <=> t = "main"
      BY <3>1 DEF Live
    <3> QED
      BY <2>1, <3>1, <3>2, Zenon DEF Mine
  <2>5. /\ i \in DOMAIN p /\ Orderly(p) /\ Cur(t) = p[i]
        /\ t = "main" => OrderlyInit(p)
        /\ t # "main" => p \in Leaky \/ Tidy(p)
    BY CurFacts, ProgFacts, Zenon
  <2> HIDE DEF p, i
  <2>6. Undoes(t) \subseteq Held(p, i)
    <3>1. Range(p[i].undo) \subseteq Held(p, i)
      BY <2>5, OrderlyAt, Zenon
    <3>2. p[i].op = "close" => p[i].fd \in Held(p, i)
      BY <2>5, OrderlyAt, Zenon
    <3> QED
      BY <2>5, <3>1, <3>2, Zenon DEF Undoes
  <2>7. ASSUME t = "main" PROVE Undoes(t) = {}
    <3>1. p[i].op # "close" /\ p[i].undo = <<>>
      BY <2>5, <2>7, Zenon DEF OrderlyInit
    <3>2. Range(<<>>) = {}
      BY DEF Range
    <3> QED
      BY <2>5, <3>1, <3>2, Zenon DEF Undoes
  <2>8. ASSUME t # "main", p \notin Leaky PROVE Held(p, i) \subseteq Undoes(t)
    <3> SUFFICES ASSUME NEW x \in Held(p, i) PROVE x \in Undoes(t)
      BY Zenon
    <3>1. Tidy(p)
      BY <2>5, <2>8, Zenon
    <3>2. x \in Range(p[i].undo) \/ (p[i].op = "close" /\ x = p[i].fd)
      BY <2>5, <3>1, Zenon DEF Tidy
    <3>3. p[i].op = "close" => Range(p[i].undo) = {}
      <4>1. p[i].op = "close" => p[i].undo = <<>>
        BY <2>5, OrderlyAt, Zenon
      <4> QED
        BY <4>1 DEF Range
    <3> QED
      BY <2>5, <3>2, <3>3, Zenon DEF Undoes
  <2> QED
    BY <2>2, <2>3, <2>4, <2>6, <2>7, <2>8, Zenon DEF p
\* A test that returns closes what its error path names.
<1>ReturnCloses. ASSUME Types, Phases, NEW t \in DOMAIN Slot, th[t].st = "run", suite' = suite,
                        Return(t), Cur(t).must, Cur(t).op \notin {"terminate", "freeaddrinfo"},
                        Books(sock, sock', Dead(sock, {th[t].env[x] : x \in Undoes(t)})), Hearing
                 PROVE  Closing(t, Undoes(t))
  <2> USE <1>ReturnCloses
  <2>1. /\ \A u \in DOMAIN Slot : u # t => Mine(u)' = Mine(u)
        /\ Undoes(t) \subseteq Mine(t)
        /\ \A x \in Mine(t)' : x \in Mine(t) /\ x \notin Undoes(t)
        /\ \A x \in Mine(t) : x \in Mine(t)' \/ x \in Undoes(t) \/ Prog(t) \in Leaky
    BY <1>MineReturn, Zenon
  <2>2. Prog(t) = Suites[suite.num][Slot[t]]
    BY ProgFacts, Zenon
  <2>3. \A u \in DOMAIN Slot : th'[u].env = th[u].env
    BY Zenon DEF Return, Others
  <2>4. \A u \in DOMAIN Slot : \A x \in Mine(u)' :
          \/ th'[u].env[x] = 0
          \/ x \in Mine(u) /\ th'[u].env[x] = th[u].env[x] /\ ~(u = t /\ x \in Undoes(t))
    BY <2>1, <2>3, Zenon
  <2>5. \A u \in DOMAIN Slot : \A x \in Mine(u) :
          \/ x \in Mine(u)' /\ th'[u].env[x] = th[u].env[x]
          \/ th[u].env[x] = 0
          \/ u = t /\ x \in Undoes(t)
          \/ Suites[suite.num][Slot[u]] \in Leaky
    BY <2>1, <2>2, <2>3, Zenon
  <2>6. suite'.num = suite.num
    BY Zenon
  <2> QED
    BY <2>1, <2>4, <2>5, <2>6, Zenon DEF Closing
\* A thread that returns sets no name.
<1>UnsetReturn. ASSUME Types, Phases, UnsetInv, NEW t \in DOMAIN Slot, th[t].st = "run", suite' = suite,
                       Return(t)
                PROVE  UnsetInv'
  <2> USE <1>UnsetReturn
  <2>1. \A u \in DOMAIN Slot : Prog(u)' = Prog(u)
    BY Zenon DEF Prog
  <2>2. \A u \in DOMAIN Slot : th'[u].env = th[u].env /\ th'[u].ip = th[u].ip
    BY Zenon DEF Return, Others
  <2>3. \A u \in DOMAIN Slot : Live(u)' => Live(u)
    <3> SUFFICES ASSUME NEW u \in DOMAIN Slot, Live(u)' PROVE Live(u)
      BY Zenon
    <3>1. CASE u = t
      BY <3>1, Zenon DEF Live
    <3>2. CASE u # t
      BY <3>2, Zenon DEF Live, Return, Others
    <3> QED
      BY <3>1, <3>2, Zenon
  <2>4. "main" \in DOMAIN Slot
    BY Slots, Zenon
  <2>5. ASSUME NEW u \in DOMAIN Slot, Live(u)', NEW x \in Names \ Filled(Prog(u)', th'[u].ip)
        PROVE  th'[u].env[x] = IF u # "main" /\ x = "fd" THEN th'["main"].env[Globals[u]] ELSE 0
    <3>1. Live(u) /\ x \in Names \ Filled(Prog(u), th[u].ip)
      BY <2>1, <2>2, <2>3, <2>5, Zenon
    <3>2. th[u].env[x] = IF u # "main" /\ x = "fd" THEN th["main"].env[Globals[u]] ELSE 0
      BY <3>1, Zenon DEF UnsetInv
    <3> QED
      BY <2>2, <2>4, <3>2, Zenon
  <2> QED
    BY <2>5, Zenon DEF UnsetInv
\* A thread that returns frees no address list.
<1>FreesReturn. ASSUME NEW t \in DOMAIN Slot, suite' = suite, Return(t), Cur(t).op # "freeaddrinfo"
                PROVE  \A u \in DOMAIN Slot : Frees(u)' = Frees(u)
  <2> USE <1>FreesReturn
  <2>1. \A u \in DOMAIN Slot : Prog(u)' = Prog(u)
    BY Zenon DEF Prog
  <2>2. \A u \in DOMAIN Slot : u # t => Frees(u)' = Frees(u)
    BY <2>1, Zenon DEF Frees, At, Cur, Return, Others
  <2>3. Frees(t) = 0
    BY Zenon DEF Frees, At
  <2>4. th'[t].st # "run"
    BY DEF Return
  <2>5. Frees(t)' = 0
    BY <2>4, Zenon DEF Frees, At
  <2> QED
    BY <2>2, <2>3, <2>5, Zenon
<1>1. ASSUME IInv, Types', NEW t \in DOMAIN Slot, th[t].st = "run", suite' = suite, at' = at,
             Return(t), Cur(t).must, Cur(t).op \notin {"terminate", "freeaddrinfo"},
             Books(sock, sock', Dead(sock, {th[t].env[x] : x \in Undoes(t)})), Hearing, lists' = lists
      PROVE  IInv'
  <2> USE <1>1
  <2>1. Types /\ Phases /\ OwnInv /\ UnsetInv /\ PendInv /\ OpenInv /\ ListInv
    BY Zenon DEF IInv
  <2>2. Closing(t, Undoes(t))
    BY <2>1, <1>ReturnCloses, Zenon
  <2>3. OwnInv' /\ PendInv' /\ OpenInv'
    BY <2>1, <2>2, ClosingStep, Zenon
  <2>4. UnsetInv'
    BY <2>1, <1>UnsetReturn, Zenon
  <2>5. Phases'
    BY <2>1, PhasesStep, Zenon
  <2>6. ListInv'
    <3>1. \A u \in DOMAIN Slot : Frees(u)' = Frees(u)
      BY <1>FreesReturn, Zenon
    <3>2. Frees("main")' = Frees("main") /\ Frees("t1")' = Frees("t1") /\ Frees("t2")' = Frees("t2")
      BY <3>1, Slots, Zenon
    <3> QED
      BY <2>1, <3>2, Zenon DEF ListInv
  <2> QED
    BY <2>3, <2>4, <2>5, <2>6, Zenon DEF IInv
<1> QED
  BY <1>1, Zenon

\* The calls that neither make nor close a descriptor or an address list.
Plain(t) == Cur(t).op \notin {"socket", "accept", "close", "getaddrinfo", "freeaddrinfo"}

\* The sockets keep their books, and only a held one starts to listen.
Calm == sock' \in [Fds -> SockRec] /\ Books(sock, sock', {}) /\ Hearing

\* The result of nfp_getaddrinfo() is tested; a close has no error path.
LEMMA Tested ==
  ASSUME Types, Phases, NEW t \in DOMAIN Slot, th[t].st = "run"
  PROVE  /\ Cur(t).op = "close" => Cur(t).undo = <<>>
         /\ Cur(t).op = "getaddrinfo" => Cur(t).must
<1> DEFINE p == Prog(t)
           i == th[t].ip
           c == Cur(t)
<1>1. i \in DOMAIN p /\ Orderly(p) /\ c = p[i]
  BY CurFacts, ProgFacts, Zenon
<1> HIDE DEF p, i, c
<1>2. /\ p[i].op = "close" => p[i].undo = <<>>
      /\ p[i].op = "getaddrinfo" => p[i].must
  BY <1>1, OrderlyAt, Zenon
<1>3. /\ c.op = "close" => c.undo = <<>>
      /\ c.op = "getaddrinfo" => c.must
  BY <1>1, <1>2, Z3
<1> QED
  BY <1>3, Zenon DEF c

\* A plain call that the test goes on from.
LEMMA PassOn ==
  ASSUME IInv, NEW t \in DOMAIN Slot, th[t].st = "run", Plain(t), OnlySock,
         NEW r \in ThreadRec, r.ip = th[t].ip, r.env = th[t].env, Pass(t, r), Calm
  PROVE  IInv'
<1>1. Types /\ Phases /\ ListInv
  BY Zenon DEF IInv
<1>2. suite' = suite /\ at' = at /\ lists' = lists /\ faults' = faults
  BY Zenon DEF OnlySock
<1>3. th' \in [DOMAIN Slot -> ThreadRec] /\ Advance(t, th[t].env)
  BY <1>1, PassFacts, Zenon
<1>4. Types'
  <2>1. faults' \in 0..MaxFaults
    BY <1>1, <1>2, Zenon DEF Types
  <2> QED
    BY <1>1, <1>2, <1>3, <2>1, TypesStep, Zenon DEF Calm
<1>5. Cur(t).to = ""
  BY <1>1, CurFacts, Zenon DEF Plain
<1>6. {th[t].env[x] : x \in Closes(t)} = {}
  BY Zenon DEF Plain, Closes
<1>7. Books(sock, sock', Dead(sock, {th[t].env[x] : x \in Closes(t)})) /\ Hearing
  BY <1>6, NoneDead, Zenon DEF Calm
<1>8. lists' = lists + Handed(t) - Frees(t)
  BY <1>1, <1>2, NothingHanded, Zenon DEF Plain
<1> QED
  BY <1>2, <1>3, <1>4, <1>5, <1>7, <1>8, GoOn, Zenon

\* A call that fails and has closed nothing.
LEMMA FailOn ==
  ASSUME IInv, NEW t \in DOMAIN Slot, th[t].st = "run",
         Cur(t).op \notin {"close", "terminate", "freeaddrinfo"},
         suite' = suite, at' = at, lists' = lists, faults' \in 0..MaxFaults,
         NEW r \in ThreadRec, r.ip = th[t].ip, r.env = th[t].env, Fail(t, r, sock)
  PROVE  IInv'
<1>1. Types /\ Phases /\ ListInv
  BY Zenon DEF IInv
<1>2. sock \in [Fds -> SockRec]
  BY <1>1, Zenon DEF Types
<1>3. /\ th' \in [DOMAIN Slot -> ThreadRec] /\ sock' \in [Fds -> SockRec]
      /\ \/ Cur(t).must /\ Return(t) /\ Books(sock, sock', Dead(sock, UndoFds(t)))
         \/ ~Cur(t).must /\ Advance(t, th[t].env) /\ sock' = sock
      /\ \A fd \in Fds : sock'[fd].listening => sock[fd].listening
  BY <1>1, <1>2, FailFacts, Zenon
<1>4. Types' /\ Hearing
  BY <1>1, <1>3, TypesStep, Zenon DEF Hearing
<1>5. CASE Cur(t).must /\ Return(t) /\ Books(sock, sock', Dead(sock, UndoFds(t)))
  <2>1. {th[t].env[x] : x \in Undoes(t)} = UndoFds(t)
    BY Zenon DEF Undoes, UndoFds
  <2>2. Books(sock, sock', Dead(sock, {th[t].env[x] : x \in Undoes(t)}))
    BY <1>5, <2>1, Zenon
  <2>3. Cur(t).op \notin {"terminate", "freeaddrinfo"}
    BY Zenon
  <2> QED
    BY <1>4, <1>5, <2>2, <2>3, GiveUp, Zenon
<1>6. CASE ~Cur(t).must /\ Advance(t, th[t].env) /\ sock' = sock
  <2>1. Cur(t).op # "getaddrinfo"
    BY <1>1, <1>6, Tested, Zenon
  <2>2. lists' = lists + Handed(t) - Frees(t)
    BY <1>1, <2>1, NothingHanded, Zenon
  <2>3. {th[t].env[x] : x \in Closes(t)} = {}
    BY Zenon DEF Closes
  <2>4. Books(sock, sock', {})
    BY <1>2, <1>6, SameSelf, Zenon DEF Same
  <2>5. Books(sock, sock', Dead(sock, {th[t].env[x] : x \in Closes(t)}))
    BY <2>3, <2>4, NoneDead, Zenon
  <2> QED
    BY <1>4, <1>6, <2>2, <2>5, GoOn, Zenon
<1> QED
  BY <1>3, <1>5, <1>6, Zenon

\* A call on -1 fails, and so does a call that the library refuses.
LEMMA FaultStep ==
  \A t \in DOMAIN Slot :
    IInv /\ (BadFd(t) \/ Fault(t)) => IInv'
\* A close followed by a step that closes nothing.
<1>BooksThen. ASSUME NEW a, NEW b, NEW c, NEW D, Books(a, b, D), Books(b, c, {})
              PROVE  Books(a, c, D)
  <2> USE <1>BooksThen
  <2>1. \A g \in Fds : (c[g].open <=> b[g].open) /\ c[g].by = b[g].by /\ c[g].pend = b[g].pend
    BY Zenon DEF Books
  <2> SUFFICES ASSUME NEW g \in Fds
               PROVE  /\ g \in D => ~c[g].open /\ c[g].pend = <<>>
                      /\ g \notin D =>
                           (c[g].open <=> a[g].open) /\ c[g].by = a[g].by /\ c[g].pend = a[g].pend
    BY Zenon DEF Books
  <2>2. CASE g \in D
    BY <2>1, <2>2, Zenon DEF Books
  <2>3. CASE g \notin D
    BY <2>1, <2>3, Zenon DEF Books
  <2> QED
    BY <2>2, <2>3, Zenon
\* A close that fails: on -1, or with the socket gone all the same.
<1>CloseFails. ASSUME IInv, NEW t \in DOMAIN Slot, At(t, "close"),
                      suite' = suite, at' = at, lists' = lists, faults' \in 0..MaxFaults,
                      NEW s \in [Fds -> SockRec], Fail(t, th[t], s),
                      Books(sock, s, Dead(sock, {Fd(t)})),
                      \A fd \in Fds : s[fd].listening => sock[fd].listening
               PROVE  IInv'
  <2> USE <1>CloseFails
  <2>1. Types /\ Phases /\ ListInv /\ th[t].st = "run" /\ Cur(t).op = "close"
    BY Zenon DEF IInv, At
  <2>2. th[t] \in ThreadRec
    BY <2>1, ThreadFields, Zenon
  <2>3. /\ th' \in [DOMAIN Slot -> ThreadRec] /\ sock' \in [Fds -> SockRec]
        /\ \/ Cur(t).must /\ Return(t) /\ Books(s, sock', Dead(s, UndoFds(t)))
           \/ ~Cur(t).must /\ Advance(t, th[t].env) /\ sock' = s
        /\ \A fd \in Fds : sock'[fd].listening => s[fd].listening
    BY <2>1, <2>2, FailFacts, Zenon
  <2>4. Types' /\ Hearing
    BY <2>1, <2>3, TypesStep, Zenon DEF Hearing
  <2>5. /\ {th[t].env[x] : x \in Undoes(t)} = {Fd(t)}
        /\ {th[t].env[x] : x \in Closes(t)} = {Fd(t)}
    BY <2>1, Zenon DEF Undoes, Closes, Fd
  <2>6. CASE Cur(t).must /\ Return(t) /\ Books(s, sock', Dead(s, UndoFds(t)))
    <3>1. Cur(t).undo = <<>>
      BY <2>1, Tested, Zenon
    <3>2. Range(Cur(t).undo) = {}
      BY <3>1 DEF Range
    <3>3. UndoFds(t) = {}
      BY <3>2, Zenon DEF UndoFds
    <3>4. Books(s, sock', {})
      BY <2>6, <3>3, NoneDead, Zenon
    <3>5. Books(sock, sock', Dead(sock, {Fd(t)}))
      BY <3>4, <1>BooksThen, Zenon
    <3>6. Books(sock, sock', Dead(sock, {th[t].env[x] : x \in Undoes(t)}))
      BY <2>5, <3>5, Zenon
    <3>7. Cur(t).op \notin {"terminate", "freeaddrinfo"}
      BY <2>1
    <3> QED
      BY <2>1, <2>4, <2>6, <3>6, <3>7, GiveUp, Zenon
  <2>7. CASE ~Cur(t).must /\ Advance(t, th[t].env) /\ sock' = s
    <3>1. Cur(t).op \notin {"getaddrinfo", "freeaddrinfo"}
      BY <2>1
    <3>2. lists' = lists + Handed(t) - Frees(t)
      BY <2>1, <3>1, NothingHanded, Zenon
    <3>3. Books(sock, sock', Dead(sock, {th[t].env[x] : x \in Closes(t)}))
      BY <2>5, <2>7, Zenon
    <3> QED
      BY <2>1, <2>4, <2>7, <3>2, <3>3, GoOn, Zenon
  <2> QED
    BY <2>3, <2>6, <2>7, Zenon
<1>1. ASSUME IInv, NEW t \in DOMAIN Slot, BadFd(t) \/ Fault(t)
      PROVE  IInv'
  <2> USE <1>1
  <2>1. Types /\ Phases
    BY Zenon DEF IInv
  <2>2. /\ th[t].st = "run" /\ suite' = suite /\ at' = at /\ lists' = lists
    BY Zenon DEF BadFd, Fault
  <2>3. th[t] \in ThreadRec /\ sock \in [Fds -> SockRec]
    BY <2>1, ThreadFields, Zenon DEF Types
  <2>4. faults' \in 0..MaxFaults
    <3>1. faults \in 0..MaxFaults
      BY <2>1, Zenon DEF Types
    <3>2. CASE BadFd(t)
      BY <3>1, <3>2, Zenon DEF BadFd
    <3>3. CASE Fault(t)
      <4>1. faults < MaxFaults /\ faults' = faults + 1
        BY <3>3, Zenon DEF Fault
      <4> QED
        BY <3>1, <4>1, BoundsAssumption
    <3> QED
      BY <3>2, <3>3, Zenon
  <2>5. Cur(t).op \notin {"terminate", "freeaddrinfo"}
    <3>1. CASE BadFd(t)
      <4>1. Cur(t).op \in OnFd \cup {"call"}
        BY <2>1, <2>2, <3>1, CurFacts, Zenon DEF BadFd
      <4> QED
        BY <4>1 DEF OnFd
    <3>2. CASE Fault(t)
      <4>1. Cur(t).op \in Fallible
        BY <3>2, Zenon DEF Fault
      <4> QED
        BY <4>1 DEF Fallible
    <3> QED
      BY <3>1, <3>2, Zenon
  <2>6. CASE Cur(t).op # "close"
    <3>1. Fail(t, th[t], sock)
      BY <2>6, Zenon DEF BadFd, Fault
    <3>2. Cur(t).op \notin {"close", "terminate", "freeaddrinfo"}
      BY <2>5, <2>6, Zenon
    <3> QED
      BY <2>2, <2>3, <2>4, <3>1, <3>2, FailOn, Zenon
  <2>7. CASE Cur(t).op = "close"
    <3>1. At(t, "close")
      BY <2>2, <2>7, Zenon DEF At
    <3>2. CASE BadFd(t)
      <4>1. Fd(t) = 0 /\ Fail(t, th[t], sock)
        BY <3>2, Zenon DEF BadFd
      <4>2. \A fd \in Fds : fd \notin Dead(sock, {Fd(t)})
        BY <4>1, FreeFacts, Zenon DEF Dead
      <4>3. Books(sock, sock, Dead(sock, {Fd(t)}))
        BY <4>2, Zenon DEF Books
      <4> QED
        BY <2>2, <2>3, <2>4, <3>1, <4>1, <4>3, <1>CloseFails, Zenon
    <3>3. CASE Fault(t)
      <4> DEFINE s == Closed(sock, {Fd(t)})
      <4>1. Fail(t, th[t], s)
        BY <2>7, <3>3, Zenon DEF Fault
      <4>2. /\ s \in [Fds -> SockRec] /\ Books(sock, s, Dead(sock, {Fd(t)}))
            /\ \A fd \in Fds : s[fd].listening => sock[fd].listening
        BY <2>3, ClosedFacts, Zenon
      <4> HIDE DEF s
      <4> QED
        BY <2>2, <2>4, <3>1, <4>1, <4>2, <1>CloseFails, Zenon
    <3> QED
      BY <3>2, <3>3, Zenon
  <2> QED
    BY <2>6, <2>7, Zenon
<1> QED
  BY <1>1, Zenon

-----------------------------------------------------------------------------
(* The other calls.                                                        *)

\* A call of a thread preserves the invariant, whichever it is.
LEMMA CallStep ==
  \A t \in DOMAIN Slot :
    IInv /\ Step(t) => IInv'
\* A step that keeps makers, queues and what is open is calm.
<1>SameCalm. ASSUME Same(sock, sock')
             PROVE  Calm
  BY <1>SameCalm, Zenon DEF Calm, Same, Hearing
\* A plain call after which the books of the sockets are the same.
<1>SameOn. ASSUME IInv, NEW t \in DOMAIN Slot, th[t].st = "run", Plain(t), OnlySock,
                  NEW r \in ThreadRec, r.ip = th[t].ip, r.env = th[t].env, Pass(t, r), Same(sock, sock')
           PROVE  IInv'
  BY <1>SameOn, <1>SameCalm, PassOn, Zenon
\* A plain call that fails.
<1>PlainFail. ASSUME IInv, NEW t \in DOMAIN Slot, th[t].st = "run", Plain(t), Cur(t).op # "terminate", OnlySock,
                     NEW r \in ThreadRec, r.ip = th[t].ip, r.env = th[t].env, Fail(t, r, sock)
              PROVE  IInv'
  <2> USE <1>PlainFail
  <2>1. suite' = suite /\ at' = at /\ lists' = lists /\ faults' \in 0..MaxFaults
    BY Zenon DEF OnlySock, IInv, Types
  <2>2. Cur(t).op \notin {"close", "terminate", "freeaddrinfo"}
    BY Zenon DEF Plain
  <2> QED
    BY <2>1, <2>2, FailOn, Zenon
\* The changes that a call makes to its thread.
<1>ThreadSame. ASSUME NEW r \in ThreadRec
               PROVE  /\ LET q == [r EXCEPT !.excused = TRUE]
                         IN  q \in ThreadRec /\ q.ip = r.ip /\ q.env = r.env
                      /\ \A v \in SUBSET (Names \cup Kinds) :
                           LET q == [r EXCEPT !.sel = v]
                           IN  q \in ThreadRec /\ q.ip = r.ip /\ q.env = r.env
  BY Zenon DEF ThreadRec
\* A plain call that leaves the sockets as they are, or fails.
<1>NoChange. ASSUME IInv, NEW t \in DOMAIN Slot, th[t].st = "run", Plain(t), OnlySock,
                    NEW r \in ThreadRec, r.ip = th[t].ip, r.env = th[t].env,
                    NEW q \in ThreadRec, q.ip = th[t].ip, q.env = th[t].env,
                    \/ Pass(t, r) /\ sock' = sock
                    \/ Cur(t).op # "terminate" /\ Fail(t, q, sock)
             PROVE  IInv'
  <2> USE <1>NoChange
  <2>1. CASE Pass(t, r) /\ sock' = sock
    <3>1. sock \in [Fds -> SockRec]
      BY Zenon DEF IInv, Types
    <3>2. Same(sock, sock')
      BY <2>1, <3>1, SameSelf, Zenon
    <3> QED
      BY <2>1, <3>2, <1>SameOn, Zenon
  <2>2. CASE Cur(t).op # "terminate" /\ Fail(t, q, sock)
    BY <2>2, <1>PlainFail, Zenon
  <2> QED
    BY <2>1, <2>2, Zenon
\* The calls that only look, and the tests of their results.
<1>LookStep. ASSUME IInv, NEW t \in DOMAIN Slot,
                    \/ Check(t) \/ Terminator(t) \/ nfp_select(t) \/ NFP_FD_ISSET(t)
                    \/ nfp_shutdown(t) \/ nfp_getpeername(t) \/ Answer(t)
             PROVE  IInv'
  <2> USE <1>LookStep
  <2> DEFINE Looks == {"check", "terminate", "select", "isset", "shutdown", "peername", "notconn", "call"}
             r == th[t]
             x == [r EXCEPT !.excused = TRUE]
             w == [r EXCEPT !.sel = Readable(t)]
  <2>1. th[t].st = "run" /\ Cur(t).op \in Looks
    BY Zenon DEF Check, Terminator, nfp_select, NFP_FD_ISSET, nfp_shutdown, nfp_getpeername, Answer,
       On, At
  <2>2. Plain(t)
    BY <2>1 DEF Plain
  <2>3. Types /\ Phases
    BY Zenon DEF IInv
  <2>4. r \in ThreadRec
    BY <2>3, ThreadFields, Zenon
  <2>5. Readable(t) \in SUBSET (Names \cup Kinds)
    <3>1. Cur(t).fd \in Names \cup {""} /\ Cur(t).kind \in Kinds
      BY <2>1, <2>3, CurFacts, Zenon
    <3> QED
      BY <3>1, Zenon DEF Readable
  <2>6. /\ x \in ThreadRec /\ x.ip = r.ip /\ x.env = r.env
        /\ w \in ThreadRec /\ w.ip = r.ip /\ w.env = r.env
    BY <2>4, <2>5, <1>ThreadSame, Zenon
  <2>7. /\ OnlySock
        /\ \/ Pass(t, r) /\ sock' = sock
           \/ Pass(t, w) /\ sock' = sock
           \/ Cur(t).op # "terminate" /\ Fail(t, r, sock)
           \/ Cur(t).op # "terminate" /\ Fail(t, x, sock)
    <3>1. CASE Check(t)
      <4>1. Cur(t).op = "check"
        BY <3>1, Zenon DEF Check, At
      <4>2. Cur(t).op # "terminate"
        BY <4>1
      <4> QED
        BY <3>1, <4>2, Zenon DEF Check
    <3>2. CASE Terminator(t)
      BY <3>2, Zenon DEF Terminator
    <3>3. CASE nfp_select(t)
      <4>1. Cur(t).op = "select"
        BY <3>3, Zenon DEF nfp_select, On, At
      <4>2. Cur(t).op # "terminate"
        BY <4>1
      <4> QED
        BY <3>3, <4>2, Zenon DEF nfp_select
    <3>4. CASE NFP_FD_ISSET(t)
      <4>1. Cur(t).op = "isset"
        BY <3>4, Zenon DEF NFP_FD_ISSET, At
      <4>2. Cur(t).op # "terminate"
        BY <4>1
      <4> QED
        BY <3>4, <4>2, Zenon DEF NFP_FD_ISSET
    <3>5. CASE nfp_shutdown(t)
      <4>1. Cur(t).op = "shutdown"
        BY <3>5, Zenon DEF nfp_shutdown, On, At
      <4>2. Cur(t).op # "terminate"
        BY <4>1
      <4> QED
        BY <3>5, <4>2, Zenon DEF nfp_shutdown
    <3>6. CASE nfp_getpeername(t)
      <4>1. Cur(t).op \in {"peername", "notconn"}
        BY <3>6, Zenon DEF nfp_getpeername, On, At
      <4>2. Cur(t).op # "terminate"
        BY <4>1
      <4> QED
        BY <3>6, <4>2, Zenon DEF nfp_getpeername
    <3>7. CASE Answer(t)
      BY <3>7, Zenon DEF Answer
    <3> QED
      BY <3>1, <3>2, <3>3, <3>4, <3>5, <3>6, <3>7, Zenon
  <2> HIDE DEF r, x, w
  <2>8. r.ip = th[t].ip /\ r.env = th[t].env
    BY Zenon DEF r
  <2>9. CASE Pass(t, r) /\ sock' = sock
    BY <2>1, <2>2, <2>4, <2>7, <2>8, <2>9, <1>NoChange, Zenon
  <2>10. CASE Pass(t, w) /\ sock' = sock
    <3>1. w \in ThreadRec /\ w.ip = th[t].ip /\ w.env = th[t].env
      BY <2>6, <2>8, Zenon
    <3> QED
      BY <2>1, <2>2, <2>7, <2>10, <3>1, <1>NoChange, Zenon
  <2>11. CASE Cur(t).op # "terminate" /\ Fail(t, r, sock)
    BY <2>1, <2>2, <2>4, <2>7, <2>8, <2>11, <1>NoChange, Zenon
  <2>12. CASE Cur(t).op # "terminate" /\ Fail(t, x, sock)
    <3>1. x \in ThreadRec /\ x.ip = th[t].ip /\ x.env = th[t].env
      BY <2>6, <2>8, Zenon
    <3> QED
      BY <2>1, <2>2, <2>7, <2>12, <3>1, <1>NoChange, Zenon
  <2> QED
    BY <2>7, <2>9, <2>10, <2>11, <2>12, Zenon
\* nfp_getaddrinfo() hands out a list that the next call frees.
<1>AddrInfoStep. ASSUME IInv, NEW t \in DOMAIN Slot, nfp_getaddrinfo(t) \/ nfp_freeaddrinfo(t)
                 PROVE  IInv'
  <2> USE <1>AddrInfoStep
  <2>1. /\ th[t].st = "run" /\ Cur(t).op \in {"getaddrinfo", "freeaddrinfo"} /\ Pass(t, th[t])
        /\ suite' = suite /\ at' = at /\ sock' = sock /\ faults' = faults
    BY Zenon DEF nfp_getaddrinfo, nfp_freeaddrinfo, At
  <2>2. Types /\ Phases /\ ListInv
    BY Zenon DEF IInv
  <2>3. sock \in [Fds -> SockRec] /\ th[t] \in ThreadRec /\ faults \in 0..MaxFaults
    BY <2>2, ThreadFields, Zenon DEF Types
  <2>4. th' \in [DOMAIN Slot -> ThreadRec] /\ Advance(t, th[t].env)
    BY <2>1, <2>2, <2>3, PassFacts, Zenon
  <2>5. Types' /\ Hearing
    BY <2>1, <2>2, <2>3, <2>4, TypesStep, Zenon DEF Hearing
  <2>6. Cur(t).op \notin {"close", "socket", "accept"}
    BY <2>1
  <2>7. {th[t].env[x] : x \in Closes(t)} = {}
    BY <2>6, Zenon DEF Closes
  <2>8. Books(sock, sock', {})
    BY <2>1, <2>3, SameSelf, Zenon DEF Same
  <2>9. Books(sock, sock', Dead(sock, {th[t].env[x] : x \in Closes(t)}))
    BY <2>7, <2>8, NoneDead, Zenon
  <2>10. Cur(t).to = ""
    BY <2>1, <2>2, <2>6, CurFacts, Zenon
  <2>11. lists' = lists + Handed(t) - Frees(t)
    <3>1. lists \in Int
      <4>1. \A u : Frees(u) \in {0, 1}
        BY Zenon DEF Frees
      <4>2. Frees("main") \in {0, 1} /\ Frees("t1") \in {0, 1} /\ Frees("t2") \in {0, 1}
        BY <4>1, Zenon
      <4> QED
        BY <2>2, <4>2 DEF ListInv
    <3>2. CASE nfp_getaddrinfo(t)
      <4>1. Cur(t).op = "getaddrinfo" /\ lists' = lists + 1
        BY <3>2, Zenon DEF nfp_getaddrinfo, At
      <4>2. Handed(t) = 1 /\ Frees(t) = 0
        BY <4>1, Zenon DEF Handed, Frees, At
      <4> QED
        BY <3>1, <4>1, <4>2
    <3>3. CASE nfp_freeaddrinfo(t)
      <4>1. Cur(t).op = "freeaddrinfo" /\ lists' = lists - 1
        BY <3>3, Zenon DEF nfp_freeaddrinfo, At
      <4>2. Handed(t) = 0 /\ Frees(t) = 1
        BY <2>1, <4>1, Zenon DEF Handed, Frees, At
      <4> QED
        BY <3>1, <4>1, <4>2
    <3> QED
      BY <3>2, <3>3, Zenon
  <2> QED
    BY <2>1, <2>4, <2>5, <2>9, <2>10, <2>11, GoOn, Zenon
\* nfp_close().
<1>CloseStep. ASSUME IInv, NEW t \in DOMAIN Slot, nfp_close(t)
              PROVE  IInv'
  <2> USE <1>CloseStep
  <2>1. /\ At(t, "close") /\ OnlySock /\ Pass(t, th[t]) /\ sock' = Closed(sock, {Fd(t)})
    BY Zenon DEF nfp_close, On
  <2>2. Types /\ Phases /\ ListInv /\ th[t].st = "run" /\ Cur(t).op = "close"
    BY <2>1, Zenon DEF IInv, At
  <2>3. sock \in [Fds -> SockRec] /\ th[t] \in ThreadRec /\ faults \in 0..MaxFaults
    BY <2>2, ThreadFields, Zenon DEF Types
  <2>4. suite' = suite /\ at' = at /\ lists' = lists /\ faults' = faults
    BY <2>1, Zenon DEF OnlySock
  <2>5. /\ sock' \in [Fds -> SockRec] /\ Books(sock, sock', Dead(sock, {Fd(t)}))
        /\ \A fd \in Fds : sock'[fd].listening => sock[fd].listening
    BY <2>1, <2>3, ClosedFacts, Zenon
  <2>6. th' \in [DOMAIN Slot -> ThreadRec] /\ Advance(t, th[t].env)
    BY <2>1, <2>2, <2>3, PassFacts, Zenon
  <2>7. Types' /\ Hearing
    BY <2>2, <2>3, <2>4, <2>5, <2>6, TypesStep, Zenon DEF Hearing
  <2>8. {th[t].env[x] : x \in Closes(t)} = {Fd(t)}
    BY <2>2, Zenon DEF Closes, Fd
  <2>9. Books(sock, sock', Dead(sock, {th[t].env[x] : x \in Closes(t)}))
    BY <2>5, <2>8, Zenon
  <2>10. Cur(t).op \notin {"getaddrinfo", "freeaddrinfo", "socket", "accept"}
    BY <2>2
  <2>11. Cur(t).to = ""
    BY <2>2, <2>10, CurFacts, Zenon
  <2>12. lists' = lists + Handed(t) - Frees(t)
    BY <2>2, <2>4, <2>10, NothingHanded, Zenon
  <2> QED
    BY <2>2, <2>4, <2>6, <2>7, <2>9, <2>11, <2>12, GoOn, Zenon
\* nfp_recv().
<1>RecvStep. ASSUME IInv, NEW t \in DOMAIN Slot, nfp_recv(t)
             PROVE  IInv'
  <2> USE <1>RecvStep
  <2>1. "recv" \in OnFd /\ On(t, "recv") /\ OnlySock
    BY Zenon DEF OnFd, nfp_recv
  <2>2. /\ th[t].st = "run" /\ Cur(t).op = "recv" /\ Fd(t) \in Fds
        /\ th[t] \in ThreadRec /\ sock \in [Fds -> SockRec]
    BY <2>1, OnFacts, Zenon
  <2>3. Plain(t)
    BY <2>2 DEF Plain
  <2>4. Cur(t).len \in Nat
    BY <2>2, CurFacts, Zenon DEF IInv
  <2>12. PICK got \in Sizes(t) : Takes(t, got)
    BY Zenon DEF nfp_recv
  <2> DEFINE fd == Fd(t)
             s == sock[fd]
             a == Available(t)
             r == [th[t] EXCEPT !.got = got, !.sum = @ + got, !.excused = @ \/ got = 0 \/ got < Most(t)]
  <2>5. s.bytes \in Nat /\ s.q \in Seq(Nat)
    BY <2>2, SockFields, Zenon
  <2>6. a = IF s.kind = "stream" THEN s.bytes ELSE IF s.q = <<>> THEN 0 ELSE Head(s.q)
    BY Zenon DEF Available
  <2>7. /\ Pass(t, r)
        /\ sock' = CASE Cur(t).kind = "peek" \/ got = 0 -> sock
                     [] Cur(t).kind # "peek" /\ got > 0 /\ s.kind = "stream" ->
                          [sock EXCEPT ![fd] = [s EXCEPT !.bytes = s.bytes - got]]
                     [] OTHER -> [sock EXCEPT ![fd] = [s EXCEPT !.q = Tail(s.q)]]
    BY <2>12, Zenon DEF Takes
  <2> HIDE DEF fd, s, a
  <2>8. a \in Nat
    BY <2>5, <2>6
  <2>9. got \in Nat /\ got <= a
    BY <2>4, <2>8, <2>12, SizeFacts, Zenon DEF a
  <2>10. r \in ThreadRec /\ r.ip = th[t].ip /\ r.env = th[t].env
    <3>1. th[t].sum \in Nat /\ th[t].excused \in BOOLEAN
      BY <2>2, Zenon DEF ThreadRec
    <3>2. th[t].sum + got \in Nat
      BY <2>9, <3>1
    <3> QED
      BY <2>2, <2>9, <3>1, <3>2, Zenon DEF ThreadRec
  <2> HIDE DEF r
  <2>11. Same(sock, sock')
    <3>0. \/ sock' = sock
          \/ s.kind = "stream" /\ sock' = [sock EXCEPT ![fd] = [s EXCEPT !.bytes = s.bytes - got]]
          \/ s.kind # "stream" /\ got # 0 /\ sock' = [sock EXCEPT ![fd] = [s EXCEPT !.q = Tail(s.q)]]
      <4>1. got # 0 => got > 0
        BY <2>9
      <4> DEFINE b == [sock EXCEPT ![fd] = [s EXCEPT !.bytes = s.bytes - got]]
                 q == [sock EXCEPT ![fd] = [s EXCEPT !.q = Tail(s.q)]]
      <4>2. sock' = CASE Cur(t).kind = "peek" \/ got = 0 -> sock
                      [] Cur(t).kind # "peek" /\ got > 0 /\ s.kind = "stream" -> b
                      [] OTHER -> q
        BY <2>7, Zenon
      <4> HIDE DEF b, q
      <4>3. \/ sock' = sock
            \/ s.kind = "stream" /\ sock' = b
            \/ s.kind # "stream" /\ got # 0 /\ sock' = q
        BY <4>1, <4>2
      <4> QED
        BY <4>3, Zenon DEF b, q
    <3>1. CASE sock' = sock
      BY <2>2, <3>1, SameSelf, Zenon
    <3>2. CASE s.kind = "stream" /\ sock' = [sock EXCEPT ![fd] = [s EXCEPT !.bytes = s.bytes - got]]
      <4>1. s.bytes - got \in Nat
        <5>1. a = s.bytes
          BY <2>6, <3>2, Zenon
        <5> QED
          BY <2>5, <2>9, <5>1
      <4> QED
        BY <2>2, <3>2, <4>1, FieldSame, Zenon DEF s, fd
    <3>3. CASE s.kind # "stream" /\ got # 0 /\ sock' = [sock EXCEPT ![fd] = [s EXCEPT !.q = Tail(s.q)]]
      <4>1. s.q # <<>>
        <5> SUFFICES ASSUME s.q = <<>> PROVE FALSE
          BY Zenon
        <5>1. a = 0
          BY <2>6, <3>3, Zenon
        <5> QED
          BY <2>9, <3>3, <5>1
      <4>2. Tail(s.q) \in Seq(Nat)
        BY <2>5, <4>1
      <4> QED
        BY <2>2, <3>3, <4>2, FieldSame, Zenon DEF s, fd
    <3> QED
      BY <3>0, <3>1, <3>2, <3>3, Zenon
  <2> QED
    BY <2>1, <2>2, <2>3, <2>7, <2>10, <2>11, <1>SameOn, Zenon
\* nfp_send() and the replies: what is sent arrives, is lost, or the call fails.
<1>SendOnStep. ASSUME IInv, NEW t \in DOMAIN Slot, NEW op \in {"send", "reply"}, On(t, op), OnlySock,
                      NEW len \in Nat, SendOn(t, len)
               PROVE  IInv'
  <2> USE <1>SendOnStep
  <2>1. op \in OnFd
    BY Zenon DEF OnFd
  <2>2. /\ th[t].st = "run" /\ Cur(t).op = op /\ Fd(t) \in Fds
        /\ th[t] \in ThreadRec /\ sock \in [Fds -> SockRec]
    BY <2>1, OnFacts, Zenon
  <2>3. Plain(t) /\ Cur(t).op # "terminate"
    BY <2>2 DEF Plain
  <2> DEFINE gone == [th[t] EXCEPT !.excused = TRUE]
  <2>4. gone \in ThreadRec /\ gone.ip = th[t].ip /\ gone.env = th[t].env
    BY <2>2, <1>ThreadSame, Zenon
  <2>5. Same(sock, sock)
    BY <2>2, SameSelf, Zenon
  <2>6. ASSUME NEW a PROVE BoundTo("dgram", a) = {} \/ Some(BoundTo("dgram", a)) \in Fds
    <3> DEFINE B == BoundTo("dgram", a)
    <3>1. B \subseteq Fds
      BY Zenon DEF BoundTo
    <3> HIDE DEF B
    <3>2. B = {} \/ Some(B) \in B
      BY SomeIn, Zenon
    <3> QED
      BY <3>1, <3>2, Zenon DEF B
  <2> HIDE DEF gone
  <2> DEFINE s == sock[Fd(t)]
             dest == IF Cur(t).addr = NoAddr THEN s.dest ELSE Cur(t).addr
  <2>7. \/ Fail(t, th[t], sock) \/ Fail(t, gone, sock)
        \/ Pass(t, gone) /\ sock' = sock
        \/ Pass(t, th[t]) /\ sock' = IF BoundTo("dgram", dest) = {} THEN sock
                                     ELSE Arrive(sock, Some(BoundTo("dgram", dest)), len)
        \/ s.peer # 0 /\ Pass(t, th[t]) /\ sock' = Arrive(sock, s.peer, len)
    BY DEF SendOn, gone
  <2>8. CASE Fail(t, th[t], sock)
    BY <2>2, <2>3, <2>8, <1>PlainFail, Zenon
  <2>9. CASE Fail(t, gone, sock)
    BY <2>2, <2>3, <2>4, <2>9, <1>PlainFail, Zenon
  <2>10. CASE Pass(t, gone) /\ sock' = sock
    <3>1. Same(sock, sock')
      BY <2>5, <2>10, Zenon
    <3> QED
      BY <2>2, <2>3, <2>4, <2>10, <3>1, <1>SameOn, Zenon
  <2>11. CASE Pass(t, th[t]) /\ sock' = IF BoundTo("dgram", dest) = {} THEN sock
                                        ELSE Arrive(sock, Some(BoundTo("dgram", dest)), len)
    <3> DEFINE b == Some(BoundTo("dgram", dest))
    <3> HIDE DEF dest
    <3>1. CASE BoundTo("dgram", dest) = {}
      <4>1. Same(sock, sock')
        BY <2>5, <2>11, <3>1, Zenon
      <4> QED
        BY <2>2, <2>3, <2>11, <4>1, <1>SameOn, Zenon
    <3>2. CASE BoundTo("dgram", dest) # {}
      <4>1. b \in Fds /\ sock' = Arrive(sock, b, len)
        BY <2>6, <2>11, <3>2, Zenon
      <4>2. Same(sock, sock')
        BY <2>2, <4>1, ArriveSame, Zenon
      <4> QED
        BY <2>2, <2>3, <2>11, <4>2, <1>SameOn, Zenon
    <3> QED
      BY <3>1, <3>2, Zenon
  <2>12. CASE s.peer # 0 /\ Pass(t, th[t]) /\ sock' = Arrive(sock, s.peer, len)
    <3>1. s.peer \in Fds
      BY <2>2, <2>12, SockFields, Zenon
    <3>2. Same(sock, sock')
      BY <2>2, <2>12, <3>1, ArriveSame, Zenon
    <3> QED
      BY <2>2, <2>3, <2>12, <3>2, <1>SameOn, Zenon
  <2> QED
    BY <2>7, <2>8, <2>9, <2>10, <2>11, <2>12, Zenon
\* nfp_send() and its variants.
<1>SendStep. ASSUME IInv, NEW t \in DOMAIN Slot, nfp_send(t) \/ Reply_(t)
             PROVE  IInv'
  <2> USE <1>SendStep
  <2>1. CASE nfp_send(t)
    <3>1. On(t, "send") /\ SendOn(t, Cur(t).len) /\ OnlySock
      BY <2>1, Zenon DEF nfp_send
    <3>2. Cur(t).len \in Nat
      BY <3>1, CurFacts, Zenon DEF IInv, On, At
    <3> QED
      BY <3>1, <3>2, <1>SendOnStep, Zenon
  <2>2. CASE Reply_(t)
    <3>1. On(t, "reply") /\ SendOn(t, th[t].got) /\ OnlySock
      BY <2>2, Zenon DEF Reply_
    <3>2. th[t].got \in Nat
      BY ThreadFields, Zenon DEF IInv
    <3> QED
      BY <3>1, <3>2, <1>SendOnStep, Zenon
  <2> QED
    BY <2>1, <2>2, Zenon
\* nfp_connect().
<1>ConnectStep. ASSUME IInv, NEW t \in DOMAIN Slot, nfp_connect(t)
                PROVE  IInv'
  <2> USE <1>ConnectStep
  <2> DEFINE addr == Cur(t).addr
             servers == {fd \in BoundTo("stream", addr) : sock[fd].listening}
             srv == Some(servers)
             n == Some(FreeFds(sock))
             v == IF sock[srv].hook = "" THEN sock[srv].ev ELSE Append(sock[srv].ev, 0)
             rn == [Free EXCEPT !.open = TRUE, !.fam = addr.fam, !.kind = "stream",
                                !.by = sock[srv].by, !.dest = addr, !.peer = Fd(t)]
  <2>1. "connect" \in OnFd /\ On(t, "connect") /\ OnlySock
    BY Zenon DEF OnFd, nfp_connect
  <2>2. /\ th[t].st = "run" /\ Cur(t).op = "connect" /\ Fd(t) \in Fds
        /\ th[t] \in ThreadRec /\ sock \in [Fds -> SockRec]
    BY <2>1, OnFacts, Zenon
  <2>3. Plain(t) /\ Cur(t).op # "terminate"
    BY <2>2 DEF Plain
  <2>4. addr \in Address
    BY <2>2, CurFacts, Zenon DEF IInv
  <2>5. \/ Pass(t, th[t]) /\ sock' = [sock EXCEPT ![Fd(t)].dest = addr]
        \/ Fail(t, th[t], sock)
        \/ /\ servers # {} /\ FreeFds(sock) # {} /\ Pass(t, th[t])
           /\ Linked(sock', sock, Fd(t), srv, n, addr, v, rn)
    BY Zenon DEF nfp_connect, Linked
  <2>6. CASE Pass(t, th[t]) /\ sock' = [sock EXCEPT ![Fd(t)].dest = addr]
    <3>1. Same(sock, sock')
      BY <2>2, <2>4, <2>6, FieldSame, Zenon
    <3> QED
      BY <2>1, <2>2, <2>3, <2>6, <3>1, <1>SameOn, Zenon
  <2>7. CASE Fail(t, th[t], sock)
    BY <2>1, <2>2, <2>3, <2>7, <1>PlainFail, Zenon
  <2>8. CASE /\ servers # {} /\ FreeFds(sock) # {} /\ Pass(t, th[t])
             /\ Linked(sock', sock, Fd(t), srv, n, addr, v, rn)
    <3>1. servers \subseteq Fds
      BY Zenon DEF BoundTo
    <3>3. srv \in servers
      <4> HIDE DEF servers
      <4> QED
        BY <2>8, SomeIn, Zenon
    <3>4. srv \in Fds /\ sock[srv].open /\ sock[srv].listening
      BY <3>3, Zenon DEF BoundTo
    <3> HIDE DEF srv, servers, addr
    <3>5. v \in Seq(Nat)
      <4>1. sock[srv].ev \in Seq(Nat)
        BY <2>2, <3>4, SockFields, Zenon
      <4>2. Append(sock[srv].ev, 0) \in Seq(Nat)
        BY <4>1
      <4> QED
        BY <4>1, <4>2, Zenon
    <3>6. n = Some(FreeFds(sock))
      BY Zenon
    <3> HIDE DEF v, n
    <3>7. LinkedTo(t, srv, n, addr, v)
      BY <2>1, <2>8, <3>4, <3>6, Zenon DEF LinkedTo
    <3> QED
      BY <2>4, <3>4, <3>5, <3>7, Connected, Zenon
  <2> QED
    BY <2>5, <2>6, <2>7, <2>8, Zenon
\* nfp_listen().
<1>ListenStep. ASSUME IInv, NEW t \in DOMAIN Slot, nfp_listen(t)
               PROVE  IInv'
  <2> USE <1>ListenStep
  <2>1. "listen" \in OnFd /\ On(t, "listen") /\ OnlySock /\ Pass(t, th[t])
    BY Zenon DEF OnFd, nfp_listen
  <2>2. /\ th[t].st = "run" /\ Cur(t).op = "listen" /\ Fd(t) \in Fds /\ Kept(Fd(t))
        /\ th[t] \in ThreadRec /\ sock \in [Fds -> SockRec]
    BY <2>1, OnFacts, Zenon
  <2>3. Plain(t)
    BY <2>2 DEF Plain
  <2> DEFINE fd == Fd(t)
             r == [sock[fd] EXCEPT !.listening = TRUE]
  <2>4. sock' = [sock EXCEPT ![fd] = r]
    BY Zenon DEF nfp_listen
  <2>5. fd \in Fds /\ sock[fd] \in SockRec
    BY <2>2, SockFields, Zenon
  <2>6. /\ r \in SockRec /\ (r.open <=> sock[fd].open) /\ r.by = sock[fd].by
        /\ r.pend = sock[fd].pend
    BY <2>5, Zenon DEF SockRec
  <2> HIDE DEF fd, r
  <2>7. sock' \in [Fds -> SockRec] /\ sock'[fd] = r /\ \A g \in Fds : g # fd => sock'[g] = sock[g]
    BY <2>2, <2>4, <2>5, <2>6
  <2>8. \A g : g \notin {}
    OBVIOUS
  <2>9. Books(sock, sock', {})
    BY <2>6, <2>7, <2>8, Zenon DEF Books
  <2>10. Hearing
    BY <2>2, <2>7, Zenon DEF Hearing, fd
  <2> QED
    BY <2>1, <2>2, <2>3, <2>7, <2>9, <2>10, PassOn, Zenon DEF Calm
\* nfp_bind().
<1>BindStep. ASSUME IInv, NEW t \in DOMAIN Slot, nfp_bind(t)
             PROVE  IInv'
  <2> USE <1>BindStep
  <2>1. "bind" \in OnFd /\ On(t, "bind") /\ OnlySock
    BY Zenon DEF OnFd, nfp_bind
  <2>2. /\ th[t].st = "run" /\ Cur(t).op = "bind" /\ Fd(t) \in Fds
        /\ th[t] \in ThreadRec /\ sock \in [Fds -> SockRec]
    BY <2>1, OnFacts, Zenon
  <2>3. Plain(t) /\ Cur(t).op # "terminate"
    BY <2>2 DEF Plain
  <2>4. Cur(t).addr \in Address
    BY <2>2, CurFacts, Zenon DEF IInv
  <2>5. CASE Pass(t, th[t]) /\ sock' = [sock EXCEPT ![Fd(t)].bound = Cur(t).addr]
    <3>1. Same(sock, sock')
      BY <2>2, <2>4, <2>5, FieldSame, Zenon
    <3> QED
      BY <2>1, <2>2, <2>3, <2>5, <3>1, <1>SameOn, Zenon
  <2>6. CASE Fail(t, th[t], sock)
    BY <2>1, <2>2, <2>3, <2>6, <1>PlainFail, Zenon
  <2> QED
    BY <2>5, <2>6, Zenon DEF nfp_bind
\* nfp_socket_sigevent().
<1>SigeventStep. ASSUME IInv, NEW t \in DOMAIN Slot, nfp_socket_sigevent(t)
                 PROVE  IInv'
  <2> USE <1>SigeventStep
  <2>1. /\ "sigevent" \in OnFd /\ On(t, "sigevent") /\ OnlySock /\ Pass(t, th[t])
        /\ sock' = [sock EXCEPT ![Fd(t)].hook = Cur(t).kind]
    BY Zenon DEF OnFd, nfp_socket_sigevent
  <2>2. /\ th[t].st = "run" /\ Cur(t).op = "sigevent" /\ Fd(t) \in Fds
        /\ th[t] \in ThreadRec /\ sock \in [Fds -> SockRec]
    BY <2>1, OnFacts, Zenon
  <2>3. Plain(t)
    BY <2>2 DEF Plain
  <2>4. Cur(t).kind \in Kinds
    BY <2>2, CurFacts, Zenon DEF IInv
  <2>5. Same(sock, sock')
    BY <2>1, <2>2, <2>4, FieldSame, Zenon
  <2> QED
    BY <2>1, <2>2, <2>3, <2>5, <1>SameOn, Zenon
<1>1. ASSUME IInv, NEW t \in DOMAIN Slot, Step(t)
      PROVE  IInv'
  <2> USE <1>1
  <2>1. CASE nfp_socket(t)
    BY <2>1, MakeStep, Zenon
  <2>2. CASE nfp_bind(t)
    BY <2>2, <1>BindStep, Zenon
  <2>3. CASE nfp_listen(t)
    BY <2>3, <1>ListenStep, Zenon
  <2>4. CASE nfp_connect(t)
    BY <2>4, <1>ConnectStep, Zenon
  <2>5. CASE nfp_accept(t)
    BY <2>5, MakeStep, Zenon
  <2>6. CASE nfp_send(t) \/ Reply_(t)
    BY <2>6, <1>SendStep, Zenon
  <2>7. CASE nfp_recv(t)
    BY <2>7, <1>RecvStep, Zenon
  <2>8. CASE \/ Check(t) \/ Terminator(t) \/ nfp_select(t) \/ NFP_FD_ISSET(t)
             \/ nfp_shutdown(t) \/ nfp_getpeername(t) \/ Answer(t)
    BY <2>8, <1>LookStep, Zenon
  <2>9. CASE nfp_close(t)
    BY <2>9, <1>CloseStep, Zenon
  <2>10. CASE nfp_socket_sigevent(t)
    BY <2>10, <1>SigeventStep, Zenon
  <2>11. CASE nfp_getaddrinfo(t) \/ nfp_freeaddrinfo(t)
    BY <2>11, <1>AddrInfoStep, Zenon
  <2>12. CASE BadFd(t)
    BY <2>12, FaultStep, Zenon
  <2> QED
    BY <2>1, <2>2, <2>3, <2>4, <2>5, <2>6, <2>7, <2>8, <2>9, <2>10, <2>11, <2>12, Zenon DEF Step
<1> QED
  BY <1>1, Zenon

-----------------------------------------------------------------------------
(* The theorems.                                                           *)

\* Every step of main(), of a thread and of a worker preserves it.
LEMMA StepInv == IInv /\ [Next]_vars => IInv'
<1> SUFFICES ASSUME IInv, [Next]_vars PROVE IInv'
  OBVIOUS
<1>1. "main" \in DOMAIN Slot /\ Threads \subseteq DOMAIN Slot
  BY Slots DEF Threads
<1>2. ASSUME NEW t \in DOMAIN Slot, Step(t) PROVE IInv'
  BY <1>2, CallStep, Zenon
<1>3. ASSUME NEW t \in DOMAIN Slot, Fault(t) PROVE IInv'
  BY <1>3, FaultStep, Zenon
<1>4. CASE Worker \/ InitDone \/ (\E t \in Threads : nfp_thread_join(t)) \/ UNCHANGED vars
  BY <1>4, WorldStep, Zenon
<1>5. CASE Main
  <2>1. CASE init_suite \/ \E t \in Threads : nfp_thread_create(t)
    BY <2>1, StartSteps, Zenon
  <2>2. CASE Step("main")
    BY <1>1, <1>2, <2>2, Zenon
  <2>3. CASE end_suite
    BY <2>3, EndStep, Zenon
  <2> QED
    BY <1>4, <1>5, <2>1, <2>2, <2>3, Zenon DEF Main
<1> QED
  BY <1>1, <1>2, <1>3, <1>4, <1>5, Zenon DEF Next

\* The position of every thread in its line of calls tells which sockets it
\* holds, and each of them is open and held once, throughout main().
THEOREM Invariance == Spec => []IInv
  BY InitInv, StepInv, PTL DEF Spec

\* For every table of suites whose lines of calls are orderly, whatever calls
\* fail and however the threads and the workers interleave: a test works only
\* on open sockets of its own suite.
THEOREM UsesOpenTheorem == Spec => []UsesOpen
  BY Invariance, InvUsesOpen, PTL

\* For every such table: between suites, and when main() is done, only the
\* tests named leaky have left a descriptor open, and no address list is left.
THEOREM DescriptorsClosedTheorem == Spec => []DescriptorsClosed
  BY Invariance, InvDescriptorsClosed, PTL

\* buf[len] = 0 stays within the buffer, the tests whose buffer is too short
\* apart, in every suite whose lines of calls leave room for it.
THEOREM TerminatorFitsTheorem == Spec => []TerminatorFits
<1>1. Spec => [](IInv /\ DataInv)
  BY InitInv, StepInv, InitData, StepData, PTL DEF Spec
<1> QED
  BY <1>1, InvTerminatorFits, PTL

=============================================================================
