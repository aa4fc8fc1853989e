---------------------------- MODULE NetwrapProofs ----------------------------
(***************************************************************************)
(* The wrappers of netwrap_crt keep what they promise, for any number of   *)
(* threads, descriptors, parts of a writev() and sizes.  The inductive     *)
(* invariant comes first: which implementation a call reaches, who holds   *)
(* which descriptor, what an option reads back, what fork() does to its    *)
(* children, and that it is kept by the constructor and by every call but  *)
(* writev() and sendfile64().  Then those two, which lose no byte and send *)
(* none twice.                                                             *)
(***************************************************************************)
EXTENDS Netwrap, WellFoundedInduction, TLAPS

\* The calls that take several steps, with their local variables.
AcceptFrames == [f : {"accept4"}, fd : NfpFds]
WritevFrames ==
  [f : {"writev"}, fd : Fds, i : 1..(Len(Iov) + 1), iov_snt : Nat,
   writev_sum : Nat]
SendfileFrames ==
  [f : {"sendfile64"}, fd : Fds, count : Nat, offset : BOOLEAN,
   orig : 0..FileLen, processed : Nat, size : Nat, sum : Nat]
SelectFrames == [f : {"select"}, fds : SUBSET NfpFds, left : Int]
ForkFrames ==
  [f : {"fork"}, at : {"test", "set", "clear"}, depth : Nat, alone : BOOLEAN]
Frames == {Idle} \cup AcceptFrames \cup WritevFrames \cup SendfileFrames
          \cup SelectFrames \cup ForkFrames

\* The pointers.
Names == UNION {Groups[g] : g \in 1..9}

\* What becomes of a descriptor.
Owners == {"none", "libc", "nfp", "forgotten"}

\* The types, but for the bounds of what is returned.
Types ==
  /\ setup \in -1..9 /\ libc \subseteq Names
  /\ owner \in [Fds -> Owners] /\ known \subseteq Fds
  /\ opt \in [NfpFds -> Nat] /\ asked \in [NfpFds -> DOMAIN SetOption \cup {"none"}]
  /\ ready \subseteq NfpFds
  /\ fr \in [Threads -> Frames]
  /\ sent \in [Threads -> Seq(Int)] /\ ret \in [Threads -> Int]
  /\ pos \in [Threads -> 0..FileLen]
  /\ recursive \in {0, 1} /\ calls \in Budgets
  /\ misrouted \subseteq {"fd", "epoll_ctl"}

\* A descriptor's number tells who made it; NFP makes some only once the
\* constructor has begun; the program has descriptors that exist.
OwnInv ==
  /\ \A fd \in Fds :
       /\ owner[fd] = "libc" => fd < sd_offset
       /\ owner[fd] = "nfp" => fd >= sd_offset /\ setup >= 1
  /\ \A fd \in known : owner[fd] \in {"libc", "nfp"}
  /\ "fd" \notin misrouted

\* What accept4() is about to return is in no other hands.
AcceptInv ==
  \A t \in Threads :
    fr[t].f = "accept4" =>
      /\ owner[fr[t].fd] = "nfp" /\ fr[t].fd \notin known
      /\ \A u \in Threads :
           fr[u].f = "accept4" /\ fr[u].fd = fr[t].fd => u = t

\* The option that was set is the one asked for.
OptInv == \A fd \in NfpFds : asked[fd] # "none" => opt[fd] = SetOption[asked[fd]]

\* The pointers that are not tested have been looked up by the time the
\* constructor is past them; sendfile64() reads after it has begun.
LookInv ==
  /\ setup >= 2 => "socket" \in libc
  /\ setup >= 8 => "sendfile_read" \in libc
  /\ \A t \in Threads : fr[t].f = "sendfile64" => setup >= 1

\* A run of consecutive bytes.
Run(s, first) == \A k \in 1..Len(s) : s[k] = first + k - 1

\* What has been sent so far, and how much of it the call has counted.
Data(t) ==
  LET v == fr[t]
      base == pos[t] - v.size - v.processed
  IN  /\ ret[t] \in -1..(Before[Len(Iov) + 1] + FileLen)
      /\ \E first \in Int : Run(sent[t], first)
      /\ v.f = "writev" =>
           /\ v.writev_sum = Before[v.i]
           /\ v.iov_snt <= IF v.i <= Len(Iov) THEN Iov[v.i] ELSE 0
           /\ Len(sent[t]) = Before[v.i] + v.iov_snt /\ Run(sent[t], 1)
      /\ v.f = "sendfile64" =>
           /\ v.sum <= v.size /\ base >= 0
           /\ Len(sent[t]) = v.processed + v.sum /\ Run(sent[t], base + 1)
      /\ v.f \notin {"writev", "sendfile64"} /\ ret[t] > 0 =>
           Len(sent[t]) = ret[t]

DataInv == \A t \in Threads : Data(t)

\* The flag is set by a thread that has called itself; a thread that has met
\* no other in fork() is the only one there, and the flag is its own.
ForkInv ==
  /\ recursive = 1 => \E t \in Threads : InFork(t) /\ fr[t].depth >= 1
  /\ \A t \in Threads :
       InFork(t) /\ fr[t].at = "clear" => fr[t].depth >= 1
  /\ \A t \in Threads :
       InFork(t) /\ fr[t].alone =>
         /\ \A u \in Threads : InFork(u) => u = t
         /\ fr[t].depth = recursive
         /\ fr[t].at = "set" => fr[t].depth = 0
  /\ \A c \in children :
       c.wrapped /\ c.alone => c.inits = 1 /\ c.recursive = 0

\* The inductive invariant.
IInv == /\ Types /\ OwnInv /\ AcceptInv /\ NoLeak /\ OptInv /\ LookInv
        /\ DataInv /\ ForkInv

-----------------------------------------------------------------------------
(* Frames, descriptors and routes.                                         *)

\* The name of a call tells what its local variables are.
LEMMA FrameFacts ==
  ASSUME NEW x \in Frames
  PROVE  /\ x.f = "idle" <=> x = Idle
         /\ x.f = "accept4" => x \in AcceptFrames
         /\ x.f = "writev" => x \in WritevFrames
         /\ x.f = "sendfile64" => x \in SendfileFrames
         /\ x.f = "select" => x \in SelectFrames
         /\ x.f = "fork" => x \in ForkFrames
         /\ x.f \in {"idle", "accept4", "writev", "sendfile64", "select", "fork"}
  BY DEF Frames, Idle, AcceptFrames, WritevFrames, SendfileFrames, SelectFrames,
         ForkFrames

\* The pointers are among those that the constructor looks up.
LEMMA NameFacts ==
  /\ {"socket", "shutdown", "close", "bind", "accept", "accept4", "listen",
      "connect", "read", "write", "recv", "send", "setsockopt", "getsockopt",
      "ioctl", "fork", "vfork", "select", "writev", "sendfile64",
      "sendfile_read", "epoll_create", "epoll_ctl", "epoll_wait"} \subseteq Names
  /\ \A g \in 1..9 : Groups[g] \subseteq Names
<1>1. \A g \in 1..9 : Groups[g] \subseteq Names
  BY Zenon DEF Names
<1>2. /\ Groups[2] = {"socket", "shutdown", "close", "bind", "accept", "accept4",
                      "listen", "connect", "read", "write", "recv", "send"}
      /\ Groups[3] = {"setsockopt", "getsockopt"} /\ Groups[4] = {"ioctl"}
      /\ Groups[5] = {"fork", "vfork"} /\ Groups[6] = {"select"}
      /\ Groups[7] = {"writev"} /\ Groups[8] = {"sendfile64", "sendfile_read"}
      /\ Groups[9] = {"epoll_create", "epoll_ctl", "epoll_wait"}
  BY Zenon DEF Groups
<1>3. {2, 3, 4, 5, 6, 7, 8, 9} \subseteq 1..9
  OBVIOUS
<1> QED
  BY <1>1, <1>2, <1>3

\* Descriptors.
LEMMA FdFacts ==
  /\ LibcFds \subseteq Fds /\ NfpFds \subseteq Fds
  /\ \A fd \in Fds : fd \in Int /\ (fd < sd_offset <=> fd \in LibcFds)
                                /\ (fd >= sd_offset <=> fd \in NfpFds)
  /\ sd_offset \in Int
  BY NetwrapAssumption DEF LibcFds, NfpFds, Fds

\* A descriptor that the program has goes where it was made.
LEMMA Route ==
  ASSUME IInv, NEW fd \in known, NEW f \in Names, Libc(f, fd) \/ Nfp(fd)
  PROVE  /\ misrouted' = misrouted /\ null' = null
         /\ libc \subseteq libc' /\ libc' \subseteq Names
         /\ Nfp(fd) => setup >= 1 /\ fd \in NfpFds
<1>1. fd \in Fds /\ owner[fd] \in {"libc", "nfp"} /\ setup \in Int
  BY DEF IInv, Types, OwnInv
<1>2. IS_NFP_SOCKET(fd) <=> owner[fd] = "nfp"
  BY <1>1, FdFacts DEF IInv, OwnInv, IS_NFP_SOCKET, netwrap_constructor_called
<1>3. \A to : owner[fd] = to /\ Routed(fd, to) => misrouted' = misrouted
  BY DEF Routed, Mistaken
<1>4. misrouted' = misrouted
  BY <1>1, <1>2, <1>3, Zenon DEF Libc, Nfp
<1>5. null' = null /\ libc \subseteq libc' /\ libc' \subseteq Names
  BY Zenon DEF Libc, Nfp, LIBC_FUNCTION, IInv, Types
<1>6. Nfp(fd) => setup >= 1 /\ fd \in NfpFds
  BY <1>1, FdFacts, Zenon DEF Nfp, IS_NFP_SOCKET, netwrap_constructor_called
<1> QED
  BY <1>4, <1>5, <1>6, Zenon

-----------------------------------------------------------------------------
(* What a step leaves alone.                                               *)

\* No thread enters, leaves or changes a call that is named f.
Same(f) ==
  \A u \in Threads : fr'[u] = fr[u] \/ (fr[u].f # f /\ fr'[u].f # f)

\* Descriptors stay what they are.
LEMMA SocketsKept ==
  ASSUME IInv, UNCHANGED <<owner, known>>, misrouted' = misrouted,
         setup >= 1 => setup' >= 1, Same("accept4")
  PROVE  OwnInv' /\ AcceptInv' /\ NoLeak'
<1>1. OwnInv'
  BY Zenon DEF IInv, OwnInv
<1>2. AcceptInv'
  BY DEF IInv, AcceptInv, Same
<1>3. NoLeak'
  BY Zenon DEF IInv, NoLeak, Same
<1> QED
  BY <1>1, <1>2, <1>3, Zenon

\* What a thread has sent, and what it has counted, stay what they are.
LEMMA DataKept ==
  ASSUME IInv, NEW u \in Threads, sent'[u] = sent[u], ret'[u] = ret[u],
         pos'[u] = pos[u],
         fr'[u] = fr[u] \/ (/\ fr[u].f \notin {"writev", "sendfile64"}
                            /\ fr'[u].f \notin {"writev", "sendfile64"})
  PROVE  Data(u)'
<1>1. Data(u)
  BY Zenon DEF IInv, DataInv
<1>2. CASE fr'[u] = fr[u]
  BY <1>1, <1>2, Zenon DEF Data
<1>3. CASE fr[u].f \notin {"writev", "sendfile64"} /\ fr'[u].f \notin {"writev", "sendfile64"}
  BY <1>1, <1>3, Zenon DEF Data
<1> QED
  BY <1>2, <1>3, Zenon

\* The flag of fork() and the children.
LEMMA ForkKept ==
  ASSUME IInv, UNCHANGED forks, Same("fork")
  PROVE  ForkInv'
  BY DEF IInv, ForkInv, forks, Same, InFork

\* The pointers that have been looked up.
LEMMA LookKept ==
  ASSUME IInv, UNCHANGED setup, libc \subseteq libc', Same("sendfile64")
  PROVE  LookInv'
  BY Zenon DEF IInv, LookInv, Same

\* The options that have been set.
LEMMA OptKept ==
  ASSUME IInv, UNCHANGED <<opt, asked>>
  PROVE  OptInv'
  BY Zenon DEF IInv, OptInv

\* A thread replaces the call it is in by another one, or ends it.
LEMMA Replaced ==
  ASSUME IInv, NEW t \in Threads, NEW x \in Frames, Goes(t, x)
  PROVE  /\ fr' \in [Threads -> Frames] /\ fr'[t] = x
         /\ \A u \in Threads : u # t => fr'[u] = fr[u]
         /\ \A f : fr[t].f # f /\ x.f # f => Same(f)
  BY Zenon DEF IInv, Types, Goes, Same

\* No thread enters, leaves or changes a call that sends data, or fork().
Apart ==
  \A u \in Threads :
    fr'[u] = fr[u] \/ {fr[u].f, fr'[u].f} \subseteq {"idle", "accept4", "select"}

\* Such a step leaves what those calls are about.
LEMMA RestKept ==
  ASSUME IInv, Apart, UNCHANGED <<setup, data, forks>>, libc \subseteq libc'
  PROVE  DataInv' /\ ForkInv' /\ LookInv'
<1>1. Same("fork") /\ Same("sendfile64")
  BY Zenon DEF Apart, Same
<1>2. \A u \in Threads :
        /\ sent'[u] = sent[u] /\ ret'[u] = ret[u] /\ pos'[u] = pos[u]
        /\ fr'[u] = fr[u] \/ (/\ fr[u].f \notin {"writev", "sendfile64"}
                             /\ fr'[u].f \notin {"writev", "sendfile64"})
  BY Zenon DEF data, Apart
<1>3. DataInv'
  BY <1>2, DataKept, Zenon DEF DataInv
<1> QED
  BY <1>1, <1>3, ForkKept, LookKept, Zenon

\* The types, when calls are replaced by calls and data is left alone.
LEMMA TypesKept ==
  ASSUME IInv, UNCHANGED <<setup, data, forks>>, libc' \subseteq Names,
         fr' \in [Threads -> Frames], calls' \in Budgets, misrouted' = misrouted,
         owner' \in [Fds -> Owners], known' \subseteq Fds,
         opt' \in [NfpFds -> Nat], ready' \subseteq NfpFds,
         asked' \in [NfpFds -> DOMAIN SetOption \cup {"none"}]
  PROVE  Types'
<1>1. UNCHANGED <<sent, ret, pos>> /\ UNCHANGED <<recursive, children>>
  BY Zenon DEF data, forks
<1> QED
  BY <1>1, Zenon DEF IInv, Types

\* What the steps on descriptors use of the types.
LEMMA Typed ==
  ASSUME IInv
  PROVE  /\ owner \in [Fds -> Owners] /\ known \subseteq Fds
         /\ opt \in [NfpFds -> Nat] /\ ready \subseteq NfpFds
         /\ asked \in [NfpFds -> DOMAIN SetOption \cup {"none"}]
         /\ fr \in [Threads -> Frames] /\ setup \in Int /\ libc \subseteq Names
         /\ calls \in Budgets
  BY DEF IInv, Types

\* What accept4() holds is a descriptor of NFP that the program does not have.
LEMMA Accepting ==
  ASSUME IInv, NEW u \in Threads, fr[u].f = "accept4"
  PROVE  /\ fr[u].fd \in NfpFds /\ fr[u].fd \in Fds /\ owner[fr[u].fd] = "nfp"
         /\ fr[u].fd \notin known
<1>1. fr[u] \in AcceptFrames
  BY Typed, FrameFacts, Zenon
<1> QED
  BY <1>1, FdFacts, Zenon DEF AcceptFrames, IInv, AcceptInv

\* A step that takes part in nothing but routing.
LEMMA QuietStep ==
  ASSUME IInv, UNCHANGED <<setup, owner, known, opt, asked, data, fr, forks>>,
         misrouted' = misrouted, libc \subseteq libc', libc' \subseteq Names,
         ready' \subseteq NfpFds, calls' \in Budgets
  PROVE  IInv'
<1>1. Same("accept4") /\ Apart
  BY Zenon DEF Same, Apart
<1>2. OwnInv' /\ AcceptInv' /\ NoLeak' /\ OptInv'
  BY <1>1, SocketsKept, OptKept, Zenon
<1>3. DataInv' /\ ForkInv' /\ LookInv'
  BY <1>1, RestKept, Zenon
<1>4. Types'
  BY Typed, TypesKept, Zenon
<1> QED
  BY <1>2, <1>3, <1>4, Zenon DEF IInv

-----------------------------------------------------------------------------
(* The wrappers of one step.                                               *)

\* The number of calls stays within its bound.
LEMMA CallFacts == \A t \in Threads : Types /\ Call(t) => calls' \in Budgets
<1> SUFFICES ASSUME NEW t \in Threads, Types, Call(t) PROVE calls' \in Budgets
  BY Zenon
<1>1. /\ calls \in [Threads -> Nat] /\ MaxCalls \in [Threads -> Nat]
      /\ \A u \in Threads : calls[u] <= MaxCalls[u]
  BY NetwrapAssumption, Zenon DEF Types, Budgets
<1>2. calls[t] < MaxCalls[t] /\ calls' = [calls EXCEPT ![t] = calls[t] + 1]
  BY Zenon DEF Call
<1>3. calls' \in [Threads -> Nat]
  BY <1>1, <1>2
<1>4. ASSUME NEW u \in Threads PROVE calls'[u] <= MaxCalls[u]
  BY <1>1, <1>2
<1> QED
  BY <1>3, <1>4, Zenon DEF Budgets

\* Calls that are passed on or refused.
LEMMA PassedStep ==
  ASSUME IInv, NEW t \in Threads, NEW f \in Names,
         Passed(t, f) \/ Refused(t, f) \/ Taken(t, f)
  PROVE  IInv'
<1>1. calls' \in Budgets /\ ready \subseteq NfpFds
  BY CallFacts, Zenon DEF IInv, Types, Passed, Refused, Taken
<1>2. CASE Passed(t, f)
  <2>1. PICK fd \in known : Libc(f, fd) \/ Nfp(fd)
    BY <1>2, Zenon DEF Passed
  <2>2. misrouted' = misrouted /\ libc \subseteq libc' /\ libc' \subseteq Names
    BY <2>1, Route, Zenon
  <2> QED
    BY <1>1, <1>2, <2>2, QuietStep, Zenon DEF Passed, sockets
<1>3. CASE Refused(t, f)
  <2>1. /\ UNCHANGED <<setup, owner, known, opt, asked, ready, data, fr, forks>>
        /\ libc' = libc /\ misrouted' = misrouted
    BY <1>3, Zenon DEF Refused, sockets, faults
  <2> QED
    BY <1>1, <2>1, QuietStep, Zenon DEF IInv, Types
<1>4. CASE Taken(t, f)
  <2>1. PICK fd \in known : (Libc(f, fd) \/ Nfp(fd)) /\ ready' \subseteq ready
    BY <1>4, Zenon DEF Taken
  <2>2. misrouted' = misrouted /\ libc \subseteq libc' /\ libc' \subseteq Names
    BY <2>1, Route, Zenon
  <2> QED
    BY <1>1, <1>4, <2>1, <2>2, QuietStep, Zenon DEF Taken
<1> QED
  BY <1>2, <1>3, <1>4, Zenon

\* The wrappers that are instances of these.
LEMMA SimpleStep ==
  ASSUME IInv, NEW t \in Threads,
         \/ shutdown(t) \/ listen(t) \/ write(t) \/ send(t) \/ read(t) \/ recv(t)
         \/ bind(t) \/ connect(t) \/ ioctl(t) \/ epoll_wait(t) \/ getsockopt(t)
  PROVE  IInv'
<1>1. \E f \in Names : Passed(t, f) \/ Refused(t, f) \/ Taken(t, f)
  BY NameFacts, Zenon
     DEF shutdown, listen, write, send, read, recv, bind, connect, ioctl,
         epoll_wait, getsockopt
<1> QED
  BY <1>1, PassedStep, Zenon

\* epoll_ctl() goes where its first descriptor was made; its second one may be
\* of the other implementation.
LEMMA epoll_ctlStep ==
  ASSUME IInv, NEW t \in Threads, epoll_ctl(t)
  PROVE  IInv'
<1>1. /\ UNCHANGED <<setup, sockets, data, fr, forks>> /\ calls' \in Budgets
      /\ UNCHANGED <<owner, known, opt, asked, ready>>
  BY CallFacts, Zenon DEF epoll_ctl, sockets, IInv
<1>2. PICK epfd \in known, fd \in known :
        \/ /\ ~IS_NFP_SOCKET(epfd)
           /\ LIBC_FUNCTION("epoll_ctl") /\ Registers(epfd, fd, "libc")
        \/ /\ IS_NFP_SOCKET(epfd)
           /\ Registers(epfd, fd, "nfp") /\ UNCHANGED libc
  BY Zenon DEF epoll_ctl
<1>3. libc \subseteq libc' /\ libc' \subseteq Names
  BY <1>2, NameFacts, Zenon DEF LIBC_FUNCTION, IInv, Types
<1>4. epfd \in Fds /\ owner[epfd] \in {"libc", "nfp"} /\ setup \in Int
  BY Typed, Zenon DEF IInv, OwnInv
<1>5. IS_NFP_SOCKET(epfd) <=> owner[epfd] = "nfp"
  BY <1>4, FdFacts DEF IInv, OwnInv, IS_NFP_SOCKET, netwrap_constructor_called
<1>6. \A to : owner[epfd] = to /\ Registers(epfd, fd, to) =>
               misrouted' \subseteq misrouted \cup {"epoll_ctl"}
  BY DEF Registers, Mistaken
<1>7. misrouted' \subseteq misrouted \cup {"epoll_ctl"}
  BY <1>2, <1>4, <1>5, <1>6, Zenon
<1>8. OwnInv'
  <2>1. "fd" \notin misrouted'
    BY <1>7 DEF IInv, OwnInv
  <2> QED
    BY <1>1, <2>1, Zenon DEF IInv, OwnInv
<1>9. AcceptInv' /\ NoLeak'
  BY <1>1, Zenon DEF IInv, AcceptInv, NoLeak
<1>10. Types'
  <2>1. misrouted' \subseteq {"fd", "epoll_ctl"}
    BY <1>7, Zenon DEF IInv, Types
  <2>2. UNCHANGED <<sent, ret, pos>> /\ recursive' = recursive
    BY <1>1, Zenon DEF data, forks
  <2> QED
    BY <1>1, <1>3, <2>1, <2>2, Zenon DEF IInv, Types
<1>11. Apart
  BY <1>1, Zenon DEF Apart
<1>12. DataInv' /\ ForkInv' /\ LookInv' /\ OptInv'
  BY <1>1, <1>3, <1>11, RestKept, OptKept, Zenon
<1> QED
  BY <1>8, <1>9, <1>10, <1>12, Zenon DEF IInv

\* Data arrives.
LEMMA ArrivesStep ==
  ASSUME IInv, Arrives
  PROVE  IInv'
<1>1. /\ UNCHANGED <<setup, owner, known, opt, asked, data, fr, forks>>
      /\ misrouted' = misrouted /\ libc' = libc /\ calls' = calls
      /\ ready' \subseteq NfpFds
  BY Zenon DEF Arrives, faults, IInv, Types
<1> QED
  BY <1>1, QuietStep, Zenon DEF IInv, Types

\* setsockopt() notes the option that it was asked for.
LEMMA setsockoptStep ==
  ASSUME IInv, NEW t \in Threads, setsockopt(t)
  PROVE  IInv'
<1>1. PICK fd \in known, o \in Options :
        \/ Libc("setsockopt", fd) /\ UNCHANGED <<opt, asked>>
        \/ /\ Nfp(fd) /\ o \in DOMAIN SetOption
           /\ opt' = [opt EXCEPT ![fd] = SetOption[o]]
           /\ asked' = [asked EXCEPT ![fd] = o]
  BY Zenon DEF setsockopt
<1>2. /\ misrouted' = misrouted /\ libc \subseteq libc' /\ libc' \subseteq Names
      /\ Nfp(fd) => fd \in NfpFds
  BY <1>1, NameFacts, Route, Zenon
<1>3. /\ UNCHANGED <<setup, owner, known, ready, data, fr, forks>>
      /\ calls' \in Budgets
  BY CallFacts, Zenon DEF setsockopt, IInv
<1>4. CASE UNCHANGED <<opt, asked>>
  BY <1>2, <1>3, <1>4, QuietStep, Zenon DEF IInv, Types
<1>5. CASE /\ Nfp(fd) /\ o \in DOMAIN SetOption
           /\ opt' = [opt EXCEPT ![fd] = SetOption[o]]
           /\ asked' = [asked EXCEPT ![fd] = o]
  <2>1. Same("accept4") /\ Apart
    BY <1>3, Zenon DEF Same, Apart
  <2>2. OwnInv' /\ AcceptInv' /\ NoLeak' /\ DataInv' /\ ForkInv' /\ LookInv'
    BY <1>2, <1>3, <2>1, SocketsKept, RestKept
  <2>3. \A p \in DOMAIN SetOption : SetOption[p] \in Nat
    BY DEF SetOption
  <2>4. /\ opt' \in [NfpFds -> Nat]
        /\ asked' \in [NfpFds -> DOMAIN SetOption \cup {"none"}]
    BY <1>2, <1>5, <2>3, Typed, Zenon
  <2>5. OptInv'
    BY <1>5, Zenon DEF IInv, Types, OptInv
  <2>6. Types'
    BY <1>2, <1>3, <2>4, Typed, TypesKept, Zenon
  <2> QED
    BY <2>2, <2>5, <2>6, Zenon DEF IInv
<1> QED
  BY <1>1, <1>4, <1>5, Zenon

-----------------------------------------------------------------------------
(* fork().                                                                 *)

\* fork() concerns nothing but the flag and the children.
LEMMA ForkOnly ==
  ASSUME IInv, ForkInv', fr' \in [Threads -> Frames], recursive' \in {0, 1},
         \A u \in Threads :
           fr'[u] = fr[u] \/ (fr[u].f \in {"idle", "fork"} /\ fr'[u].f \in {"idle", "fork"}),
         UNCHANGED <<setup, sockets, data, faults>>,
         libc \subseteq libc', libc' \subseteq Names, calls' \in Budgets
  PROVE  IInv'
<1>1. Same("accept4") /\ Same("sendfile64")
  BY Zenon DEF Same
<1>2. /\ UNCHANGED <<sent, ret, pos>> /\ misrouted' = misrouted
      /\ UNCHANGED <<owner, known, opt, asked, ready>>
  BY Zenon DEF data, sockets, faults
<1>3. OwnInv' /\ AcceptInv' /\ NoLeak' /\ OptInv' /\ LookInv'
  BY <1>1, <1>2, SocketsKept, OptKept, LookKept, Zenon
<1>4. DataInv'
  <2>1. ASSUME NEW u \in Threads PROVE Data(u)'
    BY <1>2, DataKept, Zenon
  <2> QED
    BY <2>1, Zenon DEF DataInv
<1>5. Types'
  BY <1>2, Zenon DEF IInv, Types
<1> QED
  BY <1>3, <1>4, <1>5, Zenon DEF IInv

\* A call of fork() that has met another one, and one that calls itself.
Met(v) == [v EXCEPT !.alone = FALSE]
CallsItself(v) == [v EXCEPT !.at = "test", !.depth = @ + 1]

\* The first is a call of fork().
LEMMA MetFrame ==
  ASSUME NEW v \in ForkFrames
  PROVE  /\ Met(v) \in ForkFrames /\ Met(v).f = "fork" /\ Met(v).at = v.at
         /\ Met(v).depth = v.depth /\ Met(v).alone = FALSE
  BY Zenon DEF Met, ForkFrames

\* So is the second.
LEMMA CallsItselfFrame ==
  ASSUME NEW v \in ForkFrames
  PROVE  /\ CallsItself(v) \in Frames /\ CallsItself(v).f = "fork"
         /\ CallsItself(v).at = "test" /\ CallsItself(v).depth = v.depth + 1
         /\ CallsItself(v).alone = v.alone
<1>1. v.depth + 1 \in Nat
  BY DEF ForkFrames
<1> QED
  BY <1>1, Zenon DEF CallsItself, ForkFrames, Frames

\* fork() is called: the threads that are in it are no longer alone.
LEMMA forkStep ==
  ASSUME IInv, NEW t \in Threads, fork(t)
  PROVE  IInv'
<1>1. /\ UNCHANGED <<setup, sockets, data, faults>> /\ recursive' = recursive
      /\ recursive' \in {0, 1} /\ fr[t] = Idle
      /\ calls' \in Budgets /\ libc \subseteq libc' /\ libc' \subseteq Names
  BY CallFacts, NameFacts, Zenon DEF fork, IInv, Types, LIBC_FUNCTION
<1>2. CASE setup_fork_wrappers_called
  <2> DEFINE x == [f |-> "fork", at |-> "test", depth |-> 0,
                   alone |-> \A v \in Threads : ~InFork(v)]
  <2>1. /\ fr' = [u \in Threads |->
                    IF u = t THEN x
                    ELSE IF InFork(u) THEN Met(fr[u]) ELSE fr[u]]
        /\ children' = children
    BY <1>2, Zenon DEF fork, Met
  <2>2. /\ x \in ForkFrames /\ x.f = "fork" /\ x.at = "test" /\ x.depth = 0
        /\ (x.alone <=> \A v \in Threads : ~InFork(v))
    BY Zenon DEF ForkFrames
  <2> HIDE DEF x
  <2>3. \A u \in Threads : fr[u] \in Frames /\ (InFork(u) => fr[u] \in ForkFrames)
    BY FrameFacts, Zenon DEF InFork, IInv, Types
  <2>4. /\ fr'[t] = x /\ fr[t].f = "idle"
        /\ \A u \in Threads : u # t /\ InFork(u) =>
             /\ fr'[u] \in ForkFrames /\ fr'[u].f = "fork" /\ fr'[u].at = fr[u].at
             /\ fr'[u].depth = fr[u].depth /\ fr'[u].alone = FALSE
        /\ \A u \in Threads : u # t /\ ~InFork(u) => fr'[u] = fr[u]
    <3>1. fr[t].f = "idle"
      BY <1>1 DEF Idle
    <3>2. /\ fr'[t] = x
          /\ \A u \in Threads : u # t /\ InFork(u) => fr'[u] = Met(fr[u])
          /\ \A u \in Threads : u # t /\ ~InFork(u) => fr'[u] = fr[u]
      BY <2>1, Zenon
    <3>3. ASSUME NEW u \in Threads, u # t, InFork(u)
          PROVE  /\ fr'[u] \in ForkFrames /\ fr'[u].f = "fork" /\ fr'[u].at = fr[u].at
                 /\ fr'[u].depth = fr[u].depth /\ fr'[u].alone = FALSE
      <4>1. fr'[u] = Met(fr[u]) /\ fr[u] \in ForkFrames
        BY <2>3, <3>2, <3>3, Zenon
      <4> QED
        BY <4>1, MetFrame, Zenon
    <3> QED
      BY <3>1, <3>2, <3>3, ZenonT(30)
  <2>5. fr' \in [Threads -> Frames]
    <3>1. ASSUME NEW u \in Threads PROVE fr'[u] \in Frames
      <4>1. CASE u = t
        BY <2>2, <2>4, <4>1, Zenon DEF Frames
      <4>2. CASE u # t /\ InFork(u)
        BY <2>4, <4>2, Zenon DEF Frames
      <4>3. CASE u # t /\ ~InFork(u)
        BY <2>3, <2>4, <4>3, ZenonT(30)
      <4> QED
        BY <4>1, <4>2, <4>3, Zenon
    <3> QED
      BY <2>1, <3>1, Zenon
  <2>6. ForkInv'
    <3>1. recursive' = 1 => \E u \in Threads : InFork(u)' /\ fr'[u].depth >= 1
      <4> SUFFICES ASSUME recursive = 1
                   PROVE  \E u \in Threads : InFork(u)' /\ fr'[u].depth >= 1
        BY <1>1, Zenon
      <4>1. PICK u \in Threads : InFork(u) /\ fr[u].depth >= 1
        BY Zenon DEF IInv, ForkInv
      <4> QED
        BY <2>4, <4>1, Zenon DEF InFork
    <3>2. \A u \in Threads : InFork(u)' /\ fr'[u].at = "clear" => fr'[u].depth >= 1
      BY <2>2, <2>4 DEF IInv, ForkInv, InFork
    <3>3. \A u \in Threads : InFork(u)' /\ fr'[u].alone => u = t
      BY <2>4, Zenon DEF InFork
    <3>4. fr'[t].alone => /\ \A u \in Threads : InFork(u)' => u = t
                          /\ recursive = 0
      BY <2>2, <2>4 DEF IInv, Types, ForkInv, InFork
    <3> QED
      BY <1>1, <2>1, <2>2, <2>4, <3>1, <3>2, <3>3, <3>4, ZenonT(30) DEF IInv, ForkInv
  <2>7. \A u \in Threads :
          fr'[u] = fr[u] \/ (fr[u].f \in {"idle", "fork"} /\ fr'[u].f \in {"idle", "fork"})
    BY <2>2, <2>4, ZenonT(30) DEF InFork
  <2> QED
    BY <1>1, <2>5, <2>6, <2>7, ForkOnly, Zenon
<1>3. CASE ~setup_fork_wrappers_called
  <2>1. /\ fr' = fr
        /\ \A c \in children' : c \in children \/ c.wrapped = FALSE
    BY <1>3 DEF fork
  <2>2. ForkInv'
    BY <1>1, <2>1, Zenon DEF IInv, ForkInv, InFork
  <2>3. fr' \in [Threads -> Frames]
    BY <2>1, Zenon DEF IInv, Types
  <2> QED
    BY <1>1, <2>1, <2>2, <2>3, ForkOnly, Zenon
<1> QED
  BY <1>2, <1>3, Zenon

\* A step of a thread that is in fork().
LEMMA InForkStep ==
  ASSUME IInv, NEW t \in Threads, NEW x \in Frames, Goes(t, x), fr[t].f = "fork",
         x.f \in {"idle", "fork"}, ForkInv', recursive' \in {0, 1},
         UNCHANGED <<setup, libc, sockets, data, calls, faults>>
  PROVE  IInv'
<1>1. /\ fr' \in [Threads -> Frames] /\ fr'[t] = x
      /\ \A u \in Threads : u # t => fr'[u] = fr[u]
  BY Replaced, ZenonT(30)
<1> QED
  BY <1>1, ForkOnly, Zenon DEF IInv, Types

\* The flag is tested: the program's call goes on, and one that was made by
\* fork() itself, or that finds the flag of another thread, goes to libc.
LEMMA fork_testStep ==
  ASSUME IInv, NEW t \in Threads, fork_test(t)
  PROVE  IInv'
<1> DEFINE d == fr[t].depth
<1>1. /\ fr[t].f = "fork" /\ fr[t].at = "test" /\ fr[t] \in ForkFrames
      /\ UNCHANGED <<setup, libc, sockets, data, recursive, calls, faults>>
      /\ recursive \in {0, 1} /\ d \in Nat
  BY FrameFacts, Zenon DEF fork_test, InFork, IInv, Types, ForkFrames
<1>2. CASE recursive = 0
  <2> DEFINE x == [fr[t] EXCEPT !.at = "set"]
  <2>1. /\ x \in Frames /\ x.f = "fork" /\ x.at = "set" /\ x.depth = d
        /\ x.alone = fr[t].alone
    BY <1>1, Zenon DEF Frames, ForkFrames
  <2>2. Goes(t, x) /\ children' = children
    BY <1>2 DEF fork_test
  <2> HIDE DEF x
  <2>3. fr'[t] = x /\ \A u \in Threads : u # t => fr'[u] = fr[u]
    BY <2>1, <2>2, Replaced, Zenon
  <2>4. ForkInv'
    BY <1>1, <1>2, <2>1, <2>2, <2>3, ZenonT(30) DEF IInv, ForkInv, InFork
  <2> QED
    BY <1>1, <2>1, <2>2, <2>4, InForkStep, Zenon
<1>3. CASE recursive = 1
  <2> DEFINE x == IF d = 0 THEN Idle ELSE [fr[t] EXCEPT !.at = "clear"]
  <2>1. /\ x \in Frames /\ (d = 0 => x.f = "idle")
        /\ d # 0 => /\ x.f = "fork" /\ x.at = "clear" /\ x.depth = d
                    /\ x.alone = fr[t].alone
    BY <1>1, Zenon DEF Frames, ForkFrames, Idle
  <2>2. /\ Goes(t, x)
        /\ \A c \in children' : c \in children \/ c = Child(d, fr[t].alone)
    BY <1>3 DEF fork_test, Forked
  <2>3. /\ Child(d, fr[t].alone).alone = fr[t].alone
        /\ Child(d, fr[t].alone).inits = d
        /\ d # 0 => Child(d, fr[t].alone).recursive = 0
    BY Zenon DEF Child
  <2> HIDE DEF x
  <2>4. fr'[t] = x /\ \A u \in Threads : u # t => fr'[u] = fr[u]
    BY <2>1, <2>2, Replaced, Zenon
  <2>5. fr[t].alone => d = 1
    BY <1>1, <1>3, Zenon DEF IInv, ForkInv, InFork
  <2>6. \E u \in Threads : InFork(u)' /\ fr'[u].depth >= 1
    <3>1. PICK u \in Threads : InFork(u) /\ fr[u].depth >= 1
      BY <1>3, Zenon DEF IInv, ForkInv
    <3>2. CASE u = t
      BY <1>1, <2>1, <2>4, <3>1, <3>2 DEF InFork
    <3>3. CASE u # t
      BY <2>4, <3>1, <3>3, Zenon DEF InFork
    <3> QED
      BY <3>2, <3>3, Zenon
  <2>7. \A u \in Threads : InFork(u)' /\ fr'[u].at = "clear" => fr'[u].depth >= 1
    BY <1>1, <2>1, <2>4 DEF IInv, ForkInv, InFork
  <2>8. ASSUME NEW u \in Threads, InFork(u)', fr'[u].alone
        PROVE  /\ \A v \in Threads : InFork(v)' => v = u
               /\ fr'[u].depth = recursive'
               /\ fr'[u].at = "set" => fr'[u].depth = 0
    BY <1>1, <2>1, <2>4, <2>8 DEF IInv, ForkInv, InFork
  <2>9. \A c \in children' : c.wrapped /\ c.alone => c.inits = 1 /\ c.recursive = 0
    BY <2>2, <2>3, <2>5 DEF IInv, ForkInv
  <2>10. ForkInv'
    BY <2>6, <2>7, <2>8, <2>9, ZenonT(30) DEF ForkInv
  <2> QED
    BY <1>1, <2>1, <2>2, <2>10, InForkStep, ZenonT(30)
<1> QED
  BY <1>1, <1>2, <1>3, Zenon

\* The flag is set before fork() calls itself.
LEMMA fork_setStep ==
  ASSUME IInv, NEW t \in Threads, fork_set(t)
  PROVE  IInv'
<1> DEFINE x == CallsItself(fr[t])
<1>1. /\ fr[t].f = "fork" /\ fr[t].at = "set" /\ fr[t] \in ForkFrames
      /\ UNCHANGED <<setup, libc, sockets, data, children, calls, faults>>
      /\ recursive' = 1 /\ Goes(t, x) /\ fr[t].depth \in Nat
  <2>1. fr[t].f = "fork" /\ fr[t] \in ForkFrames
    BY FrameFacts, Zenon DEF fork_set, InFork, IInv, Types
  <2>2. Goes(t, x)
    BY ZenonT(30) DEF fork_set, CallsItself
  <2> QED
    BY <2>1, <2>2, Zenon DEF fork_set, ForkFrames
<1>2. /\ x \in Frames /\ x.f = "fork" /\ x.at = "test" /\ x.depth = fr[t].depth + 1
      /\ x.alone = fr[t].alone
  BY <1>1, CallsItselfFrame, ZenonT(30)
<1> HIDE DEF x
<1>3. fr'[t] = x /\ \A u \in Threads : u # t => fr'[u] = fr[u]
  BY <1>1, <1>2, Replaced, Zenon
<1>4. ForkInv'
  <2>1. \E u \in Threads : InFork(u)' /\ fr'[u].depth >= 1
    BY <1>1, <1>2, <1>3 DEF InFork
  <2>2. \A u \in Threads : InFork(u)' /\ fr'[u].at = "clear" => fr'[u].depth >= 1
    BY <1>1, <1>2, <1>3, Zenon DEF IInv, ForkInv, InFork
  <2>3. ASSUME NEW u \in Threads, InFork(u)', fr'[u].alone
        PROVE  /\ \A v \in Threads : InFork(v)' => v = u
               /\ fr'[u].depth = recursive'
               /\ fr'[u].at = "set" => fr'[u].depth = 0
    BY <1>1, <1>2, <1>3, <2>3 DEF IInv, ForkInv, InFork
  <2> QED
    BY <1>1, <2>1, <2>2, <2>3, ZenonT(30) DEF IInv, ForkInv
<1> QED
  BY <1>1, <1>2, <1>4, InForkStep, ZenonT(30)

\* It is cleared by whoever comes back, in the parent and in the child.
LEMMA fork_clearStep ==
  ASSUME IInv, NEW t \in Threads, fork_clear(t)
  PROVE  IInv'
<1> DEFINE x == IF fr[t].depth = 1 THEN Idle ELSE [fr[t] EXCEPT !.depth = @ - 1]
<1>1. /\ fr[t].f = "fork" /\ fr[t].at = "clear" /\ fr[t] \in ForkFrames
      /\ UNCHANGED <<setup, libc, sockets, data, children, calls, faults>>
      /\ recursive' = 0 /\ Goes(t, x) /\ fr[t].depth \in Nat /\ fr[t].depth >= 1
      /\ fr[t].alone => fr[t].depth = recursive /\ recursive \in {0, 1}
  BY FrameFacts, Zenon DEF fork_clear, InFork, IInv, Types, ForkInv, ForkFrames
<1>2. /\ x \in Frames /\ (fr[t].depth = 1 => x.f = "idle")
      /\ fr[t].depth # 1 => /\ x.f = "fork" /\ x.at = "clear"
                            /\ x.depth = fr[t].depth - 1 /\ x.alone = fr[t].alone
  BY <1>1 DEF Frames, ForkFrames, Idle
<1> HIDE DEF x
<1>3. fr'[t] = x /\ \A u \in Threads : u # t => fr'[u] = fr[u]
  BY <1>1, <1>2, Replaced, Zenon
<1>4. ForkInv'
  <2>1. \A u \in Threads : InFork(u)' /\ fr'[u].at = "clear" => fr'[u].depth >= 1
    BY <1>1, <1>2, <1>3 DEF IInv, ForkInv, InFork
  <2>2. ASSUME NEW u \in Threads, InFork(u)', fr'[u].alone
        PROVE  /\ \A v \in Threads : InFork(v)' => v = u
               /\ fr'[u].depth = recursive'
               /\ fr'[u].at = "set" => fr'[u].depth = 0
    BY <1>1, <1>2, <1>3, <2>2 DEF IInv, ForkInv, InFork
  <2> QED
    BY <1>1, <2>1, <2>2 DEF IInv, ForkInv
<1> QED
  BY <1>1, <1>2, <1>4, InForkStep, ZenonT(30)

-----------------------------------------------------------------------------
(* Descriptors.                                                            *)

\* A descriptor is opened where its number belongs.
LEMMA OpenedStep ==
  ASSUME IInv, NEW fds, NEW by, Opened(fds, by),
         \/ fds = LibcFds /\ by = "libc"
         \/ fds = NfpFds /\ by = "nfp" /\ setup >= 1,
         UNCHANGED <<setup, data, fr, forks>>, misrouted' = misrouted,
         libc \subseteq libc', libc' \subseteq Names, calls' \in Budgets
  PROVE  IInv'
<1>1. CASE UNCHANGED sockets
  BY <1>1, QuietStep, Zenon DEF sockets, IInv, Types
<1>2. ASSUME NEW fd \in fds, owner[fd] = "none", owner' = [owner EXCEPT ![fd] = by],
             known' = known \cup {fd}, UNCHANGED <<opt, asked, ready>>
      PROVE  IInv'
  <2>1. Apart
    BY Zenon DEF Apart
  <2>2. DataInv' /\ ForkInv' /\ LookInv' /\ OptInv'
    BY <1>2, <2>1, RestKept, OptKept, Zenon
  <2>3. fd \in Fds /\ by \in {"libc", "nfp"}
    BY <1>2, FdFacts, Zenon
  <2>4. /\ owner' \in [Fds -> Owners] /\ known' \subseteq Fds
        /\ owner'[fd] = by /\ \A g \in Fds : g # fd => owner'[g] = owner[g]
    BY <1>2, <2>3, Zenon DEF IInv, Types, Owners
  <2>5. Types'
    BY <1>2, <2>4, TypesKept, Zenon DEF IInv, Types
  <2>6. OwnInv'
    BY <1>2, <2>3, <2>4, FdFacts DEF IInv, Types, OwnInv
  <2>7. \A t \in Threads : fr[t].f = "accept4" => fr[t].fd \in Fds /\ fr[t].fd # fd
    BY <1>2, FrameFacts, FdFacts, Zenon DEF IInv, Types, AcceptInv, AcceptFrames
  <2>8. AcceptInv'
    BY <1>2, <2>4, <2>7 DEF IInv, AcceptInv
  <2>9. NoLeak'
    BY <1>2, <2>4, FdFacts, Zenon DEF IInv, NoLeak
  <2> QED
    BY <2>2, <2>5, <2>6, <2>8, <2>9, Zenon DEF IInv
<1> QED
  BY <1>1, <1>2, Zenon DEF Opened

\* A descriptor of NFP is forgotten.
LEMMA ForgetsStep ==
  ASSUME IInv, Forgets, UNCHANGED <<setup, data, fr, forks>>,
         misrouted' = misrouted, libc \subseteq libc', libc' \subseteq Names,
         calls' \in Budgets
  PROVE  IInv'
<1>1. PICK new \in NfpFds :
        owner[new] = "none" /\ owner' = [owner EXCEPT ![new] = "forgotten"]
  BY Zenon DEF Forgets
<1>2. UNCHANGED <<known, opt, asked, ready>> /\ Apart
  BY Zenon DEF Forgets, Apart
<1>3. DataInv' /\ ForkInv' /\ LookInv' /\ OptInv'
  BY <1>2, RestKept, OptKept, Zenon
<1>4. /\ owner' \in [Fds -> Owners] /\ new \in Fds /\ owner'[new] = "forgotten"
      /\ \A g \in Fds : g # new => owner'[g] = owner[g]
  BY <1>1, FdFacts, Typed, Zenon DEF Owners
<1>5. Types'
  BY <1>2, <1>4, Typed, TypesKept, Zenon
<1>6. OwnInv'
  BY <1>1, <1>2, <1>4, Typed DEF IInv, OwnInv
<1>7. \A t \in Threads : fr[t].f = "accept4" => fr[t].fd \in Fds /\ fr[t].fd # new
  BY <1>1, Accepting, Zenon
<1>8. AcceptInv'
  BY <1>2, <1>4, <1>7 DEF IInv, AcceptInv
<1>9. NoLeak'
  BY <1>2, <1>4, FdFacts, Zenon DEF IInv, NoLeak
<1> QED
  BY <1>3, <1>5, <1>6, <1>8, <1>9, Zenon DEF IInv

\* socket(), epoll_create() and accept().
LEMMA OpenStep ==
  ASSUME IInv, NEW t \in Threads, socket(t) \/ epoll_create(t) \/ accept(t)
  PROVE  IInv'
<1>1. calls' \in Budgets /\ UNCHANGED <<setup, data, fr, forks>> /\ libc \subseteq Names
  BY CallFacts, Zenon DEF IInv, Types, socket, epoll_create, accept
<1>2. CASE socket(t)
  <2>1. misrouted' = misrouted
    BY <1>2, Zenon DEF socket
  <2>2. CASE ~netwrap_constructor_called
    BY <1>1, <1>2, <2>1, <2>2, OpenedStep, NameFacts, Zenon DEF socket, LIBC_FUNCTION
  <2>3. CASE UNCHANGED libc /\ (Opened(LibcFds, "libc") \/ UNCHANGED sockets)
    <3>1. Opened(LibcFds, "libc")
      BY <2>3, Zenon DEF Opened
    <3> QED
      BY <1>1, <2>1, <2>3, <3>1, OpenedStep, Zenon
  <2>4. CASE netwrap_constructor_called /\ Opened(NfpFds, "nfp") /\ UNCHANGED libc
    BY <1>1, <2>1, <2>4, OpenedStep, Zenon DEF netwrap_constructor_called
  <2> QED
    BY <1>2, <2>2, <2>3, <2>4, Zenon DEF socket
<1>3. CASE epoll_create(t)
  <2>1. misrouted' = misrouted
    BY <1>3, Zenon DEF epoll_create, faults
  <2>2. CASE setup_epoll_wrappers_called
    <3>1. setup >= 1 /\ Opened(NfpFds, "nfp") /\ UNCHANGED libc
      BY <1>3, <2>2 DEF epoll_create, setup_epoll_wrappers_called, IInv, Types
    <3> QED
      BY <1>1, <2>1, <3>1, OpenedStep, Zenon
  <2>3. CASE ~setup_epoll_wrappers_called
    BY <1>1, <1>3, <2>1, <2>3, OpenedStep, NameFacts, Zenon DEF epoll_create, LIBC_FUNCTION
  <2> QED
    BY <2>2, <2>3, Zenon
<1>4. CASE accept(t)
  <2>1. PICK fd \in known :
          \/ Libc("accept", fd) /\ Opened(LibcFds, "libc")
          \/ Nfp(fd) /\ (Opened(NfpFds, "nfp") \/ Forgets)
    BY <1>4, Zenon DEF accept
  <2>2. /\ misrouted' = misrouted /\ libc \subseteq libc' /\ libc' \subseteq Names
        /\ Nfp(fd) => setup >= 1
    BY <2>1, NameFacts, Route, Zenon
  <2>3. CASE Forgets
    BY <1>1, <2>2, <2>3, ForgetsStep, Zenon
  <2> QED
    BY <1>1, <2>1, <2>2, <2>3, OpenedStep, Zenon
<1> QED
  BY <1>2, <1>3, <1>4, Zenon

\* accept4() has got a descriptor from NFP; nobody else knows of it.
LEMMA accept4Step ==
  ASSUME IInv, NEW t \in Threads, accept4(t)
  PROVE  IInv'
<1>1. calls' \in Budgets /\ UNCHANGED <<setup, data, forks>>
  BY CallFacts, Zenon DEF IInv, accept4
<1>2. PICK fd \in known :
        \/ fr[t] = Idle /\ Libc("accept4", fd) /\ Opened(LibcFds, "libc") /\ UNCHANGED fr
        \/ Nfp(fd) /\ UNCHANGED <<fr, sockets>>
        \/ Nfp(fd) /\ UNCHANGED fr /\ Forgets
        \/ /\ Nfp(fd)
           /\ \E new \in NfpFds :
                /\ owner[new] = "none"
                /\ owner' = [owner EXCEPT ![new] = "nfp"]
                /\ Starts(t, [f |-> "accept4", fd |-> new])
                /\ UNCHANGED <<known, opt, asked, ready>>
  BY Zenon DEF accept4
<1>3. /\ misrouted' = misrouted /\ libc \subseteq libc' /\ libc' \subseteq Names
      /\ Nfp(fd) => setup >= 1
  BY <1>2, NameFacts, Route, Zenon
<1>4. CASE Opened(LibcFds, "libc") /\ UNCHANGED fr
  BY <1>1, <1>3, <1>4, OpenedStep, Zenon
<1>5. CASE UNCHANGED <<fr, sockets>>
  <2>1. ready' \subseteq NfpFds
    BY <1>5, Zenon DEF sockets, IInv, Types
  <2> QED
    BY <1>1, <1>3, <1>5, <2>1, QuietStep, Zenon DEF sockets
<1>6. ASSUME NEW new \in NfpFds, Nfp(fd), owner[new] = "none",
             owner' = [owner EXCEPT ![new] = "nfp"],
             Starts(t, [f |-> "accept4", fd |-> new]),
             UNCHANGED <<known, opt, asked, ready>>
      PROVE  IInv'
  <2> DEFINE x == [f |-> "accept4", fd |-> new]
  <2>1. x \in Frames /\ x.f = "accept4" /\ x.fd = new
    BY Zenon DEF Frames, AcceptFrames
  <2>2. fr[t].f = "idle" /\ Goes(t, x)
    BY <1>6 DEF Starts, Idle, Goes
  <2> HIDE DEF x
  <2>3. /\ fr' \in [Threads -> Frames] /\ fr'[t] = x
        /\ \A u \in Threads : u # t => fr'[u] = fr[u]
        /\ Apart
    BY <2>1, <2>2, Replaced DEF Apart
  <2>4. DataInv' /\ ForkInv' /\ LookInv' /\ OptInv'
    BY <1>1, <1>3, <1>6, <2>3, RestKept, OptKept, Zenon
  <2>5. /\ owner' \in [Fds -> Owners] /\ new \in Fds
        /\ owner'[new] = "nfp" /\ \A g \in Fds : g # new => owner'[g] = owner[g]
    BY <1>6, FdFacts, Typed, Zenon DEF Owners
  <2>6. Types'
    BY <1>1, <1>3, <1>6, <2>3, <2>5, TypesKept, Zenon DEF IInv, Types
  <2>7. OwnInv'
    BY <1>1, <1>3, <1>6, <2>5, FdFacts, Typed DEF IInv, OwnInv
  <2>8. \A u \in Threads : fr[u].f = "accept4" => fr[u].fd \in Fds /\ fr[u].fd # new
    BY <1>6, Accepting, Zenon
  <2>9. new \notin known
    BY <1>6, Zenon DEF IInv, OwnInv
  <2>10. AcceptInv'
    BY <1>6, <2>1, <2>2, <2>3, <2>5, <2>8, <2>9 DEF IInv, AcceptInv
  <2>11. NoLeak'
    BY <1>6, <2>1, <2>2, <2>3, <2>5, FdFacts DEF IInv, NoLeak
  <2> QED
    BY <2>4, <2>6, <2>7, <2>10, <2>11, Zenon DEF IInv
<1>7. CASE Forgets /\ UNCHANGED fr
  BY <1>1, <1>3, <1>7, ForgetsStep, Zenon
<1> QED
  BY <1>2, <1>4, <1>5, <1>6, <1>7, Zenon

\* It returns the descriptor, or closes it.
LEMMA accept4_flagsStep ==
  ASSUME IInv, NEW t \in Threads, accept4_flags(t)
  PROVE  IInv'
<1> DEFINE new == fr[t].fd
<1>1. /\ fr[t].f = "accept4" /\ Goes(t, Idle)
      /\ UNCHANGED <<setup, libc, opt, asked, ready, data, forks, calls, faults>>
      /\ \/ known' = known \cup {new} /\ UNCHANGED owner
         \/ owner' = [owner EXCEPT ![new] = "none"] /\ UNCHANGED known
  BY Zenon DEF accept4_flags, Rejected
<1>2. Idle \in Frames /\ Idle.f = "idle"
  BY Zenon DEF Frames, Idle
<1>3. /\ fr' \in [Threads -> Frames] /\ fr'[t] = Idle
      /\ \A u \in Threads : u # t => fr'[u] = fr[u]
      /\ Apart
  BY <1>1, <1>2, Replaced DEF Apart
<1>4. misrouted' = misrouted
  BY <1>1, Zenon DEF faults
<1>5. DataInv' /\ ForkInv' /\ LookInv' /\ OptInv'
  BY <1>1, <1>3, RestKept, OptKept, Zenon
<1>7. /\ new \in NfpFds /\ new \in Fds /\ owner[new] = "nfp" /\ new \notin known
      /\ \A u \in Threads : fr[u].f = "accept4" /\ fr[u].fd = new => u = t
      /\ \A u \in Threads : fr[u].f = "accept4" => fr[u].fd \in Fds
  BY <1>1, FrameFacts, FdFacts, Zenon DEF IInv, Types, AcceptInv, AcceptFrames
<1> HIDE DEF new
<1>8. /\ owner' \in [Fds -> Owners] /\ known' \subseteq Fds
      /\ \A g \in Fds : g # new => owner'[g] = owner[g]
      /\ \A g \in known' : g = new \/ g \in known
      /\ known \subseteq known'
      /\ \/ owner'[new] = "nfp" /\ new \in known'
         \/ owner'[new] = "none" /\ new \notin known'
  BY <1>1, <1>7, ZenonT(30) DEF IInv, Types, Owners
<1>9. Types'
  BY <1>1, <1>3, <1>4, <1>8, Typed, TypesKept, Zenon
<1>10. OwnInv'
  BY <1>1, <1>4, <1>7, <1>8, FdFacts, Typed DEF IInv, OwnInv
<1>11. AcceptInv'
  BY <1>2, <1>3, <1>7, <1>8 DEF IInv, AcceptInv
<1>12. NoLeak'
  <2> SUFFICES ASSUME NEW fd \in NfpFds, owner'[fd] \notin {"none", "forgotten"},
                      fd \notin known'
               PROVE  \E u \in Threads : fr'[u].f = "accept4" /\ fr'[u].fd = fd
    BY Zenon DEF NoLeak
  <2>1. fd # new /\ fd \in Fds /\ fd \notin known
    BY <1>8, FdFacts, Zenon
  <2>2. PICK u \in Threads : fr[u].f = "accept4" /\ fr[u].fd = fd
    BY <1>8, <2>1, Zenon DEF IInv, NoLeak
  <2> QED
    BY <1>3, <2>1, <2>2, Zenon DEF new
<1> QED
  BY <1>5, <1>9, <1>10, <1>11, <1>12, Zenon DEF IInv

\* close() ends a descriptor that the program has.
LEMMA closeStep ==
  ASSUME IInv, NEW t \in Threads, close(t)
  PROVE  IInv'
<1>1. calls' \in Budgets /\ UNCHANGED <<setup, data, fr, forks>>
  BY CallFacts, Zenon DEF IInv, close
<1>2. PICK fd \in known :
        /\ \/ Libc("close", fd) /\ UNCHANGED <<opt, asked, ready>>
           \/ /\ Nfp(fd) /\ ready' = ready \ {fd}
              /\ opt' = [opt EXCEPT ![fd] = 0]
              /\ asked' = [asked EXCEPT ![fd] = "none"]
        /\ owner' = [owner EXCEPT ![fd] = "none"] /\ known' = known \ {fd}
  BY Zenon DEF close
<1>3. /\ misrouted' = misrouted /\ libc \subseteq libc' /\ libc' \subseteq Names
      /\ Nfp(fd) => fd \in NfpFds
  BY <1>2, NameFacts, Route, Zenon
<1>4. Apart
  BY <1>1, Zenon DEF Apart
<1>5. DataInv' /\ ForkInv' /\ LookInv'
  BY <1>1, <1>3, <1>4, RestKept, Zenon
<1>7. /\ opt' \in [NfpFds -> Nat] /\ ready' \subseteq NfpFds
      /\ asked' \in [NfpFds -> DOMAIN SetOption \cup {"none"}]
  BY <1>2, <1>3, Typed
<1>8. /\ owner' \in [Fds -> Owners] /\ known' \subseteq Fds
      /\ fd \in Fds /\ owner'[fd] = "none"
      /\ \A g \in Fds : g # fd => owner'[g] = owner[g]
  BY <1>2, Typed, Zenon DEF Owners
<1>9. Types'
  BY <1>1, <1>3, <1>7, <1>8, Typed, TypesKept, Zenon
<1>10. OptInv'
  BY <1>2, Zenon DEF IInv, Types, OptInv
<1>11. OwnInv'
  BY <1>1, <1>2, <1>3, <1>8, FdFacts, Typed DEF IInv, OwnInv
<1>12. \A u \in Threads : fr[u].f = "accept4" => fr[u].fd \in Fds /\ fr[u].fd # fd
  BY <1>2, Accepting, Zenon
<1>13. AcceptInv'
  BY <1>1, <1>2, <1>8, <1>12 DEF IInv, AcceptInv
<1>14. NoLeak'
  BY <1>1, <1>2, <1>8, FdFacts DEF IInv, NoLeak
<1> QED
  BY <1>5, <1>9, <1>10, <1>11, <1>13, <1>14, Zenon DEF IInv

-----------------------------------------------------------------------------
(* The constructor, and select().                                          *)

\* The constructor proceeds: it looks pointers up before it counts them done.
LEMMA SetupStep ==
  ASSUME IInv, setup_common_vars \/ setup_wrappers
  PROVE  IInv'
<1>1. /\ UNCHANGED <<sockets, data, fr, forks, calls, faults>>
      /\ setup' \in -1..9 /\ (setup >= 1 => setup' >= 1)
      /\ libc \subseteq libc'
  BY DEF setup_common_vars, setup_wrappers, IInv, Types
<1>2. /\ Same("accept4") /\ Same("fork")
      /\ UNCHANGED <<sent, ret, pos>> /\ UNCHANGED <<recursive, children>>
      /\ UNCHANGED <<owner, known, opt, asked, ready>> /\ misrouted' = misrouted
  BY <1>1, Zenon DEF Same, data, forks, sockets, faults
<1>3. OwnInv' /\ AcceptInv' /\ NoLeak' /\ ForkInv' /\ OptInv'
  BY <1>1, <1>2, SocketsKept, ForkKept, OptKept, Zenon
<1>4. DataInv'
  BY <1>1, <1>2, DataKept, Zenon DEF DataInv
<1>5. libc' \subseteq Names
  <2>1. setup \in 1..8 => Groups[setup + 1] \subseteq Names
    <3>1. setup \in 1..8 => setup + 1 \in 1..9
      OBVIOUS
    <3> QED
      BY <3>1, NameFacts, Zenon
  <2> QED
    BY <2>1, Zenon DEF setup_common_vars, setup_wrappers, IInv, Types
<1>6. Types'
  BY <1>1, <1>2, <1>5, Zenon DEF IInv, Types
<1>7. LookInv'
  <2>1. \A u \in Threads : fr'[u].f = "sendfile64" => setup' >= 1
    BY <1>1, Zenon DEF IInv, LookInv
  <2>2. CASE setup_common_vars
    BY <1>1, <2>1, <2>2 DEF setup_common_vars, LookInv
  <2>3. CASE setup_wrappers
    <3>1. /\ setup \in 1..8 /\ setup' = setup + 1
          /\ libc' = libc \cup Groups[setup + 1]
      BY <2>3, Zenon DEF setup_wrappers
    <3>2. "socket" \in Groups[2] /\ "sendfile_read" \in Groups[8]
      BY Zenon DEF Groups
    <3>3. setup' >= 2 => "socket" \in libc'
      <4>1. CASE setup = 1
        BY <3>1, <3>2, <4>1
      <4>2. CASE setup >= 2
        BY <3>1, <4>2, Zenon DEF IInv, LookInv
      <4> QED
        BY <3>1, <4>1, <4>2
    <3>4. setup' >= 8 => "sendfile_read" \in libc'
      <4>1. CASE setup = 7
        BY <3>1, <3>2, <4>1
      <4>2. CASE setup >= 8
        BY <3>1, <4>2, Zenon DEF IInv, LookInv
      <4> QED
        BY <3>1, <4>1, <4>2
    <3> QED
      BY <2>1, <3>3, <3>4, Zenon DEF LookInv
  <2> QED
    BY <2>2, <2>3, Zenon
<1> QED
  BY <1>3, <1>4, <1>6, <1>7, Zenon DEF IInv

\* A call that touches neither descriptors nor data nor fork() begins, goes on
\* or ends.
LEMMA PollStep ==
  ASSUME IInv, NEW t \in Threads, NEW x \in Frames, Goes(t, x),
         fr[t].f \in {"idle", "select"}, x.f \in {"idle", "select"},
         UNCHANGED <<setup, sockets, data, forks>>, misrouted' = misrouted,
         libc \subseteq libc', libc' \subseteq Names, calls' \in Budgets
  PROVE  IInv'
<1>1. /\ fr' \in [Threads -> Frames] /\ fr'[t] = x
      /\ \A u \in Threads : u # t => fr'[u] = fr[u]
      /\ Same("accept4") /\ Apart
  BY Replaced DEF Apart
<1>2. UNCHANGED <<owner, known, opt, asked, ready>>
  BY Zenon DEF sockets
<1>3. OwnInv' /\ AcceptInv' /\ NoLeak' /\ OptInv'
  BY <1>1, <1>2, SocketsKept, OptKept, Zenon
<1>4. DataInv' /\ ForkInv' /\ LookInv'
  BY <1>1, RestKept, Zenon
<1>5. Types'
  BY <1>1, <1>2, TypesKept, Zenon DEF IInv, Types
<1> QED
  BY <1>3, <1>4, <1>5, Zenon DEF IInv

\* select().
LEMMA selectStep ==
  ASSUME IInv, NEW t \in Threads, select(t) \/ select_poll(t) \/ select_fail(t)
  PROVE  IInv'
<1>1. Idle \in Frames /\ Idle.f = "idle" /\ fr[t] \in Frames
  BY Zenon DEF Frames, Idle, IInv, Types
<1>2. CASE select(t)
  <2> DEFINE Does(fds, top) ==
               \/ Libc("select", top) /\ UNCHANGED fr
               \/ /\ Nfp(top)
                  /\ \E period \in Periods :
                       Starts(t, [f |-> "select", fds |-> fds \cap NfpFds,
                                  left |-> period])
               \/ Nfp(top) /\ UNCHANGED fr
  <2>0. PICK fds \in SUBSET known \ {{}} : \E top \in fds : Does(fds, top)
    BY <1>2, Zenon DEF select
  <2>1. PICK top \in fds : Does(fds, top)
    BY <2>0, Zenon
  <2>2. misrouted' = misrouted /\ libc \subseteq libc' /\ libc' \subseteq Names
    <3>1. top \in known /\ "select" \in Names
      BY NameFacts, Zenon
    <3> QED
      BY <2>1, <3>1, Route, Zenon
  <2>3. calls' \in Budgets /\ UNCHANGED <<setup, sockets, data, forks>>
    BY <1>2, CallFacts, Zenon DEF select, IInv
  <2>4. CASE UNCHANGED fr
    <3>1. ready' \subseteq NfpFds
      BY <2>3, Zenon DEF sockets, IInv, Types
    <3> QED
      BY <2>2, <2>3, <2>4, <3>1, QuietStep, Zenon DEF sockets
  <2>5. ASSUME NEW period \in Periods,
               Starts(t, [f |-> "select", fds |-> fds \cap NfpFds, left |-> period])
        PROVE  IInv'
    <3> DEFINE x == [f |-> "select", fds |-> fds \cap NfpFds, left |-> period]
    <3>1. x \in Frames /\ x.f = "select"
      BY NetwrapAssumption DEF Frames, SelectFrames
    <3>2. Goes(t, x) /\ fr[t].f = "idle"
      BY <2>5 DEF Starts, Goes, Idle
    <3> HIDE DEF x
    <3> QED
      BY <2>2, <2>3, <3>1, <3>2, PollStep, Zenon
  <2> QED
    BY <2>1, <2>4, <2>5, Zenon
<1>3. CASE select_poll(t) \/ select_fail(t)
  <2>1. /\ fr[t].f = "select"
        /\ UNCHANGED <<setup, libc, sockets, data, forks, calls, faults>>
        /\ \/ Goes(t, Idle)
           \/ fr[t].left # -1 /\ Goes(t, [fr[t] EXCEPT !.left = Waited(@)])
    BY <1>3, Zenon DEF select_poll, select_fail
  <2>2. fr[t] \in SelectFrames
    BY <1>1, <2>1, FrameFacts, Zenon
  <2> DEFINE x == [fr[t] EXCEPT !.left = Waited(@)]
  <2>3. x \in Frames /\ x.f = "select"
    BY <2>2 DEF SelectFrames, Frames, Waited
  <2>4. misrouted' = misrouted /\ calls' \in Budgets /\ libc' = libc /\ libc \subseteq Names
    BY <2>1, Zenon DEF faults, IInv, Types
  <2> HIDE DEF x
  <2>5. Goes(t, Idle) \/ Goes(t, x)
    BY <2>1, Zenon DEF x
  <2> QED
    BY <1>1, <2>1, <2>3, <2>4, <2>5, PollStep, Zenon
<1> QED
  BY <1>2, <1>3, Zenon



-----------------------------------------------------------------------------
(* What comes before a part of a writev().                                 *)

\* A non-empty set of natural numbers has a least element.
LEMMA LeastNat ==
  ASSUME NEW T, T \subseteq Nat, T # {}
  PROVE  \E x \in T : \A y \in T : ~(y < x)
<1> DEFINE R == {p \in Nat \X Nat : p[1] < p[2]}
<1>1. IsWellFoundedOn(R, Nat)
  BY NatLessThanWellFounded, Zenon DEF OpToRel
<1> HIDE DEF R
<1>2. PICK x \in T : \A y \in T : ~(<<y, x>> \in R)
  BY <1>1, WFMin, Zenon
<1> QED
  BY <1>2, Zenon DEF R

\* Induction over the natural numbers.
LEMMA Induct ==
  ASSUME NEW S \in SUBSET Nat, 0 \in S, \A n \in S : n + 1 \in S
  PROVE  S = Nat
<1> SUFFICES ASSUME Nat \ S # {} PROVE FALSE
  BY Zenon
<1>1. PICK x \in Nat \ S : \A y \in Nat \ S : ~(y < x)
  BY LeastNat, Zenon
<1>2. x - 1 \in Nat /\ x - 1 \in S
  BY <1>1
<1>3. (x - 1) + 1 \in S
  BY <1>2, Zenon
<1> QED
  BY <1>1, <1>3

\* The function that Before is, up to part n + 1.
Sums(n, b) ==
  b = [i \in 1..(n + 1) |-> IF i = 1 THEN 0 ELSE b[i - 1] + Iov[i - 1]]

\* There is one for every number of parts.
LEMMA SumsExist == \A n \in Nat : \E b : Sums(n, b)
<1> DEFINE S == {n \in Nat : \E b : Sums(n, b)}
<1>1. 0 \in S
  <2> DEFINE b == [i \in 1..1 |-> 0]
  <2>1. Sums(0, b)
    BY DEF Sums
  <2> QED
    BY <2>1, Zenon
<1>2. ASSUME NEW n \in S PROVE n + 1 \in S
  <2>1. PICK b : Sums(n, b)
    BY Zenon
  <2> DEFINE c == [i \in 1..(n + 2) |-> IF i = n + 2 THEN b[n + 1] + Iov[n + 1] ELSE b[i]]
  <2>2. \A i \in 1..(n + 1) : b[i] = IF i = 1 THEN 0 ELSE b[i - 1] + Iov[i - 1]
    BY <2>1, Zenon DEF Sums
  <2>3. n \in Nat /\ \A i \in 1..(n + 1) : c[i] = b[i]
    OBVIOUS
  <2>4. \A i \in 1..(n + 2) : c[i] = IF i = 1 THEN 0 ELSE c[i - 1] + Iov[i - 1]
    <3> TAKE i \in 1..(n + 2)
    <3>1. CASE i = n + 2
      BY <2>3, <3>1
    <3>2. CASE i # n + 2 /\ i = 1
      BY <2>2, <2>3, <3>2
    <3>3. CASE i # n + 2 /\ i # 1
      BY <2>2, <2>3, <3>3
    <3> QED
      BY <3>1, <3>2, <3>3, Zenon
  <2>5. c = [i \in 1..((n + 1) + 1) |-> IF i = 1 THEN 0 ELSE c[i - 1] + Iov[i - 1]]
    BY <2>3, <2>4
  <2> HIDE DEF c
  <2>6. Sums(n + 1, c)
    BY <2>5, Zenon DEF Sums
  <2> QED
    BY <2>6
<1> HIDE DEF S
<1>3. S = Nat
  <2>1. S \in SUBSET Nat
    BY Zenon DEF S
  <2> QED
    BY <1>1, <1>2, <2>1, Induct
<1> QED
  BY <1>3, Zenon DEF S

\* What comes before the first part, and before the next one.
LEMMA BeforeFacts ==
  /\ Before[1] = 0
  /\ \A i \in 1..Len(Iov) : Before[i + 1] = Before[i] + Iov[i]
  /\ \A i \in 1..(Len(Iov) + 1) : Before[i] \in Nat
<1>1. Len(Iov) \in Nat /\ \A i \in 1..Len(Iov) : Iov[i] \in Nat
  BY NetwrapAssumption
<1>2. Sums(Len(Iov), Before)
  <2>1. \E b : Sums(Len(Iov), b)
    BY <1>1, SumsExist, Zenon
  <2>2. Before = CHOOSE b : Sums(Len(Iov), b)
    BY Zenon DEF Before, Sums
  <2> QED
    BY <2>1, <2>2, Zenon
<1>3. \A i \in 1..(Len(Iov) + 1) : Before[i] = IF i = 1 THEN 0 ELSE Before[i - 1] + Iov[i - 1]
  BY <1>2, Zenon DEF Sums
<1>4. /\ Before[1] = 0
      /\ \A i \in 1..Len(Iov) : Before[i + 1] = Before[i] + Iov[i]
  BY <1>1, <1>3
<1>5. \A i \in 1..(Len(Iov) + 1) : Before[i] \in Nat
  <2> DEFINE S == {n \in Nat : n + 1 \in 1..(Len(Iov) + 1) => Before[n + 1] \in Nat}
  <2>1. 0 \in S
    BY <1>4
  <2>2. ASSUME NEW n \in S PROVE n + 1 \in S
    BY <1>1, <1>4
  <2> HIDE DEF S
  <2>3. S = Nat
    <3>1. S \in SUBSET Nat
      BY Zenon DEF S
    <3> QED
      BY <2>1, <2>2, <3>1, Induct, Zenon
  <2>4. ASSUME NEW i \in 1..(Len(Iov) + 1) PROVE Before[i] \in Nat
    <3>1. i - 1 \in S /\ (i - 1) + 1 = i
      BY <1>1, <2>3
    <3> QED
      BY <3>1, Zenon DEF S
  <2> QED
    BY <2>4, Zenon
<1> QED
  BY <1>4, <1>5, Zenon

-----------------------------------------------------------------------------
(* writev() and sendfile64().                                              *)

\* The parts of a concatenation.
LEMMA ConcatFacts ==
  ASSUME NEW s \in Seq(Int), NEW q \in Seq(Int)
  PROVE  /\ s \o q \in Seq(Int) /\ Len(s \o q) = Len(s) + Len(q)
         /\ Len(s) \in Nat /\ Len(q) \in Nat
         /\ \A k \in 1..Len(s) : (s \o q)[k] = s[k]
         /\ \A k \in 1..Len(q) : (s \o q)[k + Len(s)] = q[k]
  OBVIOUS

\* NFP takes the bytes that follow what it has taken: it is still one run.
LEMMA TakesFacts ==
  ASSUME NEW s \in Seq(Int), NEW first \in Int, Run(s, first), NEW n \in Nat,
         NEW before \in Int, first + Len(s) = before + 1
  PROVE  LET r == s \o [k \in 1..n |-> before + k]
         IN  r \in Seq(Int) /\ Len(r) = Len(s) + n /\ Run(r, first)
<1> DEFINE q == [k \in 1..n |-> before + k]
           r == s \o q
<1>1. q \in Seq(Int) /\ Len(q) = n /\ \A k \in 1..n : q[k] = before + k
  OBVIOUS
<1> HIDE DEF q
<1>2. /\ r \in Seq(Int) /\ Len(r) = Len(s) + n /\ Len(s) \in Nat
      /\ \A k \in 1..Len(s) : r[k] = s[k]
      /\ \A k \in 1..n : r[k + Len(s)] = q[k]
  BY <1>1, ConcatFacts, Zenon
<1> HIDE DEF r
<1>3. ASSUME NEW k \in 1..Len(r) PROVE r[k] = first + k - 1
  <2>1. CASE k <= Len(s)
    <3>1. k \in 1..Len(s)
      BY <1>2, <2>1
    <3> QED
      BY <1>2, <3>1, Zenon DEF Run
  <2>2. CASE k > Len(s)
    <3>1. k - Len(s) \in 1..n /\ (k - Len(s)) + Len(s) = k
      BY <1>2, <2>2
    <3>2. r[k] = before + (k - Len(s))
      BY <1>1, <1>2, <3>1, Zenon
    <3>3. Len(s) \in Nat /\ k \in Int
      BY <1>2
    <3>4. before + (k - Len(s)) = first + k - 1
      BY <3>3, SMTT(30)
    <3> QED
      BY <3>2, <3>4, Zenon
  <2> QED
    BY <1>2, <2>1, <2>2
<1> QED
  BY <1>2, <1>3, Zenon DEF Run, r, q

\* What is known of the data, whatever call a thread is in.
LEMMA DataTypes ==
  ASSUME IInv, NEW t \in Threads
  PROVE  /\ sent \in [Threads -> Seq(Int)] /\ sent[t] \in Seq(Int) /\ Len(sent[t]) \in Nat
         /\ ret \in [Threads -> Int] /\ ret[t] \in -1..(Before[Len(Iov) + 1] + FileLen)
         /\ pos \in [Threads -> 0..FileLen] /\ pos[t] \in 0..FileLen
         /\ FileLen \in Nat /\ BUF_SIZE \in Nat /\ Before[Len(Iov) + 1] \in Nat
         /\ \E first \in Int : Run(sent[t], first)
         /\ libc \subseteq Names /\ calls \in Budgets
<1>1. /\ sent \in [Threads -> Seq(Int)] /\ ret \in [Threads -> Int]
      /\ pos \in [Threads -> 0..FileLen] /\ libc \subseteq Names /\ calls \in Budgets
  BY Zenon DEF IInv, Types
<1>2. /\ ret[t] \in -1..(Before[Len(Iov) + 1] + FileLen)
      /\ \E first \in Int : Run(sent[t], first)
  BY Zenon DEF IInv, DataInv, Data
<1>3. FileLen \in Nat /\ BUF_SIZE \in Nat /\ Before[Len(Iov) + 1] \in Nat
  BY NetwrapAssumption, BeforeFacts
<1> QED
  BY <1>1, <1>2, <1>3

\* writev() and sendfile64() concern nothing but their data.
LEMMA DataOnly ==
  ASSUME IInv, NEW t \in Threads, NEW x \in Frames, Goes(t, x),
         {fr[t].f, x.f} \subseteq {"idle", "writev", "sendfile64"},
         x.f = "sendfile64" => setup >= 1,
         sent' \in [Threads -> Seq(Int)], ret' \in [Threads -> Int],
         pos' \in [Threads -> 0..FileLen],
         \A u \in Threads : u # t => /\ sent'[u] = sent[u] /\ ret'[u] = ret[u]
                                     /\ pos'[u] = pos[u],
         Data(t)', UNCHANGED <<setup, sockets, forks>>, misrouted' = misrouted,
         libc \subseteq libc', libc' \subseteq Names, calls' \in Budgets
  PROVE  IInv'
<1>1. /\ fr' \in [Threads -> Frames] /\ fr'[t] = x
      /\ \A u \in Threads : u # t => fr'[u] = fr[u]
      /\ Same("accept4") /\ Same("fork")
  BY Replaced, Zenon
<1>2. /\ UNCHANGED <<recursive, children>>
      /\ UNCHANGED <<owner, known, opt, asked, ready>>
  BY Zenon DEF forks, sockets
<1>3. OwnInv' /\ AcceptInv' /\ NoLeak' /\ ForkInv' /\ OptInv'
  BY <1>1, <1>2, SocketsKept, ForkKept, OptKept
<1>4. LookInv'
  BY <1>1, Zenon DEF IInv, LookInv
<1>5. DataInv'
  <2>1. ASSUME NEW u \in Threads PROVE Data(u)'
    <3>1. CASE u = t
      BY <3>1, Zenon
    <3>2. CASE u # t
      BY <1>1, <3>2, DataKept, Zenon
    <3> QED
      BY <3>1, <3>2, Zenon
  <2> QED
    BY <2>1, Zenon DEF DataInv
<1>6. Types'
  BY <1>1, <1>2, Zenon DEF IInv, Types
<1> QED
  BY <1>3, <1>4, <1>5, <1>6 DEF IInv

\* A call begins, with nothing sent.
LEMMA DataBegins ==
  ASSUME IInv, NEW t \in Threads, fr[t] = Idle, NEW x \in Frames, Goes(t, x),
         \/ x.f = "writev" /\ x.i = 1 /\ x.iov_snt = 0 /\ x.writev_sum = 0
         \/ /\ x.f = "sendfile64" /\ x.processed = 0 /\ x.size = 0 /\ x.sum = 0
            /\ setup >= 1,
         sent' = [sent EXCEPT ![t] = <<>>], UNCHANGED ret,
         NEW p \in 0..FileLen, pos' = [pos EXCEPT ![t] = p],
         UNCHANGED <<setup, sockets, forks>>, misrouted' = misrouted,
         libc \subseteq libc', libc' \subseteq Names, calls' \in Budgets
  PROVE  IInv'
<1>1. fr[t].f = "idle" /\ fr'[t] = x
  BY Replaced DEF Idle
<1>2. /\ sent' \in [Threads -> Seq(Int)] /\ sent'[t] = <<>>
      /\ pos' \in [Threads -> 0..FileLen] /\ pos'[t] = p
      /\ ret' \in [Threads -> Int] /\ ret'[t] = ret[t]
      /\ \A u \in Threads : u # t => /\ sent'[u] = sent[u] /\ ret'[u] = ret[u]
                                     /\ pos'[u] = pos[u]
  BY DataTypes
<1>3. Len(sent'[t]) = 0 /\ \A first \in Int : Run(sent'[t], first)
  BY <1>2 DEF Run
<1>4. Len(Iov) \in Nat /\ (1 <= Len(Iov) => Iov[1] \in Nat)
  BY NetwrapAssumption
<1>5. Data(t)'
  <2>1. ret'[t] \in -1..(Before[Len(Iov) + 1] + FileLen)
    BY <1>2, DataTypes, Zenon
  <2>2. CASE x.f = "writev" /\ x.i = 1 /\ x.iov_snt = 0 /\ x.writev_sum = 0
    BY <1>1, <1>3, <1>4, <2>1, <2>2, BeforeFacts DEF Data
  <2>3. CASE x.f = "sendfile64" /\ x.processed = 0 /\ x.size = 0 /\ x.sum = 0
    BY <1>1, <1>2, <1>3, <2>1, <2>3 DEF Data
  <2> QED
    BY <2>2, <2>3, Zenon
<1> QED
  BY <1>1, <1>2, <1>5, DataOnly

\* A call ends, with an error or with the length of what was sent.
LEMMA DataEnds ==
  ASSUME IInv, NEW t \in Threads, fr[t].f \in {"writev", "sendfile64"},
         NEW val \in Int, Returns(t, val), UNCHANGED sent,
         \/ val = -1
         \/ val = Len(sent[t]) /\ val <= Before[Len(Iov) + 1] + FileLen,
         NEW p \in 0..FileLen, pos' = [pos EXCEPT ![t] = p],
         UNCHANGED <<setup, libc, sockets, forks, calls>>, misrouted' = misrouted
  PROVE  IInv'
<1>1. Idle \in Frames /\ Idle.f = "idle" /\ Goes(t, Idle)
  BY Zenon DEF Frames, Idle, Returns, Goes
<1>2. fr'[t] = Idle
  BY <1>1, Replaced, Zenon
<1>3. /\ ret' \in [Threads -> Int] /\ ret'[t] = val
      /\ pos' \in [Threads -> 0..FileLen] /\ sent' \in [Threads -> Seq(Int)]
      /\ \A u \in Threads : u # t => /\ sent'[u] = sent[u] /\ ret'[u] = ret[u]
                                     /\ pos'[u] = pos[u]
  BY DataTypes, Zenon DEF Returns
<1>4. /\ val \in -1..(Before[Len(Iov) + 1] + FileLen)
      /\ val > 0 => Len(sent[t]) = val
  BY DataTypes
<1>5. Data(t)'
  BY <1>1, <1>2, <1>3, <1>4, DataTypes, Zenon DEF Data
<1> QED
  BY <1>1, <1>3, <1>5, DataTypes, DataOnly, Zenon

\* A call fails.
LEMMA DataFails ==
  ASSUME IInv, NEW t \in Threads, fr[t].f \in {"writev", "sendfile64"},
         Returns(t, -1), UNCHANGED <<sent, pos>>,
         UNCHANGED <<setup, libc, sockets, forks, calls>>, misrouted' = misrouted
  PROVE  IInv'
<1>1. -1 \in Int /\ UNCHANGED sent
  OBVIOUS
<1>2. pos[t] \in 0..FileLen /\ pos' = [pos EXCEPT ![t] = pos[t]]
  BY DataTypes, Zenon
<1> QED
  BY <1>1, <1>2, DataEnds, Zenon

\* writev() begins.
LEMMA writevStep ==
  ASSUME IInv, NEW t \in Threads, writev(t)
  PROVE  IInv'
<1>1. PICK fd \in known :
        \/ Libc("writev", fd) /\ UNCHANGED <<fr, data>>
        \/ /\ Nfp(fd)
           /\ Starts(t, [f |-> "writev", fd |-> fd, i |-> 1, iov_snt |-> 0,
                         writev_sum |-> 0])
           /\ sent' = [sent EXCEPT ![t] = <<>>] /\ UNCHANGED <<ret, pos>>
  BY Zenon DEF writev
<1>2. misrouted' = misrouted /\ libc \subseteq libc' /\ libc' \subseteq Names
  BY <1>1, NameFacts, Route, Zenon
<1>3. calls' \in Budgets /\ UNCHANGED <<setup, sockets, forks>> /\ fr[t] = Idle
  BY CallFacts, Zenon DEF writev, IInv
<1>4. CASE UNCHANGED <<fr, data>>
  <2>1. ready' \subseteq NfpFds
    BY <1>3, Zenon DEF sockets, IInv, Types
  <2> QED
    BY <1>2, <1>3, <1>4, <2>1, QuietStep DEF sockets
<1>5. CASE /\ Starts(t, [f |-> "writev", fd |-> fd, i |-> 1, iov_snt |-> 0,
                         writev_sum |-> 0])
           /\ sent' = [sent EXCEPT ![t] = <<>>] /\ UNCHANGED <<ret, pos>>
  <2> DEFINE x == [f |-> "writev", fd |-> fd, i |-> 1, iov_snt |-> 0, writev_sum |-> 0]
  <2>1. fd \in Fds /\ 1 \in 1..(Len(Iov) + 1)
    BY NetwrapAssumption DEF IInv, Types
  <2>2. /\ x \in WritevFrames
        /\ x.f = "writev" /\ x.i = 1 /\ x.iov_snt = 0 /\ x.writev_sum = 0
    BY <2>1, Zenon DEF WritevFrames
  <2>3. x \in Frames
    BY <2>2, Zenon DEF Frames
  <2>4. Goes(t, x)
    BY <1>5, Zenon DEF Starts, Goes
  <2> HIDE DEF x
  <2>5. pos[t] \in 0..FileLen /\ pos' = [pos EXCEPT ![t] = pos[t]]
    BY <1>5, DataTypes, Zenon
  <2> QED
    BY <1>2, <1>3, <1>5, <2>2, <2>3, <2>4, <2>5, DataBegins, ZenonT(30)
<1> QED
  BY <1>1, <1>4, <1>5, Zenon

\* What is known of a thread that is in writev().
LEMMA WritevFacts ==
  ASSUME IInv, NEW t \in Threads, fr[t].f = "writev"
  PROVE  /\ fr[t] \in WritevFrames
         /\ fr[t].i \in 1..(Len(Iov) + 1) /\ fr[t].iov_snt \in Nat
         /\ fr[t].writev_sum = Before[fr[t].i] /\ Before[fr[t].i] \in Nat
         /\ fr[t].iov_snt <= IF fr[t].i <= Len(Iov) THEN Iov[fr[t].i] ELSE 0
         /\ Len(sent[t]) = Before[fr[t].i] + fr[t].iov_snt /\ Run(sent[t], 1)
         /\ Len(Iov) \in Nat /\ \A k \in 1..Len(Iov) : Iov[k] \in Nat
<1>1. fr[t] \in WritevFrames
  BY FrameFacts, Zenon DEF IInv, Types
<1>2. fr[t].i \in 1..(Len(Iov) + 1) /\ fr[t].iov_snt \in Nat
  BY <1>1, Zenon DEF WritevFrames
<1>3. /\ fr[t].writev_sum = Before[fr[t].i]
      /\ fr[t].iov_snt <= IF fr[t].i <= Len(Iov) THEN Iov[fr[t].i] ELSE 0
      /\ Len(sent[t]) = Before[fr[t].i] + fr[t].iov_snt /\ Run(sent[t], 1)
  BY Zenon DEF IInv, DataInv, Data
<1>4. Before[fr[t].i] \in Nat
  BY <1>2, BeforeFacts, Zenon
<1>5. Len(Iov) \in Nat /\ \A k \in 1..Len(Iov) : Iov[k] \in Nat
  BY NetwrapAssumption
<1> QED
  BY <1>1, <1>2, <1>3, <1>4, <1>5

\* A call of writev() that has come to byte snt of part i.
WritevAt(v, i, snt) == [v EXCEPT !.i = i, !.iov_snt = snt, !.writev_sum = Before[i]]

\* It is a call of writev().
LEMMA WritevFrame ==
  ASSUME NEW v \in WritevFrames, NEW i \in 1..(Len(Iov) + 1), NEW snt \in Nat
  PROVE  /\ WritevAt(v, i, snt) \in Frames /\ WritevAt(v, i, snt).f = "writev"
         /\ WritevAt(v, i, snt).i = i /\ WritevAt(v, i, snt).iov_snt = snt
         /\ WritevAt(v, i, snt).writev_sum = Before[i]
<1>1. Before[i] \in Nat
  BY BeforeFacts, Zenon
<1> QED
  BY <1>1, Zenon DEF WritevAt, WritevFrames, Frames

\* writev() goes on, with what it has counted and what was sent.
LEMMA WritevGoes ==
  ASSUME IInv, NEW t \in Threads, fr[t].f = "writev",
         NEW i \in 1..(Len(Iov) + 1), NEW snt \in Nat,
         snt <= IF i <= Len(Iov) THEN Iov[i] ELSE 0,
         Goes(t, WritevAt(fr[t], i, snt)),
         NEW r \in Seq(Int), Len(r) = Before[i] + snt, Run(r, 1),
         sent' = [sent EXCEPT ![t] = r],
         UNCHANGED <<ret, pos>>, UNCHANGED <<setup, libc, sockets, forks, calls>>,
         misrouted' = misrouted
  PROVE  IInv'
<1> DEFINE x == WritevAt(fr[t], i, snt)
<1>1. /\ x \in Frames /\ x.f = "writev"
      /\ x.i = i /\ x.iov_snt = snt /\ x.writev_sum = Before[i]
  <2>1. fr[t] \in WritevFrames
    BY WritevFacts, Zenon
  <2> QED
    BY <2>1, WritevFrame
<1> HIDE DEF x
<1>2. Goes(t, x) /\ fr'[t] = x
  BY <1>1, Replaced, Zenon DEF x
<1>3. /\ sent' \in [Threads -> Seq(Int)] /\ sent'[t] = r
      /\ pos' \in [Threads -> 0..FileLen] /\ ret' \in [Threads -> Int]
      /\ \A u \in Threads : u # t => /\ sent'[u] = sent[u] /\ ret'[u] = ret[u]
                                     /\ pos'[u] = pos[u]
  BY DataTypes, Zenon
<1>4. /\ ret'[t] \in -1..(Before[Len(Iov) + 1] + FileLen)
      /\ \E first \in Int : Run(r, first)
  BY DataTypes
<1>5. /\ fr'[t].f = "writev" /\ fr'[t].writev_sum = Before[fr'[t].i]
      /\ fr'[t].iov_snt <= IF fr'[t].i <= Len(Iov) THEN Iov[fr'[t].i] ELSE 0
      /\ Len(sent'[t]) = Before[fr'[t].i] + fr'[t].iov_snt /\ Run(sent'[t], 1)
      /\ \E first \in Int : Run(sent'[t], first)
  BY <1>1, <1>2, <1>3, <1>4, Zenon
<1>6. Data(t)'
  BY <1>4, <1>5, Zenon DEF Data
<1> QED
  BY <1>1, <1>2, <1>3, <1>6, DataTypes, DataOnly, ZenonT(30)

\* writev() goes on with the part it is at, or with the next, or ends.
LEMMA writev_sendStep ==
  ASSUME IInv, NEW t \in Threads, writev_send(t)
  PROVE  IInv'
<1> DEFINE v == fr[t]
<1>1. /\ v.f = "writev" /\ misrouted' = misrouted /\ UNCHANGED pos
      /\ UNCHANGED <<setup, libc, sockets, forks, calls>>
  BY Zenon DEF writev_send, faults
<1>2. /\ v \in WritevFrames /\ v.i \in 1..(Len(Iov) + 1) /\ v.iov_snt \in Nat
      /\ v.writev_sum = Before[v.i] /\ Before[v.i] \in Nat
      /\ v.iov_snt <= IF v.i <= Len(Iov) THEN Iov[v.i] ELSE 0
      /\ Len(sent[t]) = Before[v.i] + v.iov_snt /\ Run(sent[t], 1)
      /\ Len(Iov) \in Nat /\ \A k \in 1..Len(Iov) : Iov[k] \in Nat
  BY <1>1, WritevFacts, Zenon
<1>3. sent[t] \in Seq(Int) /\ sent = [sent EXCEPT ![t] = sent[t]]
  BY DataTypes, Zenon
<1>4. CASE Returns(t, -1) /\ UNCHANGED sent
  BY <1>1, <1>4, DataFails, Zenon
<1>5. CASE v.i > Len(Iov) /\ Returns(t, v.writev_sum) /\ UNCHANGED sent
  <2>1. /\ FileLen \in Nat /\ Before[Len(Iov) + 1] \in Nat
        /\ pos[t] \in 0..FileLen /\ pos' = [pos EXCEPT ![t] = pos[t]]
    BY <1>1, DataTypes, Zenon
  <2>2. v.i = Len(Iov) + 1 /\ v.iov_snt = 0
    BY <1>2, <1>5
  <2>3. /\ v.writev_sum \in Int /\ v.writev_sum = Len(sent[t])
        /\ v.writev_sum <= Before[Len(Iov) + 1] + FileLen
    BY <1>2, <2>1, <2>2
  <2> QED
    BY <1>1, <1>5, <2>1, <2>3, DataEnds, Zenon
<1>6. CASE /\ v.i <= Len(Iov) /\ v.iov_snt = Iov[v.i] /\ UNCHANGED <<sent, ret>>
           /\ Goes(t, [v EXCEPT !.i = @ + 1, !.iov_snt = 0, !.writev_sum = @ + Iov[v.i]])
  <2>1. /\ v.i + 1 \in 1..(Len(Iov) + 1) /\ v.i \in 1..Len(Iov) /\ 0 \in Nat
        /\ 0 <= IF v.i + 1 <= Len(Iov) THEN Iov[v.i + 1] ELSE 0
    BY <1>2, <1>6
  <2>2. Before[v.i + 1] = Before[v.i] + Iov[v.i]
    BY <2>1, BeforeFacts, Zenon
  <2>3. Len(sent[t]) = Before[v.i + 1] + 0
    BY <1>2, <1>6, <2>1, <2>2
  <2>4. Goes(t, WritevAt(v, v.i + 1, 0))
    BY <1>2, <1>6, <2>2, Zenon DEF WritevAt
  <2>5. UNCHANGED <<ret, pos>> /\ sent' = [sent EXCEPT ![t] = sent[t]]
    BY <1>1, <1>3, <1>6
  <2> QED
    BY <1>1, <1>2, <1>3, <2>1, <2>3, <2>4, <2>5, WritevGoes, ZenonT(30)
<1>7. ASSUME NEW n \in 1..(Iov[v.i] - v.iov_snt), v.i <= Len(Iov),
             Takes(t, Before[v.i] + v.iov_snt, n),
             Goes(t, [v EXCEPT !.iov_snt = @ + n]), UNCHANGED ret
      PROVE  IInv'
  <2> DEFINE before == Before[v.i] + v.iov_snt
             r == sent[t] \o [k \in 1..n |-> before + k]
  <2>1. /\ n \in Nat /\ v.iov_snt + n \in Nat
        /\ v.iov_snt + n <= IF v.i <= Len(Iov) THEN Iov[v.i] ELSE 0
        /\ before \in Int /\ 1 + Len(sent[t]) = before + 1
        /\ Len(sent[t]) + n = Before[v.i] + (v.iov_snt + n)
    <3>1. Iov[v.i] \in Nat
      BY <1>2, <1>7
    <3>2. v.iov_snt \in Nat /\ Before[v.i] \in Nat
      BY <1>2, Zenon
    <3>3. /\ n \in Nat /\ v.iov_snt + n \in Nat /\ v.iov_snt + n <= Iov[v.i]
          /\ before \in Int /\ 1 + before = before + 1
          /\ before + n = Before[v.i] + (v.iov_snt + n)
      BY <3>1, <3>2
    <3>4. /\ (IF v.i <= Len(Iov) THEN Iov[v.i] ELSE 0) = Iov[v.i]
          /\ Len(sent[t]) = before
      BY <1>2, <1>7, Zenon
    <3> HIDE DEF before
    <3> QED
      BY <3>3, <3>4, Zenon
  <2>2. sent' = [sent EXCEPT ![t] = r]
    BY <1>7, Zenon DEF Takes
  <2>3. r \in Seq(Int) /\ Len(r) = Before[v.i] + (v.iov_snt + n) /\ Run(r, 1)
    <3> HIDE DEF before
    <3>1. Run(sent[t], 1) /\ sent[t] \in Seq(Int)
      BY <1>2, <1>3, Zenon
    <3>2. 1 \in Int /\ n \in Nat /\ before \in Int /\ 1 + Len(sent[t]) = before + 1
      BY <2>1
    <3>3. r \in Seq(Int) /\ Len(r) = Len(sent[t]) + n /\ Run(r, 1)
      BY <3>1, <3>2, TakesFacts, Zenon
    <3> QED
      BY <2>1, <3>3, Zenon
  <2> HIDE DEF r
  <2>4. Goes(t, WritevAt(v, v.i, v.iov_snt + n))
    <3>1. WritevAt(v, v.i, v.iov_snt + n) = [v EXCEPT !.iov_snt = @ + n]
      BY <1>2, Zenon DEF WritevAt, WritevFrames
    <3> QED
      BY <1>7, <3>1, Zenon
  <2>5. UNCHANGED <<ret, pos>>
    BY <1>1, <1>7, Zenon
  <2> QED
    BY <1>1, <1>2, <2>1, <2>2, <2>3, <2>4, <2>5, WritevGoes, ZenonT(30)
<1>8. CASE Goes(t, v) /\ UNCHANGED <<sent, ret>>
  <2>1. UNCHANGED <<fr, data>>
    BY <1>1, <1>8, Zenon DEF Goes, data, IInv, Types
  <2> QED
    BY <1>1, <2>1, DataTypes, QuietStep DEF sockets, IInv, Types
<1> QED
  BY <1>4, <1>5, <1>6, <1>7, <1>8, Zenon DEF writev_send, Retry

\* sendfile64() begins at the offset, or at the position of the file.
LEMMA sendfile64Step ==
  ASSUME IInv, NEW t \in Threads, sendfile64(t)
  PROVE  IInv'
<1> DEFINE x(fd, count, offset) ==
             [f |-> "sendfile64", fd |-> fd, count |-> count, offset |-> offset,
              orig |-> pos[t], processed |-> 0, size |-> 0, sum |-> 0]
<1>1. PICK fd \in known :
        \/ Libc("sendfile64", fd) /\ UNCHANGED <<fr, data>>
        \/ /\ Nfp(fd)
           /\ \E count \in Counts, offset \in BOOLEAN :
              \E start \in IF offset THEN Offsets ELSE {pos[t]} :
                Starts(t, x(fd, count, offset)) /\ pos' = [pos EXCEPT ![t] = start]
           /\ sent' = [sent EXCEPT ![t] = <<>>] /\ UNCHANGED ret
  BY Zenon DEF sendfile64
<1>2. /\ misrouted' = misrouted /\ libc \subseteq libc' /\ libc' \subseteq Names
      /\ Nfp(fd) => setup >= 1
  BY <1>1, NameFacts, Route, Zenon
<1>3. calls' \in Budgets /\ UNCHANGED <<setup, sockets, forks>> /\ fr[t] = Idle
  BY CallFacts, Zenon DEF sendfile64, IInv
<1>4. CASE UNCHANGED <<fr, data>>
  <2>1. ready' \subseteq NfpFds
    BY <1>3, Zenon DEF sockets, IInv, Types
  <2> QED
    BY <1>2, <1>3, <1>4, <2>1, QuietStep DEF sockets
<1>5. ASSUME Nfp(fd), NEW count \in Counts, NEW offset \in BOOLEAN,
             NEW start \in IF offset THEN Offsets ELSE {pos[t]},
             Starts(t, x(fd, count, offset)), pos' = [pos EXCEPT ![t] = start],
             sent' = [sent EXCEPT ![t] = <<>>], UNCHANGED ret
      PROVE  IInv'
  <2> DEFINE y == x(fd, count, offset)
  <2>1. pos[t] \in 0..FileLen /\ start \in 0..FileLen /\ fd \in Fds /\ count \in Nat
    BY DataTypes, NetwrapAssumption DEF IInv, Types
  <2>2. /\ y \in SendfileFrames /\ y.f = "sendfile64" /\ y.processed = 0
        /\ y.size = 0 /\ y.sum = 0
    BY <2>1, ZenonT(30) DEF SendfileFrames
  <2>3. y \in Frames
    BY <2>2, Zenon DEF Frames
  <2>4. Goes(t, y)
    BY <1>5, Zenon DEF Starts, Goes
  <2> HIDE DEF y
  <2> QED
    BY <1>2, <1>3, <1>5, <2>1, <2>2, <2>3, <2>4, DataBegins, ZenonT(30)
<1> HIDE DEF x
<1> QED
  BY <1>1, <1>4, <1>5, Zenon

\* What is known of a thread that is in sendfile64().
LEMMA SendfileFacts ==
  ASSUME IInv, NEW t \in Threads, fr[t].f = "sendfile64"
  PROVE  /\ fr[t] \in SendfileFrames /\ setup >= 1
         /\ fr[t].processed \in Nat /\ fr[t].size \in Nat /\ fr[t].sum \in Nat
         /\ fr[t].offset \in BOOLEAN /\ fr[t].orig \in 0..FileLen
         /\ fr[t].sum <= fr[t].size /\ pos[t] - fr[t].size - fr[t].processed >= 0
         /\ Len(sent[t]) = fr[t].processed + fr[t].sum
         /\ Run(sent[t], pos[t] - fr[t].size - fr[t].processed + 1)
<1>1. fr[t] \in SendfileFrames
  BY FrameFacts, Zenon DEF IInv, Types
<1>2. /\ fr[t].processed \in Nat /\ fr[t].size \in Nat /\ fr[t].sum \in Nat
      /\ fr[t].offset \in BOOLEAN /\ fr[t].orig \in 0..FileLen
  BY <1>1, Zenon DEF SendfileFrames
<1>3. setup >= 1
  BY Zenon DEF IInv, LookInv
<1>4. /\ fr[t].sum <= fr[t].size /\ pos[t] - fr[t].size - fr[t].processed >= 0
      /\ Len(sent[t]) = fr[t].processed + fr[t].sum
      /\ Run(sent[t], pos[t] - fr[t].size - fr[t].processed + 1)
  BY Zenon DEF IInv, DataInv, Data
<1> QED
  BY <1>1, <1>2, <1>3, <1>4

\* A call of sendfile64() that has sent some of what it has read.
SendfileAt(v, processed, size, sum) ==
  [v EXCEPT !.processed = processed, !.size = size, !.sum = sum]

\* It is a call of sendfile64().
LEMMA SendfileFrame ==
  ASSUME NEW v \in SendfileFrames, NEW processed \in Nat, NEW size \in Nat,
         NEW sum \in Nat
  PROVE  LET x == SendfileAt(v, processed, size, sum)
         IN  /\ x \in Frames /\ x.f = "sendfile64"
             /\ x.processed = processed /\ x.size = size /\ x.sum = sum
  BY Zenon DEF SendfileAt, SendfileFrames, Frames

\* What it returns, and where the next bytes come from.
LEMMA ReadCounts ==
  ASSUME NEW done \in Nat, NEW size \in Nat, NEW p \in 0..FileLen,
         p - size - done >= 0, FileLen \in Nat, BUF_SIZE \in Nat
  PROVE  LET n == IF FileLen - p < BUF_SIZE THEN FileLen - p ELSE BUF_SIZE
         IN  /\ done + size \in Nat /\ done + size <= FileLen
             /\ n \in Nat /\ p + n \in 0..FileLen
             /\ (p + n) - n - (done + size) >= 0
             /\ (p + n) - n - (done + size) = p - size - done
  OBVIOUS

\* sendfile64() goes on, with what it has counted and what was sent.
LEMMA SendfileGoes ==
  ASSUME IInv, NEW t \in Threads, fr[t].f = "sendfile64",
         NEW processed \in Nat, NEW size \in Nat, NEW sum \in Nat, sum <= size,
         Goes(t, SendfileAt(fr[t], processed, size, sum)),
         NEW p \in 0..FileLen, pos' = [pos EXCEPT ![t] = p], p - size - processed >= 0,
         NEW r \in Seq(Int), Len(r) = processed + sum,
         Run(r, p - size - processed + 1), sent' = [sent EXCEPT ![t] = r],
         UNCHANGED ret, UNCHANGED <<setup, libc, sockets, forks, calls>>,
         misrouted' = misrouted
  PROVE  IInv'
<1> DEFINE x == SendfileAt(fr[t], processed, size, sum)
<1>1. /\ x \in Frames /\ x.f = "sendfile64"
      /\ x.processed = processed /\ x.size = size /\ x.sum = sum
  <2>1. fr[t] \in SendfileFrames
    BY SendfileFacts, ZenonT(30)
  <2> QED
    BY <2>1, SendfileFrame
<1> HIDE DEF x
<1>2. Goes(t, x) /\ fr'[t] = x
  BY <1>1, Replaced, Zenon DEF x
<1>3. /\ sent' \in [Threads -> Seq(Int)] /\ sent'[t] = r
      /\ pos' \in [Threads -> 0..FileLen] /\ ret' \in [Threads -> Int]
      /\ \A u \in Threads : u # t => /\ sent'[u] = sent[u] /\ ret'[u] = ret[u]
                                     /\ pos'[u] = pos[u]
  BY DataTypes, ZenonT(30)
<1>4. /\ ret'[t] \in -1..(Before[Len(Iov) + 1] + FileLen) /\ pos'[t] = p
      /\ \E first \in Int : Run(r, first)
  BY DataTypes
<1>5. /\ fr'[t].f = "sendfile64" /\ fr'[t].sum <= fr'[t].size
      /\ pos'[t] - fr'[t].size - fr'[t].processed >= 0
      /\ Len(sent'[t]) = fr'[t].processed + fr'[t].sum
      /\ Run(sent'[t], pos'[t] - fr'[t].size - fr'[t].processed + 1)
      /\ \E first \in Int : Run(sent'[t], first)
  BY <1>1, <1>2, <1>3, <1>4, Zenon
<1>6. Data(t)'
  BY <1>4, <1>5, Zenon DEF Data
<1> QED
  BY <1>1, <1>2, <1>3, <1>6, DataTypes, SendfileFacts, DataOnly, ZenonT(30)

\* It reads the next bytes of the file, or ends.
LEMMA sendfile64_readStep ==
  ASSUME IInv, NEW t \in Threads, sendfile64_read(t)
  PROVE  IInv'
<1> DEFINE v == fr[t]
           processed == v.processed + v.size
           n == IF FileLen - pos[t] < BUF_SIZE THEN FileLen - pos[t] ELSE BUF_SIZE
<1>1. /\ v.f = "sendfile64" /\ v.sum = v.size /\ UNCHANGED sent
      /\ UNCHANGED <<setup, libc, sockets, forks, calls>> /\ misrouted' = misrouted
  BY Zenon DEF sendfile64_read
<1>2. /\ v.processed \in Nat /\ v.size \in Nat
      /\ v.offset \in BOOLEAN /\ v.orig \in 0..FileLen
      /\ pos[t] - v.size - v.processed >= 0 /\ Len(sent[t]) = processed
      /\ Run(sent[t], pos[t] - v.size - v.processed + 1)
  BY <1>1, SendfileFacts, Zenon
<1>3. /\ pos[t] \in 0..FileLen /\ FileLen \in Nat /\ BUF_SIZE \in Nat
      /\ Before[Len(Iov) + 1] \in Nat
  BY DataTypes, Zenon
<1>4. /\ processed \in Nat /\ processed <= FileLen /\ n \in Nat /\ pos[t] + n \in 0..FileLen
      /\ (pos[t] + n) - n - processed >= 0
      /\ (pos[t] + n) - n - processed = pos[t] - v.size - v.processed
  BY <1>2, <1>3, ReadCounts, ZenonT(30)
<1>5. CASE /\ Returns(t, processed)
           /\ pos' = [pos EXCEPT ![t] = IF v.offset THEN v.orig ELSE @]
  <2> DEFINE p == IF v.offset THEN v.orig ELSE pos[t]
  <2>1. p \in 0..FileLen /\ pos' = [pos EXCEPT ![t] = p]
    BY <1>2, <1>3, <1>5, Zenon
  <2> HIDE DEF p, processed, n
  <2>2. processed \in Int /\ processed <= Before[Len(Iov) + 1] + FileLen
    BY <1>3, <1>4
  <2> QED
    BY <1>1, <1>2, <1>5, <2>1, <2>2, DataEnds, Zenon
<1>6. CASE Returns(t, -1) /\ UNCHANGED pos
  BY <1>1, <1>6, DataFails, Zenon
<1>7. CASE /\ n > 0 /\ pos' = [pos EXCEPT ![t] = @ + n] /\ UNCHANGED ret
           /\ Goes(t, [v EXCEPT !.processed = processed, !.size = n, !.sum = 0])
  <2>1. Run(sent[t], (pos[t] + n) - n - processed + 1)
    BY <1>2, <1>4, Zenon
  <2>2. /\ sent[t] \in Seq(Int) /\ sent' = [sent EXCEPT ![t] = sent[t]]
        /\ pos' = [pos EXCEPT ![t] = pos[t] + n] /\ UNCHANGED ret
    BY <1>1, <1>7, DataTypes
  <2>3. Goes(t, SendfileAt(v, processed, n, 0))
    BY <1>7, Zenon DEF SendfileAt
  <2> HIDE DEF n, processed
  <2>4. 0 \in Nat /\ 0 <= n /\ Len(sent[t]) = processed + 0
    BY <1>2, <1>4
  <2> QED
    BY <1>1, <1>4, <2>1, <2>2, <2>3, <2>4, SendfileGoes, ZenonT(30)
<1> QED
  BY <1>5, <1>6, <1>7, Zenon DEF sendfile64_read

\* It sends what it has read.
LEMMA sendfile64_sendStep ==
  ASSUME IInv, NEW t \in Threads, sendfile64_send(t)
  PROVE  IInv'
<1> DEFINE v == fr[t]
           first == pos[t] - v.size - v.processed + 1
<1>1. /\ v.f = "sendfile64" /\ v.sum < v.size /\ misrouted' = misrouted
      /\ UNCHANGED <<setup, libc, sockets, forks, calls>> /\ UNCHANGED pos
  BY Zenon DEF sendfile64_send, faults
<1>2. CASE Returns(t, -1) /\ UNCHANGED sent
  BY <1>1, <1>2, DataFails, Zenon
<1>3. ASSUME NEW n \in 1..(v.size - v.sum), Takes(t, pos[t] - v.size + v.sum, n),
             Goes(t, [v EXCEPT !.sum = @ + n]), UNCHANGED ret
      PROVE  IInv'
  <2> DEFINE before == pos[t] - v.size + v.sum
             r == sent[t] \o [k \in 1..n |-> before + k]
  <2>1. /\ v \in SendfileFrames /\ v.processed \in Nat /\ v.size \in Nat /\ v.sum \in Nat
        /\ pos[t] - v.size - v.processed >= 0
    BY <1>1, SendfileFacts, Zenon
  <2>2. pos[t] \in 0..FileLen /\ FileLen \in Nat
    BY DataTypes, Zenon
  <2>3. /\ n \in Nat /\ v.sum + n \in Nat /\ v.sum + n <= v.size /\ first \in Int
        /\ before \in Int /\ first + Len(sent[t]) = before + 1
        /\ Len(sent[t]) + n = v.processed + (v.sum + n)
    <3>1. /\ n \in Nat /\ v.sum + n \in Nat /\ v.sum + n <= v.size /\ first \in Int
          /\ before \in Int /\ first + (v.processed + v.sum) = before + 1
          /\ (v.processed + v.sum) + n = v.processed + (v.sum + n)
      BY <2>1, <2>2
    <3>2. Len(sent[t]) = v.processed + v.sum
      BY <1>1, SendfileFacts, Zenon
    <3> HIDE DEF before, first
    <3> QED
      BY <3>1, <3>2, ZenonT(30)
  <2>4. sent' = [sent EXCEPT ![t] = r]
    BY <1>3, Zenon DEF Takes
  <2>5. r \in Seq(Int) /\ Len(r) = v.processed + (v.sum + n) /\ Run(r, first)
    <3>1. Run(sent[t], first) /\ sent[t] \in Seq(Int)
      BY <1>1, DataTypes, SendfileFacts, Zenon
    <3> HIDE DEF first, before
    <3>2. r \in Seq(Int) /\ Len(r) = Len(sent[t]) + n /\ Run(r, first)
      BY <2>3, <3>1, TakesFacts, Zenon
    <3> QED
      BY <2>3, <3>2, Zenon
  <2> HIDE DEF r
  <2>6. Goes(t, SendfileAt(v, v.processed, v.size, v.sum + n))
    <3>1. SendfileAt(v, v.processed, v.size, v.sum + n) = [v EXCEPT !.sum = @ + n]
      BY <2>1, Zenon DEF SendfileAt, SendfileFrames
    <3> QED
      BY <1>3, <3>1, Zenon
  <2>7. pos' = [pos EXCEPT ![t] = pos[t]]
    BY <1>1, DataTypes, Zenon
  <2> QED
    BY <1>1, <1>3, <2>1, <2>2, <2>3, <2>4, <2>5, <2>6, <2>7, SendfileGoes, ZenonT(30)
<1> QED
  BY <1>2, <1>3, Zenon DEF sendfile64_send

-----------------------------------------------------------------------------

\* The program starts with no descriptor and no pointer.
LEMMA InitIInv == Init => IInv
<1> SUFFICES ASSUME Init PROVE IInv
  BY Zenon
<1> USE DEF Init
<1>1. Types
  <2>1. /\ fr \in [Threads -> Frames] /\ sent \in [Threads -> Seq(Int)]
        /\ ret \in [Threads -> Int]
    BY DEF Frames
  <2>2. pos \in [Threads -> 0..FileLen] /\ setup \in -1..9 /\ calls \in Budgets
    BY NetwrapAssumption DEF Budgets
  <2>3. /\ owner \in [Fds -> Owners] /\ opt \in [NfpFds -> Nat]
        /\ asked \in [NfpFds -> DOMAIN SetOption \cup {"none"}]
    BY Zenon DEF Owners
  <2> QED
    BY <2>1, <2>2, <2>3, Zenon DEF Types
<1>2. \A t \in Threads : fr[t] = Idle /\ fr[t].f = "idle"
  BY Zenon DEF Idle
<1>3. OwnInv /\ OptInv
  BY Zenon DEF OwnInv, OptInv, Fds
<1>4. AcceptInv /\ LookInv /\ ForkInv
  BY <1>2 DEF AcceptInv, LookInv, ForkInv, InFork
<1>5. NoLeak
  BY FdFacts, Zenon DEF NoLeak
<1>6. DataInv
  <2> SUFFICES ASSUME NEW t \in Threads PROVE Data(t)
    BY Zenon DEF DataInv
  <2>1. Before[Len(Iov) + 1] \in Nat
    BY BeforeFacts, NetwrapAssumption
  <2>2. fr[t].f = "idle" /\ ret[t] = 0 /\ sent[t] = <<>> /\ Len(<<>>) = 0
    BY <1>2, Zenon
  <2>3. Run(sent[t], 0)
    BY <2>2 DEF Run
  <2> QED
    BY <2>1, <2>2, <2>3, NetwrapAssumption DEF Data
<1> QED
  BY <1>1, <1>3, <1>4, <1>5, <1>6 DEF IInv

\* Every step keeps the invariant.
LEMMA StepIInv == IInv /\ [Next]_vars => IInv'
<1> SUFFICES ASSUME IInv, [Next]_vars PROVE IInv'
  BY Zenon
<1>1. CASE setup_common_vars \/ setup_wrappers
  BY <1>1, SetupStep, Zenon
<1>2. CASE Arrives
  BY <1>2, ArrivesStep, Zenon
<1>3. ASSUME NEW t \in Threads, Begin(t) PROVE IInv'
  <2>1. CASE socket(t) \/ epoll_create(t) \/ accept(t)
    BY <2>1, OpenStep, Zenon
  <2>2. CASE accept4(t)
    BY <2>2, accept4Step, Zenon
  <2>3. CASE close(t)
    BY <2>3, closeStep, Zenon
  <2>4. CASE \/ shutdown(t) \/ listen(t) \/ write(t) \/ send(t) \/ read(t) \/ recv(t)
             \/ bind(t) \/ connect(t) \/ ioctl(t) \/ epoll_wait(t) \/ getsockopt(t)
    BY <2>4, SimpleStep, Zenon
  <2>5. CASE setsockopt(t)
    BY <2>5, setsockoptStep, Zenon
  <2>6. CASE writev(t)
    BY <2>6, writevStep, Zenon
  <2>7. CASE sendfile64(t)
    BY <2>7, sendfile64Step, Zenon
  <2>8. CASE select(t)
    BY <2>8, selectStep
  <2>9. CASE fork(t)
    BY <2>9, forkStep, Zenon
  <2>10. CASE epoll_ctl(t)
    BY <2>10, epoll_ctlStep, Zenon
  <2> QED
    BY <1>3, <2>1, <2>2, <2>3, <2>4, <2>5, <2>6, <2>7, <2>8, <2>9, <2>10,
       ZenonT(30) DEF Begin
<1>4. ASSUME NEW t \in Threads, Continue(t) \/ select_fail(t) PROVE IInv'
  BY <1>4, accept4_flagsStep, writev_sendStep, sendfile64_readStep,
     sendfile64_sendStep, selectStep, fork_testStep, fork_setStep, fork_clearStep,
     ZenonT(30)
     DEF Continue
<1>5. CASE UNCHANGED vars
  <2>1. /\ UNCHANGED <<setup, owner, known, opt, asked, data, fr, forks>>
        /\ misrouted' = misrouted /\ libc' = libc /\ ready' = ready /\ calls' = calls
    BY <1>5, Zenon DEF vars, sockets, faults
  <2> QED
    BY <2>1, QuietStep DEF IInv, Types
<1> QED
  BY <1>1, <1>2, <1>3, <1>4, <1>5, Zenon DEF Next

\* The inductive invariant holds in every state.
THEOREM Invariance == Spec => []IInv
  BY InitIInv, StepIInv, PTL DEF Spec

\* A wrapper chooses the implementation that made the descriptor it is called
\* with, whatever the constructor has done so far and however the threads
\* interleave.  Of all the descriptors that are passed on, only the one that
\* epoll_ctl() registers may be of the other implementation.
THEOREM RoutedToMakerTheorem == Spec => []RoutedToMaker
<1>1. IInv => RoutedToMaker
  <2> SUFFICES ASSUME IInv PROVE RoutedToMaker
    BY Zenon
  <2>1. \A t \in Threads : ret[t] \in -1..(Before[Len(Iov) + 1] + FileLen)
    BY Zenon DEF IInv, DataInv, Data
  <2>2. \A fd \in NfpFds : opt[fd] \in Nat
    BY Zenon DEF IInv, Types
  <2> QED
    BY <2>1, <2>2, Zenon DEF IInv, Types, OwnInv, RoutedToMaker, TypeOK, Names, Owners
<1> QED
  BY <1>1, Invariance, PTL

\* No descriptor of NFP is lost when accept4() cannot make it non-blocking, or
\* when a call of another thread comes in between: the only ones that nobody
\* can close are those that accept() and accept4() forget because the address
\* of the peer is of an unknown family.
THEOREM NoLeakTheorem == Spec => []NoLeak
<1>1. IInv => NoLeak
  BY Zenon DEF IInv
<1> QED
  BY <1>1, Invariance, PTL

\* getsockopt() asks NFP for the option that setsockopt() has set.
THEOREM OptionReadBackTheorem == Spec => []OptionReadBack
<1>1. IInv => OptionReadBack
  <2> SUFFICES ASSUME IInv, NEW fd \in NfpFds, asked[fd] # "none"
               PROVE  opt[fd] = GetOption[asked[fd]]
    BY Zenon DEF OptionReadBack
  <2>1. asked[fd] \in DOMAIN SetOption /\ opt[fd] = SetOption[asked[fd]]
    BY DEF IInv, Types, OptInv
  <2>2. \A o \in DOMAIN SetOption : SetOption[o] = GetOption[o]
    BY DEF SetOption, GetOption
  <2> QED
    BY <2>1, <2>2, Zenon
<1> QED
  BY <1>1, Invariance, PTL

\* writev() and sendfile64() have their data sent in order, each byte once, and
\* return what was sent, for any parts, sizes and amounts that NFP takes.
THEOREM DataOnceTheorem == Spec => []DataOnce
<1>1. IInv => DataOnce
  <2> SUFFICES ASSUME IInv, NEW t \in Threads
               PROVE  /\ \A k \in 1..Len(sent[t]) : sent[t][k] = sent[t][1] + k - 1
                      /\ fr[t].f = "writev" /\ sent[t] # <<>> => sent[t][1] = 1
                      /\ fr[t] = Idle /\ ret[t] > 0 => Len(sent[t]) = ret[t]
    BY ZenonT(30) DEF DataOnce
  <2>1. Data(t) /\ (fr[t] = Idle => fr[t].f = "idle") /\ Len(sent[t]) \in Nat
    BY DataTypes DEF IInv, DataInv, Idle
  <2>2. \A first \in Int :
          Run(sent[t], first) =>
            /\ Len(sent[t]) > 0 => sent[t][1] = first
            /\ \A k \in 1..Len(sent[t]) : sent[t][k] = sent[t][1] + k - 1
    BY <2>1 DEF Run
  <2>3. sent[t] # <<>> => Len(sent[t]) > 0
    BY DataTypes
  <2> QED
    BY <2>1, <2>2, <2>3 DEF Data
<1> QED
  BY <1>1, Invariance, PTL

\* The child of a fork() that met no other is prepared once, and the flag is
\* clear when no thread is in fork().
THEOREM ChildReadyTheorem == Spec => []ChildReady
<1>1. IInv => ChildReady
  BY Zenon DEF IInv, Types, ForkInv, ChildReady
<1> QED
  BY <1>1, Invariance, PTL

\* A wrapper calls through a pointer that was looked up, but for socket() and
\* the read of sendfile64() while the constructor has not come to theirs.
THEOREM LookedUpTheorem == Spec => LookedUp
<1>1. ASSUME IInv, [Next]_vars, NEW f \in null' \ null
      PROVE  \/ f = "socket" /\ setup = 1
             \/ f = "sendfile_read" /\ setup \in 1..7
  <2>1. ASSUME NEW t \in Threads, socket(t)
        PROVE  f = "socket" /\ setup = 1
    BY <1>1, <2>1 DEF socket, Pointer, netwrap_constructor_called, IInv, Types, LookInv
  <2>2. ASSUME NEW t \in Threads, sendfile64_read(t)
        PROVE  f = "sendfile_read" /\ setup \in 1..7
    BY <1>1, <2>2 DEF sendfile64_read, Pointer, IInv, Types, LookInv
  <2>3. ASSUME NEW t \in Threads, Begin(t), ~socket(t)
        PROVE  FALSE
    BY <1>1, <2>3, ZenonT(30)
       DEF Begin, epoll_create, accept, accept4, close, shutdown, listen, write,
           send, read, recv, bind, connect, ioctl, epoll_ctl, epoll_wait,
           setsockopt, getsockopt, writev, sendfile64, select, fork, Passed,
           Refused, Taken, Libc, Nfp, faults
  <2>4. ASSUME NEW t \in Threads, Continue(t) \/ select_fail(t), ~sendfile64_read(t)
        PROVE  FALSE
    BY <1>1, <2>4, ZenonT(30)
       DEF Continue, accept4_flags, writev_send, sendfile64_send, select_poll,
           select_fail, fork_test, fork_set, fork_clear, faults
  <2>5. ASSUME setup_common_vars \/ setup_wrappers \/ Arrives \/ UNCHANGED vars
        PROVE  FALSE
    BY <1>1, <2>5, Zenon DEF setup_common_vars, setup_wrappers, Arrives, vars, faults
  <2> QED
    BY <1>1, <2>1, <2>2, <2>3, <2>4, <2>5, ZenonT(30) DEF Next
<1>2. IInv /\ [Next]_vars =>
        [\A f \in null' \ null :
           \/ f = "socket" /\ setup = 1
           \/ f = "sendfile_read" /\ setup \in 1..7]_vars
  BY <1>1, Zenon
<1> QED
  BY <1>2, Invariance, PTL DEF Spec, LookedUp

=============================================================================
