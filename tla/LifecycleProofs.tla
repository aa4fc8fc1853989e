-------------------------- MODULE LifecycleProofs --------------------------
(***************************************************************************)
(* The safety of every execution of every application whose main() is      *)
(* orderly, for any number of workers, groups and resources.               *)
(***************************************************************************)
EXTENDS OrderlyLifecycle, TLAPS

\* A call of a line: as in the table, or failed.
AnyInstr == [op : Ops, grp : Groups, res : SUBSET Resources, may : BOOLEAN,
             ok : BOOLEAN, fail : Seq(Leaf)]

-----------------------------------------------------------------------------
(* Lines of calls.                                                         *)

\* A sequence is a function on an interval that starts at 1.
LEMMA LenFacts ==
  ASSUME NEW S, NEW s \in Seq(S)
  PROVE  Len(s) \in Nat /\ DOMAIN s = 1..Len(s) /\ s \in [1..Len(s) -> S]
  OBVIOUS

\* And such a function is a sequence.
LEMMA SeqOf ==
  ASSUME NEW S, NEW n \in Nat, NEW f \in [1..n -> S]
  PROVE  f \in Seq(S) /\ Len(f) = n
  OBVIOUS

\* A failure keeps the calls made so far, marks the failed one and changes
\* nothing else about it.
LEMMA BranchFacts ==
  ASSUME NEW c \in Seq(Instr), NEW p \in DOMAIN c
  PROVE  /\ Branch(c, p) \in Seq(AnyInstr)
         /\ Len(Branch(c, p)) = p + Len(c[p].fail)
         /\ p \in DOMAIN Branch(c, p)
         /\ \A i \in 1..(p - 1) : Branch(c, p)[i] = c[i]
         /\ Branch(c, p)[p].op = c[p].op /\ Branch(c, p)[p].grp = c[p].grp
         /\ Branch(c, p)[p].res = c[p].res /\ Branch(c, p)[p].ok = FALSE
         /\ \A i \in DOMAIN Branch(c, p) : i # p => Branch(c, p)[i].ok = TRUE
<1> DEFINE n == p + Len(c[p].fail)
           F(i) == IF i < p THEN c[i]
                   ELSE IF i = p THEN [c[p] EXCEPT !.ok = FALSE]
                   ELSE c[p].fail[i - p]
<1>1. p \in Nat \ {0} /\ p \in 1..Len(c) /\ \A i \in 1..Len(c) : c[i] \in Instr
  BY LenFacts
<1>2. c[p].fail \in Seq(Leaf) /\ Len(c[p].fail) \in Nat
      /\ \A i \in 1..Len(c[p].fail) : c[p].fail[i] \in Leaf
  <2>1. c[p].fail \in Seq(Leaf) BY <1>1, Zenon DEF Instr
  <2> QED BY <2>1, LenFacts
<1>3. \A x \in Instr : x \in AnyInstr /\ x.ok = TRUE
  BY Zenon DEF Instr, AnyInstr
<1>4. \A x \in Leaf : x \in AnyInstr /\ x.ok = TRUE
  <2>1. <<>> \in Seq(Leaf)
    OBVIOUS
  <2> QED BY <2>1, Zenon DEF Leaf, AnyInstr
<1>5. [c[p] EXCEPT !.ok = FALSE] \in AnyInstr
  BY <1>1, <1>3, Zenon DEF Instr, AnyInstr
<1>6. n \in Nat /\ p \in 1..n
  BY <1>1, <1>2
<1>7. \A i \in 1..n : F(i) \in AnyInstr
  <2> SUFFICES ASSUME NEW i \in 1..n PROVE F(i) \in AnyInstr BY Zenon
  <2>1. CASE i < p BY <2>1, <1>1, <1>3, LenFacts
  <2>2. CASE i = p BY <2>2, <1>5
  <2>3. CASE i > p
    <3>1. i - p \in 1..Len(c[p].fail) BY <2>3, <1>1, <1>2
    <3> QED BY <3>1, <2>3, <1>2, <1>4, <1>1
  <2> QED BY <2>1, <2>2, <2>3, <1>1
<1>8. Branch(c, p) = [i \in 1..n |-> F(i)]
  BY DEF Branch
<1>9. Branch(c, p) \in [1..n -> AnyInstr]
  <2> HIDE DEF F, n
  <2> QED BY <1>7, <1>8
<1>10. Branch(c, p) \in Seq(AnyInstr) /\ Len(Branch(c, p)) = n
  <2> HIDE DEF F, n
  <2>1. Branch(c, p) \in Seq(AnyInstr) BY <1>9, <1>6, SeqOf
  <2>2. DOMAIN Branch(c, p) = 1..Len(Branch(c, p)) /\ Len(Branch(c, p)) \in Nat
    BY <2>1, LenFacts
  <2>3. 1..n = 1..Len(Branch(c, p)) BY <2>2, <1>9
  <2>4. \A a, b \in Nat : 1..a = 1..b => a = b
    OBVIOUS
  <2> QED BY <2>1, <2>2, <2>3, <2>4, <1>6, Zenon
<1>11. Branch(c, p)[p] = [c[p] EXCEPT !.ok = FALSE]
  BY <1>8, <1>6, <1>1
<1>12. \A i \in 1..(p - 1) : Branch(c, p)[i] = c[i]
  BY <1>8, <1>6, <1>1, <1>2
<1>13. \A i \in 1..n : i # p => Branch(c, p)[i].ok = TRUE
  <2> SUFFICES ASSUME NEW i \in 1..n, i # p PROVE F(i).ok = TRUE
    BY <1>8, Zenon
  <2>1. CASE i < p BY <2>1, <1>1, <1>3, LenFacts
  <2>2. CASE i > p
    <3>1. i - p \in 1..Len(c[p].fail) BY <2>2, <1>1, <1>2
    <3> QED BY <3>1, <2>2, <1>2, <1>4, <1>1
  <2>3. i < p \/ i > p BY <1>1, <1>6
  <2> QED BY <2>1, <2>2, <2>3, Zenon
<1>14. c[p] \in Instr BY <1>1
<1> QED
  BY <1>6, <1>9, <1>10, <1>11, <1>12, <1>13, <1>14 DEF Instr

\* What is held after one more call: what that call acquires, and what was
\* held and is not released by it.  Only the calls made so far matter.
LEMMA HeldStep ==
  ASSUME NEW c, NEW d, NEW p \in Nat \ {0}, NEW r,
         \A i \in 1..(p - 1) : d[i] = c[i]
  PROVE  /\ HeldAt(d, p, r) <=> HeldAt(c, p, r)
         /\ HeldAt(d, p + 1, r) <=>
              (Acquires(d, p, r) \/ (HeldAt(c, p, r) /\ ~Releases(d, p, r)))
<1>1. \A k \in 1..(p - 1) : (Acquires(d, k, r) <=> Acquires(c, k, r))
                            /\ (Releases(d, k, r) <=> Releases(c, k, r))
  BY DEF Acquires, Releases
<1> HIDE DEF Acquires, Releases
<1>2. HeldAt(d, p, r) <=> HeldAt(c, p, r)
  BY <1>1 DEF HeldAt
<1>3. ASSUME HeldAt(d, p + 1, r)
      PROVE  Acquires(d, p, r) \/ (HeldAt(c, p, r) /\ ~Releases(d, p, r))
  <2>1. PICK k \in 1..p : Acquires(d, k, r)
                          /\ \A m \in (k + 1)..p : ~Releases(d, m, r)
    BY <1>3 DEF HeldAt
  <2>2. CASE k = p BY <2>1, <2>2
  <2>3. CASE k # p
    <3>1. k \in 1..(p - 1) /\ p \in (k + 1)..p BY <2>3
    <3>2. HeldAt(d, p, r) BY <3>1, <2>1 DEF HeldAt
    <3> QED BY <3>1, <3>2, <2>1, <1>2
  <2> QED BY <2>2, <2>3
<1>4. ASSUME Acquires(d, p, r) PROVE HeldAt(d, p + 1, r)
  BY <1>4 DEF HeldAt
<1>5. ASSUME HeldAt(d, p, r), ~Releases(d, p, r) PROVE HeldAt(d, p + 1, r)
  <2>1. PICK k \in 1..(p - 1) : Acquires(d, k, r)
                          /\ \A m \in (k + 1)..(p - 1) : ~Releases(d, m, r)
    BY <1>5 DEF HeldAt
  <2>2. \A m \in (k + 1)..p : ~Releases(d, m, r) BY <2>1, <1>5
  <2> QED BY <2>1, <2>2 DEF HeldAt
<1> QED BY <1>2, <1>3, <1>4, <1>5

\* A thread belongs to one group.
LEMMA OneGroup ==
  ASSUME NEW g, NEW h, NEW t \in Group(g), t \in Group(h)
  PROVE  g = h /\ t \in Threads
BY ThreadsAssumption DEF Group, Threads

-----------------------------------------------------------------------------
(* The line main() follows.                                                *)

\* Every line is an orderly sequence of calls, only the failed one marked.
LEMMA LineProperties ==
  ASSUME NEW a \in Apps, NEW f \in {0} \cup FailPoints(Code[a])
  PROVE  /\ Line(Code[a], f) \in Seq(AnyInstr) /\ f \in Nat
         /\ Orderly(Line(Code[a], f))
         /\ \A i \in DOMAIN Line(Code[a], f) :
              i # f => Line(Code[a], f)[i].ok = TRUE
<1> DEFINE c == Code[a]
           d == Line(c, f)
<1>1. c \in Seq(Instr)
  BY CodeAssumption
<1>2. d \in Seq(AnyInstr) /\ \A i \in DOMAIN d : i # f => d[i].ok = TRUE
  <2>1. CASE f = 0
    <3>1. d = c BY <2>1 DEF Line
    <3>2. \A x \in Instr : x \in AnyInstr /\ x.ok = TRUE
      BY Zenon DEF Instr, AnyInstr
    <3>3. c \in [1..Len(c) -> Instr] /\ Len(c) \in Nat /\ DOMAIN c = 1..Len(c)
      BY <1>1, LenFacts
    <3>4. c \in [1..Len(c) -> AnyInstr] /\ \A i \in DOMAIN c : c[i].ok = TRUE
      BY <3>2, <3>3
    <3> QED BY <3>1, <3>3, <3>4, SeqOf
  <2>2. CASE f \in FailPoints(c) /\ f # 0
    <3>1. d = Branch(c, f) /\ f \in DOMAIN c
      BY <2>2 DEF Line, FailPoints
    <3> HIDE DEF c, d
    <3> QED BY <3>1, <1>1, BranchFacts, Zenon
  <2> QED BY <2>1, <2>2, Zenon
<1>3. f \in Nat
  <2>1. DOMAIN c = 1..Len(c) BY <1>1, LenFacts
  <2> QED BY <2>1 DEF FailPoints
<1>4. Orderly(d)
  <2>1. d \in Lines(c)
    <3>1. \E q \in {0} \cup FailPoints(c) : d = Line(c, q) OBVIOUS
    <3> HIDE DEF c, d
    <3> QED BY <3>1 DEF Lines
  <2> QED BY <2>1, OrderlyAssumption
<1> QED BY <1>2, <1>3, <1>4

\* The line of the current state, and the call main() is about to make.
LEMMA LineFacts ==
  ASSUME TypeOK
  PROVE  /\ line \in Seq(AnyInstr) /\ Len(line) \in Nat
         /\ DOMAIN line = 1..Len(line)
         /\ pc \in Nat \ {0} /\ failed \in Nat
         /\ Orderly(line)
         /\ ~Ended => pc \in DOMAIN line /\ line[pc].ok = TRUE
<1>1. /\ line \in Seq(AnyInstr) /\ failed \in Nat /\ Orderly(line)
      /\ \A i \in DOMAIN line : i # failed => line[i].ok = TRUE
  BY LineProperties, Zenon DEF TypeOK
<1>2. Len(line) \in Nat /\ DOMAIN line = 1..Len(line)
  BY <1>1, LenFacts
<1>3. pc \in Nat \ {0} /\ failed < pc /\ pc <= Len(line) + 1
  BY <1>2 DEF TypeOK
<1>4. ~Ended => pc \in DOMAIN line /\ line[pc].ok = TRUE
  BY <1>1, <1>2, <1>3 DEF Ended
<1> QED BY <1>1, <1>2, <1>3, <1>4

-----------------------------------------------------------------------------
(* The inductive invariant.                                                *)

\* main() makes one more call, with or without success, and creates no thread.
LEMMA AdvanceStep ==
  ASSUME IInv, TypeOK', ~Ended, pc' = pc + 1, pc \in DOMAIN line',
         \A i \in 1..(pc - 1) : line'[i] = line[i],
         line'[pc].op = line[pc].op, line'[pc].grp = line[pc].grp,
         line'[pc].res = line[pc].res,
         \A t \in Threads : /\ thr'[t] \in Made => thr[t] \in Made
                            /\ thr'[t] \in Live => thr[t] \in Live
                            /\ thr'[t] # "none" => thr[t] # "none",
         IsJoin(line'[pc], line'[pc].grp) =>
           \A t \in Group(line'[pc].grp) : thr'[t] \notin Made,
         \A r \in Resources :
           res'[r] = "held" <=> (Acquires(line', pc, r)
                                 \/ (res[r] = "held" /\ ~Releases(line', pc, r)))
  PROVE  IInv'
<1>1. /\ DOMAIN line = 1..Len(line) /\ Len(line) \in Nat /\ pc \in Nat \ {0}
      /\ pc \in DOMAIN line /\ line[pc].ok = TRUE /\ line \in Seq(AnyInstr)
  BY LineFacts, Zenon DEF IInv
<1>2. /\ DOMAIN line' = 1..Len(line') /\ Len(line') \in Nat /\ Orderly(line')
      /\ line' \in Seq(AnyInstr)
  <2>1. line' \in Seq(AnyInstr) /\ Orderly(line')
    BY LineProperties, Zenon DEF TypeOK
  <2> QED BY <2>1, LenFacts
<1>3. \A j \in 1..(pc - 1) : j \in DOMAIN line /\ j \in DOMAIN line'
  BY <1>1, <1>2
<1>4. HeldInv'
  <2> SUFFICES ASSUME NEW r \in Resources
               PROVE  res'[r] = "held" <=> HeldAt(line', pc', r)
    BY DEF HeldInv
  <2>1. res[r] = "held" <=> HeldAt(line, pc, r) BY DEF IInv, HeldInv
  <2>2. HeldAt(line', pc + 1, r) <=>
           (Acquires(line', pc, r) \/ (HeldAt(line, pc, r) /\ ~Releases(line', pc, r)))
    BY <1>1, HeldStep, Zenon
  <2> QED BY <2>1, <2>2
<1>5. MadeInv'
  <2> SUFFICES ASSUME NEW t \in Threads, thr'[t] # "none"
               PROVE  \E j \in DOMAIN line' :
                        /\ Makes(line', j) /\ t \in Group(line'[j].grp)
                        /\ j < pc' \/ (j = pc' /\ line'[j].grp = "workers")
    BY DEF MadeInv
  <2>1. PICK j \in DOMAIN line :
               /\ Makes(line, j) /\ t \in Group(line[j].grp)
               /\ j < pc \/ (j = pc /\ line[j].grp = "workers")
    BY DEF IInv, MadeInv
  <2>2. CASE j < pc BY <2>1, <2>2, <1>1, <1>3 DEF Makes
  <2>3. CASE j = pc /\ line[j].grp = "workers" BY <2>1, <2>3, <1>1 DEF Makes
  <2> QED BY <2>1, <2>2, <2>3
<1>6. JoinInv'
  <2> SUFFICES ASSUME NEW k \in DOMAIN line', k < pc', IsJoin(line'[k], line'[k].grp),
                      NEW t \in Group(line'[k].grp)
               PROVE  thr'[t] \notin Made
    BY DEF JoinInv
  <2>1. CASE k = pc BY <2>1
  <2>2. CASE k # pc
    <3>1. k \in 1..(pc - 1) /\ line'[k] = line[k] BY <2>2, <1>1, <1>2
    <3>2. thr[t] \notin Made BY <3>1, <1>1 DEF IInv, JoinInv
    <3> QED BY <3>2, OneGroup
  <2> QED BY <2>1, <2>2
<1>7. UseInv'
  <2> SUFFICES ASSUME NEW j \in DOMAIN line', NEW r \in Resources, Hands(line', j, r),
                      j < pc' \/ (j = pc' /\ line'[j].op = "create"),
                      NEW t \in Group(line'[j].grp), thr'[t] \in Live
               PROVE  res'[r] = "held"
    BY DEF UseInv
  <2>1. t \in Threads /\ thr[t] \in Live /\ thr[t] \in Made /\ thr[t] # "none"
    BY OneGroup DEF Live, Made
  <2>2. CASE j < pc
    <3>1. line'[j] = line[j] /\ j \in DOMAIN line BY <2>2, <1>1, <1>2, SMTT(30)
    <3>2. Hands(line, j, r) BY <3>1 DEF Hands, Makes
    <3>3. res[r] = "held" BY <3>1, <3>2, <2>1, <2>2 DEF IInv, UseInv
    <3>4. ~Releases(line', pc, r)
      <4> SUFFICES ASSUME Releases(line', pc, r) PROVE FALSE
        OBVIOUS
      <4>1. r \in line'[pc].res BY DEF Releases
      <4>2. JoinedBetween(line', j, pc, line'[j].grp)
        BY <4>1, <2>2, <1>1, <1>2 DEF Orderly
      <4>3. PICK k \in (j + 1)..(pc - 1) : IsJoin(line'[k], line'[j].grp)
        BY <4>2 DEF JoinedBetween
      <4>4. k \in 1..(pc - 1) /\ line'[k] = line[k] /\ line[k].grp = line'[j].grp
        BY <4>3, <1>1, <1>2 DEF IsJoin
      <4>5. k \in DOMAIN line /\ k < pc /\ IsJoin(line[k], line[k].grp)
        BY <4>3, <4>4, <1>1
      <4>6. thr[t] \notin Made BY <4>4, <4>5 DEF IInv, JoinInv
      <4> QED BY <4>6, <2>1
    <3> QED BY <3>3, <3>4
  <2>3. CASE j = pc
    <3>1. ~Releases(line', pc, r) BY <2>3 DEF Hands, Makes, Releases
    <3>2. CASE line[pc].op = "create"
      <4>1. Hands(line, j, r) BY <3>2, <2>3, <1>1 DEF Hands, Makes
      <4>2. res[r] = "held" BY <4>1, <3>2, <2>3, <2>1, <1>1 DEF IInv, UseInv
      <4> QED BY <4>2, <3>1
    <3>3. CASE line[pc].op # "create"
      <4>1. r \in line'[pc].res /\ Hands(line', pc, r) BY <2>3 DEF Hands
      <4>2. HeldAt(line', pc, r) BY <4>1, <1>2 DEF Orderly
      <4>3. HeldAt(line, pc, r) BY <4>2, <1>1, HeldStep, Zenon
      <4>4. res[r] = "held" BY <4>3 DEF IInv, HeldInv
      <4> QED BY <4>4, <3>1
    <3> QED BY <3>2, <3>3
  <2>4. CASE j = pc + 1
    <3>1. PICK i \in DOMAIN line : /\ Makes(line, i) /\ t \in Group(line[i].grp)
                                   /\ i < pc \/ i = pc
      BY <2>1 DEF IInv, MadeInv
    <3>2. i \in 1..(j - 1) /\ line'[i].op = "create" /\ line'[i].grp = line[i].grp
      BY <3>1, <2>4, <1>1 DEF Makes
    <3>3. line'[i].grp = line'[j].grp BY <3>1, <3>2, OneGroup
    <3>4. line'[j].op = "create" BY <2>4, <1>1
    <3> QED BY <3>2, <3>3, <3>4, <1>2 DEF Orderly
  <2> QED BY <2>2, <2>3, <2>4, <1>1, <1>2
<1> QED BY <1>4, <1>5, <1>6, <1>7 DEF IInv

\* main() stays where it is and threads only come closer to their end.
LEMMA ThreadStep ==
  ASSUME IInv, TypeOK', line' = line, pc' = pc, res' = res,
         \A t \in Threads : /\ thr'[t] \in Made => thr[t] \in Made
                            /\ thr'[t] \in Live => thr[t] \in Live
                            /\ thr'[t] # "none" => thr[t] # "none"
  PROVE  IInv'
<1>1. HeldInv' BY DEF IInv, HeldInv
<1>2. MadeInv' BY DEF IInv, MadeInv
<1>3. JoinInv'
  <2> SUFFICES ASSUME NEW k \in DOMAIN line, k < pc, IsJoin(line[k], line[k].grp),
                      NEW t \in Group(line[k].grp)
               PROVE  thr'[t] \notin Made
    BY DEF JoinInv
  <2>1. thr[t] \notin Made BY DEF IInv, JoinInv
  <2> QED BY <2>1, OneGroup
<1>4. UseInv'
  <2> SUFFICES ASSUME NEW j \in DOMAIN line, NEW r \in Resources, Hands(line, j, r),
                      j < pc \/ (j = pc /\ line[j].op = "create"),
                      NEW t \in Group(line[j].grp), thr'[t] \in Live
               PROVE  res[r] = "held"
    BY DEF UseInv
  <2>1. thr[t] \in Live BY OneGroup
  <2> QED BY <2>1 DEF IInv, UseInv
<1> QED BY <1>1, <1>2, <1>3, <1>4 DEF IInv

\* main() creates one thread of a group.
LEMMA CreateStep ==
  ASSUME IInv, TypeOK', NEW t \in Threads, nfp_thread_create(t)
  PROVE  IInv'
<1>1. /\ DOMAIN line = 1..Len(line) /\ Len(line) \in Nat /\ pc \in Nat \ {0}
      /\ pc \in DOMAIN line /\ line[pc].ok = TRUE /\ Orderly(line)
  BY LineFacts, Zenon DEF IInv, nfp_thread_create, At
<1>2. /\ line[pc].op = "create" /\ t \in Group(line[pc].grp) /\ thr[t] \notin Made
      /\ thr' = [thr EXCEPT ![t] = "started"] /\ line' = line /\ res' = res
      /\ thr \in [Threads -> Made \cup {"none", "joined"}]
      /\ pc' = pc + 1 \/ (pc' = pc /\ line[pc].grp = "workers")
  <2>1. line[pc].grp # "workers" => Group(line[pc].grp) \ {t} = {}
    BY DEF nfp_thread_create, Group
  <2> QED BY <2>1 DEF nfp_thread_create, At, Advance, IInv, TypeOK
<1>3. Makes(line, pc) BY <1>1, <1>2 DEF Makes
<1>4. HeldInv'
  <2> SUFFICES ASSUME NEW r \in Resources
               PROVE  res[r] = "held" <=> HeldAt(line, pc', r)
    BY <1>2 DEF HeldInv
  <2>1. res[r] = "held" <=> HeldAt(line, pc, r) BY DEF IInv, HeldInv
  <2>2. HeldAt(line, pc + 1, r) <=>
           (Acquires(line, pc, r) \/ (HeldAt(line, pc, r) /\ ~Releases(line, pc, r)))
    BY <1>1, HeldStep
  <2>3. ~Acquires(line, pc, r) /\ ~Releases(line, pc, r)
    BY <1>2 DEF Acquires, Releases
  <2> QED BY <2>1, <2>2, <2>3, <1>2
<1>5. MadeInv'
  <2> SUFFICES ASSUME NEW u \in Threads, thr'[u] # "none"
               PROVE  \E j \in DOMAIN line :
                        /\ Makes(line, j) /\ u \in Group(line[j].grp)
                        /\ j < pc' \/ (j = pc' /\ line[j].grp = "workers")
    BY <1>2 DEF MadeInv
  <2>1. CASE u = t BY <2>1, <1>1, <1>2, <1>3
  <2>2. CASE u # t
    <3>1. thr[u] # "none" BY <2>2, <1>2
    <3>2. PICK j \in DOMAIN line :
               /\ Makes(line, j) /\ u \in Group(line[j].grp)
               /\ j < pc \/ (j = pc /\ line[j].grp = "workers")
      BY <3>1 DEF IInv, MadeInv
    <3> QED BY <3>2, <1>1, <1>2
  <2> QED BY <2>1, <2>2
<1>6. JoinInv'
  <2> SUFFICES ASSUME NEW k \in DOMAIN line, k < pc', IsJoin(line[k], line[k].grp),
                      NEW u \in Group(line[k].grp)
               PROVE  thr'[u] \notin Made
    BY <1>2 DEF JoinInv
  <2>1. k # pc BY <1>2 DEF IsJoin
  <2>2. k < pc /\ k \in 1..(pc - 1) BY <2>1, <1>1, <1>2
  <2>3. thr[u] \notin Made BY <2>2 DEF IInv, JoinInv
  <2>4. u # t
    <3> SUFFICES ASSUME u = t PROVE FALSE OBVIOUS
    <3>1. line[k].grp = line[pc].grp BY <1>2, OneGroup
    <3> QED BY <3>1, <2>2, <1>1, <1>2 DEF Orderly
  <2> QED BY <2>3, <2>4, <1>2, OneGroup
<1>7. UseInv'
  <2> SUFFICES ASSUME NEW j \in DOMAIN line, NEW r \in Resources, Hands(line, j, r),
                      j < pc' \/ (j = pc' /\ line[j].op = "create"),
                      NEW u \in Group(line[j].grp), thr'[u] \in Live
               PROVE  res[r] = "held"
    BY <1>2 DEF UseInv
  <2>1. CASE j = pc
    <3>1. HeldAt(line, pc, r) BY <2>1, <1>1 DEF Orderly, Hands
    <3> QED BY <3>1 DEF IInv, HeldInv
  <2>2. CASE j < pc /\ u # t
    <3>1. thr[u] \in Live BY <2>2, <1>2, OneGroup
    <3> QED BY <3>1, <2>2 DEF IInv, UseInv
  <2>3. CASE j < pc /\ u = t
    <3>1. line[j].grp = line[pc].grp BY <2>3, <1>2, OneGroup
    <3>2. j \in 1..(pc - 1) /\ line[j].op \in {"create", "use"}
      BY <2>3, <1>1 DEF Hands, Makes
    <3> QED BY <3>1, <3>2, <1>1, <1>2 DEF Orderly
  <2>4. CASE j = pc + 1 /\ line[j].op = "create"
    <3>1. \E i \in 1..pc : line[i].op = "create" /\ u \in Group(line[i].grp)
      <4>1. CASE u = t BY <4>1, <1>1, <1>2
      <4>2. CASE u # t
        <5>1. thr[u] # "none" /\ u \in Threads
          BY <4>2, <1>2, OneGroup DEF Live
        <5> QED BY <5>1, <1>1 DEF IInv, MadeInv, Makes
      <4> QED BY <4>1, <4>2
    <3>2. PICK i \in 1..pc : line[i].op = "create" /\ u \in Group(line[i].grp)
      BY <3>1
    <3>3. i \in 1..(j - 1) /\ line[i].grp = line[j].grp
      BY <3>2, <2>4, <1>1, OneGroup
    <3> QED BY <3>2, <3>3, <2>4, <1>1 DEF Orderly
  <2> QED BY <2>1, <2>2, <2>3, <2>4, <1>1, <1>2
<1> QED BY <1>4, <1>5, <1>6, <1>7 DEF IInv

-----------------------------------------------------------------------------

\* Initially nothing is held and no thread exists.
LEMMA InitIInv == Init => IInv
<1> SUFFICES ASSUME Init PROVE IInv
  OBVIOUS
<1>1. TypeOK
  <2>1. Len(line) \in Nat BY CodeAssumption, LenFacts DEF Init
  <2>2. pc \in 1..(Len(line) + 1) /\ failed < pc BY <2>1 DEF Init
  <2>3. line = Line(Code[app], failed) /\ failed \in {0} \cup FailPoints(Code[app])
    BY DEF Init, Line
  <2> QED BY <2>2, <2>3, Zenon DEF Init, TypeOK
<1>2. HeldInv BY DEF Init, HeldInv, HeldAt
<1>3. MadeInv BY DEF Init, MadeInv
<1>4. JoinInv
  BY <1>1, LineFacts DEF Init, JoinInv
<1>5. UseInv
  BY OneGroup DEF Init, UseInv, Live
<1> QED BY <1>1, <1>2, <1>3, <1>4, <1>5 DEF IInv

\* Every step keeps the types.
LEMMA TypeStep == TypeOK /\ [Next]_vars => TypeOK'
<1> SUFFICES ASSUME TypeOK, [Next]_vars PROVE TypeOK'
  OBVIOUS
<1>1. /\ DOMAIN line = 1..Len(line) /\ Len(line) \in Nat /\ pc \in Nat \ {0}
      /\ failed \in Nat /\ (~Ended => pc \in DOMAIN line)
      /\ line \in Seq(AnyInstr)
  BY LineFacts, Zenon
<1>2. ~Ended => pc + 1 \in 1..(Len(line) + 1)
  BY <1>1
<1>3. "started" \in Made /\ "running" \in Made /\ "exited" \in Made
  BY DEF Made, Live
<1>4. CASE MainCall
  BY <1>4, <1>1, <1>2 DEF MainCall, At, Advance, TypeOK
<1>5. CASE nfpexpl_sigaction_set
  BY <1>5, <1>1, <1>2 DEF nfpexpl_sigaction_set, At, Advance, TypeOK
<1>6. CASE MainAcquire
  BY <1>6, <1>1, <1>2 DEF MainAcquire, At, Advance, TypeOK
<1>7. CASE MainRelease
  BY <1>7, <1>1, <1>2 DEF MainRelease, At, Advance, TypeOK
<1>8. CASE \E t \in Threads : nfp_thread_create(t)
  <2>1. PICK t \in Threads : nfp_thread_create(t) BY <1>8
  <2>2. pc' \in 1..(Len(line') + 1) /\ failed' < pc'
    <3>1. line' = line /\ failed' = failed /\ (pc' = pc + 1 \/ pc' = pc)
      BY <2>1 DEF nfp_thread_create, Advance
    <3>2. ~Ended BY <2>1 DEF nfp_thread_create, At
    <3> QED BY <3>1, <3>2, <1>1, <1>2 DEF TypeOK
  <2> QED BY <2>1, <2>2, <1>3 DEF nfp_thread_create, TypeOK
<1>9. CASE MainUse
  BY <1>9, <1>1, <1>2 DEF MainUse, At, Advance, TypeOK
<1>10. CASE nfp_thread_join
  BY <1>10, <1>1, <1>2 DEF nfp_thread_join, At, Advance, TypeOK
<1>11. CASE MainStop
  <2>1. running' \in BOOLEAN BY <1>11, Zenon DEF MainStop
  <2>2. pc' \in 1..(Len(line') + 1) /\ failed' < pc'
    BY <1>11, <1>1, <1>2 DEF MainStop, At, Advance, TypeOK
  <2> QED BY <1>11, <2>1, <2>2 DEF MainStop, TypeOK
<1>12. CASE print_global_stats
  BY <1>12, <1>1, <1>2 DEF print_global_stats, At, Advance, TypeOK
<1>13. CASE MainTest
  BY <1>13, <1>1, <1>2 DEF MainTest, At, Advance, TypeOK
<1>14. CASE MainFail
  <2>1. failed = 0 /\ line = Code[app] /\ pc \in DOMAIN line /\ line[pc].may
        /\ app' = app /\ failed' = pc /\ line' = Branch(line, pc) /\ pc' = pc + 1
    BY <1>14, <1>1 DEF MainFail, TypeOK, Line, Advance
  <2>2. pc \in FailPoints(Code[app]) BY <2>1 DEF FailPoints
  <2>3. line' = Line(Code[app], pc) BY <2>1, <1>1 DEF Line
  <2>4. Len(line') = pc + Len(line[pc].fail) /\ Len(line[pc].fail) \in Nat
    <3>1. line \in Seq(Instr) BY <2>1, CodeAssumption DEF TypeOK
    <3>2. line[pc] \in Instr BY <3>1, <2>1, <1>1, LenFacts
    <3>3. line[pc].fail \in Seq(Leaf) BY <3>2, Zenon DEF Instr
    <3> QED BY <3>1, <3>3, <2>1, BranchFacts, LenFacts, Zenon
  <2>5. pc' \in 1..(Len(line') + 1) /\ failed' < pc' BY <2>1, <2>4, <1>1, SMTT(30)
  <2> QED BY <1>14, <2>1, <2>2, <2>3, <2>5 DEF MainFail, TypeOK
<1>15. CASE Sigint
  BY <1>15, Zenon DEF Sigint, TypeOK
<1>16. CASE Shutdown
  BY <1>16, Zenon DEF Shutdown, TypeOK
<1>17. CASE \E t \in Threads : ThreadEnter(t) \/ ThreadAbort(t) \/ ThreadLeave(t)
  BY <1>17, <1>3, Zenon DEF ThreadEnter, ThreadAbort, ThreadLeave, TypeOK
<1>18. CASE Gone \/ UNCHANGED vars
  BY <1>18 DEF Gone, vars, TypeOK
<1> QED
  BY <1>4, <1>5, <1>6, <1>7, <1>8, <1>9, <1>10, <1>11, <1>12, <1>13, <1>14,
     <1>15, <1>16, <1>17, <1>18 DEF Next, MainOk

\* Every step keeps the inductive invariant.
LEMMA StepIInv == IInv /\ [Next]_vars => IInv'
<1> SUFFICES ASSUME IInv, [Next]_vars PROVE IInv'
  OBVIOUS
<1>1. TypeOK' BY TypeStep DEF IInv
<1>2. /\ pc \in Nat \ {0} /\ (~Ended => pc \in DOMAIN line /\ line[pc].ok = TRUE)
      /\ line \in Seq(AnyInstr) /\ DOMAIN line = 1..Len(line)
      /\ thr \in [Threads -> Made \cup {"none", "joined"}]
      /\ res \in [Resources -> {"none", "held", "freed"}]
  BY LineFacts, Zenon DEF IInv, TypeOK
<1>3. CASE MainCall \/ nfpexpl_sigaction_set \/ MainStop \/ print_global_stats
           \/ MainTest \/ MainUse
  <2>1. /\ ~Ended /\ pc' = pc + 1 /\ line' = line /\ thr' = thr /\ res' = res
        /\ line[pc].op \in {"call", "sigaction", "stop", "await", "test", "use"}
    BY <1>3 DEF MainCall, nfpexpl_sigaction_set, MainStop, print_global_stats,
                MainTest, MainUse, At, Advance
  <2>2. ~IsJoin(line[pc], line[pc].grp) BY <2>1 DEF IsJoin
  <2>3. \A r \in Resources : ~Acquires(line, pc, r) /\ ~Releases(line, pc, r)
    BY <2>1 DEF Acquires, Releases
  <2> QED BY <2>1, <2>2, <2>3, <1>1, <1>2, AdvanceStep
<1>4. CASE MainAcquire \/ MainRelease
  <2>1. /\ ~Ended /\ pc' = pc + 1 /\ line' = line /\ thr' = thr
        /\ line[pc].op \in {"acquire", "release"}
    BY <1>4 DEF MainAcquire, MainRelease, At, Advance
  <2>2. ~IsJoin(line[pc], line[pc].grp) BY <2>1 DEF IsJoin
  <2>3. \A r \in Resources :
           res'[r] = "held" <=> (Acquires(line, pc, r)
                                 \/ (res[r] = "held" /\ ~Releases(line, pc, r)))
    BY <1>4, <1>2, <2>1 DEF MainAcquire, MainRelease, At, Acquires, Releases
  <2> QED BY <2>1, <2>2, <2>3, <1>1, <1>2, AdvanceStep
<1>5. CASE \E t \in Threads : nfp_thread_create(t)
  BY <1>5, <1>1, CreateStep
<1>6. CASE nfp_thread_join
  <2>1. /\ ~Ended /\ pc' = pc + 1 /\ line' = line /\ res' = res
        /\ line[pc].op \in {"join", "joinmade"}
        /\ \A t \in Group(line[pc].grp) : thr[t] \notin Live
        /\ thr' = [t \in Threads |->
                     IF t \in Group(line[pc].grp) /\ thr[t] = "exited"
                       THEN "joined" ELSE thr[t]]
    BY <1>6 DEF nfp_thread_join, At, Advance
  <2>2. \A r \in Resources : ~Acquires(line, pc, r) /\ ~Releases(line, pc, r)
    BY <2>1 DEF Acquires, Releases
  <2>3. \A t \in Group(line[pc].grp) : thr'[t] \notin Made
    BY <2>1, <1>2, OneGroup DEF Made, Live
  <2>4. \A t \in Threads : /\ thr'[t] \in Made => thr[t] \in Made
                           /\ thr'[t] \in Live => thr[t] \in Live
                           /\ thr'[t] # "none" => thr[t] # "none"
    BY <2>1, <1>2 DEF Made, Live
  <2> QED BY <2>1, <2>2, <2>3, <2>4, <1>1, <1>2, AdvanceStep, Zenon
<1>7. CASE MainFail
  <2>1. /\ ~Ended /\ pc' = pc + 1 /\ line' = Branch(line, pc) /\ thr' = thr
        /\ res' = res /\ line \in Seq(Instr)
    BY <1>7, CodeAssumption DEF MainFail, Advance, IInv, TypeOK, Line
  <2>2. /\ pc \in DOMAIN line' /\ \A i \in 1..(pc - 1) : line'[i] = line[i]
        /\ line'[pc].op = line[pc].op /\ line'[pc].grp = line[pc].grp
        /\ line'[pc].res = line[pc].res /\ line'[pc].ok = FALSE
    <3> DEFINE d == Branch(line, pc)
    <3>1. /\ pc \in DOMAIN d /\ \A i \in 1..(pc - 1) : d[i] = line[i]
          /\ d[pc].op = line[pc].op /\ d[pc].grp = line[pc].grp
          /\ d[pc].res = line[pc].res /\ d[pc].ok = FALSE
      BY <2>1, <1>2, BranchFacts, Zenon
    <3> HIDE DEF d
    <3>2. line' = d BY <2>1 DEF d
    <3> QED BY <3>1, <3>2
  <2>3. ~IsJoin(line'[pc], line'[pc].grp) BY <2>2 DEF IsJoin
  <2>4. \A r \in Resources : ~Acquires(line', pc, r) /\ ~Releases(line', pc, r)
    BY <2>2 DEF Acquires, Releases
  <2> QED BY <2>1, <2>2, <2>3, <2>4, <1>1, <1>2, AdvanceStep
<1>8. CASE \E t \in Threads : ThreadEnter(t) \/ ThreadAbort(t) \/ ThreadLeave(t)
  <2>1. line' = line /\ pc' = pc /\ res' = res
    BY <1>8 DEF ThreadEnter, ThreadAbort, ThreadLeave
  <2>2. \A t \in Threads : /\ thr'[t] \in Made => thr[t] \in Made
                           /\ thr'[t] \in Live => thr[t] \in Live
                           /\ thr'[t] # "none" => thr[t] # "none"
    <3>1. PICK u \in Threads :
             \/ thr[u] = "started" /\ thr' = [thr EXCEPT ![u] = "running"]
             \/ thr[u] = "started" /\ thr' = [thr EXCEPT ![u] = "exited"]
             \/ thr[u] = "running" /\ thr' = [thr EXCEPT ![u] = "exited"]
      BY <1>8 DEF ThreadEnter, ThreadAbort, ThreadLeave
    <3> QED BY <3>1, <1>2 DEF Made, Live
  <2> QED BY <2>1, <2>2, <1>1, ThreadStep
<1>9. CASE Sigint \/ Shutdown \/ Gone \/ UNCHANGED vars
  <2>1. line' = line /\ pc' = pc /\ res' = res /\ thr' = thr
    BY <1>9 DEF Sigint, Shutdown, Gone, vars
  <2> QED BY <2>1, <1>1, ThreadStep
<1> QED
  BY <1>3, <1>4, <1>5, <1>6, <1>7, <1>8, <1>9 DEF Next, MainOk

-----------------------------------------------------------------------------
(* Joins.                                                                  *)

\* A step leaves the calls made so far as they are, and main() stays where it
\* is or makes one more.
LEMMA LineStep ==
  ASSUME IInv, [Next]_vars
  PROVE  \/ pc' = pc /\ line' = line
         \/ /\ ~Ended /\ pc' = pc + 1 /\ pc \in DOMAIN line'
            /\ \A i \in 1..(pc - 1) : line'[i] = line[i]
<1>1. pc \in Nat \ {0} /\ (~Ended => pc \in DOMAIN line)
  BY LineFacts, Zenon DEF IInv
<1>2. CASE MainFail
  <2>1. /\ ~Ended /\ pc' = pc + 1 /\ line' = Branch(line, pc) /\ line \in Seq(Instr)
    BY <1>2, CodeAssumption DEF MainFail, Advance, IInv, TypeOK, Line
  <2> DEFINE d == Branch(line, pc)
  <2>2. pc \in DOMAIN d /\ \A i \in 1..(pc - 1) : d[i] = line[i]
    BY <2>1, <1>1, BranchFacts, ZenonT(60)
  <2> HIDE DEF d
  <2>3. line' = d BY <2>1 DEF d
  <2> QED BY <2>1, <2>2, <2>3
<1>3. CASE ~MainFail
  BY <1>3, <1>1
  DEF Next, MainOk, MainCall, nfpexpl_sigaction_set, MainAcquire, MainRelease,
      nfp_thread_create, MainUse, nfp_thread_join, MainStop, print_global_stats,
      MainTest, Sigint, Shutdown, ThreadEnter, ThreadAbort, ThreadLeave, Gone,
      At, Advance, vars
<1> QED BY <1>2, <1>3

\* A thread that was made stays so until its group is joined.
LEMMA MadeStays ==
  ASSUME IInv, [Next]_vars, NEW t \in Threads, thr[t] \in Made
  PROVE  thr'[t] \in Made \/ (nfp_thread_join /\ t \in Group(line[pc].grp))
<1>1. thr \in [Threads -> Made \cup {"none", "joined"}]
  BY DEF IInv, TypeOK
<1>2. CASE nfp_thread_join
  BY <1>1, <1>2 DEF nfp_thread_join
<1>3. CASE \E u \in Threads : \/ nfp_thread_create(u) \/ ThreadEnter(u)
                              \/ ThreadAbort(u) \/ ThreadLeave(u)
  BY <1>1, <1>3
  DEF nfp_thread_create, ThreadEnter, ThreadAbort, ThreadLeave, Made, Live
<1>4. CASE UNCHANGED thr
  BY <1>4
<1> QED
  BY <1>2, <1>3, <1>4, Zenon
  DEF Next, MainOk, MainCall, nfpexpl_sigaction_set, MainAcquire, MainRelease,
      MainUse, MainStop, print_global_stats, MainFail,
      MainTest, Sigint, Shutdown, Gone, vars

\* A creation that main() leaves behind, and that succeeded, is complete.
LEMMA CreationComplete ==
  ASSUME IInv, [Next]_vars, ~Ended, pc' = pc + 1, line'[pc].op = "create",
         line'[pc].ok, NEW t \in Group(line'[pc].grp)
  PROVE  thr'[t] \in Made
<1>1. /\ pc \in Nat \ {0} /\ pc \in DOMAIN line /\ line[pc].ok = TRUE
      /\ thr \in [Threads -> Made \cup {"none", "joined"}]
  BY LineFacts, Zenon DEF IInv, TypeOK
<1>2. ~MainFail
  <2> SUFFICES ASSUME MainFail PROVE FALSE
    OBVIOUS
  <2>1. line' = Branch(line, pc) /\ line \in Seq(Instr)
    BY CodeAssumption DEF MainFail, IInv, TypeOK, Line
  <2> DEFINE d == Branch(line, pc)
  <2>2. d[pc].ok = FALSE
    BY <2>1, <1>1, BranchFacts, Zenon
  <2> HIDE DEF d
  <2>3. line' = d BY <2>1 DEF d
  <2> QED BY <2>2, <2>3
<1>3. pc' # pc
  BY <1>1
<1>4. PICK u \in Threads : nfp_thread_create(u)
  BY <1>2, <1>3, Zenon
  DEF Next, MainOk, MainCall, nfpexpl_sigaction_set, MainAcquire, MainRelease,
      MainUse, nfp_thread_join, MainStop, print_global_stats,
      MainTest, Sigint, Shutdown, ThreadEnter, ThreadAbort, ThreadLeave, Gone,
      At, Advance, vars
<1>5. /\ line' = line /\ thr' = [thr EXCEPT ![u] = "started"]
      /\ \A v \in Group(line[pc].grp) \ {u} : thr[v] \in Made
  BY <1>3, <1>4, Zenon DEF nfp_thread_create
<1>6. t \in Threads
  BY OneGroup
<1> QED
  BY <1>1, <1>5, <1>6 DEF Made, Live

\* Every step keeps the groups that are not joined complete.
LEMMA FullStep == JoinableInv /\ [Next]_vars => FullInv'
<1> SUFFICES ASSUME IInv, FullInv, [Next]_vars,
                    NEW j \in DOMAIN line', j < pc', line'[j].op = "create",
                    line'[j].ok, ~JoinedBetween(line', j, pc', line'[j].grp),
                    NEW t \in Group(line'[j].grp)
             PROVE  thr'[t] \in Made
  BY DEF JoinableInv, FullInv
<1>1. /\ pc \in Nat \ {0} /\ DOMAIN line = 1..Len(line) /\ Len(line) \in Nat
      /\ ~Ended => pc \in DOMAIN line /\ line[pc].ok = TRUE
      /\ pc <= Len(line) + 1
  <2>1. pc \in 1..(Len(line) + 1) BY DEF IInv, TypeOK
  <2>2. /\ pc \in Nat \ {0} /\ DOMAIN line = 1..Len(line) /\ Len(line) \in Nat
        /\ ~Ended => pc \in DOMAIN line /\ line[pc].ok = TRUE
    BY LineFacts, Zenon DEF IInv
  <2>3. pc <= Len(line) + 1 BY <2>1, <2>2
  <2> QED BY <2>2, <2>3
<1>2. j \in Nat \ {0} /\ t \in Threads
  <2>1. TypeOK' BY TypeStep DEF IInv
  <2>2. line' \in Seq(AnyInstr) BY <2>1, LineProperties, Zenon DEF TypeOK
  <2> QED BY <2>2, LenFacts, OneGroup
<1>3. \/ pc' = pc /\ line' = line
      \/ /\ ~Ended /\ pc' = pc + 1 /\ pc \in DOMAIN line'
         /\ \A i \in 1..(pc - 1) : line'[i] = line[i]
  BY LineStep
<1>4. CASE j < pc
  <2>1. j \in DOMAIN line /\ \A i \in 1..(pc - 1) : line'[i] = line[i]
    BY <1>1, <1>2, <1>3, <1>4
  <2>2. line'[j] = line[j]
    BY <2>1, <1>1, <1>2, <1>4
  <2>3. ~JoinedBetween(line, j, pc, line[j].grp)
    <3> SUFFICES ASSUME NEW k \in (j + 1)..(pc - 1), IsJoin(line[k], line[j].grp)
                 PROVE  FALSE
      BY DEF JoinedBetween
    <3>1. k \in 1..(pc - 1) /\ k \in (j + 1)..(pc' - 1)
      BY <1>1, <1>2, <1>3
    <3>2. IsJoin(line'[k], line'[j].grp)
      BY <3>1, <2>1, <2>2
    <3> QED BY <3>1, <3>2 DEF JoinedBetween
  <2>4. thr[t] \in Made
    BY <1>4, <2>1, <2>2, <2>3 DEF FullInv
  <2>5. ASSUME nfp_thread_join, t \in Group(line[pc].grp) PROVE FALSE
    <3>1. /\ line' = line /\ pc' = pc + 1 /\ ~Ended
          /\ line[pc].op \in {"join", "joinmade"}
      BY <2>5 DEF nfp_thread_join, At, Advance
    <3>2. line[pc].grp = line'[j].grp
      BY <2>5, OneGroup
    <3>3. IsJoin(line'[pc], line'[j].grp)
      BY <1>1, <3>1, <3>2 DEF IsJoin
    <3>4. pc \in (j + 1)..(pc' - 1)
      BY <1>1, <1>2, <1>4, <3>1
    <3> QED BY <3>3, <3>4 DEF JoinedBetween
  <2> QED BY <1>2, <2>4, <2>5, MadeStays
<1>5. CASE ~(j < pc)
  <2>1. j = pc /\ ~Ended /\ pc' = pc + 1
    BY <1>1, <1>2, <1>3, <1>5
  <2> QED BY <2>1, CreationComplete
<1> QED BY <1>4, <1>5

-----------------------------------------------------------------------------
(* What holds of every execution.                                         *)

\* The inductive invariant holds throughout every execution.
THEOREM Invariance == Spec => []IInv
BY InitIInv, StepIInv, PTL DEF Spec

\* Every variable keeps its type: in particular main() is always inside one of
\* the lines its code has.
THEOREM TypeCorrect == Spec => []TypeOK
<1>1. IInv => TypeOK BY DEF IInv
<1> QED BY <1>1, Invariance, PTL

\* An orderly line creates a group of threads once.
LEMMA CreatedOnce ==
  ASSUME NEW c, Orderly(c), NEW k \in DOMAIN c, c[k].op = "create",
         NEW m \in 1..(k - 1), c[m].op = "create"
  PROVE  c[m].grp # c[k].grp
  BY Zenon DEF Orderly

\* An application whose main() is orderly never terminates NFP, destroys a
\* channel or closes a socket under a live thread that uses it, whichever call
\* fails and whenever Ctrl+C or a shutdown command arrives.
THEOREM NoUseAfterReleaseTheorem == Spec => []NoUseAfterRelease
<1>1. IInv => NoUseAfterRelease
  <2> SUFFICES ASSUME IInv, NEW j \in 1..pc, HandedBy(j),
                      NEW t \in Group(line[j].grp), NEW r \in line[j].res,
                      thr[t] \in Live
               PROVE  res[r] = "held"
    BY DEF NoUseAfterRelease
  <2>1. /\ DOMAIN line = 1..Len(line) /\ Len(line) \in Nat /\ pc \in Nat \ {0}
        /\ Orderly(line) /\ line \in Seq(AnyInstr) /\ j \in DOMAIN line
    BY LineFacts DEF IInv, HandedBy
  <2>2. r \in Resources
    <3>1. line[j] \in AnyInstr BY <2>1
    <3> QED BY <3>1 DEF AnyInstr
  <2>3. t \in Threads /\ thr[t] # "none" BY OneGroup DEF Live
  <2>4. PICK i \in DOMAIN line : /\ Makes(line, i) /\ t \in Group(line[i].grp)
                                 /\ i < pc \/ i = pc
    BY <2>3 DEF IInv, MadeInv
  <2>5. line[i].grp = line[j].grp BY <2>4, OneGroup
  <2>6. line[j].op = "create" => i = j
    <3> SUFFICES ASSUME line[j].op = "create", i # j PROVE FALSE
      OBVIOUS
    <3>1. line[i].op = "create" BY <2>4 DEF Makes
    <3>2. CASE i < j
      <4>1. i \in 1..(j - 1) BY <3>2, <2>1
      <4> QED BY <4>1, <3>1, <2>1, <2>5, CreatedOnce
    <3>3. CASE j < i
      <4>1. j \in 1..(i - 1) BY <3>3, <2>1
      <4> QED BY <4>1, <3>1, <2>1, <2>5, CreatedOnce
    <3> QED BY <3>2, <3>3, <2>1
  <2>7. Hands(line, j, r) /\ (j < pc \/ (j = pc /\ line[j].op = "create"))
    BY <2>1, <2>4, <2>6 DEF HandedBy, Hands
  <2> QED BY <2>1, <2>2, <2>7 DEF IInv, UseInv
<1> QED BY <1>1, Invariance, PTL

\* Such an application releases only what it holds: nfp_terminate() is called
\* at most once, after nfp_initialize() succeeded, and so for every resource.
THEOREM ReleaseHeldOnlyTheorem == Spec => []ReleaseHeldOnly
<1>1. IInv => ReleaseHeldOnly
  <2> SUFFICES ASSUME IInv, At("release"), NEW r \in line[pc].res
               PROVE  res[r] = "held"
    BY DEF ReleaseHeldOnly
  <2>1. /\ pc \in DOMAIN line /\ line[pc].ok = TRUE /\ Orderly(line)
        /\ line \in Seq(AnyInstr) /\ line[pc].op = "release"
    BY LineFacts, Zenon DEF IInv, At
  <2>2. r \in Resources
    <3>1. line[pc] \in AnyInstr BY <2>1
    <3> QED BY <3>1 DEF AnyInstr
  <2>3. Releases(line, pc, r) BY <2>1 DEF Releases
  <2>4. HeldAt(line, pc, r) BY <2>1, <2>3 DEF Orderly
  <2> QED BY <2>2, <2>4 DEF IInv, HeldInv
<1> QED BY <1>1, Invariance, PTL

\* A main() all of whose lines are also tidy returns with nothing held and with
\* every thread it created joined.
THEOREM CleanExitTheorem == Spec => []CleanExit
<1>1. IInv => CleanExit
  <2> SUFFICES ASSUME IInv, app \in TidyApps, pc > Len(line)
               PROVE  /\ \A r \in Resources : res[r] # "held"
                      /\ \A t \in Threads : thr[t] \in {"none", "joined"}
    BY DEF CleanExit, Ended
  <2>1. /\ DOMAIN line = 1..Len(line) /\ Len(line) \in Nat /\ pc \in Nat \ {0}
        /\ line \in Seq(AnyInstr) /\ pc = Len(line) + 1
    <3>1. /\ DOMAIN line = 1..Len(line) /\ Len(line) \in Nat
          /\ pc \in Nat \ {0} /\ line \in Seq(AnyInstr)
      BY LineFacts DEF IInv
    <3>2. pc \in 1..(Len(line) + 1) BY DEF IInv, TypeOK
    <3> QED BY <3>1, <3>2
  <2>2. Tidy(line)
    <3>1. \E f \in {0} \cup FailPoints(Code[app]) : line = Line(Code[app], f)
      BY DEF IInv, TypeOK
    <3>2. line \in Lines(Code[app]) BY <3>1 DEF Lines
    <3> QED BY <3>2, TidyAssumption
  <2>3. ASSUME NEW r \in Resources, res[r] = "held" PROVE FALSE
    <3>1. HeldAt(line, pc, r) BY <2>3 DEF IInv, HeldInv
    <3>2. PICK k \in 1..(pc - 1) : Acquires(line, k, r) BY <3>1 DEF HeldAt
    <3>3. k \in DOMAIN line /\ r \in line[k].res BY <3>2, <2>1 DEF Acquires
    <3> QED BY <3>1, <3>3, <2>1, <2>2 DEF Tidy
  <2>4. ASSUME NEW t \in Threads, thr[t] \notin {"none", "joined"} PROVE FALSE
    <3>1. thr[t] \in Made BY <2>4 DEF IInv, TypeOK
    <3>2. PICK j \in DOMAIN line : Makes(line, j) /\ t \in Group(line[j].grp)
      BY <2>4 DEF IInv, MadeInv
    <3>3. JoinedBetween(line, j, pc, line[j].grp) BY <3>2, <2>1, <2>2 DEF Tidy
    <3>4. PICK k \in (j + 1)..(pc - 1) : IsJoin(line[k], line[j].grp)
      BY <3>3 DEF JoinedBetween
    <3>5. k \in DOMAIN line /\ k < pc /\ line[k].grp = line[j].grp
      BY <3>4, <2>1 DEF IsJoin
    <3>6. thr[t] \notin Made BY <3>2, <3>4, <3>5 DEF IInv, JoinInv
    <3> QED BY <3>1, <3>6
  <2> QED BY <2>3, <2>4
<1> QED BY <1>1, Invariance, PTL

\* A tidy main() joins a table of threads in full only when it created all of
\* them, and each only once, whichever call fails before.
THEOREM JoinMadeOnlyTheorem == Spec => []JoinMadeOnly
<1>1. Init => FullInv
  <2> SUFFICES ASSUME Init, NEW j \in DOMAIN line, j < pc PROVE FALSE
    BY DEF FullInv
  <2>1. IInv BY InitIInv
  <2>2. DOMAIN line = 1..Len(line) BY <2>1, LineFacts DEF IInv
  <2> QED BY <2>2 DEF Init
<1>2. JoinableInv => JoinMadeOnly
  <2> SUFFICES ASSUME IInv, FullInv, app \in TidyApps, At("join"),
                      NEW t \in Group(line[pc].grp)
               PROVE  thr[t] \in Made
    BY DEF JoinableInv, JoinMadeOnly
  <2>1. /\ pc \in DOMAIN line /\ line[pc].op = "join" /\ DOMAIN line = 1..Len(line)
        /\ pc \in Nat \ {0} /\ Len(line) \in Nat
    BY LineFacts DEF IInv, At
  <2>2. Tidy(line)
    <3>1. \E f \in {0} \cup FailPoints(Code[app]) : line = Line(Code[app], f)
      BY DEF IInv, TypeOK
    <3>2. line \in Lines(Code[app]) BY <3>1 DEF Lines
    <3> QED BY <3>2, TidyAssumption
  <2>3. PICK j \in 1..(pc - 1) :
          /\ line[j].op = "create" /\ line[j].ok /\ line[j].grp = line[pc].grp
          /\ ~JoinedBetween(line, j, pc, line[j].grp)
    BY <2>1, <2>2 DEF Tidy, JoinsWhole
  <2>4. j \in DOMAIN line /\ j < pc
    BY <2>1
  <2> QED BY <2>3, <2>4 DEF FullInv
<1>3. JoinableInv /\ [Next]_vars => JoinableInv'
  BY StepIInv, FullStep DEF JoinableInv
<1>4. Init => JoinableInv
  BY InitIInv, <1>1 DEF JoinableInv
<1> QED BY <1>2, <1>3, <1>4, PTL DEF Spec

=============================================================================
