-------------------------- MODULE OrderlyLifecycle --------------------------
(***************************************************************************)
(* What it takes for the applications to shut down safely, as assumptions  *)
(* on their main() functions alone.  TLC evaluates them on the tables of   *)
(* AppMains; LifecycleProofs derives the safety of every execution.        *)
(***************************************************************************)
EXTENDS Lifecycle

Groups == Singles \cup {"workers", ""}

\* The calls found in a failure branch have none of their own.
Leaf == [op : Ops, grp : Groups, res : SUBSET Resources, may : {FALSE},
         ok : {TRUE}, fail : {<<>>}]

Instr == [op : Ops, grp : Groups, res : SUBSET Resources, may : BOOLEAN,
          ok : {TRUE}, fail : Seq(Leaf)]

ASSUME ThreadsAssumption == Workers \cap Singles = {} /\ "workers" \notin Singles

ASSUME ResourcesAssumption == "nfp" \in Resources

ASSUME CodeAssumption == \A a \in Apps : Code[a] \in Seq(Instr)

\* Whatever call fails, the calls that are made keep the discipline.
ASSUME OrderlyAssumption == \A a \in Apps : \A c \in Lines(Code[a]) : Orderly(c)

ASSUME TidyAssumption == \A a \in TidyApps : \A c \in Lines(Code[a]) : Tidy(c)

-----------------------------------------------------------------------------

\* What is held is what the calls made so far have acquired and not released.
HeldInv == \A r \in Resources : res[r] = "held" <=> HeldAt(line, pc, r)

\* A thread that exists or existed was created by a call made so far, or by the
\* creation of the workers that is under way.
MadeInv ==
  \A t \in Threads :
    thr[t] # "none" =>
      \E j \in DOMAIN line :
        /\ Makes(line, j) /\ t \in Group(line[j].grp)
        /\ j < pc \/ (j = pc /\ line[j].grp = "workers")

\* The threads of a group that was joined are gone.
JoinInv ==
  \A k \in DOMAIN line :
    k < pc /\ IsJoin(line[k], line[k].grp) =>
      \A t \in Group(line[k].grp) : thr[t] \notin Made

\* A live thread finds what was handed to its group.
UseInv ==
  \A j \in DOMAIN line, r \in Resources :
    Hands(line, j, r) /\ (j < pc \/ (j = pc /\ line[j].op = "create")) =>
      \A t \in Group(line[j].grp) : thr[t] \in Live => res[r] = "held"

\* A group whose creation has succeeded and that was not joined since is there
\* in full.
FullInv ==
  \A j \in DOMAIN line :
    /\ j < pc /\ line[j].op = "create" /\ line[j].ok
    /\ ~JoinedBetween(line, j, pc, line[j].grp)
    => \A t \in Group(line[j].grp) : thr[t] \in Made

\* The inductive invariant behind the safety of the shutdown: the position of
\* main() in its line of calls determines what is held and which threads can
\* still be alive.
IInv == TypeOK /\ HeldInv /\ MadeInv /\ JoinInv /\ UseInv

\* With it, what a join relies on is inductive too.
JoinableInv == IInv /\ FullInv

=============================================================================
