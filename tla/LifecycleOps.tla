---------------------------- MODULE LifecycleOps ----------------------------
(***************************************************************************)
(* The vocabulary in which the main() functions of the NFP examples are    *)
(* written down.  A main() is a straight line of calls; a call that may    *)
(* fail carries the calls that main() makes instead of the rest of the     *)
(* line when it does.  That is all the control flow these functions have:  *)
(* a "goto end" is the list of calls found at the label.                   *)
(*                                                                         *)
(* A resource is anything the process acquires and must give back: the NFP *)
(* instance ("nfp"), the parsed arguments ("args"), the ODP instance, a    *)
(* socket, a channel.                                                      *)
(***************************************************************************)
EXTENDS Sequences, Naturals, FiniteSets

Ops == {"call", "sigaction", "acquire", "release", "create", "use", "join",
        "joinmade", "stop", "await", "test"}

\* op    what the call does
\* grp   the thread group it creates, joins or hands a resource to
\* res   the resources it acquires, releases or lets the group use
\* may   whether the code has a failure branch for it
\* ok    FALSE once it has failed
\* fail  the calls main() makes from there when it fails
Ins(op, grp, res, may, fail) ==
  [op |-> op, grp |-> grp, res |-> res, may |-> may, ok |-> TRUE, fail |-> fail]

\* A call with no lifecycle effect of its own that may fail.
Call(fail) == Ins("call", "", {}, TRUE, fail)

SigAction(fail) == Ins("sigaction", "", {}, TRUE, fail)

Acquire(r, fail) == Ins("acquire", "", {r}, TRUE, fail)

Release(r) == Ins("release", "", {r}, FALSE, <<>>)

\* Start every thread of group g; they use the resources rs until they exit.
Create(g, rs, fail) == Ins("create", g, rs, TRUE, fail)

\* From here on the running threads of g also use rs (a callback on a socket).
Use(g, rs) == Ins("use", g, rs, FALSE, <<>>)

\* nfp_thread_join(tbl, n) with n the size of the group ...
Join(g) == Ins("join", g, {}, FALSE, <<>>)

\* ... and with n the number of threads that were really created.
JoinMade(g) == Ins("joinmade", g, {}, FALSE, <<>>)

Stop == Ins("stop", "", {}, FALSE, <<>>)

\* print_global_stats(): main() itself loops until processing is stopped.
Await(fail) == Ins("await", "", {}, TRUE, fail)

\* A network test that main() runs itself and that looks at no stop request.
Test == Ins("test", "", {}, FALSE, <<>>)

-----------------------------------------------------------------------------

\* The line that main() follows when its call number p fails: the calls made
\* so far, the failed one, and the failure branch of that one.
Branch(c, p) ==
  [i \in 1..(p + Len(c[p].fail)) |->
     IF i < p THEN c[i]
     ELSE IF i = p THEN [c[p] EXCEPT !.ok = FALSE]
     ELSE c[p].fail[i - p]]

\* Every line main() can follow: position 0 stands for "nothing failed".
Line(c, p) == IF p = 0 THEN c ELSE Branch(c, p)

FailPoints(c) == {p \in DOMAIN c : c[p].may}

Lines(c) == {Line(c, p) : p \in {0} \cup FailPoints(c)}

-----------------------------------------------------------------------------

IsJoin(ins, g) == ins.op \in {"join", "joinmade"} /\ ins.ok /\ ins.grp = g

\* A group is joined somewhere strictly between positions j and i.
JoinedBetween(c, j, i, g) == \E k \in (j + 1)..(i - 1) : IsJoin(c[k], g)

\* Position j creates threads.  Only the workers can be created in part.
Makes(c, j) == c[j].op = "create" /\ (c[j].ok \/ c[j].grp = "workers")

\* Position j lets group c[j].grp use the resource r.
Hands(c, j, r) == (Makes(c, j) \/ c[j].op = "use") /\ r \in c[j].res

Acquires(c, k, r) == c[k].op = "acquire" /\ c[k].ok /\ r \in c[k].res

Releases(c, k, r) == c[k].op = "release" /\ c[k].ok /\ r \in c[k].res

\* Just before position i, r has been acquired and not given back.
HeldAt(c, i, r) ==
  \E k \in 1..(i - 1) :
    Acquires(c, k, r) /\ \A m \in (k + 1)..(i - 1) : ~Releases(c, m, r)

\* The discipline a line of calls must keep: a resource is handed to threads
\* only while it is held, and given back only when it is held and after the
\* groups it was handed to have been joined; a group is created once, before
\* anything else is done with it.
Orderly(c) ==
  \A i \in DOMAIN c :
    /\ \A r \in c[i].res : Hands(c, i, r) => HeldAt(c, i, r)
    /\ \A r \in c[i].res :
         Releases(c, i, r) =>
           /\ HeldAt(c, i, r)
           /\ \A j \in 1..(i - 1) :
                Hands(c, j, r) => JoinedBetween(c, j, i, c[j].grp)
    /\ c[i].op = "create" =>
         \A k \in 1..(i - 1) :
           ~IsJoin(c[k], c[i].grp)
           /\ ~(c[k].op \in {"create", "use"} /\ c[k].grp = c[i].grp)

\* A table of threads is joined in full where the whole group was created and
\* has not been joined since.
JoinsWhole(c) ==
  \A i \in DOMAIN c :
    c[i].op = "join" =>
      \E j \in 1..(i - 1) :
        /\ c[j].op = "create" /\ c[j].ok /\ c[j].grp = c[i].grp
        /\ ~JoinedBetween(c, j, i, c[j].grp)

\* At its end, a line has given everything back and joined every group; it
\* joins no thread that it did not create.
Tidy(c) ==
  /\ \A i \in DOMAIN c : \A r \in c[i].res : ~HeldAt(c, Len(c) + 1, r)
  /\ \A i \in DOMAIN c :
       Makes(c, i) => JoinedBetween(c, i, Len(c) + 1, c[i].grp)
  /\ JoinsWhole(c)

=============================================================================
