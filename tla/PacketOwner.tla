----------------------------- MODULE PacketOwner -----------------------------
(***************************************************************************)
(* What an application that takes packets out of the stack promises: every *)
(* packet has exactly one owner at any time, and changes hands only in the *)
(* ways the API allows.  A packet leaves the pool with the worker that     *)
(* receives it; the worker frees it, leaves it to the stack or sends it on *)
(* a channel (NFP_CHANNEL_METHOD_TAKE); only the receiver takes packets    *)
(* out of a channel, and frees them; the stack frees what it has sent, or  *)
(* copied to a reader.  No packet is freed twice or used by two, and none  *)
(* is lost unless a worker gives up a vector that the channel refused with *)
(* a code it does not know.                                                *)
(***************************************************************************)
CONSTANTS
  Packets,  \* the packets of the pool
  Workers   \* the threads that receive packets

VARIABLE owner  \* owner[p]: who may touch packet p

Owners == Workers \cup {"pool", "stack", "channel", "receiver", "lost"}

\* How ownership may pass.
Hands ==
  {<<"stack", "pool">>, <<"channel", "receiver">>, <<"receiver", "pool">>}
    \cup ({"pool"} \X Workers)
    \cup (Workers \X {"pool", "stack", "channel", "lost"})

Init == owner = [p \in Packets |-> "pool"]

\* All the packets that change hands in a step pass from one owner to one
\* other.
Next ==
  /\ owner' \in [Packets -> Owners]
  /\ {<<owner[p], owner'[p]>> : p \in {q \in Packets : owner'[q] # owner[q]}}
       \in {{h} : h \in Hands}

Spec == Init /\ [][Next]_owner
=============================================================================
