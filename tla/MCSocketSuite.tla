--------------------------- MODULE MCSocketSuite ---------------------------
(***************************************************************************)
(* SocketSuite for the suites of the example; the assumptions of           *)
(* OrderlySockets are evaluated on them.                                   *)
(***************************************************************************)
EXTENDS OrderlySockets, SocketTests
=============================================================================
