------------------------- MODULE MCOrderlyLifecycle -------------------------
(***************************************************************************)
(* The assumptions of OrderlyLifecycle, evaluated on the main() functions  *)
(* of the examples.                                                        *)
(***************************************************************************)
EXTENDS MCLifecycle, OrderlyLifecycle
=============================================================================
