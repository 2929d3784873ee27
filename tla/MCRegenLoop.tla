----------------------------- MODULE MCRegenLoop -----------------------------
(***************************************************************************)
(* Model checking RegenLoop: two portfolios, four days so that a goroutine *)
(* can fail three times in a row, each time with an earlier request behind *)
(* it, and two goroutines, free to serve any portfolio, so that both could *)
(* work on one if the protocol allowed it.                                 *)
(***************************************************************************)
EXTENDS RegenLoop
=============================================================================
