--------------------------- MODULE MCStateManager ---------------------------
(***************************************************************************)
(* TLC instance of StateManagerSpec on the states and the transition table *)
(* of src/tests/utils/state_manager.test.cpp:10-18, without the entry of   *)
(* ANOTHER_STATE, so that one state is missing from the table.  SOME_STATE *)
(* has a timeout and a reset limit, ANOTHER_STATE only a timeout, OK only  *)
(* a limit, START neither.                                                 *)
(***************************************************************************)
EXTENDS StateManagerSpec, TLC

MCStates == {"START", "OK", "SOME_STATE", "ANOTHER_STATE", "ERROR_STATE"}

MCTransitionMap ==
    "START" :> {"OK"} @@
    "OK" :> {"SOME_STATE", "ANOTHER_STATE", "START"} @@
    "SOME_STATE" :> {"ANOTHER_STATE", "SOME_STATE"}

MCMaxResetCounts == "SOME_STATE" :> 2 @@ "OK" :> 1

MCTimeOuts == "SOME_STATE" :> 3 @@ "ANOTHER_STATE" :> 2
=============================================================================
