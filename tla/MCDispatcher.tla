---------------------------- MODULE MCDispatcher ----------------------------
(***************************************************************************)
(* The instance of Dispatcher that TLC checks: three requests are the      *)
(* least in which one starts a session and two more meet on it.            *)
(***************************************************************************)
EXTENDS DispatchRefinement

ThreeCalls == {"call1", "call2", "call3"}
=============================================================================
