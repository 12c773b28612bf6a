----------------------------- MODULE MCFrontEnd -----------------------------
(***************************************************************************)
(* A small instance of FrontEnd for TLC.                                   *)
(***************************************************************************)
EXTENDS FrontEnd

CONSTANTS c1, c2, x1

\* A reload takes the user away or changes the mode.
MCConfigs ==
  {[mode |-> "transaction", allowed |-> TRUE], [mode |-> "session", allowed |-> TRUE],
   [mode |-> "transaction", allowed |-> FALSE]}
MCPasswords == 0 .. 1
=============================================================================
