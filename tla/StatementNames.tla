--------------------------- MODULE StatementNames ---------------------------
(***************************************************************************)
(* What a prepared statement is called on a server connection: its         *)
(* canonical name, a hash of its text and its parameter types, whatever    *)
(* name each client gave it.                                               *)
(***************************************************************************)
CONSTANTS
  Queries,  \* query texts with their parameter types, as canonical names
  NoQuery   \* no statement

ASSUME StatementNamesAssumption == NoQuery \notin Queries
=============================================================================
