------------------------------- MODULE MCSql -------------------------------
(***************************************************************************)
(* A small instance of SqlSession for TLC.                                 *)
(***************************************************************************)
EXTENDS SqlSession

\* Comments; quotes and dollar quotes; words and numbers among all of them.
MCAlphabets ==
  {{"k", "/", "*", "-", "newline"}, {"k", "'", "\"", "$", " "},
   {"k", "1", "-", "'", "("}, {}}
=============================================================================
