------------------------------ MODULE MCShell ------------------------------
(***************************************************************************)
(* Shell with two commands of one letter, written once and twice, for TLC. *)
(***************************************************************************)
EXTENDS Shell

ShellWriter   == <<"a", "a">>
ShellCommands == {<<"a">>, ShellWriter}
=============================================================================
