----------------------------- MODULE MCSession -----------------------------
(***************************************************************************)
(* Session on a screen of one short line, with an output that is wider     *)
(* than it, for TLC.                                                       *)
(***************************************************************************)
EXTENDS Session

ShellWriter    == <<"a", "a">>
ShellCommands  == {<<"a">>, ShellWriter}
ShellPrompts   == {<<"$">>}
ShellNotFound  == <<Newline, "$", Newline>>
ShellOutputs   == {<<>>, <<"$", "$", "$", "$", "$", "$", Newline>>}
=============================================================================
