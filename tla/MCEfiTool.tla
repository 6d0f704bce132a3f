----------------------------- MODULE MCEfiTool -----------------------------
(***************************************************************************)
(* Instances of EfiTool for TLC: the shell and memtest, which the shipped  *)
(* lists and hooks name.                                                   *)
(***************************************************************************)
EXTENDS EfiTool

Tools == {"shell", "memtest"}
NoExtension == {}

\* Both tools are listed and nothing runs while pacman does.
OneAtATime ==
  [managed |-> Tools, opers |-> {"add", "inspect"}, overlap |-> FALSE,
   maxTrans |-> 3, maxFaults |-> 2]

\* memtest is not listed, and the administrator's runs interleave with pacman.
Interleaved ==
  [managed |-> {"shell"}, opers |-> {"add", "remove"}, overlap |-> TRUE,
   maxTrans |-> 1, maxFaults |-> 1]

BothMachines == {OneAtATime, Interleaved}

\* For the file name matching: a tool whose name goes on where another's ends.
ExtendingTools == {"shell", "shell-git"}
Extension == {<<"shell", "shell-git">>}
PrefixMachine ==
  {[managed |-> ExtendingTools, opers |-> {"add"}, overlap |-> FALSE,
    maxTrans |-> 1, maxFaults |-> 0]}

=============================================================================
