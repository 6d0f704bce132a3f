---------------------------- MODULE AtomicEntry ----------------------------
(***************************************************************************)
(* What the loader entry plugin promises about the entry file it changes:  *)
(* a reader, systemd-boot above all, finds the file as kernel-install      *)
(* wrote it or completely changed, and nothing in between.                 *)
(***************************************************************************)
CONSTANTS
  Written,     \* what kernel-install writes into an entry file
  NoFile,      \* the file is not there
  Changes      \* of each written text, what it may be changed to

VARIABLE entry

Init == entry = NoFile

\* kernel-install add writes the entry, kernel-install remove deletes it.
Write == entry' \in Written
Remove == entry' = NoFile

\* The plugin changes what kernel-install wrote in one step.
Replace ==
  /\ entry \in Written
  /\ entry' \in Changes[entry]

\* An entry that was removed while the plugin changed it comes back.
Return ==
  /\ entry = NoFile
  /\ \E w \in Written : entry' \in Changes[w]

Next == Write \/ Remove \/ Replace \/ Return

Spec == Init /\ [][Next]_entry

=============================================================================
