----------------------------- MODULE BootMirror -----------------------------
(***************************************************************************)
(* What sd-boot promises about $BOOT, without pacman, hooks or tools: the  *)
(* loader entries follow the files they boot.  An entry is published only  *)
(* while its image is on disk, and an image's files are deleted only after *)
(* its entry was withdrawn, so the boot menu never offers an entry whose   *)
(* image is gone.  Only after a failure may pacman delete the files under  *)
(* an entry; even then none is published without its files.  Items are     *)
(* kernel images for the kernel tools.                                     *)
(***************************************************************************)
CONSTANT Item

VARIABLES
  images,   \* items whose files are on disk
  entries,  \* items with a loader entry on $BOOT
  failed    \* did a lookup, a tool or the machine fail so far?

vars == <<images, entries, failed>>

Init ==
  /\ images \in SUBSET Item
  /\ entries \in SUBSET images
  /\ failed = FALSE

\* The package manager writes the files of v.
Install(v) ==
  /\ images' = images \cup {v}
  /\ UNCHANGED <<entries, failed>>

\* The package manager deletes the files of v: under a live entry only after
\* a failure.
Delete(v) ==
  /\ v \notin entries \/ failed
  /\ images' = images \ {v}
  /\ UNCHANGED <<entries, failed>>

\* An entry is written for files that are there.
Publish(v) ==
  /\ v \in images
  /\ entries' = entries \cup {v}
  /\ UNCHANGED <<images, failed>>

Withdraw(v) ==
  /\ entries' = entries \ {v}
  /\ UNCHANGED <<images, failed>>

Fail ==
  /\ failed' = TRUE
  /\ UNCHANGED <<images, entries>>

Next ==
  \/ \E v \in Item : Install(v) \/ Delete(v) \/ Publish(v) \/ Withdraw(v)
  \/ Fail

Spec == Init /\ [][Next]_vars

=============================================================================
