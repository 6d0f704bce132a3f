----------------------------- MODULE ShadowConf -----------------------------
(***************************************************************************)
(* Efi tools need loader entries, so with the uki layout each update of an *)
(* efi tool points kernel-install at a shadow of etc/kernel: symbolic      *)
(* links to every file there, and an install.conf of its own that says     *)
(* layout = bls.  The shadow lies at one fixed place and is made anew, in  *)
(* place, before kernel-install runs: by ki_efi_update_env.                *)
(***************************************************************************)
EXTENDS FiniteSets, Naturals

CONSTANTS
  Name,      \* the names in etc/kernel, install.conf left out
  Proc,      \* the tool processes that may run
  MaxRuns,   \* bound: tool updates in a behaviour
  MaxEdits,  \* bound: changes of etc/kernel in a behaviour
  MaxFaults  \* bound: failures and crashes in a behaviour

ASSUME BoundAssumption == MaxRuns \in Nat /\ MaxEdits \in Nat /\ MaxFaults \in Nat

VARIABLES
  etc,      \* the names that are in etc/kernel
  links,    \* what the shadow has under a name
  conf,     \* the install.conf of the shadow
  run,      \* the processes
  made,     \* names that updates saw and kernel-install was run with
  nRuns,    \* updates so far
  nEdits,   \* changes so far
  nFaults   \* faults so far

vars == <<etc, links, conf, run, made, nRuns, nEdits, nFaults>>

\* "wrong" is a link to another path, "file" is no link at all.
LinkStates == {"none", "right", "wrong", "file"}
ConfStates == {"none", "empty", "part", "bls"}

\* "alone" is for the properties: no other process ran since this one started.
IdleRun == [pc |-> "idle", listed |-> {}, todo |-> {}, name |-> {}, alone |-> FALSE]

Init ==
  /\ etc \in SUBSET Name
  /\ links \in [Name -> LinkStates]
  /\ conf \in ConfStates
  /\ run = [p \in Proc |-> IdleRun]
  /\ made = {}
  /\ nRuns = 0 /\ nEdits = 0 /\ nFaults = 0

Fault ==
  /\ nFaults < MaxFaults
  /\ nFaults' = nFaults + 1

-----------------------------------------------------------------------------
(* One update of an efi tool, up to kernel-install.                        *)

\* efi_tool_update_one calls ki_efi_update_env, for one package after another.
Start(p) ==
  /\ run[p].pc = "idle"
  /\ nRuns < MaxRuns
  /\ nRuns' = nRuns + 1
  /\ run' = [q \in Proc |->
               IF q = p THEN [IdleRun EXCEPT !.pc = "open",
                                             !.alone = \A r \in Proc : run[r].pc = "idle"]
               ELSE [run[q] EXCEPT !.alone = FALSE]]
  /\ UNCHANGED <<etc, links, conf, made, nEdits, nFaults>>

\* The update gives up, and the run with it.
Failed(p) ==
  run' = [run EXCEPT ![p] = [IdleRun EXCEPT !.pc = "failed", !.alone = run[p].alone]]

\* The name in hand is done with.
Linked(p) == run' = [run EXCEPT ![p].pc = "link", ![p].name = {}]

\* The shadow directory is made, both directories are opened.
OpenDirs(p) ==
  /\ run[p].pc = "open"
  /\ run' = [run EXCEPT ![p].pc = "link", ![p].listed = etc, ![p].todo = etc]
  /\ UNCHANGED <<etc, links, conf, made, nRuns, nEdits, nFaults>>

\* readdir gives the next name; symlinkat makes its link or says EEXIST.
MakeLink(p) ==
  /\ run[p].pc = "link"
  /\ \E n \in run[p].todo :
       IF links[n] = "none"
         THEN /\ links' = [links EXCEPT ![n] = "right"]
              /\ run' = [run EXCEPT ![p].todo = @ \ {n}]
         ELSE /\ run' = [run EXCEPT ![p].pc = "exists", ![p].todo = @ \ {n}, ![p].name = {n}]
              /\ UNCHANGED links
  /\ UNCHANGED <<etc, conf, made, nRuns, nEdits, nFaults>>

MutantReadLink(p) ==
  /\ run[p].pc = "exists"
  /\ \E n \in run[p].name :
       IF links[n] \in {"right", "wrong"} THEN Linked(p) ELSE Failed(p)
  /\ UNCHANGED <<etc, links, conf, made, nRuns, nEdits, nFaults>>

\* readlinkat: a right link stays, a wrong one has to go, anything else is an
\* error, and so is a link that is gone by now.
ReadLink(p) ==
  /\ run[p].pc = "exists"
  /\ \E n \in run[p].name :
       CASE links[n] = "right" -> Linked(p)
         [] links[n] = "wrong" -> run' = [run EXCEPT ![p].pc = "unlink"]
         [] OTHER -> Failed(p)
  /\ UNCHANGED <<etc, links, conf, made, nRuns, nEdits, nFaults>>

MutantUnlink(p) ==
  /\ run[p].pc = "unlink"
  /\ run' = [run EXCEPT ![p].pc = "relink"]
  /\ UNCHANGED <<etc, links, conf, made, nRuns, nEdits, nFaults>>

\* unlinkat, of whatever is there by now.
Unlink(p) ==
  /\ run[p].pc = "unlink"
  /\ \E n \in run[p].name :
       IF links[n] = "none"
         THEN Failed(p) /\ UNCHANGED links
         ELSE /\ links' = [links EXCEPT ![n] = "none"]
              /\ run' = [run EXCEPT ![p].pc = "relink"]
  /\ UNCHANGED <<etc, conf, made, nRuns, nEdits, nFaults>>

MutantRelink(p) ==
  /\ run[p].pc = "relink"
  /\ \E n \in run[p].name :
       IF links[n] # "none"
         THEN Failed(p) /\ UNCHANGED links
         ELSE /\ links' = [links EXCEPT ![n] = "right"]
              /\ run' = [run EXCEPT ![p].pc = "link"]
  /\ UNCHANGED <<etc, conf, made, nRuns, nEdits, nFaults>>

\* The second symlinkat takes no EEXIST for an answer.
Relink(p) ==
  /\ run[p].pc = "relink"
  /\ \E n \in run[p].name :
       IF links[n] # "none"
         THEN Failed(p) /\ UNCHANGED links
         ELSE links' = [links EXCEPT ![n] = "right"] /\ Linked(p)
  /\ UNCHANGED <<etc, conf, made, nRuns, nEdits, nFaults>>

MutantTruncate(p) ==
  /\ run[p].pc = "link"
  /\ run[p].todo = {}
  /\ IF conf = "none"
       THEN conf' = "empty" /\ run' = [run EXCEPT ![p].pc = "write"] /\ UNCHANGED made
       ELSE /\ run' = [run EXCEPT ![p].pc = "child"]
            /\ made' = made \cup run[p].listed
            /\ UNCHANGED conf
  /\ UNCHANGED <<etc, links, nRuns, nEdits, nFaults>>

\* write_file opens install.conf with O_TRUNC.
Truncate(p) ==
  /\ run[p].pc = "link"
  /\ run[p].todo = {}
  /\ conf' = "empty"
  /\ run' = [run EXCEPT ![p].pc = "write"]
  /\ UNCHANGED <<etc, links, made, nRuns, nEdits, nFaults>>

\* All of it is written and kernel-install is started: it reads the shadow
\* at some time before it ends.
Write(p) ==
  /\ run[p].pc = "write"
  /\ conf' = "bls"
  /\ made' = made \cup run[p].listed
  /\ run' = [run EXCEPT ![p].pc = "child"]
  /\ UNCHANGED <<etc, links, nRuns, nEdits, nFaults>>

MutantWriteFails(p) ==
  /\ run[p].pc = "write"
  /\ Fault
  /\ conf' = IF conf = "bls" THEN "bls" ELSE "part"
  /\ made' = made \cup run[p].listed
  /\ run' = [run EXCEPT ![p].pc = "child"]
  /\ UNCHANGED <<etc, links, nRuns, nEdits>>

\* The disk is full: a part is written, over the same bytes if another run
\* has written them.
WriteFails(p) ==
  /\ run[p].pc = "write"
  /\ Fault
  /\ conf' = IF conf = "bls" THEN "bls" ELSE "part"
  /\ Failed(p)
  /\ UNCHANGED <<etc, links, made, nRuns, nEdits>>

\* A directory, a link or install.conf cannot be made, opened or read.
LinkFails(p) ==
  /\ run[p].pc \in {"open", "link", "exists", "unlink", "relink"}
  /\ Fault
  /\ Failed(p)
  /\ UNCHANGED <<etc, links, conf, made, nRuns, nEdits>>

\* readdir fails, which the loop takes for the end of the directory: the names
\* it has not given yet are not seen.
LinkCut(p) ==
  /\ run[p].pc = "link" /\ run[p].todo # {}
  /\ Fault
  /\ run' = [run EXCEPT ![p].listed = @ \ run[p].todo, ![p].todo = {}]
  /\ UNCHANGED <<etc, links, conf, made, nRuns, nEdits>>

\* kernel-install is over, or the run that gave up has exited.
End(p) ==
  /\ run[p].pc \in {"child", "failed"}
  /\ run' = [run EXCEPT ![p] = IdleRun]
  /\ UNCHANGED <<etc, links, conf, made, nRuns, nEdits, nFaults>>

-----------------------------------------------------------------------------
(* The others.                                                             *)

\* The administrator adds a file to etc/kernel or removes one.
Edit ==
  /\ nEdits < MaxEdits
  /\ nEdits' = nEdits + 1
  /\ \E n \in Name : etc' = IF n \in etc THEN etc \ {n} ELSE etc \cup {n}
  /\ UNCHANGED <<links, conf, run, made, nRuns, nFaults>>

\* Power loss: the shadow stays as it is, for the next update to begin with.
Crash ==
  /\ \E p \in Proc : run[p].pc # "idle"
  /\ Fault
  /\ run' = [p \in Proc |-> IdleRun]
  /\ UNCHANGED <<etc, links, conf, made, nRuns, nEdits>>

Next ==
  \/ \E p \in Proc :
       \/ Start(p) \/ OpenDirs(p) \/ MakeLink(p) \/ ReadLink(p) \/ Unlink(p) \/ Relink(p)
       \/ Truncate(p) \/ Write(p) \/ End(p)
       \/ LinkCut(p) \/ LinkFails(p) \/ WriteFails(p)
  \/ Edit
  \/ Crash

Spec == Init /\ [][Next]_vars

-----------------------------------------------------------------------------
(* Correctness.                                                            *)

\* The variables have their types; a process has a name in hand exactly while
\* it deals with what was there under that name.
TypeOK ==
  /\ etc \subseteq Name /\ made \subseteq Name
  /\ links \in [Name -> LinkStates]
  /\ conf \in ConfStates
  /\ \A p \in Proc :
       /\ run[p].pc \in {"idle", "open", "link", "exists", "unlink", "relink",
                         "write", "child", "failed"}
       /\ run[p].listed \subseteq Name /\ run[p].todo \subseteq run[p].listed
       /\ run[p].name \subseteq run[p].listed /\ run[p].alone \in BOOLEAN
       /\ Cardinality(run[p].name) = IF run[p].pc \in {"exists", "unlink", "relink"} THEN 1 ELSE 0
  /\ nRuns \in 0..MaxRuns /\ nEdits \in 0..MaxEdits /\ nFaults \in 0..MaxFaults

\* A process that runs alone has kernel-install read the bls layout, whatever
\* runs that crashed, failed or interleaved left of install.conf.
ChildReadsBls == \A p \in Proc : run[p].pc = "child" /\ run[p].alone => conf = "bls"

\* A process that runs alone has kernel-install find every file of etc/kernel
\* that readdir gave it, whatever was in the shadow before: links of an earlier
\* root, links an interrupted run had just removed, or none.
ChildSeesLinks ==
  \A p \in Proc :
    run[p].pc = "child" /\ run[p].alone => \A n \in run[p].listed : links[n] = "right"

\* A process that runs alone fails only if an operation failed or the shadow
\* has something else than a link in it: wrong links are put right.
FailsForCause ==
  (\E p \in Proc : run[p].pc = "failed" /\ run[p].alone) =>
    nFaults > 0 \/ \E n \in Name : links[n] = "file"

\* Also runs that interleave leave, once they are over and none was cut short,
\* a shadow that is right: bls, and a right link for every name they saw.
SettlesRight ==
  (\A p \in Proc : run[p].pc = "idle") /\ nFaults = 0 =>
    /\ \A n \in made : links[n] = "right"
    /\ made # {} => conf = "bls"

=============================================================================
