------------------------------- MODULE EfiFs -------------------------------
(***************************************************************************)
(* sd-boot's filesystem driver side: the two path hooks on the efifs       *)
(* package, or the administrator, run sd-boot-efifs-update, which finds    *)
(* the ESP through bootctl and copies the package's drivers into the       *)
(* directory systemd-boot loads drivers from, or deletes that directory.   *)
(*                                                                         *)
(* Files are copied in place: a driver is truncated, then written.  One    *)
(* run at a time: the administrator waits for pacman.  bootctl runs as     *)
(* the child of ChildOutput.                                               *)
(***************************************************************************)
EXTENDS ChildOutput, FiniteSets

CONSTANTS
  Driver,      \* the names of driver files
  AdminOpers,  \* the operations the administrator asks for
  Texts,       \* what bootctl may print where it finds the ESP
  NoEspTexts,  \* what it may print in a chroot
  MaxVers,     \* bound: versions 1..MaxVers of a driver
  MaxTrans,    \* bound: transactions in a behaviour
  MaxFaults    \* bound: failures and crashes in a behaviour

ASSUME OperAssumption == AdminOpers \subseteq {"add", "remove"}
ASSUME TextAssumption == Texts \cup NoEspTexts \subseteq Seq({"row", "key", "end"})
ASSUME BoundAssumption == MaxVers \in Nat \ {0} /\ MaxTrans \in Nat /\ MaxFaults \in Nat

VARIABLES
  efivars,  \* are the efi variables there, or is this a chroot?
  pkg,      \* the version of each driver in usr/lib/efifs-x64, 0 if it is not there
  esp,      \* the version of each driver on the ESP, 0 if not there, Part if truncated
  phase,    \* where pacman is in its transaction
  trans,    \* the transaction: the files after it, the names that go and those still to do
  tool,     \* the run of sd-boot-efifs-update
  nTrans,   \* transactions so far
  nFaults   \* faults so far

evars == <<efivars, pkg, esp, phase, trans, tool, nTrans, nFaults>>
vars == <<evars, cvars>>

Part == MaxVers + 1
Package == [Driver -> 0..MaxVers]

NoFiles == [d \in Driver |-> 0]
\* Of a run: its place, its operation, whether it saw the efi variables, the
\* drivers still to do, the one being written, those left out or cut by an error
\* nobody asked about, the exit status.
IdleTool ==
  [pc |-> "idle", oper |-> "none", seen |-> FALSE, todo |-> {}, open |-> {}, cut |-> {}, ret |-> 0]
NoTrans == [new |-> NoFiles, gone |-> {}, left |-> {}]

\* The names of the files of f.
Names(f) == {d \in Driver : f[d] # 0}

Init ==
  /\ efivars \in BOOLEAN
  /\ pkg \in Package
  /\ esp = pkg
  /\ phase = "idle"
  /\ trans = NoTrans
  /\ tool = IdleTool
  /\ nTrans = 0
  /\ nFaults = 0
  /\ CmdInit

Fault ==
  /\ nFaults < MaxFaults
  /\ nFaults' = nFaults + 1

-----------------------------------------------------------------------------
(* Pacman.                                                                 *)

NewRun(oper) == [IdleTool EXCEPT !.pc = "locate", !.oper = oper]

\* The package is installed, removed, or replaced by one with other files.
Begin ==
  /\ phase = "idle" /\ tool.pc = "idle"
  /\ nTrans < MaxTrans
  /\ \E new \in Package :
       trans' = [new |-> new, gone |-> Names(pkg) \ Names(new),
                 left |-> Names(pkg) \cup Names(new)]
  /\ phase' = "commit"
  /\ nTrans' = nTrans + 1
  /\ UNCHANGED <<efivars, pkg, esp, tool, nFaults, cvars>>

Commit(d) ==
  /\ phase = "commit"
  /\ d \in trans.left
  /\ pkg' = [pkg EXCEPT ![d] = trans.new[d]]
  /\ trans' = [trans EXCEPT !.left = @ \ {d}]
  /\ UNCHANGED <<efivars, esp, phase, tool, nTrans, nFaults, cvars>>

MutantRemoveHook ==
  /\ phase = "commit"
  /\ trans.left = {}
  /\ IF trans.gone = {} \/ Names(trans.new) # {}
       THEN /\ phase' = "install"
            /\ UNCHANGED tool
       ELSE /\ phase' = "removeRun"
            /\ tool' = NewRun("remove")
  /\ UNCHANGED <<efivars, pkg, esp, trans, nTrans, nFaults, cvars>>

\* 69-sd-boot-efifs-remove.hook, on files that are gone, in an upgrade as well.
RemoveHook ==
  /\ phase = "commit"
  /\ trans.left = {}
  /\ IF trans.gone = {}
       THEN /\ phase' = "install"
            /\ UNCHANGED tool
       ELSE /\ phase' = "removeRun"
            /\ tool' = NewRun("remove")
  /\ UNCHANGED <<efivars, pkg, esp, trans, nTrans, nFaults, cvars>>

\* 99-sd-boot-efifs-install.hook, on files written.
InstallHook ==
  /\ phase = "install"
  /\ IF Names(trans.new) = {}
       THEN /\ phase' = "idle"
            /\ trans' = NoTrans
            /\ UNCHANGED tool
       ELSE /\ phase' = "installRun"
            /\ tool' = NewRun("add")
            /\ UNCHANGED trans
  /\ UNCHANGED <<efivars, pkg, esp, nTrans, nFaults, cvars>>

Pacman == (\E d \in Driver : Commit(d)) \/ RemoveHook \/ InstallHook

-----------------------------------------------------------------------------
(* A run of sd-boot-efifs-update.                                          *)

AdminRun(oper) ==
  /\ phase = "idle" /\ tool.pc = "idle"
  /\ tool' = NewRun(oper)
  /\ UNCHANGED <<efivars, pkg, esp, phase, trans, nTrans, nFaults, cvars>>

MutantEndsWith(seen, ok) ==
  tool' = [tool EXCEPT !.pc = "done", !.seen = seen, !.ret = 0, !.todo = {}, !.open = {}]

\* The run ends; a run that saw no efi variables takes itself to be in a chroot
\* and reports no failure.
EndsWith(seen, ok) ==
  tool' = [tool EXCEPT !.pc = "done", !.seen = seen, !.ret = IF ok \/ ~seen THEN 0 ELSE 1,
                       !.todo = {}, !.open = {}]

Locates(seen) ==
  /\ tool.pc = "locate"
  /\ tool' = [tool EXCEPT !.pc = "bootctl", !.seen = seen]
  /\ Called
  /\ UNCHANGED <<efivars, pkg, esp, phase, trans, nTrans>>

\* The run looks for the efi variables; find_boot_mounts_current asks bootctl.
Start ==
  /\ Locates(efivars)
  /\ UNCHANGED nFaults

\* The directory of the efi variables cannot be opened or read: none are there.
StartUnseen ==
  /\ Fault
  /\ Locates(FALSE)

\* run_cmd_output runs it.
Bootctl ==
  /\ tool.pc = "bootctl"
  /\ \/ \E text \in IF efivars THEN Texts ELSE NoEspTexts : Spawn(text)
     \/ ParentStep
     \/ ChildStep
  /\ UNCHANGED evars

BootctlFails ==
  /\ tool.pc = "bootctl"
  /\ Fault
  /\ CmdFailure
  /\ UNCHANGED <<efivars, pkg, esp, phase, trans, tool, nTrans>>

\* The mount point in the first "ESP:" row: the row comes in two pieces, "key"
\* up to the middle of the mount point and "end"; the end is missing where
\* bootctl was killed in between.
EspIn(out) ==
  IF \E k \in DOMAIN out : out[k] = "key"
    THEN IF out[Len(out)] = "key" THEN "cut" ELSE "esp"
    ELSE "none"

\* What the output of bootctl says; its exit status is not looked at.
Place == IF cmd.ret # 0 \/ cmd.out = NoOutput THEN "none" ELSE EspIn(cmd.out)

\* The directory to go through is opened.  Half a mount point names a directory
\* that is not there: an add cannot make one in it, and to a removal the drivers
\* are gone already.
Located ==
  /\ tool.pc = "bootctl" /\ cmd.pc = "returned"
  /\ CASE Place = "none" -> EndsWith(tool.seen, FALSE)
       [] Place = "cut" -> EndsWith(tool.seen, tool.oper = "remove")
       [] Place = "esp" ->
            IF tool.oper = "add" THEN tool' = [tool EXCEPT !.pc = "copy", !.todo = Names(pkg)]
            ELSE tool' = [tool EXCEPT !.pc = "delete", !.todo = Names(esp)]
  /\ CmdReset
  /\ UNCHANGED <<efivars, pkg, esp, phase, trans, nTrans, nFaults>>

\* The run ends before it looked for the efi variables, or after it: the caller is
\* not root, bootctl found no ESP, a directory cannot be made or opened.
StartFails ==
  /\ Fault
  /\ \/ tool.pc = "locate" /\ \E seen \in {FALSE, efivars} : EndsWith(seen, FALSE)
     \/ tool.pc = "bootctl" /\ cmd.pc = "returned" /\ EndsWith(tool.seen, FALSE)
  /\ CmdReset
  /\ UNCHANGED <<efivars, pkg, esp, phase, trans, nTrans>>

MutantOpenCopy ==
  /\ tool.pc = "copy"
  /\ \E d \in tool.todo :
       /\ esp' = [esp EXCEPT ![d] = Part]
       /\ tool' = [tool EXCEPT !.todo = @ \ {d}, !.open = @ \cup {d}]
  /\ UNCHANGED <<efivars, pkg, phase, trans, nTrans, nFaults, cvars>>

\* copy_file opens the next driver and truncates its copy.
OpenCopy ==
  /\ tool.pc = "copy" /\ tool.open = {}
  /\ \E d \in tool.todo :
       /\ esp' = [esp EXCEPT ![d] = Part]
       /\ tool' = [tool EXCEPT !.todo = @ \ {d}, !.open = {d}]
  /\ UNCHANGED <<efivars, pkg, phase, trans, nTrans, nFaults, cvars>>

\* The copy has all its bytes and is closed.
CloseCopy ==
  /\ tool.pc = "copy"
  /\ \E d \in tool.open :
       /\ esp' = [esp EXCEPT ![d] = pkg[d]]
       /\ tool' = [tool EXCEPT !.open = {}]
  /\ UNCHANGED <<efivars, pkg, phase, trans, nTrans, nFaults, cvars>>

\* The last fread of a driver fails, or the fwrite of its last bytes: copy_file
\* takes this for the end of the file and closes a short copy as a whole one.
CutCopy ==
  /\ tool.pc = "copy"
  /\ Fault
  /\ \E d \in tool.open : tool' = [tool EXCEPT !.open = {}, !.cut = @ \cup {d}]
  /\ UNCHANGED <<efivars, pkg, esp, phase, trans, nTrans, cvars>>

\* readdir fails, which the loop takes for the end of the directory.
CutList ==
  /\ tool.pc = "copy" /\ tool.open = {}
  /\ Fault
  /\ tool' = [tool EXCEPT !.todo = {}, !.cut = @ \cup tool.todo]
  /\ UNCHANGED <<efivars, pkg, esp, phase, trans, nTrans, cvars>>

\* rm_rf deletes the files, then their directory.
Delete ==
  /\ tool.pc = "delete"
  /\ \E d \in tool.todo :
       /\ esp' = [esp EXCEPT ![d] = 0]
       /\ tool' = [tool EXCEPT !.todo = @ \ {d}]
  /\ UNCHANGED <<efivars, pkg, phase, trans, nTrans, nFaults, cvars>>

\* An open, a read in the middle of a file, a write, a close or a deletion fails:
\* the loop ends here, a file being written stays as it is.
FileFails ==
  /\ tool.pc \in {"copy", "delete"}
  /\ Fault
  /\ EndsWith(tool.seen, FALSE)
  /\ UNCHANGED <<efivars, pkg, esp, phase, trans, nTrans, cvars>>

EndFiles ==
  /\ tool.pc \in {"copy", "delete"}
  /\ tool.todo = {} /\ tool.open = {}
  /\ EndsWith(tool.seen, TRUE)
  /\ UNCHANGED <<efivars, pkg, esp, phase, trans, nTrans, nFaults, cvars>>

\* The process exits; pacman goes on whatever a hook returns.
Exit ==
  /\ tool.pc = "done"
  /\ tool' = IdleTool
  /\ phase' = IF phase = "removeRun" THEN "install" ELSE "idle"
  /\ trans' = IF phase = "removeRun" THEN trans ELSE NoTrans
  /\ UNCHANGED <<efivars, pkg, esp, nTrans, nFaults, cvars>>

Run == Start \/ Located \/ OpenCopy \/ CloseCopy \/ Delete \/ EndFiles \/ Exit

\* Power loss: what is on disk stays, the run and the transaction are gone.
Crash ==
  /\ phase # "idle" \/ tool.pc # "idle"
  /\ Fault
  /\ tool' = IdleTool
  /\ phase' = "idle"
  /\ trans' = NoTrans
  /\ CmdReset
  /\ UNCHANGED <<efivars, pkg, esp, nTrans>>

Next ==
  \/ Begin
  \/ Pacman
  \/ \E oper \in AdminOpers : AdminRun(oper)
  \/ Run
  \/ Bootctl
  \/ StartUnseen \/ BootctlFails \/ StartFails \/ CutCopy \/ CutList \/ FileFails
  \/ Crash

\* Pacman does not stop halfway, the kernel runs the process, and bootctl, which
\* waits for nothing but room in the pipe.
Fairness == WF_vars(Pacman) /\ WF_vars(Run) /\ WF_vars(Bootctl)

Spec == Init /\ [][Next]_vars /\ Fairness

-----------------------------------------------------------------------------
(* Correctness.                                                            *)

\* The variables have their types; at most one file is open for writing.
TypeOK ==
  /\ efivars \in BOOLEAN
  /\ pkg \in Package
  /\ esp \in [Driver -> 0..Part]
  /\ phase \in {"idle", "commit", "removeRun", "install", "installRun"}
  /\ trans \in [new : Package, gone : SUBSET Driver, left : SUBSET Driver]
  /\ tool.pc \in {"idle", "locate", "bootctl", "copy", "delete", "done"}
  /\ tool.oper \in {"none", "add", "remove"}
  /\ tool.seen \in BOOLEAN
  /\ tool.todo \subseteq Driver /\ tool.open \subseteq Driver /\ tool.cut \subseteq Driver
  /\ Cardinality(tool.open) <= 1
  /\ tool.ret \in {0, 1}
  /\ nTrans \in 0..MaxTrans /\ nFaults \in 0..MaxFaults
  /\ CmdTypeOK({"row", "key", "end"})

\* Until something fails, outside a chroot, once pacman is done systemd-boot
\* loads the package's drivers in their installed version, and none the package
\* no longer has: an upgrade that drops a driver clears the directory before it
\* copies.
DriversMatch ==
  efivars /\ nFaults = 0 /\ phase = "idle" /\ tool.pc = "idle" => esp = pkg

\* Whatever failures and crashes left on the ESP before, an add that saw the efi
\* variables and exits with 0 leaves every driver of the package whole and
\* current, but for those its own fread, last fwrite or readdir failed on: nobody
\* asks.
AddDone ==
  tool.seen /\ tool.pc = "done" /\ tool.oper = "add" /\ tool.ret = 0 =>
    \A d \in Names(pkg) \ tool.cut : esp[d] = pkg[d]

\* Every transaction comes to its end through both hooks, in a chroot as well.
TransactionEnds == phase # "idle" ~> phase = "idle"

=============================================================================
