------------------------------ MODULE EfiTool ------------------------------
(***************************************************************************)
(* sd-boot's efi tool side: packages such as edk2-shell whose efi program  *)
(* kernel-install copies to $BOOT under <package>-<version>, by the two    *)
(* package hooks or by the administrator's sd-boot-efi-tool-update.        *)
(*                                                                         *)
(* An "add" first searches $BOOT for what earlier versions left, removes   *)
(* it with kernel-install, then adds the current version.  kernel-install  *)
(* keeps two things per version, the loader entry and the directory with   *)
(* the program; one that dies in between leaves one without the other.     *)
(***************************************************************************)
EXTENDS Naturals, Sequences, FiniteSets

CONSTANTS
  Pkg,         \* efi tool packages
  HookPkg,     \* the targets of the shipped hooks
  Extends,     \* <<p, q>> : the name of q is the name of p, a dash and more
  Setups,      \* the machines considered, see Setup
  MaxVers      \* bound: versions 1..MaxVers of a package

\* A machine: the packages listed in efi-tool.packages, what its administrator
\* asks the tool for, whether also while pacman runs, and two bounds: how many
\* transactions, and how many failures and crashes, a behaviour has.
Setup ==
  [managed : SUBSET Pkg, opers : SUBSET {"add", "remove", "inspect"},
   overlap : BOOLEAN, maxTrans : Nat, maxFaults : Nat]

ASSUME PkgAssumption == HookPkg \subseteq Pkg /\ Extends \subseteq Pkg \X Pkg
ASSUME SetupAssumption == Setups \subseteq Setup
ASSUME BoundAssumption == MaxVers \in Nat \ {0}

VARIABLES
  setup,      \* the machine, which stays as it is
  installed,  \* the version of each package in pacman's database, 0 for none
  confs,      \* the <<package, version>> with a loader entry on $BOOT
  dirs,       \* the <<package, version>> with a directory on $BOOT
  phase,      \* where pacman is in its transaction
  trans,      \* the transaction: packages removed, packages written, still to do
  tool,       \* the two tool processes: run by a hook, run by the administrator
  nTrans,     \* transactions so far
  nFaults     \* faults so far

vars == <<setup, installed, confs, dirs, phase, trans, tool, nTrans, nFaults>>

Proc == {"hook", "admin"}
Managed == setup.managed
Vers == 1..MaxVers

IdleTool ==
  [pc |-> "idle", oper |-> "none", names |-> {}, infos |-> <<>>, i |-> 1,
   old |-> {}, ret |-> 0, missed |-> 0]

NoTrans == [rm |-> {}, ins |-> {}, left |-> {}]

\* What kernel-install is told to call version v of package p.
KiVers(p, v) == <<p, v>>

Init ==
  /\ setup \in Setups
  /\ installed \in [Pkg -> {0} \cup Vers]
  /\ confs = {KiVers(p, installed[p]) : p \in {q \in Managed : installed[q] # 0}}
  /\ dirs = confs
  /\ phase = "idle"
  /\ trans = NoTrans
  /\ tool = [p \in Proc |-> IdleTool]
  /\ nTrans = 0
  /\ nFaults = 0

Fault ==
  /\ nFaults < setup.maxFaults
  /\ nFaults' = nFaults + 1

-----------------------------------------------------------------------------
(* Pacman.                                                                 *)

NewRun(oper, names) ==
  [IdleTool EXCEPT !.pc = "lookup", !.oper = oper, !.names = names]

\* The administrator asks for a transaction that removes the packages rm and
\* installs, upgrades, downgrades or reinstalls the packages ins.
Begin(rm, ins) ==
  /\ phase = "idle"
  /\ nTrans < setup.maxTrans
  /\ setup.overlap \/ tool["admin"].pc = "idle"
  /\ \A p \in rm : installed[p] # 0
  /\ rm \cap ins = {} /\ rm \cup ins # {}
  /\ phase' = "pre"
  /\ trans' = [rm |-> rm, ins |-> ins, left |-> rm \cup ins]
  /\ nTrans' = nTrans + 1
  /\ UNCHANGED <<setup, installed, confs, dirs, tool, nFaults>>

MutantPreHook ==
  /\ phase = "pre"
  /\ phase' = "commit"
  /\ UNCHANGED <<setup, installed, confs, dirs, trans, tool, nTrans, nFaults>>

\* 70-sd-boot-efi-tool-remove.hook, PreTransaction.
PreHook ==
  /\ phase = "pre"
  /\ IF trans.rm \cap HookPkg = {}
       THEN /\ phase' = "commit"
            /\ UNCHANGED tool
       ELSE /\ phase' = "preRun"
            /\ tool' = [tool EXCEPT !["hook"] = NewRun("remove", trans.rm \cap HookPkg)]
  /\ UNCHANGED <<setup, installed, confs, dirs, trans, nTrans, nFaults>>

CommitRemove(p) ==
  /\ phase = "commit"
  /\ p \in trans.left \cap trans.rm
  /\ installed' = [installed EXCEPT ![p] = 0]
  /\ trans' = [trans EXCEPT !.left = @ \ {p}]
  /\ UNCHANGED <<setup, confs, dirs, phase, tool, nTrans, nFaults>>

CommitInstall(p, v) ==
  /\ phase = "commit"
  /\ p \in trans.left \cap trans.ins
  /\ installed' = [installed EXCEPT ![p] = v]
  /\ trans' = [trans EXCEPT !.left = @ \ {p}]
  /\ UNCHANGED <<setup, confs, dirs, phase, tool, nTrans, nFaults>>

\* 99-sd-boot-efi-tool-install.hook, PostTransaction.
PostHook ==
  /\ phase = "commit"
  /\ trans.left = {}
  /\ IF trans.ins \cap HookPkg = {}
       THEN /\ phase' = "idle"
            /\ trans' = NoTrans
            /\ UNCHANGED tool
       ELSE /\ phase' = "postRun"
            /\ tool' = [tool EXCEPT !["hook"] = NewRun("add", trans.ins \cap HookPkg)]
            /\ UNCHANGED trans
  /\ UNCHANGED <<setup, installed, confs, dirs, nTrans, nFaults>>

Pacman ==
  \/ PreHook
  \/ \E p \in Pkg : CommitRemove(p) \/ \E v \in Vers : CommitInstall(p, v)
  \/ PostHook

-----------------------------------------------------------------------------
(* A run of the tool: the lookups of initialize_tool.                      *)

\* sd-boot-efi-tool-update <oper> <package>, or --all-- for every managed one.
AdminRun(oper, names) ==
  /\ tool["admin"].pc = "idle"
  /\ setup.overlap \/ phase = "idle"
  /\ tool' = [tool EXCEPT !["admin"] = NewRun(oper, names)]
  /\ UNCHANGED <<setup, installed, confs, dirs, phase, trans, nTrans, nFaults>>

Exited(t, r) == [t EXCEPT !.pc = "done", !.ret = r, !.names = {}, !.old = {}]

\* The package list, the caller's rights, stdin or an .image file fails.
InitFails(p) ==
  /\ tool[p].pc = "lookup"
  /\ Fault
  /\ tool' = [tool EXCEPT ![p] = Exited(@, 1)]
  /\ UNCHANGED <<setup, installed, confs, dirs, phase, trans, nTrans>>

\* get_curr_pkg_vers_alpm: the version in pacman's database as it is by now.
PackageVersion(n) == installed[n]

\* The installed version is read now and kept for the rest of the run; a
\* package without one is looked up like any other.
Lookup(p) ==
  /\ tool[p].pc = "lookup"
  /\ \E n \in tool[p].names :
       tool' = [tool EXCEPT ![p].names = @ \ {n},
                            ![p].infos = Append(@, [pkg |-> n, vers |-> PackageVersion(n)])]
  /\ UNCHANGED <<setup, installed, confs, dirs, phase, trans, nTrans, nFaults>>

MutantIsManaged(info) == TRUE

IsManaged(info) == info.pkg \in Managed

EndLookup(p) ==
  /\ tool[p].pc = "lookup"
  /\ tool[p].names = {}
  /\ IF \E k \in DOMAIN tool[p].infos : IsManaged(tool[p].infos[k])
       THEN tool' = [tool EXCEPT ![p].pc = "update"]
       ELSE tool' = [tool EXCEPT ![p] = Exited(@, 0)]
  /\ UNCHANGED <<setup, installed, confs, dirs, phase, trans, nTrans, nFaults>>

-----------------------------------------------------------------------------
(* A run of the tool: efi_tool_update_execute.                             *)

Current(p) == tool[p].infos[tool[p].i]
CurrentKiVers(p) == KiVers(Current(p).pkg, Current(p).vers)

InLoop(p) == tool[p].pc = "update" /\ tool[p].i <= Len(tool[p].infos)

SkipUnmanaged(p) ==
  /\ InLoop(p)
  /\ ~IsManaged(Current(p))
  /\ tool' = [tool EXCEPT ![p].i = @ + 1]
  /\ UNCHANGED <<setup, installed, confs, dirs, phase, trans, nTrans, nFaults>>

MutantNoVersion(p) ==
  /\ InLoop(p)
  /\ IsManaged(Current(p))
  /\ Current(p).vers = 0
  /\ UNCHANGED vars

\* efi_tool_ki_vers has no version to name: the run gives up here.
NoVersion(p) ==
  /\ InLoop(p)
  /\ IsManaged(Current(p))
  /\ Current(p).vers = 0
  /\ tool' = [tool EXCEPT ![p] = Exited(@, 1)]
  /\ UNCHANGED <<setup, installed, confs, dirs, phase, trans, nTrans, nFaults>>

\* The glob <token>-<package>-* matches the versions of the package, and those
\* of a package whose name goes on where this one ends.
Matches(n, kv) == n = kv[1] \/ <<n, kv[1]>> \in Extends

MutantOlder(n, v) ==
  {kv \in confs : Matches(n, kv) /\ kv # KiVers(n, v)}

\* efi_tool_ki_vers_old: the entries and the directories of other versions.
Older(n, v) ==
  {kv \in confs \cup dirs : Matches(n, kv) /\ kv # KiVers(n, v)}

MutantPrepare(p) ==
  /\ InLoop(p)
  /\ IsManaged(Current(p))
  /\ IF tool[p].oper = "add"
       THEN tool' = [tool EXCEPT ![p].pc = "old",
                                 ![p].old = Older(Current(p).pkg, Current(p).vers)]
       ELSE tool' = [tool EXCEPT ![p].pc = "child"]
  /\ UNCHANGED <<setup, installed, confs, dirs, phase, trans, nTrans, nFaults>>

\* efi_tool_update_one up to its first child: an add searches what is older.
Prepare(p) ==
  /\ InLoop(p)
  /\ IsManaged(Current(p))
  /\ Current(p).vers # 0
  /\ IF tool[p].oper = "add"
       THEN tool' = [tool EXCEPT ![p].pc = "old",
                                 ![p].old = Older(Current(p).pkg, Current(p).vers)]
       ELSE tool' = [tool EXCEPT ![p].pc = "child"]
  /\ UNCHANGED <<setup, installed, confs, dirs, phase, trans, nTrans, nFaults>>

\* find_dollar_boot_bls finds no directory with loader entries: the add goes on
\* as if nothing older was there (missed counts for the properties only).
PrepareBlind(p) ==
  /\ InLoop(p)
  /\ IsManaged(Current(p))
  /\ Current(p).vers # 0
  /\ tool[p].oper = "add"
  /\ Fault
  /\ tool' = [tool EXCEPT ![p].pc = "old", ![p].old = {}, ![p].missed = @ + 1]
  /\ UNCHANGED <<setup, installed, confs, dirs, phase, trans, nTrans>>

\* The plugin list, the bls configuration or a child cannot be made.
UpdateFails(p) ==
  /\ tool[p].pc \in {"update", "old", "child"}
  /\ tool[p].i <= Len(tool[p].infos)
  /\ IsManaged(Current(p))
  /\ Fault
  /\ tool' = [tool EXCEPT ![p] = Exited(@, 1)]
  /\ UNCHANGED <<setup, installed, confs, dirs, phase, trans, nTrans>>

\* One more of the list is removed.  The list may be out of date by now.
RemoveOld(p) ==
  /\ tool[p].pc = "old"
  /\ \E kv \in tool[p].old :
       /\ confs' = confs \ {kv}
       /\ dirs' = dirs \ {kv}
       /\ tool' = [tool EXCEPT ![p].old = @ \ {kv}]
  /\ UNCHANGED <<setup, installed, phase, trans, nTrans, nFaults>>

\* kernel-install dies before or after it removed the entry, and the loop
\* goes on with the next (missed counts for the properties only).
RemoveOldFails(p) ==
  /\ tool[p].pc = "old"
  /\ Fault
  /\ \E kv \in tool[p].old :
       /\ \/ confs' = confs \ {kv}
          \/ UNCHANGED confs
       /\ tool' = [tool EXCEPT ![p].old = @ \ {kv}, ![p].missed = @ + 1]
  /\ UNCHANGED <<setup, installed, dirs, phase, trans, nTrans>>

EndOld(p) ==
  /\ tool[p].pc = "old"
  /\ tool[p].old = {}
  /\ tool' = [tool EXCEPT ![p].pc = "child"]
  /\ UNCHANGED <<setup, installed, confs, dirs, phase, trans, nTrans, nFaults>>

ChildReaped(p, ok) ==
  tool' = [tool EXCEPT ![p].pc = "update", ![p].i = @ + 1,
                       ![p].missed = IF ok THEN @ ELSE @ + 1]

\* kernel-install does what it was asked for; it refuses to add a program
\* that is not there.
ChildDone(p) ==
  /\ tool[p].pc = "child"
  /\ LET kv == CurrentKiVers(p)
         oper == tool[p].oper
         there == installed[Current(p).pkg] # 0
     IN  \/ /\ oper = "add" /\ there
            /\ confs' = confs \cup {kv}
            /\ dirs' = dirs \cup {kv}
            /\ ChildReaped(p, TRUE)
         \/ /\ oper = "add" /\ ~there
            /\ UNCHANGED <<confs, dirs>>
            /\ ChildReaped(p, FALSE)
         \/ /\ oper = "remove"
            /\ confs' = confs \ {kv}
            /\ dirs' = dirs \ {kv}
            /\ ChildReaped(p, TRUE)
         \/ /\ oper = "inspect"
            /\ UNCHANGED <<confs, dirs>>
            /\ ChildReaped(p, TRUE)
  /\ UNCHANGED <<setup, installed, phase, trans, nTrans, nFaults>>

\* kernel-install dies: an add may leave a directory without an entry, a
\* removal too.
ChildFails(p) ==
  /\ tool[p].pc = "child"
  /\ Fault
  /\ LET kv == CurrentKiVers(p)
     IN  \/ UNCHANGED <<confs, dirs>>
         \/ /\ tool[p].oper = "add"
            /\ installed[Current(p).pkg] # 0
            /\ dirs' = dirs \cup {kv}
            /\ UNCHANGED confs
         \/ /\ tool[p].oper = "remove"
            /\ confs' = confs \ {kv}
            /\ UNCHANGED dirs
  /\ ChildReaped(p, FALSE)
  /\ UNCHANGED <<setup, installed, phase, trans, nTrans>>

\* After a removal the package's version file goes too; when its directory
\* cannot be made the run gives up.
VersionFileFails(p) ==
  /\ tool[p].pc = "child"
  /\ tool[p].oper = "remove"
  /\ Fault
  /\ confs' = confs \ {CurrentKiVers(p)}
  /\ dirs' = dirs \ {CurrentKiVers(p)}
  /\ tool' = [tool EXCEPT ![p] = Exited(@, 1)]
  /\ UNCHANGED <<setup, installed, phase, trans, nTrans>>

EndUpdate(p) ==
  /\ tool[p].pc = "update"
  /\ tool[p].i > Len(tool[p].infos)
  /\ tool' = [tool EXCEPT ![p] = Exited(@, 0)]
  /\ UNCHANGED <<setup, installed, confs, dirs, phase, trans, nTrans, nFaults>>

\* The process exits; pacman goes on whatever a hook returns.
Exit(p) ==
  /\ tool[p].pc = "done"
  /\ tool' = [tool EXCEPT ![p] = IdleTool]
  /\ IF p = "hook"
       THEN /\ phase' = IF phase = "preRun" THEN "commit" ELSE "idle"
            /\ trans' = IF phase = "preRun" THEN trans ELSE NoTrans
       ELSE UNCHANGED <<phase, trans>>
  /\ UNCHANGED <<setup, installed, confs, dirs, nTrans, nFaults>>

Run(p) ==
  \/ Lookup(p) \/ EndLookup(p) \/ SkipUnmanaged(p) \/ NoVersion(p) \/ Prepare(p)
  \/ RemoveOld(p) \/ EndOld(p) \/ ChildDone(p) \/ EndUpdate(p) \/ Exit(p)

Failure(p) ==
  \/ InitFails(p) \/ UpdateFails(p) \/ RemoveOldFails(p) \/ ChildFails(p)
  \/ VersionFileFails(p) \/ PrepareBlind(p)

\* Power loss: what is on disk stays, every process and the transaction are gone.
Crash ==
  /\ phase # "idle" \/ \E p \in Proc : tool[p].pc # "idle"
  /\ Fault
  /\ tool' = [p \in Proc |-> IdleTool]
  /\ phase' = "idle"
  /\ trans' = NoTrans
  /\ UNCHANGED <<setup, installed, confs, dirs, nTrans>>

-----------------------------------------------------------------------------
Next ==
  \/ \E rm, ins \in SUBSET Pkg : Begin(rm, ins)
  \/ Pacman
  \/ \E oper \in setup.opers :
       \E names \in {{n} : n \in Pkg} \cup {Managed} : AdminRun(oper, names)
  \/ \E p \in Proc : Run(p) \/ Failure(p)
  \/ Crash

\* Pacman does not stop halfway, the kernel runs a process, kernel-install ends.
Fairness ==
  /\ WF_vars(Pacman)
  /\ \A p \in Proc : WF_vars(Run(p))

Spec == Init /\ [][Next]_vars /\ Fairness

-----------------------------------------------------------------------------
(* Correctness.                                                            *)

Info == [pkg : Pkg, vers : {0} \cup Vers]

TransRec == [rm : SUBSET Pkg, ins : SUBSET Pkg, left : SUBSET Pkg]

ToolRec ==
  [pc : {"idle", "lookup", "update", "old", "child", "done"},
   oper : {"none", "add", "remove", "inspect"},
   names : SUBSET Pkg,
   infos : Seq(Info),
   i : Nat \ {0},
   old : SUBSET (Pkg \X Vers),
   ret : {0, 1},
   missed : Nat]

\* The variables have their types; nothing on $BOOT is without a version.
TypeOK ==
  /\ setup \in Setups
  /\ installed \in [Pkg -> {0} \cup Vers]
  /\ confs \subseteq Pkg \X Vers
  /\ dirs \subseteq Pkg \X Vers
  /\ phase \in {"idle", "pre", "preRun", "commit", "postRun"}
  /\ trans \in TransRec
  /\ tool \in [Proc -> ToolRec]
  /\ nTrans \in Nat
  /\ nFaults \in Nat

VersionsIn(S, n) == {v \in Vers : KiVers(n, v) \in S}

\* One run at a time and until something fails, once pacman is done the boot
\* menu offers each managed tool in its installed version and in no other, and
\* $BOOT holds no directory of another version.
MenuMatches ==
  ~setup.overlap /\ phase = "idle" /\ nFaults = 0 =>
    \A n \in Managed \cap HookPkg :
      LET now == {installed[n]} \ {0}
      IN  VersionsIn(confs, n) = now /\ VersionsIn(dirs, n) = now

\* Whatever failures and crashes left on $BOOT, an add that itself went well
\* leaves its managed packages in the one version it looked up.
AddLeavesOne ==
  \A p \in Proc :
    /\ ~setup.overlap
    /\ tool[p].pc = "done" /\ tool[p].ret = 0
    /\ tool[p].oper = "add" /\ tool[p].missed = 0
    => \A k \in DOMAIN tool[p].infos :
         LET info == tool[p].infos[k]
         IN  IsManaged(info) =>
               /\ VersionsIn(confs, info.pkg) = {info.vers}
               /\ VersionsIn(dirs, info.pkg) = {info.vers}

\* What goes from $BOOT or comes to it belongs to a managed package that some
\* run has in hand at that moment, also while two runs interleave.
OnlyOwnVersions ==
  [][\A kv \in (confs \ confs') \cup (confs' \ confs) \cup (dirs \ dirs') \cup (dirs' \ dirs) :
       \E p \in Proc :
         /\ tool[p].pc \in {"old", "child"}
         /\ Current(p).pkg = kv[1]
         /\ kv[1] \in Managed]_vars

\* Every run of the tool ends, also with a package that is not installed.
RunEnds == \A p \in Proc : tool[p].pc # "idle" ~> tool[p].pc = "idle"

-----------------------------------------------------------------------------
(* What the repository says and the code does not do.                      *)

\* efi_tool_old_ki_vers.c: "Generate a list of ki_vers of any older installed
\* of same efi tool package".  An add takes no other package's entry away.
OlderOfSamePackage ==
  [][\A kv \in confs \ confs' :
       \E p \in Proc : tool[p].pc \in {"old", "child"} /\ Current(p).pkg = kv[1]]_vars

=============================================================================
