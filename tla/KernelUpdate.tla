---------------------------- MODULE KernelUpdate ----------------------------
(***************************************************************************)
(* sd-boot's kernel side: pacman transactions, the two ALPM hooks that run *)
(* sd-boot-kernel-update-triggers, the administrator's own runs of         *)
(* sd-boot-kernel-update, and the loader entries kernel-install keeps on   *)
(* $BOOT for them.                                                         *)
(*                                                                         *)
(* A tool run looks its packages up (initialize_tool), then updates them   *)
(* one by one (kernel_update_execute), spawning kernel-install for each.   *)
(* Pacman and kernel-install are outside the sources: they are modelled    *)
(* from the hook files and from how the tools call them.                   *)
(***************************************************************************)
EXTENDS Naturals, Sequences, FiniteSets

CONSTANTS
  Image,       \* kernel versions, the names under usr/lib/modules, numbered in glob order
  Pkg,         \* kernel package names
  NoPkg,       \* the answer of a modules directory without a pkgbase file
  PkgBase,     \* the package named by the pkgbase file of an image
  Managed,     \* the packages listed in kernel.packages
  AdminOpers,  \* the operations the administrator asks for
  Overlap,     \* may the administrator run the tool while pacman runs?
  MaxTrans,    \* bound: transactions in a behaviour
  MaxFaults    \* bound: failures and crashes in a behaviour

ASSUME ImageAssumption == Image \subseteq Nat
ASSUME PkgAssumption == NoPkg \notin Pkg /\ Managed \subseteq Pkg
ASSUME PkgBaseAssumption == PkgBase \in [Image -> Pkg \cup {NoPkg}]
ASSUME OperAssumption == AdminOpers \subseteq {"add", "remove", "inspect"}
ASSUME BoundAssumption == Overlap \in BOOLEAN /\ MaxTrans \in Nat /\ MaxFaults \in Nat

VARIABLES
  images,   \* the kernel images on disk
  entries,  \* the images with a loader entry on $BOOT
  stale,    \* the images whose files or initrd inputs changed after their entry was made
  phase,    \* where pacman is in its transaction
  trans,    \* the transaction: paths removed, paths written, other triggers, paths still to do
  tool,     \* the two tool processes: run by a hook, run by the administrator
  nTrans,   \* transactions so far
  nFaults   \* faults so far

vars == <<images, entries, stale, phase, trans, tool, nTrans, nFaults>>

Proc == {"hook", "admin"}

IdleTool ==
  [pc |-> "idle", oper |-> "none", scope |-> "none", src |-> {}, names |-> {},
   infos |-> <<>>, i |-> 1, ret |-> 0, missed |-> 0]

NoTrans == [rm |-> {}, ins |-> {}, other |-> FALSE, left |-> {}]

\* The images pacman owns come with a pkgbase file, as sd-boot asks of a package.
Packaged == {v \in Image : PkgBase[v] # NoPkg}
ManagedImage == {v \in Image : PkgBase[v] \in Managed}

Init ==
  /\ images \in SUBSET Image
  /\ entries = images \cap ManagedImage
  /\ stale = {}
  /\ phase = "idle"
  /\ trans = NoTrans
  /\ tool = [p \in Proc |-> IdleTool]
  /\ nTrans = 0
  /\ nFaults = 0

-----------------------------------------------------------------------------
(* What a run is asked to update.                                          *)

MutantScopeAll(imgs, other) == "all"

MutantScopePathsFirst(imgs, other) ==
  IF imgs # {} THEN "paths" ELSE "all"

\* parse_kernel_triggers and its caller: a package or a path that is no
\* kernel image means every kernel, image paths alone mean those images.
TriggerScope(imgs, other) ==
  IF other THEN "all" ELSE "paths"

\* A process starts: the fields of the run it is asked for.
NewRun(oper, scope, src, names) ==
  [IdleTool EXCEPT !.pc = IF scope = "all" THEN "glob" ELSE "lookup",
                   !.oper = oper, !.scope = scope, !.src = src, !.names = names]

\* v comes first in glob order among S.
IsFirst(v, S) == v \in S /\ \A w \in S : v <= w

MutantHookRun(oper, imgs, other) ==
  LET scope == TriggerScope(imgs, other)
  IN  NewRun(oper, scope, IF scope = "all" THEN {} ELSE {v \in imgs : IsFirst(v, imgs)}, {})

\* A hook hands its trigger lines to sd-boot-kernel-update-triggers.
HookRun(oper, imgs, other) ==
  LET scope == TriggerScope(imgs, other)
  IN  NewRun(oper, scope, IF scope = "all" THEN {} ELSE imgs, {})

\* A fault is counted.
Fault ==
  /\ nFaults < MaxFaults
  /\ nFaults' = nFaults + 1

-----------------------------------------------------------------------------
(* Pacman.                                                                 *)

\* The administrator asks for a transaction: image paths to remove, image
\* paths to write (a path written again is an upgrade), other trigger paths.
Begin(rm, ins, other) ==
  /\ phase = "idle"
  /\ nTrans < MaxTrans
  /\ Overlap \/ tool["admin"].pc = "idle"
  /\ rm \subseteq images \cap Packaged
  /\ ins \subseteq Packaged
  /\ rm \cap ins = {}
  /\ rm # {} \/ ins # {} \/ other
  /\ phase' = "pre"
  /\ trans' = [rm |-> rm, ins |-> ins, other |-> other, left |-> rm \cup ins]
  /\ nTrans' = nTrans + 1
  /\ UNCHANGED <<images, entries, stale, tool, nFaults>>

MutantPreHook ==
  /\ phase = "pre"
  /\ phase' = "commit"
  /\ UNCHANGED <<images, entries, stale, trans, tool, nTrans, nFaults>>

\* 60-sd-boot-kernel-remove.hook, PreTransaction, on removed image paths.
PreHook ==
  /\ phase = "pre"
  /\ IF trans.rm = {}
       THEN /\ phase' = "commit"
            /\ UNCHANGED tool
       ELSE /\ phase' = "preRun"
            /\ tool' = [tool EXCEPT !["hook"] = HookRun("remove", trans.rm, FALSE)]
  /\ UNCHANGED <<images, entries, stale, trans, nTrans, nFaults>>

\* Pacman deletes a removed image with its directory.
CommitRemove(v) ==
  /\ phase = "commit"
  /\ v \in trans.left \cap trans.rm
  /\ images' = images \ {v}
  /\ trans' = [trans EXCEPT !.left = @ \ {v}]
  /\ UNCHANGED <<entries, stale, phase, tool, nTrans, nFaults>>

\* Pacman writes a new or an upgraded image; an entry made before is stale.
CommitInstall(v) ==
  /\ phase = "commit"
  /\ v \in trans.left \cap trans.ins
  /\ images' = images \cup {v}
  /\ stale' = stale \cup {v}
  /\ trans' = [trans EXCEPT !.left = @ \ {v}]
  /\ UNCHANGED <<entries, phase, tool, nTrans, nFaults>>

\* The transaction is done; what other packages brought (firmware, dracut,
\* systemd) makes every entry stale.
CommitEnd ==
  /\ phase = "commit"
  /\ trans.left = {}
  /\ phase' = "post"
  /\ stale' = IF trans.other THEN Image ELSE stale
  /\ UNCHANGED <<images, entries, trans, tool, nTrans, nFaults>>

\* 90-kernel-install.hook, PostTransaction.
PostHook ==
  /\ phase = "post"
  /\ IF trans.ins = {} /\ ~trans.other
       THEN /\ phase' = "idle"
            /\ trans' = NoTrans
            /\ UNCHANGED tool
       ELSE /\ phase' = "postRun"
            /\ tool' = [tool EXCEPT !["hook"] = HookRun("add", trans.ins, trans.other)]
            /\ UNCHANGED trans
  /\ UNCHANGED <<images, entries, stale, nTrans, nFaults>>

Pacman ==
  \/ PreHook
  \/ \E v \in Image : CommitRemove(v) \/ CommitInstall(v)
  \/ CommitEnd
  \/ PostHook

-----------------------------------------------------------------------------
(* A run of the tool: the lookups of initialize_tool.                      *)

\* sd-boot-kernel-update <oper> <package>, or --all-- for every managed one.
AdminRun(oper, names) ==
  /\ tool["admin"].pc = "idle"
  /\ Overlap \/ phase = "idle"
  /\ tool' = [tool EXCEPT !["admin"] = NewRun(oper, "names", {}, names)]
  /\ UNCHANGED <<images, entries, stale, phase, trans, nTrans, nFaults>>

\* What becomes of run t once it knows its outcome r.
Exited(t, r) == [t EXCEPT !.pc = "done", !.ret = r, !.src = {}, !.names = {}]

\* Run t has one more pkginfo.
Found(t, v, n) ==
  [t EXCEPT !.src = @ \ {v}, !.names = @ \ {n},
            !.infos = Append(@, [image |-> v, pkg |-> n])]

\* The managed list cannot be read, the caller may not run it, stdin or a
\* lookup fails.
InitFails(p) ==
  /\ tool[p].pc \in {"glob", "lookup"}
  /\ Fault
  /\ tool' = [tool EXCEPT ![p] = Exited(@, 1)]
  /\ UNCHANGED <<images, entries, stale, phase, trans, nTrans>>

\* get_all_kernel_image_paths: the list is fixed here, and read one by one later.
Glob(p) ==
  /\ tool[p].pc = "glob"
  /\ tool' = [tool EXCEPT ![p] = [@ EXCEPT !.pc = "lookup", !.src = images]]
  /\ UNCHANGED <<images, entries, stale, phase, trans, nTrans, nFaults>>

\* kernel_mod_dir_to_pkg_name: the files are read now, not when the list was made.
PkgName(v) == IF v \in images THEN PkgBase[v] ELSE NoPkg

MutantLookupImage(p) ==
  /\ tool[p].pc = "lookup"
  /\ tool[p].scope # "names"
  /\ \E v \in tool[p].src :
       /\ IsFirst(v, tool[p].src)
       /\ tool' = [tool EXCEPT ![p] = Found(@, v, PkgName(v))]
  /\ UNCHANGED <<images, entries, stale, phase, trans, nTrans, nFaults>>

MutantLookupStuck(p) ==
  /\ tool[p].pc = "lookup"
  /\ tool[p].scope # "names"
  /\ \E v \in tool[p].src :
       /\ IsFirst(v, tool[p].src)
       /\ IF PkgName(v) = NoPkg
            THEN UNCHANGED tool
            ELSE tool' = [tool EXCEPT ![p] = Found(@, v, PkgName(v))]
  /\ UNCHANGED <<images, entries, stale, phase, trans, nTrans, nFaults>>

\* The next image of the list; without a package name package_version_installed
\* fails, and with it the whole run.
LookupImage(p) ==
  /\ tool[p].pc = "lookup"
  /\ tool[p].scope # "names"
  /\ \E v \in tool[p].src :
       /\ IsFirst(v, tool[p].src)
       /\ IF PkgName(v) = NoPkg
            THEN tool' = [tool EXCEPT ![p] = Exited(@, 1)]
            ELSE tool' = [tool EXCEPT ![p] = Found(@, v, PkgName(v))]
  /\ UNCHANGED <<images, entries, stale, phase, trans, nTrans, nFaults>>

\* kernel_pkg_name_to_image: the first image of the package; an image without
\* a pkgbase file that sorts earlier ends the search with nothing.
ImagesNamed(n) ==
  {v \in images : /\ PkgBase[v] = n
                  /\ \A w \in images : w < v => PkgBase[w] \notin {n, NoPkg}}

\* The next package of the command line; a package without an image fails the run.
LookupName(p) ==
  /\ tool[p].pc = "lookup"
  /\ tool[p].scope = "names"
  /\ \E n \in tool[p].names :
       IF ImagesNamed(n) = {}
         THEN tool' = [tool EXCEPT ![p] = Exited(@, 1)]
         ELSE \E v \in ImagesNamed(n) :
                tool' = [tool EXCEPT ![p] = Found(@, v, n)]
  /\ UNCHANGED <<images, entries, stale, phase, trans, nTrans, nFaults>>

MutantIsManaged(info) == TRUE

\* string_in_list(pkg_name, managed_pkgs), the pkginfo's managed flag.
IsManaged(info) == info.pkg \in Managed

\* Lookups done: without a managed package there is nothing to do.
EndLookup(p) ==
  /\ tool[p].pc = "lookup"
  /\ tool[p].src = {} /\ tool[p].names = {}
  /\ IF \E k \in DOMAIN tool[p].infos : IsManaged(tool[p].infos[k])
       THEN tool' = [tool EXCEPT ![p].pc = "update"]
       ELSE tool' = [tool EXCEPT ![p] = Exited(@, 0)]
  /\ UNCHANGED <<images, entries, stale, phase, trans, nTrans, nFaults>>

-----------------------------------------------------------------------------
(* A run of the tool: kernel_update_execute.                               *)

Current(p) == tool[p].infos[tool[p].i]

MutantSkipUnmanaged(p) ==
  /\ tool[p].pc = "update"
  /\ tool[p].i <= Len(tool[p].infos)
  /\ ~IsManaged(Current(p))
  /\ UNCHANGED vars

\* kernel_update_execute and kernel_update_one skip what is not managed.
SkipUnmanaged(p) ==
  /\ tool[p].pc = "update"
  /\ tool[p].i <= Len(tool[p].infos)
  /\ ~IsManaged(Current(p))
  /\ tool' = [tool EXCEPT ![p].i = @ + 1]
  /\ UNCHANGED <<images, entries, stale, phase, trans, nTrans, nFaults>>

\* kernel_update_one: arguments and environment are made, run_cmd spawns the child.
Spawn(p) ==
  /\ tool[p].pc = "update"
  /\ tool[p].i <= Len(tool[p].infos)
  /\ IsManaged(Current(p))
  /\ tool' = [tool EXCEPT ![p].pc = "child"]
  /\ UNCHANGED <<images, entries, stale, phase, trans, nTrans, nFaults>>

\* The child cannot be spawned: the run gives up with the packages left over.
SpawnFails(p) ==
  /\ tool[p].pc = "update"
  /\ tool[p].i <= Len(tool[p].infos)
  /\ IsManaged(Current(p))
  /\ Fault
  /\ tool' = [tool EXCEPT ![p] = Exited(@, 1)]
  /\ UNCHANGED <<images, entries, stale, phase, trans, nTrans>>

\* What becomes of run t when run_cmd has waited for the child: its exit
\* status reaches nobody (missed counts for the properties only).
Reaped(t, ok) ==
  [t EXCEPT !.pc = "update", !.i = @ + 1, !.missed = IF ok THEN @ ELSE @ + 1]

ChildReaped(p, ok) ==
  tool' = [tool EXCEPT ![p] = Reaped(@, ok)]

\* kernel-install does what it was asked for.  It refuses to add an image
\* that is not there.
ChildDone(p) ==
  /\ tool[p].pc = "child"
  /\ LET v == Current(p).image
         oper == tool[p].oper
     IN  \/ /\ oper = "add" /\ v \in images
            /\ entries' = entries \cup {v}
            /\ stale' = stale \ {v}
            /\ ChildReaped(p, TRUE)
         \/ /\ oper = "add" /\ v \notin images
            /\ UNCHANGED <<entries, stale>>
            /\ ChildReaped(p, FALSE)
         \/ /\ oper = "remove"
            /\ entries' = entries \ {v}
            /\ UNCHANGED stale
            /\ ChildReaped(p, TRUE)
         \/ /\ oper = "inspect"
            /\ UNCHANGED <<entries, stale>>
            /\ ChildReaped(p, TRUE)
  /\ UNCHANGED <<images, phase, trans, nTrans, nFaults>>

\* kernel-install fails, or a signal ends it, before it changed an entry.
ChildFails(p) ==
  /\ tool[p].pc = "child"
  /\ Fault
  /\ ChildReaped(p, FALSE)
  /\ UNCHANGED <<images, entries, stale, phase, trans, nTrans>>

MutantEndUpdate(p) ==
  /\ tool[p].pc = "update"
  /\ tool[p].i >= Len(tool[p].infos)
  /\ tool' = [tool EXCEPT ![p] = Exited(@, 0)]
  /\ UNCHANGED <<images, entries, stale, phase, trans, nTrans, nFaults>>

\* The loop over the pkginfo array is over.
EndUpdate(p) ==
  /\ tool[p].pc = "update"
  /\ tool[p].i > Len(tool[p].infos)
  /\ tool' = [tool EXCEPT ![p] = Exited(@, 0)]
  /\ UNCHANGED <<images, entries, stale, phase, trans, nTrans, nFaults>>

\* The process exits; pacman goes on whatever a hook returns (no AbortOnFail).
Exit(p) ==
  /\ tool[p].pc = "done"
  /\ tool' = [tool EXCEPT ![p] = IdleTool]
  /\ IF p = "hook"
       THEN /\ phase' = IF phase = "preRun" THEN "commit" ELSE "idle"
            /\ trans' = IF phase = "preRun" THEN trans ELSE NoTrans
       ELSE UNCHANGED <<phase, trans>>
  /\ UNCHANGED <<images, entries, stale, nTrans, nFaults>>

Run(p) ==
  \/ Glob(p) \/ LookupImage(p) \/ LookupName(p) \/ EndLookup(p)
  \/ SkipUnmanaged(p) \/ Spawn(p) \/ ChildDone(p) \/ EndUpdate(p) \/ Exit(p)

Failure(p) == InitFails(p) \/ SpawnFails(p) \/ ChildFails(p)

\* Power loss: what is on disk stays, every process and the transaction are gone.
Crash ==
  /\ phase # "idle" \/ \E p \in Proc : tool[p].pc # "idle"
  /\ Fault
  /\ tool' = [p \in Proc |-> IdleTool]
  /\ phase' = "idle"
  /\ trans' = NoTrans
  /\ UNCHANGED <<images, entries, stale, nTrans>>

-----------------------------------------------------------------------------
Next ==
  \/ \E rm, ins \in SUBSET Image, other \in BOOLEAN : Begin(rm, ins, other)
  \/ Pacman
  \/ \E oper \in AdminOpers :
       \E names \in {{n} : n \in Pkg} \cup {Managed} : AdminRun(oper, names)
  \/ \E p \in Proc : Run(p) \/ Failure(p)
  \/ Crash

\* Pacman does not stop halfway, the kernel runs a process, kernel-install ends.
Fairness ==
  /\ WF_vars(Pacman)
  /\ \A p \in Proc : WF_vars(Run(p))

Spec == Init /\ [][Next]_vars /\ Fairness

-----------------------------------------------------------------------------
(* Correctness.                                                            *)

Info == [image : Image, pkg : Pkg]

TransRec == [rm : SUBSET Image, ins : SUBSET Image, other : BOOLEAN, left : SUBSET Image]

ToolRec ==
  [pc : {"idle", "glob", "lookup", "update", "child", "done"},
   oper : {"none", "add", "remove", "inspect"},
   scope : {"none", "all", "paths", "names"},
   src : SUBSET Image,
   names : SUBSET Pkg,
   infos : Seq(Info),
   i : Nat \ {0},
   ret : {0, 1},
   missed : Nat]

\* The variables have their types; a pkginfo the update loop sees always
\* carries a package name.
TypeOK ==
  /\ images \subseteq Image
  /\ entries \subseteq Image
  /\ stale \subseteq Image
  /\ phase \in {"idle", "pre", "preRun", "commit", "post", "postRun"}
  /\ trans \in TransRec
  /\ tool \in [Proc -> ToolRec]
  /\ nTrans \in Nat
  /\ nFaults \in Nat

\* sd-boot never makes an entry for a kernel whose package is not listed in
\* kernel.packages, whatever pacman, the administrator and the failures do.
OnlyManaged == entries \subseteq ManagedImage

\* One run at a time and until something fails, the boot menu never offers a
\* kernel whose files are gone: the remove hook withdraws entries before
\* pacman deletes files, and no run adds an entry for a file about to go.
NoDangling == nFaults = 0 => entries \subseteq images

\* One run at a time and until something fails, once pacman is done every
\* managed kernel on disk has an entry, made after the last change of its files
\* or of what its initrd is built from.
SyncedWhenIdle ==
  phase = "idle" /\ nFaults = 0 => images \cap ManagedImage \subseteq entries \ stale

\* One run at a time, the kernel side implements the contract between files
\* and entries: only after a failure are files deleted under an entry, and no
\* failure makes an entry for files that are not there.
Mirror == INSTANCE BootMirror WITH Item <- Image, failed <- nFaults > 0
MirrorSpec == Mirror!Spec

\* Whatever failures and crashes left behind, one refresh of all kernels (a
\* hook run with any non-kernel trigger) that itself went well brings every
\* managed kernel back to a current entry.
RefreshRepairs ==
  \A p \in Proc :
    /\ tool[p].pc = "done" /\ tool[p].ret = 0
    /\ tool[p].oper = "add" /\ tool[p].scope = "all" /\ tool[p].missed = 0
    => images \cap ManagedImage \subseteq entries \ stale

\* An entry disappears only by a remove run on exactly that kernel, and a
\* hook's run only if pacman is removing it: no other kernel loses its entry,
\* even with failures and with both processes running at once.
RemovalHasCause ==
  [][\A v \in entries \ entries' :
       \E p \in Proc :
         /\ tool[p].pc = "child" /\ tool[p].oper = "remove"
         /\ Current(p).image = v
         /\ p = "hook" => v \in trans.rm]_vars

\* Every run of the tool ends, whatever fails in it: a hook cannot hang pacman.
RunEnds == \A p \in Proc : tool[p].pc # "idle" ~> tool[p].pc = "idle"

\* Every transaction comes to its end, through both hooks.
TransactionEnds == phase # "idle" ~> phase = "idle"

-----------------------------------------------------------------------------
(* What the repository says and the code does not do.                      *)

\* ki_run.c: "Returns 0 = all well".  A run that exits with 0 updated every
\* managed kernel it was asked to add.
ExitZeroMeansDone ==
  \A p \in Proc :
    tool[p].pc = "done" /\ tool[p].ret = 0 /\ tool[p].oper = "add" =>
      \A k \in DOMAIN tool[p].infos :
        IsManaged(tool[p].infos[k]) => tool[p].infos[k].image \in entries

=============================================================================
