------------------------- MODULE KernelSerial_proofs -------------------------
(***************************************************************************)
(* Theorems about KernelUpdate where the administrator keeps out of        *)
(* pacman's way: until something fails the boot menu never offers a kernel *)
(* whose files are gone and lacks no kernel, one good refresh repairs all, *)
(* and the kernel side implements BootMirror.  They hold for every set of  *)
(* kernels and packages, and any number of transactions and failures.      *)
(***************************************************************************)
EXTENDS KernelUpdate_proofs

Serial == Overlap = FALSE

\* The run t has v still to look up, or still to hand to kernel-install.
Pending(t, v) ==
  v \in t.src \/ \E k \in DOMAIN t.infos : k >= t.i /\ t.infos[k].image = v

\* The remove hook's run t withdraws, from the entries E, the images S that
\* pacman is about to delete: what still has an entry is pending.
Withdrawing(t, S, E) ==
  /\ t.pc \in {"lookup", "update", "child", "done"}
  /\ t.oper = "remove" /\ t.scope = "paths" /\ t.names = {}
  /\ t.src \subseteq S
  /\ t.pc = "lookup" => t.i = 1
  /\ t.pc \in {"update", "child"} => t.src = {}
  /\ IF t.pc = "done" THEN S \cap E = {}
     ELSE \A v \in S \cap E : Pending(t, v)

AdminWaits == phase # "idle" => tool["admin"].pc = "idle"
PreRunInv ==
  nFaults = 0 /\ phase = "preRun" => Withdrawing(tool["hook"], trans.rm, entries)
CommitInv == nFaults = 0 /\ phase = "commit" => trans.rm \cap entries = {}
RemovedInv == phase \in {"pre", "preRun"} => trans.rm \subseteq images \cap Packaged

\* NoDangling alone is not inductive: a step of CommitRemove keeps it only
\* because the remove hook's run before it withdrew the entry.
SerialInv ==
  /\ ManagedInv
  /\ NoDangling
  /\ AdminWaits
  /\ HookInPlace
  /\ PreRunInv
  /\ CommitInv
  /\ RemovedInv

(***************************************************************************)
(* The withdrawing run, one operator on its record at a time.              *)
(***************************************************************************)

LEMMA WithdrawStarts ==
  ASSUME NEW S, NEW E
  PROVE  Withdrawing(HookRun("remove", S, FALSE), S, E)
<1>. DEFINE t == HookRun("remove", S, FALSE)
<1>1. t.pc = "lookup" /\ t.oper = "remove" /\ t.scope = "paths" /\ t.names = {}
      /\ t.src = S /\ t.i = 1
  BY DEF HookRun, TriggerScope, NewRun, IdleTool
<1>. QED
  BY <1>1 DEF Withdrawing, Pending

LEMMA WithdrawFinds ==
  ASSUME NEW S, NEW E, NEW t \in ToolRec, Withdrawing(t, S, E), t.pc = "lookup",
         NEW v \in Image, NEW n \in Pkg
  PROVE  Withdrawing(Found(t, v, n), S, E)
<1>. DEFINE u == Found(t, v, n)
<1>1. /\ t.infos \in Seq(Info) /\ u.infos = Append(t.infos, [image |-> v, pkg |-> n])
      /\ u.src = t.src \ {v} /\ u.names = t.names \ {n} /\ u.i = t.i
      /\ u.pc = t.pc /\ u.oper = t.oper /\ u.scope = t.scope
  BY DEF ToolRec, Found
<1>2. t.i = 1 /\ \A w \in S \cap E : Pending(t, w)
  BY DEF Withdrawing
<1>3. ASSUME NEW w \in S \cap E
      PROVE  Pending(u, w)
  <2>1. CASE w = v
    <3>1. Len(t.infos) + 1 \in DOMAIN u.infos /\ Len(t.infos) + 1 >= u.i
          /\ u.infos[Len(t.infos) + 1].image = w
      BY <1>1, <1>2, <2>1
    <3>. QED BY <3>1 DEF Pending
  <2>2. CASE w # v /\ w \in t.src
    BY <1>1, <2>2 DEF Pending
  <2>3. CASE w \notin t.src
    <3>1. PICK k \in DOMAIN t.infos : k >= t.i /\ t.infos[k].image = w
      BY <1>2, <1>3, <2>3 DEF Pending
    <3>2. k \in DOMAIN u.infos /\ u.infos[k] = t.infos[k]
      BY <1>1, <3>1
    <3>. QED BY <1>1, <3>1, <3>2 DEF Pending
  <2>. QED BY <2>1, <2>2, <2>3
<1>. HIDE DEF u
<1>9. Withdrawing(u, S, E)
  BY <1>1, <1>2, <1>3 DEF Withdrawing
<1>. QED
  BY <1>9 DEF u

\* What is pending in a run that looked everything up is a managed pkginfo.
LEMMA PendingManaged ==
  ASSUME NEW t \in ToolRec, RunSound(t), t.src = {}, NEW v \in ManagedImage, Pending(t, v)
  PROVE  \E k \in DOMAIN t.infos : k >= t.i /\ t.infos[k].image = v /\ IsManaged(t.infos[k])
BY DEF Pending, RunSound, ManagedImage, IsManaged

LEMMA WithdrawEndsLookup ==
  ASSUME NEW S, NEW E \in SUBSET ManagedImage, NEW t \in ToolRec, RunSound(t),
         Withdrawing(t, S, E), t.pc = "lookup", t.src = {}
  PROVE  /\ Withdrawing([t EXCEPT !.pc = "update"], S, E)
         /\ ~(\E k \in DOMAIN t.infos : IsManaged(t.infos[k]))
              => Withdrawing(Exited(t, 0), S, E)
<1>0. \A v \in S \cap E : Pending(t, v)
  BY DEF Withdrawing
<1>1. Withdrawing([t EXCEPT !.pc = "update"], S, E)
  <2>. DEFINE u == [t EXCEPT !.pc = "update"]
  <2>1. /\ u.pc = "update" /\ u.oper = t.oper /\ u.scope = t.scope /\ u.names = t.names
        /\ u.src = t.src /\ u.infos = t.infos /\ u.i = t.i
    BY DEF ToolRec
  <2>. HIDE DEF u
  <2>2. Withdrawing(u, S, E)
    BY <1>0, <2>1 DEF Withdrawing, Pending
  <2>. QED BY <2>2 DEF u
<1>2. ASSUME ~(\E k \in DOMAIN t.infos : IsManaged(t.infos[k]))
      PROVE  Withdrawing(Exited(t, 0), S, E)
  <2>. DEFINE u == Exited(t, 0)
  <2>1. S \cap E = {}
    BY <1>0, <1>2, PendingManaged
  <2>2. /\ u.pc = "done" /\ u.oper = t.oper /\ u.scope = t.scope /\ u.names = {}
        /\ u.src = {}
    BY DEF ToolRec, Exited
  <2>. HIDE DEF u
  <2>3. Withdrawing(u, S, E)
    BY <2>1, <2>2 DEF Withdrawing
  <2>. QED BY <2>3 DEF u
<1>. QED
  BY <1>1, <1>2

LEMMA WithdrawSkips ==
  ASSUME NEW S, NEW E \in SUBSET ManagedImage, NEW t \in ToolRec, RunSound(t),
         Withdrawing(t, S, E), t.pc = "update", ~IsManaged(t.infos[t.i])
  PROVE  Withdrawing([t EXCEPT !.i = @ + 1], S, E)
<1>. DEFINE u == [t EXCEPT !.i = @ + 1]
<1>1. /\ u.pc = t.pc /\ u.oper = t.oper /\ u.scope = t.scope /\ u.names = t.names
      /\ u.src = t.src /\ u.infos = t.infos /\ u.i = t.i + 1 /\ t.i \in Nat
      /\ t.infos \in Seq(Info)
  BY DEF ToolRec
<1>2. ASSUME NEW v \in S \cap E
      PROVE  Pending(u, v)
  <2>1. PICK k \in DOMAIN t.infos :
          k >= t.i /\ t.infos[k].image = v /\ IsManaged(t.infos[k])
    BY PendingManaged DEF Withdrawing
  <2>2. k # t.i /\ k \in Nat
    BY <1>1, <2>1
  <2>. QED BY <1>1, <2>1, <2>2 DEF Pending
<1>. HIDE DEF u
<1>9. Withdrawing(u, S, E)
  BY <1>1, <1>2 DEF Withdrawing
<1>. QED
  BY <1>9 DEF u

LEMMA WithdrawSpawns ==
  ASSUME NEW S, NEW E, NEW t \in ToolRec, Withdrawing(t, S, E), t.pc = "update"
  PROVE  Withdrawing([t EXCEPT !.pc = "child"], S, E)
<1>. DEFINE u == [t EXCEPT !.pc = "child"]
<1>1. /\ u.pc = "child" /\ u.oper = t.oper /\ u.scope = t.scope /\ u.names = t.names
      /\ u.src = t.src /\ u.infos = t.infos /\ u.i = t.i
  BY DEF ToolRec
<1>. HIDE DEF u
<1>9. Withdrawing(u, S, E)
  BY <1>1 DEF Withdrawing, Pending
<1>. QED
  BY <1>9 DEF u

\* kernel-install removed the entry of the current image.
LEMMA WithdrawReaps ==
  ASSUME NEW S, NEW E, NEW t \in ToolRec, Withdrawing(t, S, E), t.pc = "child"
  PROVE  Withdrawing(Reaped(t, TRUE), S, E \ {t.infos[t.i].image})
<1>. DEFINE u == Reaped(t, TRUE)
<1>1. /\ u.pc = "update" /\ u.oper = t.oper /\ u.scope = t.scope /\ u.names = t.names
      /\ u.src = t.src /\ u.infos = t.infos /\ u.i = t.i + 1 /\ t.i \in Nat
      /\ t.infos \in Seq(Info)
  BY DEF ToolRec, Reaped
<1>. HIDE DEF u
<1>2. ASSUME NEW v \in S \cap (E \ {t.infos[t.i].image})
      PROVE  Pending(u, v)
  <2>1. PICK k \in DOMAIN t.infos : k >= t.i /\ t.infos[k].image = v
    BY DEF Withdrawing, Pending
  <2>2. k # t.i /\ k \in Nat
    BY <1>1, <1>2, <2>1
  <2>. QED BY <1>1, <2>1, <2>2 DEF Pending
<1>9. Withdrawing(u, S, E \ {t.infos[t.i].image})
  BY <1>1, <1>2 DEF Withdrawing
<1>. QED
  BY <1>9 DEF u

LEMMA WithdrawEnds ==
  ASSUME NEW S, NEW E, NEW t \in ToolRec, Withdrawing(t, S, E), t.pc = "update",
         t.i > Len(t.infos)
  PROVE  Withdrawing(Exited(t, 0), S, E)
<1>. DEFINE u == Exited(t, 0)
<1>1. \A v \in S \cap E : Pending(t, v)
  BY DEF Withdrawing
<1>2. t.infos \in Seq(Info) /\ t.i \in Nat /\ t.src = {}
  BY DEF ToolRec, Withdrawing
<1>3. S \cap E = {}
  BY <1>1, <1>2 DEF Pending
<1>4. /\ u.pc = "done" /\ u.oper = t.oper /\ u.scope = t.scope /\ u.names = {}
      /\ u.src = {}
  BY DEF ToolRec, Exited
<1>. HIDE DEF u
<1>9. Withdrawing(u, S, E)
  BY <1>3, <1>4 DEF Withdrawing
<1>. QED
  BY <1>9 DEF u

(***************************************************************************)
(* SerialInv is inductive.                                                 *)
(***************************************************************************)

LEMMA SerialInit == Init => SerialInv
<1>. SUFFICES ASSUME Init
              PROVE  SerialInv
  OBVIOUS
<1>1. ManagedInv
  BY TypeInit, IdleSound DEF Init, ManagedInv, OnlyManaged, RunsSound
<1>2. \A p \in Proc : tool[p].pc = "idle"
  BY DEF Init, IdleTool
<1>. QED
  BY <1>1, <1>2 DEF Init, SerialInv, NoDangling, AdminWaits, HookInPlace, PreRunInv,
     CommitInv, RemovedInv, Proc

LEMMA SerialBegin ==
  ASSUME Serial, SerialInv,
         NEW rm \in SUBSET Image, NEW ins \in SUBSET Image, NEW other \in BOOLEAN,
         Begin(rm, ins, other)
  PROVE  NoDangling' /\ AdminWaits' /\ HookInPlace' /\ PreRunInv' /\ CommitInv' /\ RemovedInv'
<1>1. tool["admin"].pc = "idle" /\ tool' = tool /\ phase' = "pre"
      /\ entries' = entries /\ images' = images /\ nFaults' = nFaults /\ phase = "idle"
  BY DEF Begin, Serial
<1>2. trans'.rm = rm /\ rm \subseteq images \cap Packaged
  BY DEF Begin
<1>. QED
  BY <1>1, <1>2 DEF SerialInv, NoDangling, AdminWaits, HookInPlace, PreRunInv, CommitInv,
     RemovedInv, Packaged

LEMMA SerialPreHook ==
  ASSUME Serial, SerialInv, PreHook
  PROVE  NoDangling' /\ AdminWaits' /\ HookInPlace' /\ PreRunInv' /\ CommitInv' /\ RemovedInv'
<1>0. /\ tool \in [Proc -> ToolRec] /\ "hook" \in Proc /\ "admin" \in Proc
      /\ phase = "pre" /\ tool["admin"].pc = "idle" /\ tool["hook"].pc = "idle"
  BY DEF SerialInv, ManagedInv, TypeOK, Proc, PreHook, AdminWaits, HookInPlace
<1>1. UNCHANGED <<images, entries, trans, nFaults>>
  BY DEF PreHook
<1>2. CASE trans.rm = {}
  <2>1. phase' = "commit" /\ tool' = tool
    BY <1>2 DEF PreHook
  <2>. QED
    BY <1>0, <1>1, <1>2, <2>1 DEF SerialInv, NoDangling, AdminWaits, HookInPlace, PreRunInv,
       CommitInv, RemovedInv
<1>3. CASE trans.rm # {}
  <2>1. phase' = "preRun"
        /\ tool' = [tool EXCEPT !["hook"] = HookRun("remove", trans.rm, FALSE)]
    BY <1>3 DEF PreHook
  <2>2. tool'["admin"] = tool["admin"]
        /\ tool'["hook"] = HookRun("remove", trans.rm, FALSE)
    BY <1>0, <2>1
  <2>3. Withdrawing(tool'["hook"], trans.rm, entries)
    BY <2>2, WithdrawStarts
  <2>. QED
    BY <1>0, <1>1, <2>1, <2>2, <2>3 DEF SerialInv, NoDangling, AdminWaits, HookInPlace,
       PreRunInv, CommitInv, RemovedInv, Packaged
<1>. QED
  BY <1>2, <1>3

LEMMA SerialCommit ==
  ASSUME Serial, SerialInv,
         CommitEnd \/ PostHook \/ \E v \in Image : CommitRemove(v) \/ CommitInstall(v)
  PROVE  NoDangling' /\ AdminWaits' /\ HookInPlace' /\ PreRunInv' /\ CommitInv' /\ RemovedInv'
<1>0. /\ tool \in [Proc -> ToolRec] /\ "hook" \in Proc /\ "admin" \in Proc
      /\ trans \in TransRec
  BY DEF SerialInv, ManagedInv, TypeOK, Proc
<1>1. ASSUME NEW v \in Image, CommitRemove(v)
      PROVE  NoDangling' /\ CommitInv' /\ UNCHANGED <<phase, tool>> /\ phase = "commit"
  <2>1. nFaults = 0 => v \notin entries
    BY <1>1 DEF CommitRemove, SerialInv, CommitInv
  <2>2. trans'.rm = trans.rm
    BY <1>0, <1>1 DEF CommitRemove, TransRec
  <2>. QED
    BY <1>1, <2>1, <2>2 DEF CommitRemove, SerialInv, NoDangling, CommitInv
<1>2. ASSUME NEW v \in Image, CommitInstall(v)
      PROVE  NoDangling' /\ CommitInv' /\ UNCHANGED <<phase, tool>> /\ phase = "commit"
  <2>1. trans'.rm = trans.rm
    BY <1>0, <1>2 DEF CommitInstall, TransRec
  <2>. QED
    BY <1>2, <2>1 DEF CommitInstall, SerialInv, NoDangling, CommitInv
<1>3. CASE CommitEnd
  BY <1>3 DEF CommitEnd, SerialInv, NoDangling, AdminWaits, HookInPlace, PreRunInv,
     CommitInv, RemovedInv
<1>4. CASE PostHook
  <2>1. phase = "post" /\ phase' \in {"idle", "postRun"}
        /\ UNCHANGED <<images, entries, nFaults>>
        /\ tool'["admin"] = tool["admin"] /\ (phase' = "idle" => tool' = tool)
    BY <1>0, <1>4 DEF PostHook
  <2>. QED
    BY <2>1 DEF SerialInv, NoDangling, AdminWaits, HookInPlace, PreRunInv, CommitInv,
       RemovedInv
<1>. QED
  BY <1>1, <1>2, <1>3, <1>4 DEF SerialInv, AdminWaits, HookInPlace, PreRunInv, RemovedInv

\* kernel-install deletes entries, or adds one for an image that is there.
LEMMA ChildEntries ==
  ASSUME NEW p \in Proc, ChildDone(p)
  PROVE  entries' \subseteq entries \cup images
BY DEF ChildDone

\* The administrator's run goes on only while pacman is idle.
LEMMA SerialAdmin ==
  ASSUME Serial, SerialInv, Run("admin")
  PROVE  NoDangling' /\ AdminWaits' /\ HookInPlace' /\ PreRunInv' /\ CommitInv' /\ RemovedInv'
<1>0. tool \in [Proc -> ToolRec] /\ "hook" \in Proc /\ "admin" \in Proc /\ "admin" # "hook"
  BY DEF SerialInv, ManagedInv, TypeOK, Proc
<1>1. phase = "idle"
  BY DEF SerialInv, AdminWaits, Run, Glob, LookupImage, LookupName, EndLookup, SkipUnmanaged,
     Spawn, ChildDone, EndUpdate, Exit
<1>2. UNCHANGED <<images, phase, trans, nFaults>> /\ tool'["hook"] = tool["hook"]
  BY <1>0 DEF Run, Glob, LookupImage, LookupName, EndLookup, SkipUnmanaged,
     Spawn, ChildDone, ChildReaped, EndUpdate, Exit
<1>3. entries' \subseteq entries \cup images
  BY <1>0, ChildEntries DEF Run, Glob, LookupImage, LookupName, EndLookup, SkipUnmanaged,
     Spawn, EndUpdate, Exit
<1>. QED
  BY <1>1, <1>2, <1>3 DEF SerialInv, NoDangling, AdminWaits, HookInPlace, PreRunInv,
     CommitInv, RemovedInv

\* A step of the remove hook's run keeps the withdrawal going.
LEMMA WithdrawStep ==
  ASSUME SerialInv, nFaults = 0, phase = "preRun", Run("hook"), ~Exit("hook")
  PROVE  Withdrawing(tool'["hook"], trans.rm, entries')
<1>. DEFINE t == tool["hook"]
<1>0. /\ tool \in [Proc -> ToolRec] /\ "hook" \in Proc /\ t \in ToolRec
      /\ RunSound(t) /\ entries \in SUBSET ManagedImage
      /\ Withdrawing(t, trans.rm, entries) /\ trans.rm \subseteq images \cap Packaged
  BY DEF SerialInv, ManagedInv, TypeOK, Proc, RunsSound, OnlyManaged, PreRunInv, RemovedInv
<1>1. t.pc # "glob" /\ t.scope = "paths" /\ t.src \subseteq trans.rm /\ t.oper = "remove"
      /\ t.names = {}
  BY <1>0 DEF Withdrawing
<1>2. CASE LookupImage("hook")
  <2>1. PICK v \in t.src :
          IF PkgName(v) = NoPkg
            THEN tool' = [tool EXCEPT !["hook"] = Exited(@, 1)]
            ELSE tool' = [tool EXCEPT !["hook"] = Found(@, v, PkgName(v))]
    BY <1>2 DEF LookupImage
  <2>2. v \in Image /\ PkgName(v) # NoPkg /\ PkgName(v) \in Pkg
    BY <1>0, <1>1, PkgBaseAssumption DEF ToolRec, PkgName, Packaged
  <2>3. t.pc = "lookup" /\ entries' = entries
    BY <1>2 DEF LookupImage
  <2>4. tool'["hook"] = Found(t, v, PkgName(v))
    BY <1>0, <2>1, <2>2
  <2>. QED
    BY <1>0, <2>2, <2>3, <2>4, WithdrawFinds
<1>3. CASE EndLookup("hook")
  <2>1. t.pc = "lookup" /\ t.src = {} /\ entries' = entries
    BY <1>3 DEF EndLookup
  <2>2. CASE \E k \in DOMAIN t.infos : IsManaged(t.infos[k])
    <3>1. tool'["hook"] = [t EXCEPT !.pc = "update"]
      BY <1>0, <1>3, <2>2 DEF EndLookup
    <3>. QED BY <1>0, <2>1, <3>1, WithdrawEndsLookup
  <2>3. CASE ~(\E k \in DOMAIN t.infos : IsManaged(t.infos[k]))
    <3>1. tool'["hook"] = Exited(t, 0)
      BY <1>0, <1>3, <2>3 DEF EndLookup
    <3>. QED BY <1>0, <2>1, <2>3, <3>1, WithdrawEndsLookup
  <2>. QED BY <2>2, <2>3
<1>4. CASE SkipUnmanaged("hook")
  <2>1. /\ t.pc = "update" /\ ~IsManaged(t.infos[t.i]) /\ entries' = entries
        /\ tool'["hook"] = [t EXCEPT !.i = @ + 1]
    BY <1>0, <1>4 DEF SkipUnmanaged, Current
  <2>. QED BY <1>0, <2>1, WithdrawSkips
<1>5. CASE Spawn("hook")
  <2>1. /\ t.pc = "update" /\ entries' = entries
        /\ tool'["hook"] = [t EXCEPT !.pc = "child"]
    BY <1>0, <1>5 DEF Spawn
  <2>. QED BY <1>0, <2>1, WithdrawSpawns
<1>6. CASE ChildDone("hook")
  <2>1. /\ t.pc = "child" /\ entries' = entries \ {t.infos[t.i].image}
        /\ tool'["hook"] = Reaped(t, TRUE)
    BY <1>0, <1>1, <1>6 DEF ChildDone, ChildReaped, Current
  <2>2. Withdrawing(Reaped(t, TRUE), trans.rm, entries \ {t.infos[t.i].image})
    <3>. HIDE DEF t
    <3>. QED BY <1>0, <2>1, WithdrawReaps
  <2>. HIDE DEF t
  <2>. QED BY <2>1, <2>2
<1>7. CASE EndUpdate("hook")
  <2>1. /\ t.pc = "update" /\ t.i > Len(t.infos) /\ entries' = entries
        /\ tool'["hook"] = Exited(t, 0)
    BY <1>0, <1>7 DEF EndUpdate
  <2>. QED BY <1>0, <2>1, WithdrawEnds
<1>. QED
  BY <1>1, <1>2, <1>3, <1>4, <1>5, <1>6, <1>7 DEF Run, Glob, LookupName

LEMMA SerialHook ==
  ASSUME Serial, SerialInv, Run("hook")
  PROVE  NoDangling' /\ AdminWaits' /\ HookInPlace' /\ PreRunInv' /\ CommitInv' /\ RemovedInv'
<1>0. tool \in [Proc -> ToolRec] /\ "hook" \in Proc /\ "admin" \in Proc /\ "admin" # "hook"
  BY DEF SerialInv, ManagedInv, TypeOK, Proc
<1>1. phase \in {"preRun", "postRun"} /\ tool["admin"].pc = "idle"
  <2>1. tool["hook"].pc # "idle"
    BY DEF Run, Glob, LookupImage, LookupName, EndLookup, SkipUnmanaged, Spawn, ChildDone,
       EndUpdate, Exit
  <2>. QED BY <2>1 DEF SerialInv, AdminWaits, HookInPlace
<1>2. UNCHANGED <<images, nFaults>> /\ tool'["admin"] = tool["admin"]
  BY <1>0 DEF Run, Glob, LookupImage, LookupName, EndLookup, SkipUnmanaged,
     Spawn, ChildDone, ChildReaped, EndUpdate, Exit
<1>3. NoDangling'
  <2>1. entries' \subseteq entries \cup images
    BY <1>0, ChildEntries DEF Run, Glob, LookupImage, LookupName, EndLookup, SkipUnmanaged,
       Spawn, EndUpdate, Exit
  <2>. QED BY <1>2, <2>1 DEF SerialInv, NoDangling
<1>4. CASE Exit("hook")
  <2>1. tool["hook"].pc = "done" /\ tool'["hook"].pc = "idle" /\ entries' = entries
    BY <1>0, <1>4 DEF Exit, IdleTool
  <2>2. CASE phase = "preRun"
    <3>1. phase' = "commit" /\ trans' = trans
      BY <1>4, <2>2 DEF Exit
    <3>2. nFaults = 0 => trans.rm \cap entries = {}
      BY <2>1, <2>2 DEF SerialInv, PreRunInv, Withdrawing
    <3>. QED
      BY <1>1, <1>2, <1>3, <2>1, <3>1, <3>2 DEF AdminWaits, HookInPlace, PreRunInv,
         CommitInv, RemovedInv
  <2>3. CASE phase # "preRun"
    <3>1. phase' = "idle"
      BY <1>4, <2>3 DEF Exit
    <3>. QED
      BY <1>1, <1>2, <1>3, <2>1, <3>1 DEF AdminWaits, HookInPlace, PreRunInv,
         CommitInv, RemovedInv
  <2>. QED BY <2>2, <2>3
<1>5. CASE ~Exit("hook")
  <2>1. UNCHANGED <<phase, trans>>
    BY <1>5 DEF Run, Glob, LookupImage, LookupName, EndLookup, SkipUnmanaged,
       Spawn, ChildDone, EndUpdate
  <2>2. PreRunInv'
    BY <1>2, <1>5, <2>1, WithdrawStep DEF PreRunInv
  <2>. QED
    BY <1>1, <1>2, <1>3, <2>1, <2>2 DEF AdminWaits, HookInPlace, CommitInv, RemovedInv,
       Packaged, SerialInv
<1>. QED
  BY <1>4, <1>5

\* After a failure only the two processes' places matter; a failure in the
\* hook's run leaves it in its phase, and power loss ends both.
LEMMA SerialFailure ==
  ASSUME Serial, SerialInv, Crash \/ \E p \in Proc : Failure(p)
  PROVE  NoDangling' /\ AdminWaits' /\ HookInPlace' /\ PreRunInv' /\ CommitInv' /\ RemovedInv'
<1>0. /\ tool \in [Proc -> ToolRec] /\ "hook" \in Proc /\ "admin" \in Proc
      /\ nFaults \in Nat
  BY DEF SerialInv, ManagedInv, TypeOK, Proc
<1>1. nFaults' = nFaults + 1 /\ UNCHANGED <<images, entries>>
  BY DEF Crash, Failure, InitFails, SpawnFails, ChildFails, Fault
<1>2. NoDangling' /\ PreRunInv' /\ CommitInv'
  BY <1>0, <1>1 DEF NoDangling, PreRunInv, CommitInv
<1>3. CASE Crash
  <2>1. phase' = "idle" /\ tool' = [p \in Proc |-> IdleTool]
    BY <1>3 DEF Crash
  <2>. QED
    BY <1>0, <1>2, <2>1 DEF AdminWaits, HookInPlace, RemovedInv, IdleTool
<1>4. ASSUME NEW p \in Proc, Failure(p)
      PROVE  AdminWaits' /\ HookInPlace' /\ RemovedInv'
  <2>1. /\ UNCHANGED <<phase, trans>> /\ tool[p].pc # "idle"
        /\ \A q \in Proc \ {p} : tool'[q] = tool[q]
    BY <1>0, <1>4 DEF Failure, InitFails, SpawnFails, ChildFails, ChildReaped
  <2>. QED
    BY <1>0, <1>1, <2>1 DEF SerialInv, AdminWaits, HookInPlace, RemovedInv, Packaged
<1>. QED
  BY <1>2, <1>3, <1>4

LEMMA SerialStep ==
  ASSUME Serial, SerialInv, [Next]_vars
  PROVE  SerialInv'
<1>0. TypeOK /\ tool \in [Proc -> ToolRec] /\ "hook" \in Proc /\ "admin" \in Proc
      /\ "admin" # "hook"
  BY DEF SerialInv, ManagedInv, TypeOK, Proc
<1>. DEFINE Rest == NoDangling /\ AdminWaits /\ HookInPlace /\ PreRunInv /\ CommitInv /\ RemovedInv
<1>1. ManagedInv'
  BY TypeStep, EntriesGrow, SoundStep DEF SerialInv, ManagedInv
<1>2. ASSUME NEW oper \in AdminOpers,
             NEW names \in {{n} : n \in Pkg} \cup {Managed}, AdminRun(oper, names)
      PROVE  Rest'
  <2>1. phase = "idle" /\ UNCHANGED <<images, entries, phase, trans, nFaults>>
        /\ tool'["hook"] = tool["hook"]
    BY <1>0, <1>2 DEF AdminRun, Serial
  <2>. QED
    BY <2>1 DEF SerialInv, NoDangling, AdminWaits, HookInPlace, PreRunInv, CommitInv, RemovedInv
<1>3. ASSUME NEW p \in Proc, Run(p)
      PROVE  Rest'
  BY <1>3, SerialAdmin, SerialHook DEF Proc
<1>4. ASSUME Crash \/ \E p \in Proc : Failure(p)
      PROVE  Rest'
  BY <1>4, SerialFailure
<1>5. ASSUME UNCHANGED vars
      PROVE  Rest'
  BY <1>5 DEF vars, SerialInv, NoDangling, AdminWaits, HookInPlace, PreRunInv, CommitInv,
     RemovedInv, Packaged
<1>6. ASSUME Pacman
      PROVE  Rest'
  BY <1>6, SerialPreHook, SerialCommit DEF Pacman
<1>7. Rest'
  BY <1>2, <1>3, <1>4, <1>5, <1>6, SerialBegin DEF Next
<1>. QED
  BY <1>1, <1>7 DEF SerialInv

THEOREM SerialInvariant ==
  ASSUME Serial
  PROVE  Spec => []SerialInv
<1>1. Init => SerialInv
  BY SerialInit
<1>2. SerialInv /\ [Next]_vars => SerialInv'
  BY SerialStep
<1>. QED
  BY <1>1, <1>2, PTL DEF Spec

\* Where runs do not overlap, and until something fails, the boot menu never
\* offers a kernel whose files pacman has deleted, at any moment of any
\* transaction.
THEOREM NoDanglingSerial ==
  ASSUME Serial
  PROVE  Spec => []NoDangling
<1>1. SerialInv => NoDangling
  BY DEF SerialInv
<1>. QED
  BY <1>1, SerialInvariant, PTL

(***************************************************************************)
(* The kernel side implements BootMirror.                                  *)
(***************************************************************************)

LEMMA MirrorInit == Init => Mirror!Init
BY DEF Init, Mirror!Init

\* Pacman's writes and deletions, kernel-install's end and the failures are the
\* steps of the contract; every other step leaves files and entries alone.
LEMMA MirrorStep ==
  ASSUME Serial, SerialInv, [Next]_vars
  PROVE  [Mirror!Next]_(Mirror!vars)
<1>0. nFaults \in Nat
  BY DEF SerialInv, ManagedInv, TypeOK
<1>1. ASSUME NEW v \in Image, CommitRemove(v)
      PROVE  Mirror!Delete(v)
  BY <1>0, <1>1 DEF CommitRemove, SerialInv, CommitInv, Mirror!Delete
<1>2. ASSUME NEW v \in Image, CommitInstall(v)
      PROVE  Mirror!Install(v)
  BY <1>2 DEF CommitInstall, Mirror!Install
<1>3. ASSUME NEW p \in Proc, ChildDone(p)
      PROVE  \/ Mirror!Publish(Current(p).image)
             \/ Mirror!Withdraw(Current(p).image)
             \/ UNCHANGED <<images, entries, nFaults>>
  BY <1>3 DEF ChildDone, Mirror!Publish, Mirror!Withdraw
<1>4. ASSUME NEW p \in Proc, ChildDone(p)
      PROVE  Current(p).image \in Image
  <2>1. tool[p] \in ToolRec /\ tool[p].i \in DOMAIN tool[p].infos
    BY <1>4 DEF SerialInv, ManagedInv, TypeOK, RunsSound, RunSound, ChildDone
  <2>2. tool[p].infos \in Seq(Info)
    BY <2>1 DEF ToolRec
  <2>3. Current(p) \in Info
    BY <2>1, <2>2 DEF Current
  <2>. QED BY <2>3 DEF Info
<1>5. ASSUME NEW p \in Proc, Run(p), ~ChildDone(p)
      PROVE  UNCHANGED <<images, entries, nFaults>>
  BY <1>5 DEF Run, Glob, LookupImage, LookupName, EndLookup, SkipUnmanaged, Spawn,
     EndUpdate, Exit
<1>6. CASE Pacman
  BY <1>1, <1>2, <1>6 DEF Pacman, PreHook, CommitEnd, PostHook, Mirror!Next, Mirror!vars
<1>7. ASSUME NEW p \in Proc, Run(p)
      PROVE  [Mirror!Next]_(Mirror!vars)
  BY <1>3, <1>4, <1>5, <1>7 DEF Mirror!Next, Mirror!vars
<1>8. ASSUME Crash \/ \E p \in Proc : Failure(p)
      PROVE  Mirror!Fail
  <2>1. nFaults' = nFaults + 1 /\ UNCHANGED <<images, entries>>
    BY <1>8 DEF Crash, Failure, InitFails, SpawnFails, ChildFails, Fault
  <2>2. nFaults' > 0
    BY <1>0, <2>1
  <2>. QED BY <2>1, <2>2 DEF Mirror!Fail
<1>. QED
  BY <1>6, <1>7, <1>8 DEF Next, Begin, AdminRun, vars, Mirror!vars, Mirror!Next

\* Where runs do not overlap, pacman, hooks and tools, failing or not, together
\* implement the contract between kernel files and loader entries: only after a
\* failure are files deleted under an entry, and none is made without files.
THEOREM MirrorImplemented ==
  ASSUME Serial
  PROVE  Spec => MirrorSpec
<1>1. Init => Mirror!Init
  BY MirrorInit
<1>2. SerialInv /\ [Next]_vars => [Mirror!Next]_(Mirror!vars)
  BY MirrorStep
<1>. QED
  BY <1>1, <1>2, SerialInvariant, PTL DEF Spec, MirrorSpec, Mirror!Spec

(***************************************************************************)
(* A refresh of all kernels that went well leaves a current entry for      *)
(* each, whatever failed before it, and until something fails every        *)
(* managed kernel has a current entry whenever pacman is idle.             *)
(***************************************************************************)

Todo == images \cap ManagedImage
Fresh(v) == v \in entries \ stale

\* What a run looks up is on disk, and so is what it found.
HereOf(t) == t.pc # "idle" => /\ t.src \subseteq images
                              /\ \A k \in DOMAIN t.infos : t.infos[k].image \in images
HereInv == \A p \in Proc : HereOf(tool[p])

\* A run that updates has looked everything up.
SourcesUsed == \A p \in Proc : tool[p].pc \in {"update", "child"} => tool[p].src = {}

\* Which run is on in which phase; the administrator names packages.
OperInv ==
  /\ tool["admin"].scope # "all"
  /\ phase = "preRun" => tool["hook"].oper = "remove" /\ tool["hook"].scope = "paths"
  /\ phase = "postRun" => tool["hook"].oper = "add" /\ tool["hook"].scope \in {"all", "paths"}

\* What is still to do is what the commit has not done.
TransInv ==
  /\ phase \in {"pre", "preRun"} => trans.left = trans.rm \cup trans.ins
  /\ phase \in {"pre", "preRun", "commit"} => trans.rm \cap trans.ins = {}
  /\ phase = "commit" => /\ trans.rm \cap images \subseteq trans.left
                         /\ trans.ins \ trans.left \subseteq images
  /\ phase = "post" => trans.ins \subseteq images /\ trans.rm \cap images = {}

\* An add of all kernels without mishap, or any hook's add before the first
\* failure, has each managed kernel fresh or still before it.
RefreshOf(t) ==
  t.oper = "add" /\ t.missed = 0 /\ (t.scope = "all" \/ nFaults = 0) =>
    /\ t.pc \in {"glob", "lookup"} => t.i = 1
    /\ t.pc \in {"lookup", "update", "child"} => \A v \in Todo : Fresh(v) \/ Pending(t, v)
    /\ t.pc = "done" /\ t.ret = 0 => \A v \in Todo : Fresh(v)
RefreshInv == phase = "postRun" /\ tool["hook"].scope = "all" => RefreshOf(tool["hook"])

RInv == SourcesUsed /\ OperInv /\ RefreshInv

\* Until something fails: which kernels are fresh in which phase.
SyncInv ==
  nFaults = 0 =>
    /\ tool["admin"].oper # "remove"
    /\ phase \in {"idle", "pre"} => \A v \in Todo : Fresh(v)
    /\ phase = "preRun" =>
         /\ \A v \in Todo \ trans.rm : Fresh(v)
         /\ tool["hook"].src \subseteq trans.rm
         /\ \A k \in DOMAIN tool["hook"].infos : tool["hook"].infos[k].image \in trans.rm
    /\ phase = "commit" =>
         \A v \in Todo \ trans.rm : Fresh(v) \/ v \in trans.ins \ trans.left
    /\ phase = "post" => \A v \in Todo : Fresh(v) \/ v \in trans.ins \/ trans.other
    /\ phase = "postRun" =>
         tool["hook"].missed = 0 /\ tool["hook"].ret = 0 /\ RefreshOf(tool["hook"])

SInv == HereInv /\ TransInv /\ SyncInv

-----------------------------------------------------------------------------
(* What a step makes of a run.                                             *)

Kept(t, u) ==
  /\ u.infos = t.infos /\ u.i = t.i /\ u.missed = t.missed /\ u.ret = t.ret

Globs(t, u) == t.pc = "glob" /\ u.pc = "lookup" /\ u.src = images /\ Kept(t, u)
Finds(t, u) ==
  /\ t.pc = "lookup" /\ u.pc = "lookup"
  /\ \E v \in images, n \in Pkg : /\ u.infos = Append(t.infos, [image |-> v, pkg |-> n])
                                  /\ u.src = t.src \ {v}
                                  /\ t.scope # "names" => v \in t.src
  /\ u.i = t.i /\ u.missed = t.missed /\ u.ret = t.ret
LooksInVain(t, u) ==
  /\ t.pc = "lookup" /\ u.pc = "done" /\ u.ret = 1 /\ u.src = {}
  /\ u.infos = t.infos /\ u.missed = t.missed
  /\ t.scope = "names" \/ \E v \in t.src : PkgName(v) = NoPkg
Ends(t, u) ==
  /\ u.pc = "done" /\ u.ret = 0 /\ u.src = {} /\ t.src = {}
  /\ u.infos = t.infos /\ u.missed = t.missed
  /\ \/ t.pc = "lookup" /\ \A k \in DOMAIN t.infos : ~IsManaged(t.infos[k])
     \/ t.pc = "update" /\ t.i > Len(t.infos)
Continues(t, u) ==
  /\ t.pc = "lookup" /\ t.src = {} /\ u.pc = "update" /\ u.src = {} /\ Kept(t, u)
Skips(t, u) ==
  /\ t.pc = "update" /\ u.pc = "update" /\ ~IsManaged(t.infos[t.i])
  /\ u.infos = t.infos /\ u.i = t.i + 1 /\ u.src = t.src
  /\ u.missed = t.missed /\ u.ret = t.ret
Spawns(t, u) == t.pc = "update" /\ u.pc = "child" /\ u.src = t.src /\ Kept(t, u)
Reaps(t, u) ==
  /\ t.pc = "child" /\ u.pc = "update" /\ u.infos = t.infos /\ u.i = t.i + 1 /\ u.src = t.src
  /\ u.ret = t.ret
  /\ LET v == t.infos[t.i].image
     IN  \/ /\ t.oper = "add" /\ v \in images /\ u.missed = t.missed
            /\ entries' = entries \cup {v} /\ stale' = stale \ {v}
         \/ t.oper = "add" /\ v \notin images /\ u.missed # 0 /\ UNCHANGED <<entries, stale>>
         \/ t.oper = "remove" /\ u.missed = t.missed /\ entries' = entries \ {v} /\ stale' = stale
         \/ t.oper = "inspect" /\ u.missed = t.missed /\ UNCHANGED <<entries, stale>>

Moves(t, u) ==
  \/ /\ Globs(t, u) \/ Finds(t, u) \/ LooksInVain(t, u) \/ Ends(t, u) \/ Continues(t, u)
        \/ Skips(t, u) \/ Spawns(t, u)
     /\ UNCHANGED <<entries, stale>>
  \/ Reaps(t, u)

LEMMA RunMoves ==
  ASSUME TypeOK, SourcesUsed, NEW p \in Proc, Run(p), ~Exit(p)
  PROVE  /\ Moves(tool[p], tool'[p])
         /\ tool'[p].oper = tool[p].oper /\ tool'[p].scope = tool[p].scope
         /\ tool[p].pc # "idle" /\ tool[p].pc # "done"
         /\ \A q \in Proc : q # p => tool'[q] = tool[q]
         /\ UNCHANGED <<images, phase, trans, nFaults>>
<1>. DEFINE t == tool[p]
            u == tool'[p]
<1>0. t \in ToolRec /\ tool \in [Proc -> ToolRec] /\ images \subseteq Image
  BY DEF TypeOK
<1>1. CASE Glob(p)
  <2>1. t.pc = "glob" /\ tool' = [tool EXCEPT ![p] = [t EXCEPT !.pc = "lookup", !.src = images]]
        /\ UNCHANGED <<images, entries, stale, phase, trans, nFaults>>
    BY <1>0, <1>1 DEF Glob
  <2>2. Globs(t, u) /\ u.oper = t.oper /\ u.scope = t.scope
    BY <1>0, <2>1 DEF Globs, Kept, ToolRec
  <2>. QED
    BY <1>0, <2>1, <2>2 DEF Moves
<1>2. ASSUME NEW v \in images, NEW n \in Pkg, t.pc = "lookup", t.scope # "names" => v \in t.src,
             tool' = [tool EXCEPT ![p] = Found(t, v, n)],
             UNCHANGED <<images, entries, stale, phase, trans, nFaults>>
      PROVE  Finds(t, u) /\ u.oper = t.oper /\ u.scope = t.scope
  BY <1>0, <1>2 DEF Finds, Found, ToolRec
<1>3. ASSUME NEW r \in {0, 1}, tool' = [tool EXCEPT ![p] = Exited(t, r)]
      PROVE  /\ u.pc = "done" /\ u.ret = r /\ u.src = {} /\ u.infos = t.infos /\ u.missed = t.missed
             /\ u.oper = t.oper /\ u.scope = t.scope
  BY <1>0, <1>3 DEF Exited, ToolRec
<1>4. CASE LookupImage(p)
  <2>1. t.pc = "lookup" /\ t.scope # "names" /\ UNCHANGED <<images, entries, stale, phase, trans, nFaults>>
    BY <1>4 DEF LookupImage
  <2>2. PICK v \in t.src :
          IF PkgName(v) = NoPkg
            THEN tool' = [tool EXCEPT ![p] = Exited(t, 1)]
            ELSE tool' = [tool EXCEPT ![p] = Found(t, v, PkgName(v))]
    BY <1>0, <1>4 DEF LookupImage
  <2>3. CASE PkgName(v) = NoPkg
    <3>1. LooksInVain(t, u) /\ u.oper = t.oper /\ u.scope = t.scope
      BY <1>3, <2>1, <2>2, <2>3 DEF LooksInVain
    <3>. QED
      BY <1>0, <2>1, <2>2, <2>3, <3>1 DEF Moves
  <2>4. CASE PkgName(v) # NoPkg
    <3>1. v \in images /\ PkgName(v) \in Pkg
      BY <1>0, <2>4, PkgBaseAssumption DEF PkgName
    <3>2. Finds(t, u) /\ u.oper = t.oper /\ u.scope = t.scope
      BY <1>2, <2>1, <2>2, <2>4, <3>1
    <3>. QED
      BY <1>0, <2>1, <2>2, <2>4, <3>2 DEF Moves
  <2>. QED
    BY <2>3, <2>4
<1>5. CASE LookupName(p)
  <2>1. t.pc = "lookup" /\ t.scope = "names" /\ UNCHANGED <<images, entries, stale, phase, trans, nFaults>>
    BY <1>5 DEF LookupName
  <2>2. PICK n \in t.names :
          \/ tool' = [tool EXCEPT ![p] = Exited(t, 1)]
          \/ \E v \in ImagesNamed(n) : tool' = [tool EXCEPT ![p] = Found(t, v, n)]
    BY <1>0, <1>5 DEF LookupName
  <2>3. CASE tool' = [tool EXCEPT ![p] = Exited(t, 1)]
    <3>1. LooksInVain(t, u) /\ u.oper = t.oper /\ u.scope = t.scope
      BY <1>3, <2>1, <2>3 DEF LooksInVain
    <3>. QED
      BY <1>0, <2>1, <2>3, <3>1 DEF Moves
  <2>4. CASE \E v \in ImagesNamed(n) : tool' = [tool EXCEPT ![p] = Found(t, v, n)]
    <3>1. PICK v \in images : tool' = [tool EXCEPT ![p] = Found(t, v, n)]
      BY <2>4 DEF ImagesNamed
    <3>2. n \in Pkg
      BY <1>0 DEF ToolRec
    <3>3. Finds(t, u) /\ u.oper = t.oper /\ u.scope = t.scope
      BY <1>2, <2>1, <3>1, <3>2
    <3>. QED
      BY <1>0, <2>1, <3>1, <3>3 DEF Moves
  <2>. QED
    BY <2>2, <2>3, <2>4
<1>6. CASE EndLookup(p)
  <2>1. t.pc = "lookup" /\ t.src = {} /\ UNCHANGED <<images, entries, stale, phase, trans, nFaults>>
    BY <1>6 DEF EndLookup
  <2>2. CASE tool' = [tool EXCEPT ![p].pc = "update"]
    <3>1. Continues(t, u) /\ u.oper = t.oper /\ u.scope = t.scope
      BY <1>0, <2>1, <2>2 DEF Continues, Kept, ToolRec
    <3>. QED
      BY <1>0, <2>1, <2>2, <3>1 DEF Moves
  <2>3. CASE ~(\E k \in DOMAIN t.infos : IsManaged(t.infos[k])) /\ tool' = [tool EXCEPT ![p] = Exited(t, 0)]
    <3>1. Ends(t, u) /\ u.oper = t.oper /\ u.scope = t.scope
      BY <1>3, <2>1, <2>3 DEF Ends
    <3>. QED
      BY <1>0, <2>1, <2>3, <3>1 DEF Moves
  <2>. QED
    BY <1>0, <1>6, <2>2, <2>3 DEF EndLookup
<1>7. CASE SkipUnmanaged(p)
  <2>1. t.pc = "update" /\ ~IsManaged(t.infos[t.i]) /\ tool' = [tool EXCEPT ![p].i = @ + 1]
        /\ UNCHANGED <<images, entries, stale, phase, trans, nFaults>>
    BY <1>7 DEF SkipUnmanaged, Current
  <2>2. Skips(t, u) /\ u.oper = t.oper /\ u.scope = t.scope
    BY <1>0, <2>1 DEF Skips, ToolRec
  <2>. QED
    BY <1>0, <2>1, <2>2 DEF Moves
<1>8. CASE Spawn(p)
  <2>1. t.pc = "update" /\ tool' = [tool EXCEPT ![p].pc = "child"]
        /\ UNCHANGED <<images, entries, stale, phase, trans, nFaults>>
    BY <1>8 DEF Spawn
  <2>2. Spawns(t, u) /\ u.oper = t.oper /\ u.scope = t.scope
    BY <1>0, <2>1 DEF Spawns, Kept, ToolRec
  <2>. QED
    BY <1>0, <2>1, <2>2 DEF Moves
<1>9. CASE ChildDone(p)
  <2>1. t.pc = "child" /\ UNCHANGED <<images, phase, trans, nFaults>> /\ Current(p) = t.infos[t.i]
    BY <1>9 DEF ChildDone, Current
  <2>2. ASSUME NEW ok \in BOOLEAN, ChildReaped(p, ok)
        PROVE  /\ u.pc = "update" /\ u.infos = t.infos /\ u.i = t.i + 1 /\ u.src = t.src
               /\ u.ret = t.ret /\ u.oper = t.oper /\ u.scope = t.scope
               /\ IF ok THEN u.missed = t.missed ELSE u.missed # 0
               /\ \A q \in Proc : q # p => tool'[q] = tool[q]
    <3>1. t.missed \in Nat /\ t.missed + 1 # 0
      BY <1>0 DEF ToolRec
    <3>2. u = Reaped(t, ok) /\ \A q \in Proc : q # p => tool'[q] = tool[q]
      BY <1>0, <2>2 DEF ChildReaped
    <3>. HIDE DEF u
    <3>. QED
      BY <1>0, <3>1, <3>2 DEF Reaped, ToolRec
  <2>3. \E ok \in BOOLEAN : ChildReaped(p, ok)
    BY <1>9 DEF ChildDone
  <2>4. Reaps(t, u)
    BY <1>9, <2>1, <2>2 DEF ChildDone, Reaps
  <2>. QED
    BY <2>1, <2>2, <2>3, <2>4 DEF Moves
<1>10. CASE EndUpdate(p)
  <2>1. t.pc = "update" /\ t.i > Len(t.infos) /\ tool' = [tool EXCEPT ![p] = Exited(t, 0)]
        /\ UNCHANGED <<images, entries, stale, phase, trans, nFaults>>
    BY <1>0, <1>10 DEF EndUpdate
  <2>2. t.src = {}
    BY <2>1 DEF SourcesUsed
  <2>3. Ends(t, u) /\ u.oper = t.oper /\ u.scope = t.scope
    BY <1>3, <2>1, <2>2 DEF Ends
  <2>. QED
    BY <1>0, <2>1, <2>3 DEF Moves
<1>. QED
  BY <1>1, <1>4, <1>5, <1>6, <1>7, <1>8, <1>9, <1>10 DEF Run

-----------------------------------------------------------------------------
(* A refresh that goes well.                                               *)

LEMMA AppendRows ==
  ASSUME NEW s \in Seq(Info), NEW e \in Info
  PROVE  /\ DOMAIN Append(s, e) = DOMAIN s \cup {Len(s) + 1}
         /\ Append(s, e)[Len(s) + 1] = e
         /\ \A k \in DOMAIN s : Append(s, e)[k] = s[k]
         /\ Len(s) \in Nat
<1>. DEFINE l == Len(s)
<1>1. DOMAIN s = 1..l /\ l \in Nat /\ DOMAIN Append(s, e) = 1..(l + 1)
  OBVIOUS
<1>2. Append(s, e)[l + 1] = e /\ \A k \in 1..l : Append(s, e)[k] = s[k]
  OBVIOUS
<1>. HIDE DEF l
<1>3. 1..(l + 1) = (1..l) \cup {l + 1}
  BY <1>1
<1>. QED
  BY <1>1, <1>2, <1>3 DEF l

\* What is pending stays so until its turn.
LEMMA PendingStays ==
  ASSUME NEW t \in ToolRec, NEW u, NEW w, Pending(t, w)
  PROVE  /\ Kept(t, u) /\ u.src = t.src => Pending(u, w)
         /\ Finds(t, u) /\ t.i = 1 => Pending(u, w)
         /\ u.infos = t.infos /\ u.i = t.i + 1 /\ t.src = {} /\ t.infos[t.i].image # w => Pending(u, w)
<1>1. ASSUME Kept(t, u), u.src = t.src PROVE Pending(u, w)
  BY <1>1 DEF Kept, Pending
<1>2. ASSUME Finds(t, u), t.i = 1 PROVE Pending(u, w)
  <2>1. PICK v \in images, n \in Pkg : /\ u.infos = Append(t.infos, [image |-> v, pkg |-> n])
                                       /\ u.src = t.src \ {v}
    BY <1>2 DEF Finds
  <2>. DEFINE e == [image |-> v, pkg |-> n]
              l == Len(t.infos)
  <2>2. e \in [image : images, pkg : Pkg] /\ e.image = v
    OBVIOUS
  <2>3. u.i = 1 /\ t.infos \in Seq(Info)
    BY <1>2 DEF Finds, ToolRec
  <2>4. w \in t.src \/ \E k \in DOMAIN t.infos : t.infos[k].image = w
    BY DEF Pending
  <2>5. /\ DOMAIN u.infos = 1..(l + 1) /\ u.infos[l + 1] = e
        /\ \A k \in DOMAIN t.infos : k \in 1..(l + 1) /\ u.infos[k] = t.infos[k] /\ k >= 1
        /\ l + 1 >= 1 /\ l + 1 \in 1..(l + 1)
    BY <2>1, <2>3
  <2>. HIDE DEF e, l
  <2>6. CASE w = v
    BY <2>2, <2>3, <2>5, <2>6 DEF Pending
  <2>7. CASE w # v
    BY <2>1, <2>3, <2>4, <2>5, <2>7 DEF Pending
  <2>. QED
    BY <2>6, <2>7
<1>3. ASSUME u.infos = t.infos, u.i = t.i + 1, t.src = {}, t.infos[t.i].image # w PROVE Pending(u, w)
  <2>1. PICK k \in DOMAIN t.infos : k >= t.i /\ t.infos[k].image = w
    BY <1>3 DEF Pending
  <2>2. t.infos \in Seq(Info) /\ t.i \in Nat
    BY DEF ToolRec
  <2>3. k \in Nat /\ k # t.i
    BY <1>3, <2>1, <2>2
  <2>4. k >= t.i + 1
    BY <2>1, <2>2, <2>3
  <2>. QED
    BY <1>3, <2>1, <2>4 DEF Pending
<1>. QED
  BY <1>1, <1>2, <1>3

\* A run that is through with what it looked up has nothing pending.
LEMMA NothingPending ==
  ASSUME NEW t \in ToolRec, RunSound(t), t.src = {}, NEW w \in ManagedImage, Pending(t, w)
  PROVE  /\ ~(\A k \in DOMAIN t.infos : ~IsManaged(t.infos[k]))
         /\ ~(t.i > Len(t.infos))
<1>1. PICK k \in DOMAIN t.infos : k >= t.i /\ t.infos[k].image = w /\ IsManaged(t.infos[k])
  BY PendingManaged
<1>2. t.infos \in Seq(Info) /\ t.i \in Nat
  BY DEF ToolRec
<1>3. k <= Len(t.infos) /\ k \in Nat /\ Len(t.infos) \in Nat
  BY <1>1, <1>2
<1>. QED
  BY <1>1, <1>2, <1>3

LEMMA RefreshMoves ==
  ASSUME NEW t \in ToolRec, NEW u, RunSound(t), RefreshOf(t), Moves(t, u),
         t.pc \in {"update", "child"} => t.src = {},
         u.oper = t.oper, u.scope = t.scope, t.scope \in {"all", "paths"},
         UNCHANGED <<images, nFaults>>
  PROVE  RefreshOf(u)'
<1>. SUFFICES ASSUME u.oper = "add", u.missed = 0, u.scope = "all" \/ nFaults = 0
              PROVE  /\ u.pc \in {"glob", "lookup"} => u.i = 1
                     /\ u.pc \in {"lookup", "update", "child"} => \A v \in Todo : Fresh(v)' \/ Pending(u, v)
                     /\ u.pc = "done" /\ u.ret = 0 => \A v \in Todo : Fresh(v)'
  BY DEF RefreshOf, Todo
<1>1. t.missed = 0
  BY DEF Moves, Globs, Finds, LooksInVain, Ends, Continues, Skips, Spawns, Kept, Reaps
<1>2. /\ t.pc \in {"glob", "lookup"} => t.i = 1
      /\ t.pc \in {"lookup", "update", "child"} => \A v \in Todo : Fresh(v) \/ Pending(t, v)
  BY <1>1 DEF RefreshOf
<1>3. Todo \subseteq ManagedImage /\ Todo \subseteq images
  BY DEF Todo
<1>4. UNCHANGED <<entries, stale>> => \A v : Fresh(v)' <=> Fresh(v)
  BY DEF Fresh
<1>5. CASE Globs(t, u) /\ UNCHANGED <<entries, stale>>
  BY <1>2, <1>3, <1>5 DEF Globs, Kept, Pending
<1>6. CASE Finds(t, u) /\ UNCHANGED <<entries, stale>>
  <2>1. t.pc = "lookup" /\ u.pc = "lookup" /\ u.i = t.i
    BY <1>6 DEF Finds
  <2>. QED
    BY <1>2, <1>4, <1>6, <2>1, PendingStays
<1>7. CASE LooksInVain(t, u) /\ UNCHANGED <<entries, stale>>
  BY <1>7 DEF LooksInVain
<1>8. CASE Ends(t, u) /\ UNCHANGED <<entries, stale>>
  <2>1. \A v \in Todo : ~Pending(t, v)
    BY <1>3, <1>8, NothingPending DEF Ends
  <2>. QED
    BY <1>2, <1>4, <1>8, <2>1 DEF Ends
<1>9. CASE (Continues(t, u) \/ Spawns(t, u)) /\ UNCHANGED <<entries, stale>>
  <2>1. Kept(t, u) /\ u.src = t.src /\ t.pc \in {"lookup", "update"} /\ u.pc \in {"update", "child"}
    BY <1>9 DEF Continues, Spawns
  <2>. QED
    BY <1>2, <1>4, <1>9, <2>1, PendingStays
<1>10. CASE Skips(t, u) /\ UNCHANGED <<entries, stale>>
  <2>1. \A v \in Todo : Pending(t, v) => Pending(u, v)
    <3>. SUFFICES ASSUME NEW v \in Todo, Pending(t, v) PROVE Pending(u, v)
      OBVIOUS
    <3>1. PICK k \in DOMAIN t.infos : k >= t.i /\ t.infos[k].image = v /\ IsManaged(t.infos[k])
      BY <1>3, <1>10, PendingManaged DEF Skips
    <3>2. t.infos \in Seq(Info) /\ t.i \in Nat /\ k # t.i
      BY <1>10, <3>1 DEF ToolRec, Skips
    <3>3. k \in Nat
      BY <3>1, <3>2
    <3>4. k >= t.i + 1
      BY <3>1, <3>2, <3>3
    <3>. QED
      BY <1>10, <3>1, <3>4 DEF Skips, Pending
  <2>. QED
    BY <1>2, <1>4, <1>10, <2>1 DEF Skips
<1>11. CASE Reaps(t, u)
  <2>. DEFINE x == t.infos[t.i].image
  <2>1. t.pc = "child" /\ u.pc = "update" /\ u.infos = t.infos /\ u.i = t.i + 1 /\ t.src = {}
        /\ entries' = entries \cup {x} /\ stale' = stale \ {x}
    BY <1>11 DEF Reaps
  <2>. HIDE DEF x
  <2>2. \A v : (Fresh(v) => Fresh(v)') /\ (v = x => Fresh(v)')
    BY <2>1 DEF Fresh
  <2>3. \A v \in Todo : Pending(t, v) /\ v # x => Pending(u, v)
    BY <2>1, PendingStays DEF x
  <2>. QED
    BY <1>2, <2>1, <2>2, <2>3
<1>. QED
  BY <1>5, <1>6, <1>7, <1>8, <1>9, <1>10, <1>11 DEF Moves
-----------------------------------------------------------------------------
(* RInv is inductive.                                                      *)

LEMMA RefreshStarts ==
  ASSUME NEW ins, NEW other \in BOOLEAN
  PROVE  LET t == HookRun("add", ins, other)
         IN  /\ t.oper = "add" /\ t.scope = (IF other THEN "all" ELSE "paths")
             /\ t.pc = (IF other THEN "glob" ELSE "lookup")
             /\ t.src = (IF other THEN {} ELSE ins)
             /\ t.infos = <<>> /\ t.i = 1 /\ t.ret = 0 /\ t.missed = 0
BY DEF HookRun, NewRun, TriggerScope, IdleTool

LEMMA RInit == Init => RInv
BY DEF Init, RInv, SourcesUsed, OperInv, RefreshInv, IdleTool, Proc

LEMMA RRun ==
  ASSUME Serial, SerialInv, RInv, NEW p \in Proc, Run(p), ~Exit(p)
  PROVE  RInv'
<1>. DEFINE t == tool[p]
            u == tool'[p]
<1>0. TypeOK /\ SourcesUsed /\ OperInv /\ RefreshInv /\ RunSound(t) /\ t \in ToolRec
      /\ p \in {"hook", "admin"} /\ "hook" \in Proc
  BY DEF SerialInv, ManagedInv, RInv, TypeOK, RunsSound, Proc
<1>1. /\ Moves(t, u) /\ u.oper = t.oper /\ u.scope = t.scope
      /\ t.pc # "idle"
      /\ \A q \in Proc : q # p => tool'[q] = tool[q]
      /\ UNCHANGED <<images, phase, trans, nFaults>>
  BY <1>0, RunMoves
<1>2. SourcesUsed'
  <2>1. t.pc \in {"update", "child"} => t.src = {}
    BY <1>0 DEF SourcesUsed
  <2>2. u.pc \in {"update", "child"} => u.src = {}
    BY <1>1, <2>1 DEF Moves, Globs, Finds, LooksInVain, Ends, Continues, Skips, Spawns, Reaps
  <2>. QED
    BY <1>0, <1>1, <2>2 DEF SourcesUsed
<1>3. OperInv'
  BY <1>0, <1>1 DEF OperInv, Proc
<1>4. RefreshInv'
  <2>1. CASE p = "admin"
    BY <1>1, <2>1 DEF SerialInv, AdminWaits, RefreshInv
  <2>2. CASE p = "hook"
    <3>1. CASE phase = "postRun" /\ t.scope = "all"
      <4>1. RefreshOf(t) /\ (t.pc \in {"update", "child"} => t.src = {})
        BY <1>0, <2>2, <3>1 DEF RefreshInv, SourcesUsed
      <4>2. PICK x : x = u
        OBVIOUS
      <4>3. Moves(t, x) /\ x.oper = t.oper /\ x.scope = t.scope
        BY <1>1, <4>2
      <4>4. RefreshOf(x)'
        BY <1>0, <1>1, <3>1, <4>1, <4>3, RefreshMoves
      <4>. QED
        BY <2>2, <4>2, <4>4 DEF RefreshInv, RefreshOf, Pending
    <3>2. CASE ~(phase = "postRun" /\ t.scope = "all")
      BY <1>1, <2>2, <3>2 DEF RefreshInv
    <3>. QED
      BY <3>1, <3>2
  <2>. QED
    BY <1>0, <2>1, <2>2
<1>. QED
  BY <1>2, <1>3, <1>4 DEF RInv

LEMMA RRest ==
  ASSUME Serial, SerialInv, RInv, [Next]_vars, \A p \in Proc : Run(p) => Exit(p)
  PROVE  RInv'
<1>0. /\ TypeOK /\ SourcesUsed /\ OperInv /\ RefreshInv /\ tool \in [Proc -> ToolRec]
      /\ "hook" \in Proc /\ "admin" \in Proc
  BY DEF SerialInv, ManagedInv, RInv, TypeOK, Proc
<1>1. ASSUME NEW rm \in SUBSET Image, NEW ins \in SUBSET Image, NEW other \in BOOLEAN,
             Begin(rm, ins, other)
      PROVE  RInv'
  BY <1>0, <1>1 DEF Begin, RInv, SourcesUsed, OperInv, RefreshInv
<1>2. CASE PreHook
  <2>1. CASE phase' = "commit" /\ tool' = tool
    BY <1>0, <2>1 DEF RInv, SourcesUsed, OperInv, RefreshInv
  <2>2. CASE phase' = "preRun" /\ tool' = [tool EXCEPT !["hook"] = HookRun("remove", trans.rm, FALSE)]
    <3>1. tool'["hook"] = HookRun("remove", trans.rm, FALSE) /\ tool'["admin"] = tool["admin"]
      BY <1>0, <2>2
    <3>2. LET t == tool'["hook"] IN t.pc = "lookup" /\ t.oper = "remove" /\ t.scope = "paths"
      BY <3>1 DEF HookRun, NewRun, TriggerScope, IdleTool
    <3>. QED
      BY <1>0, <2>2, <3>1, <3>2 DEF RInv, SourcesUsed, OperInv, RefreshInv, Proc
  <2>. QED
    BY <1>2, <2>1, <2>2 DEF PreHook
<1>3. CASE \E v \in Image : CommitRemove(v) \/ CommitInstall(v)
  <2>1. phase' = "commit" /\ tool' = tool
    BY <1>3 DEF CommitRemove, CommitInstall
  <2>. QED
    BY <1>0, <2>1 DEF RInv, SourcesUsed, OperInv, RefreshInv
<1>4. CASE CommitEnd
  BY <1>0, <1>4 DEF CommitEnd, RInv, SourcesUsed, OperInv, RefreshInv
<1>5. CASE PostHook
  <2>1. CASE phase' = "idle" /\ tool' = tool
    BY <1>0, <2>1 DEF RInv, SourcesUsed, OperInv, RefreshInv
  <2>2. CASE phase' = "postRun" /\ tool' = [tool EXCEPT !["hook"] = HookRun("add", trans.ins, trans.other)]
    <3>1. trans.other \in BOOLEAN
      BY <1>0 DEF TypeOK, TransRec
    <3>2. tool'["hook"] = HookRun("add", trans.ins, trans.other) /\ tool'["admin"] = tool["admin"]
      BY <1>0, <2>2
    <3>3. LET t == tool'["hook"]
          IN  /\ t.oper = "add" /\ t.scope = (IF trans.other THEN "all" ELSE "paths")
              /\ t.pc = (IF trans.other THEN "glob" ELSE "lookup") /\ t.i = 1
      BY <3>1, <3>2, RefreshStarts
    <3>. QED
      BY <1>0, <2>2, <3>2, <3>3 DEF RInv, SourcesUsed, OperInv, RefreshInv, RefreshOf, Proc
  <2>. QED
    BY <1>5, <2>1, <2>2 DEF PostHook
<1>6. ASSUME NEW oper \in AdminOpers,
             NEW names \in {{n} : n \in Pkg} \cup {Managed}, AdminRun(oper, names)
      PROVE  RInv'
  <2>1. /\ tool'["admin"] = NewRun(oper, "names", {}, names) /\ tool'["hook"] = tool["hook"]
        /\ UNCHANGED phase /\ phase = "idle"
    BY <1>0, <1>6 DEF AdminRun, Serial
  <2>2. tool'["admin"].scope = "names" /\ tool'["admin"].src = {}
    BY <2>1 DEF NewRun, IdleTool
  <2>. QED
    BY <1>0, <2>1, <2>2 DEF RInv, SourcesUsed, OperInv, RefreshInv, Proc
<1>7. ASSUME NEW p \in Proc, Exit(p)
      PROVE  RInv'
  <2>1. /\ tool'[p] = IdleTool /\ \A q \in Proc : q # p => tool'[q] = tool[q]
        /\ tool[p].pc = "done"
        /\ (phase' = phase /\ p = "admin") \/ phase' \in {"commit", "idle"}
    BY <1>0, <1>7 DEF Exit, Proc
  <2>2. IdleTool.pc = "idle" /\ IdleTool.scope = "none"
    BY DEF IdleTool
  <2>. QED
    BY <1>0, <2>1, <2>2 DEF RInv, SourcesUsed, OperInv, RefreshInv, Proc, SerialInv, AdminWaits
<1>8. ASSUME NEW p \in Proc, Failure(p)
      PROVE  RInv'
  <2>. DEFINE t == tool[p]
              u == tool'[p]
  <2>1. t \in ToolRec /\ \A q \in Proc : q # p => tool'[q] = tool[q]
    BY <1>0, <1>8 DEF Failure, InitFails, SpawnFails, ChildFails, ChildReaped
  <2>2. UNCHANGED <<images, entries, stale, phase, trans>> /\ t.pc # "idle"
    BY <1>8 DEF Failure, InitFails, SpawnFails, ChildFails
  <2>3. u = Exited(t, 1) \/ (t.pc = "child" /\ u = Reaped(t, FALSE))
    BY <1>0, <1>8 DEF Failure, InitFails, SpawnFails, ChildFails, ChildReaped
  <2>4. /\ u.oper = t.oper /\ u.scope = t.scope
        /\ \/ u.pc = "done" /\ u.ret = 1
           \/ t.pc = "child" /\ u.pc = "update" /\ u.src = t.src /\ u.missed # 0
    <3>1. t.missed \in Nat /\ t.missed + 1 # 0
      BY <2>1 DEF ToolRec
    <3>. HIDE DEF u
    <3>. QED
      BY <2>1, <2>3, <3>1 DEF Exited, Reaped, ToolRec
  <2>5. p = "hook" => RefreshInv'
    BY <2>4 DEF RefreshInv, RefreshOf
  <2>6. p = "admin" => RefreshInv'
    BY <2>2 DEF SerialInv, AdminWaits, RefreshInv
  <2>. QED
    BY <1>0, <2>1, <2>2, <2>4, <2>5, <2>6 DEF RInv, SourcesUsed, OperInv, Proc
<1>9. CASE Crash
  <2>1. phase' = "idle" /\ \A p \in Proc : tool'[p] = IdleTool
    BY <1>9 DEF Crash
  <2>. QED
    BY <1>0, <2>1 DEF RInv, SourcesUsed, OperInv, RefreshInv, IdleTool
<1>10. CASE UNCHANGED vars
  BY <1>0, <1>10 DEF vars, RInv, SourcesUsed, OperInv, RefreshInv, RefreshOf, Todo, Fresh, Pending
<1>. QED
  BY <1>1, <1>2, <1>3, <1>4, <1>5, <1>6, <1>7, <1>8, <1>9, <1>10 DEF Next, Pacman

LEMMA RStep ==
  ASSUME Serial, SerialInv, RInv, [Next]_vars
  PROVE  RInv'
<1>1. CASE \E p \in Proc : Run(p) /\ ~Exit(p)
  BY <1>1, RRun
<1>2. CASE ~(\E p \in Proc : Run(p) /\ ~Exit(p))
  BY <1>2, RRest
<1>. QED
  BY <1>1, <1>2

\* Whatever failures and power losses left behind, with any sets of kernels
\* and packages: a hook's refresh of all kernels that itself went well leaves
\* every managed kernel with a current entry.
THEOREM RefreshRepairsAlways ==
  ASSUME Serial
  PROVE  Spec => []RefreshRepairs
<1>1. Init => RInv
  BY RInit
<1>2. SerialInv /\ RInv /\ [Next]_vars => RInv'
  BY RStep
<1>3. SerialInv /\ RInv => RefreshRepairs
  <2>. SUFFICES ASSUME SerialInv, RInv, NEW p \in Proc, tool[p].pc = "done", tool[p].ret = 0,
                       tool[p].oper = "add", tool[p].scope = "all", tool[p].missed = 0
                PROVE  Todo \subseteq entries \ stale
    BY DEF RefreshRepairs, Todo
  <2>1. p = "hook" /\ phase = "postRun"
    BY DEF RInv, OperInv, SerialInv, HookInPlace, Proc
  <2>. QED
    BY <2>1 DEF RInv, RefreshInv, RefreshOf, Fresh
<1>. QED
  BY <1>1, <1>2, <1>3, SerialInvariant, PTL DEF Spec
-----------------------------------------------------------------------------
(* SInv is inductive where every kernel comes with a package and the       *)
(* administrator removes nothing.                                          *)

LEMMA HereMoves ==
  ASSUME NEW t \in ToolRec, NEW u, HereOf(t), Moves(t, u), t.pc # "idle", UNCHANGED images
  PROVE  HereOf(u)'
<1>. SUFFICES u.src \subseteq images /\ \A k \in DOMAIN u.infos : u.infos[k].image \in images
  BY DEF HereOf
<1>1. t.src \subseteq images /\ \A k \in DOMAIN t.infos : t.infos[k].image \in images
  BY DEF HereOf
<1>2. CASE Finds(t, u)
  <2>1. PICK v \in images, n \in Pkg : /\ u.infos = Append(t.infos, [image |-> v, pkg |-> n])
                                       /\ u.src = t.src \ {v}
    BY <1>2 DEF Finds
  <2>. DEFINE e == [image |-> v, pkg |-> n]
              l == Len(t.infos)
  <2>2. e.image = v
    OBVIOUS
  <2>3. t.infos \in Seq(Info)
    BY DEF ToolRec
  <2>4. /\ \A k \in DOMAIN u.infos : k \in DOMAIN t.infos \/ k = l + 1
        /\ u.infos[l + 1] = e
        /\ \A k \in DOMAIN t.infos : u.infos[k] = t.infos[k]
    BY <2>1, <2>3
  <2>. HIDE DEF e, l
  <2>. QED
    BY <1>1, <2>1, <2>2, <2>4
<1>3. CASE ~Finds(t, u)
  <2>1. u.infos = t.infos /\ u.src \in {images, {}, t.src}
    BY <1>3 DEF Moves, Globs, LooksInVain, Ends, Continues, Skips, Spawns, Reaps, Kept
  <2>. QED
    BY <1>1, <2>1
<1>. QED
  BY <1>2, <1>3

LEMMA SInit == Init => SInv
<1>. SUFFICES ASSUME Init PROVE SInv
  OBVIOUS
<1>1. \A p \in Proc : tool[p] = IdleTool
  BY DEF Init
<1>2. IdleTool.pc = "idle" /\ IdleTool.oper = "none" /\ "admin" \in Proc
  BY DEF IdleTool, Proc
<1>. QED
  BY <1>1, <1>2 DEF Init, SInv, HereInv, HereOf, TransInv, SyncInv, Todo, Fresh

Tidy == "remove" \notin AdminOpers /\ Packaged = Image

\* A hook's add run in which nothing has failed does not fail.
LEMMA AddGoesWell ==
  ASSUME Packaged = Image, NEW t \in ToolRec, NEW u, HereOf(t), RunSound(t), Moves(t, u),
         images \subseteq Image, t.oper = "add", t.scope \in {"all", "paths"}, t.missed = 0, t.ret = 0
  PROVE  u.missed = 0 /\ u.ret = 0
<1>1. ~LooksInVain(t, u)
  <2>. SUFFICES ASSUME LooksInVain(t, u) PROVE FALSE
    OBVIOUS
  <2>1. PICK v \in t.src : PkgName(v) = NoPkg
    BY DEF LooksInVain
  <2>2. v \in images /\ v \in Image
    BY <2>1 DEF LooksInVain, HereOf
  <2>. QED
    BY <2>1, <2>2 DEF PkgName, Packaged
<1>2. Reaps(t, u) => t.infos[t.i].image \in images
  BY DEF Reaps, RunSound, HereOf
<1>. QED
  BY <1>1, <1>2 DEF Moves, Globs, Finds, Ends, Continues, Skips, Spawns, Reaps, Kept

\* The remove hook's run keeps to what pacman removes.
LEMMA RemoveKeepsTo ==
  ASSUME NEW t \in ToolRec, NEW u, NEW S, RunSound(t), Moves(t, u), t.oper = "remove",
         t.scope = "paths", t.pc # "glob",
         t.src \subseteq S, \A k \in DOMAIN t.infos : t.infos[k].image \in S
  PROVE  /\ u.src \subseteq S /\ \A k \in DOMAIN u.infos : u.infos[k].image \in S
         /\ \A v : v \notin S /\ Fresh(v) => Fresh(v)'
<1>1. CASE Finds(t, u) /\ UNCHANGED <<entries, stale>>
  <2>1. PICK v \in S, n \in Pkg : /\ u.infos = Append(t.infos, [image |-> v, pkg |-> n])
                                  /\ u.src = t.src \ {v}
    BY <1>1 DEF Finds
  <2>. DEFINE e == [image |-> v, pkg |-> n]
              l == Len(t.infos)
  <2>2. e.image = v
    OBVIOUS
  <2>3. t.infos \in Seq(Info)
    BY DEF ToolRec
  <2>4. /\ \A k \in DOMAIN u.infos : k \in DOMAIN t.infos \/ k = l + 1
        /\ u.infos[l + 1] = e
        /\ \A k \in DOMAIN t.infos : u.infos[k] = t.infos[k]
    BY <2>1, <2>3
  <2>. HIDE DEF e, l
  <2>. QED
    BY <1>1, <2>1, <2>2, <2>4 DEF Fresh
<1>2. CASE ~Finds(t, u) /\ ~Reaps(t, u)
  <2>1. u.infos = t.infos /\ u.src \in {{}, t.src} /\ UNCHANGED <<entries, stale>>
    BY <1>2 DEF Moves, Globs, LooksInVain, Ends, Continues, Skips, Spawns, Kept
  <2>. QED
    BY <2>1 DEF Fresh
<1>3. CASE Reaps(t, u)
  <2>1. t.infos[t.i].image \in S
    BY <1>3 DEF Reaps, RunSound
  <2>. QED
    BY <1>3, <2>1 DEF Reaps, Fresh
<1>. QED
  BY <1>1, <1>2, <1>3 DEF Moves

LEMMA SRun ==
  ASSUME Serial, Tidy, SerialInv, RInv, SInv, NEW p \in Proc, Run(p), ~Exit(p)
  PROVE  SInv'
<1>. DEFINE t == tool[p]
            u == tool'[p]
<1>0. TypeOK /\ SourcesUsed /\ OperInv /\ RunSound(t) /\ t \in ToolRec /\ HereOf(t)
      /\ HereInv /\ TransInv /\ SyncInv /\ images \subseteq Image
      /\ p \in {"hook", "admin"} /\ "hook" \in Proc /\ "admin" \in Proc
  BY DEF SerialInv, ManagedInv, RInv, TypeOK, RunsSound, Proc, SInv, HereInv
<1>1. /\ Moves(t, u) /\ u.oper = t.oper /\ u.scope = t.scope
      /\ t.pc # "idle"
      /\ \A q \in Proc : q # p => tool'[q] = tool[q]
      /\ UNCHANGED <<images, phase, trans, nFaults>>
  BY <1>0, RunMoves
<1>. PICK x : x = u
  OBVIOUS
<1>2. Moves(t, x) /\ x.oper = t.oper /\ x.scope = t.scope
  BY <1>1
<1>3. HereInv'
  <2>1. HereOf(x)'
    BY <1>0, <1>1, <1>2, HereMoves
  <2>. QED
    BY <1>0, <1>1, <2>1 DEF HereInv, HereOf
<1>4. TransInv'
  BY <1>0, <1>1 DEF TransInv
<1>5. ASSUME nFaults = 0 PROVE SyncInv'
  <2>1. CASE p = "admin"
    <3>1. phase = "idle" /\ t.oper # "remove"
      BY <1>0, <1>1, <1>5, <2>1 DEF SerialInv, AdminWaits, SyncInv
    <3>2. \A v : Fresh(v) => Fresh(v)'
      BY <1>2, <3>1 DEF Moves, Reaps, Fresh
    <3>. QED
      BY <1>0, <1>1, <1>5, <2>1, <3>1, <3>2 DEF SyncInv, Todo
  <2>2. CASE p = "hook" /\ phase = "preRun"
    <3>1. /\ t.oper = "remove" /\ t.scope = "paths" /\ t.pc # "glob"
          /\ t.src \subseteq trans.rm /\ \A k \in DOMAIN t.infos : t.infos[k].image \in trans.rm
          /\ \A v \in Todo \ trans.rm : Fresh(v)
      BY <1>0, <1>5, <2>2 DEF OperInv, SyncInv, SerialInv, PreRunInv, Withdrawing
    <3>2. /\ x.src \subseteq trans.rm /\ \A k \in DOMAIN x.infos : x.infos[k].image \in trans.rm
          /\ \A v : v \notin trans.rm /\ Fresh(v) => Fresh(v)'
      BY <1>0, <1>2, <3>1, RemoveKeepsTo
    <3>. QED
      BY <1>0, <1>1, <1>5, <2>2, <3>1, <3>2 DEF SyncInv, Todo
  <2>3. CASE p = "hook" /\ phase = "postRun"
    <3>1. /\ t.oper = "add" /\ t.scope \in {"all", "paths"} /\ t.missed = 0 /\ t.ret = 0
          /\ RefreshOf(t) /\ (t.pc \in {"update", "child"} => t.src = {})
      BY <1>0, <1>5, <2>3 DEF OperInv, SyncInv, SourcesUsed
    <3>2. x.missed = 0 /\ x.ret = 0
      BY <1>0, <1>2, <3>1, AddGoesWell DEF Tidy
    <3>3. RefreshOf(x)'
      BY <1>0, <1>1, <1>2, <3>1, RefreshMoves
    <3>4. RefreshOf(tool["hook"])'
      BY <2>3, <3>3 DEF RefreshOf, Pending
    <3>. QED
      BY <1>0, <1>1, <1>5, <2>3, <3>2, <3>4 DEF SyncInv
  <2>. QED
    BY <1>0, <1>1, <2>1, <2>2, <2>3 DEF SerialInv, HookInPlace
<1>6. SyncInv'
  BY <1>1, <1>5 DEF SyncInv
<1>. QED
  BY <1>3, <1>4, <1>6 DEF SInv
\* The steps of pacman.
LEMMA SPacman ==
  ASSUME Serial, Tidy, SerialInv, RInv, SInv, Pacman
  PROVE  SInv'
<1>0. /\ TypeOK /\ OperInv /\ HereInv /\ TransInv /\ SyncInv /\ tool \in [Proc -> ToolRec]
      /\ Proc = {"hook", "admin"} /\ trans \in TransRec /\ images \subseteq Image
      /\ nFaults' = nFaults
  BY DEF SerialInv, ManagedInv, RInv, TypeOK, Proc, SInv, Pacman, PreHook, CommitRemove,
     CommitInstall, CommitEnd, PostHook
<1>1. CASE PreHook
  <2>0. UNCHANGED <<images, entries, stale, trans>> /\ phase = "pre"
    BY <1>1 DEF PreHook
  <2>1. CASE trans.rm = {}
    <3>1. phase' = "commit" /\ tool' = tool
      BY <1>1, <2>1 DEF PreHook
    <3>. QED
      BY <1>0, <2>0, <2>1, <3>1 DEF SInv, HereInv, HereOf, TransInv, SyncInv, Todo, Fresh
  <2>2. CASE trans.rm # {}
    <3>1. phase' = "preRun" /\ tool' = [tool EXCEPT !["hook"] = HookRun("remove", trans.rm, FALSE)]
      BY <1>1, <2>2 DEF PreHook
    <3>2. tool'["hook"] = HookRun("remove", trans.rm, FALSE) /\ tool'["admin"] = tool["admin"]
      BY <1>0, <3>1
    <3>. PICK x : x = tool'["hook"]
      OBVIOUS
    <3>3. x.src = trans.rm /\ x.infos = <<>> /\ DOMAIN x.infos = {}
      BY <3>2 DEF HookRun, NewRun, TriggerScope, IdleTool
    <3>4. trans.rm \subseteq images
      BY <2>0 DEF SerialInv, RemovedInv
    <3>5. HereInv'
      BY <1>0, <2>0, <3>2, <3>3, <3>4 DEF HereInv, HereOf
    <3>6. TransInv'
      BY <1>0, <2>0, <3>1 DEF TransInv
    <3>7. SyncInv'
      BY <1>0, <2>0, <3>1, <3>2, <3>3 DEF SyncInv, Todo, Fresh
    <3>. QED
      BY <3>5, <3>6, <3>7 DEF SInv
  <2>. QED
    BY <2>1, <2>2
<1>2. ASSUME NEW v \in Image, CommitRemove(v) \/ CommitInstall(v), UNCHANGED <<entries, phase, tool>>,
             phase = "commit", trans'.left = trans.left \ {v}, trans'.rm = trans.rm, trans'.ins = trans.ins,
             \/ v \in trans.rm /\ images' = images \ {v} /\ stale' = stale
             \/ v \in trans.ins /\ images' = images \cup {v} /\ stale' = stale \cup {v}
      PROVE  SInv'
  <2>1. \A p \in Proc : tool'[p].pc = "idle"
    BY <1>0, <1>2 DEF SerialInv, AdminWaits, HookInPlace
  <2>2. HereInv'
    BY <2>1 DEF HereInv, HereOf
  <2>3. TransInv'
    BY <1>0, <1>2 DEF TransInv
  <2>4. SyncInv'
    BY <1>0, <1>2 DEF SyncInv, TransInv, Todo, Fresh
  <2>. QED
    BY <2>2, <2>3, <2>4 DEF SInv
<1>3. ASSUME NEW v \in Image, CommitRemove(v) \/ CommitInstall(v)
      PROVE  SInv'
  <2>1. /\ trans'.left = trans.left \ {v} /\ trans'.rm = trans.rm /\ trans'.ins = trans.ins
        /\ UNCHANGED <<entries, phase, tool>> /\ phase = "commit"
    BY <1>0, <1>3 DEF CommitRemove, CommitInstall, TransRec
  <2>2. \/ v \in trans.rm /\ images' = images \ {v} /\ stale' = stale
        \/ v \in trans.ins /\ images' = images \cup {v} /\ stale' = stale \cup {v}
    BY <1>3 DEF CommitRemove, CommitInstall
  <2>. QED
    BY <1>2, <1>3, <2>1, <2>2
<1>4. CASE CommitEnd
  <2>1. /\ phase = "commit" /\ trans.left = {} /\ phase' = "post"
        /\ stale' = IF trans.other THEN Image ELSE stale
        /\ UNCHANGED <<images, entries, trans, tool>>
    BY <1>4 DEF CommitEnd
  <2>. QED
    BY <1>0, <2>1 DEF SInv, HereInv, HereOf, TransInv, SyncInv, Todo, Fresh
<1>5. CASE PostHook
  <2>0. UNCHANGED <<images, entries, stale>> /\ phase = "post"
    BY <1>5 DEF PostHook
  <2>1. CASE trans.ins = {} /\ ~trans.other
    <3>1. phase' = "idle" /\ tool' = tool
      BY <1>5, <2>1 DEF PostHook
    <3>. QED
      BY <1>0, <2>0, <2>1, <3>1 DEF SInv, HereInv, HereOf, TransInv, SyncInv, Todo, Fresh
  <2>2. CASE ~(trans.ins = {} /\ ~trans.other)
    <3>1. /\ phase' = "postRun" /\ trans' = trans
          /\ tool' = [tool EXCEPT !["hook"] = HookRun("add", trans.ins, trans.other)]
      BY <1>5, <2>2 DEF PostHook
    <3>2. /\ tool'["hook"] = HookRun("add", trans.ins, trans.other) /\ tool'["admin"] = tool["admin"]
          /\ trans.other \in BOOLEAN
      BY <1>0, <3>1 DEF TransRec
    <3>. PICK x : x = tool'["hook"]
      OBVIOUS
    <3>3. /\ x.oper = "add" /\ x.scope = (IF trans.other THEN "all" ELSE "paths")
          /\ x.pc = (IF trans.other THEN "glob" ELSE "lookup")
          /\ x.src = (IF trans.other THEN {} ELSE trans.ins)
          /\ x.infos = <<>> /\ x.i = 1 /\ x.ret = 0 /\ x.missed = 0
      BY <3>2, RefreshStarts
    <3>4. HereInv'
      BY <1>0, <2>0, <3>2, <3>3 DEF HereInv, HereOf, TransInv
    <3>5. TransInv'
      BY <3>1 DEF TransInv
    <3>6. ASSUME nFaults = 0 PROVE RefreshOf(x)'
      <4>1. \A v \in Todo : Fresh(v) \/ v \in trans.ins \/ trans.other
        BY <1>0, <2>0, <3>6 DEF SyncInv
      <4>2. \A v \in Todo : Fresh(v)' \/ Pending(x, v) \/ trans.other
        BY <2>0, <3>3, <4>1 DEF Fresh, Pending
      <4>. QED
        BY <2>0, <3>3, <4>2 DEF RefreshOf, Todo
    <3>7. SyncInv'
      <4>1. nFaults = 0 => RefreshOf(tool["hook"])'
        BY <3>6 DEF RefreshOf, Pending
      <4>. QED
        BY <1>0, <3>1, <3>2, <3>3, <4>1 DEF SyncInv
    <3>. QED
      BY <3>4, <3>5, <3>7 DEF SInv
  <2>. QED
    BY <2>1, <2>2
<1>. QED
  BY <1>1, <1>3, <1>4, <1>5 DEF Pacman

LEMMA SRest ==
  ASSUME Serial, Tidy, SerialInv, RInv, SInv, [Next]_vars, \A p \in Proc : Run(p) => Exit(p)
  PROVE  SInv'
<1>0. /\ TypeOK /\ OperInv /\ HereInv /\ TransInv /\ SyncInv /\ tool \in [Proc -> ToolRec]
      /\ "hook" \in Proc /\ "admin" \in Proc /\ nFaults \in Nat
  BY DEF SerialInv, ManagedInv, RInv, TypeOK, Proc, SInv
<1>1. ASSUME NEW rm \in SUBSET Image, NEW ins \in SUBSET Image, NEW other \in BOOLEAN,
             Begin(rm, ins, other)
      PROVE  SInv'
  <2>1. /\ UNCHANGED <<images, entries, stale, tool, nFaults>> /\ phase = "idle" /\ phase' = "pre"
        /\ trans'.rm = rm /\ trans'.ins = ins /\ trans'.left = rm \cup ins /\ rm \cap ins = {}
    BY <1>1 DEF Begin
  <2>. QED
    BY <1>0, <2>1 DEF SInv, HereInv, HereOf, TransInv, SyncInv, Todo, Fresh
<1>2. ASSUME NEW oper \in AdminOpers,
             NEW names \in {{n} : n \in Pkg} \cup {Managed}, AdminRun(oper, names)
      PROVE  SInv'
  <2>1. /\ tool'["admin"] = NewRun(oper, "names", {}, names) /\ tool'["hook"] = tool["hook"]
        /\ UNCHANGED <<images, entries, stale, phase, trans, nFaults>> /\ phase = "idle"
    BY <1>0, <1>2 DEF AdminRun, Serial
  <2>2. LET t == tool'["admin"] IN t.oper = oper /\ t.src = {} /\ t.infos = <<>>
    BY <2>1 DEF NewRun, IdleTool
  <2>3. oper # "remove"
    BY DEF Tidy
  <2>. QED
    BY <1>0, <2>1, <2>2, <2>3 DEF SInv, HereInv, HereOf, TransInv, SyncInv, Todo, Fresh, Proc
<1>3. ASSUME Exit("admin")
      PROVE  SInv'
  <2>1. /\ tool'["admin"] = IdleTool /\ tool'["hook"] = tool["hook"] /\ tool["admin"].pc = "done"
        /\ UNCHANGED <<images, entries, stale, phase, trans, nFaults>>
    BY <1>0, <1>3 DEF Exit
  <2>2. IdleTool.pc = "idle" /\ IdleTool.oper = "none" /\ phase = "idle"
    BY <2>1 DEF IdleTool, SerialInv, AdminWaits
  <2>. QED
    BY <1>0, <2>1, <2>2 DEF SInv, HereInv, HereOf, TransInv, SyncInv, Todo, Fresh, Proc
<1>4. ASSUME Exit("hook")
      PROVE  SInv'
  <2>1. /\ tool'["hook"] = IdleTool /\ tool'["admin"] = tool["admin"] /\ tool["hook"].pc = "done"
        /\ UNCHANGED <<images, entries, stale, nFaults>>
        /\ phase' = (IF phase = "preRun" THEN "commit" ELSE "idle")
        /\ phase = "preRun" => trans' = trans
    BY <1>0, <1>4 DEF Exit
  <2>2. IdleTool.pc = "idle" /\ phase \in {"preRun", "postRun"}
    BY <2>1 DEF IdleTool, SerialInv, HookInPlace
  <2>3. HereInv'
    BY <1>0, <2>1, <2>2 DEF HereInv, HereOf, Proc
  <2>4. TransInv'
    BY <1>0, <2>1, <2>2 DEF TransInv
  <2>5. CASE phase = "preRun"
    BY <1>0, <2>1, <2>3, <2>4, <2>5 DEF SInv, SyncInv, Todo, Fresh
  <2>6. CASE phase = "postRun"
    <3>1. nFaults = 0 => \A v \in Todo : Fresh(v)
      BY <1>0, <2>1, <2>6 DEF SyncInv, OperInv, RefreshOf
    <3>. QED
      BY <1>0, <2>1, <2>3, <2>4, <2>6, <3>1 DEF SInv, SyncInv, Todo, Fresh
  <2>. QED
    BY <2>2, <2>5, <2>6
<1>5. ASSUME NEW p \in Proc, Failure(p)
      PROVE  SInv'
  <2>. DEFINE t == tool[p]
  <2>1. t \in ToolRec /\ \A q \in Proc : q # p => tool'[q] = tool[q]
    BY <1>0, <1>5 DEF Failure, InitFails, SpawnFails, ChildFails, ChildReaped
  <2>2. UNCHANGED <<images, phase, trans>> /\ t.pc # "idle" /\ nFaults' = nFaults + 1
    BY <1>5 DEF Failure, InitFails, SpawnFails, ChildFails, Fault
  <2>. PICK x : x = tool'[p]
    OBVIOUS
  <2>3. x = Exited(t, 1) \/ x = Reaped(t, FALSE)
    BY <1>0, <1>5 DEF Failure, InitFails, SpawnFails, ChildFails, ChildReaped
  <2>4. x.src \in {{}, t.src} /\ x.infos = t.infos
    BY <2>1, <2>3 DEF Exited, Reaped, ToolRec
  <2>5. HereInv'
    BY <1>0, <2>1, <2>2, <2>4 DEF HereInv, HereOf
  <2>. QED
    BY <1>0, <2>2, <2>5 DEF SInv, TransInv, SyncInv
<1>6. CASE Crash
  <2>1. phase' = "idle" /\ (\A p \in Proc : tool'[p] = IdleTool) /\ nFaults' = nFaults + 1
    BY <1>6 DEF Crash, Fault
  <2>. QED
    BY <1>0, <2>1 DEF SInv, HereInv, HereOf, TransInv, SyncInv, IdleTool
<1>7. CASE UNCHANGED vars
  BY <1>0, <1>7 DEF vars, SInv, HereInv, HereOf, TransInv, SyncInv, RefreshOf, Todo, Fresh, Pending
<1>8. CASE Pacman
  BY <1>8, SPacman
<1>9. ASSUME NEW p \in Proc, Run(p) PROVE SInv'
  BY <1>3, <1>4, <1>9 DEF Proc
<1>. QED
  BY <1>1, <1>2, <1>5, <1>6, <1>7, <1>8, <1>9 DEF Next

LEMMA SStep ==
  ASSUME Serial, Tidy, SerialInv, RInv, SInv, [Next]_vars
  PROVE  SInv'
<1>1. CASE \E p \in Proc : Run(p) /\ ~Exit(p)
  BY <1>1, SRun
<1>2. CASE ~(\E p \in Proc : Run(p) /\ ~Exit(p))
  BY <1>2, SRest
<1>. QED
  BY <1>1, <1>2

\* Where runs do not overlap, the administrator removes no entry and every
\* kernel comes with a package: until something fails, with any number of
\* transactions, pacman idle finds every managed kernel with an entry made after
\* the last change of its files and of what its initrd is built from.
THEOREM SyncedAlways ==
  ASSUME Serial, "remove" \notin AdminOpers, Packaged = Image
  PROVE  Spec => []SyncedWhenIdle
<1>0. Tidy
  BY DEF Tidy
<1>1. Init => RInv /\ SInv
  BY RInit, SInit
<1>2. SerialInv /\ RInv /\ SInv /\ [Next]_vars => (RInv /\ SInv)'
  BY <1>0, RStep, SStep
<1>3. SInv => SyncedWhenIdle
  BY DEF SInv, SyncInv, SyncedWhenIdle, Todo, Fresh
<1>. QED
  BY <1>1, <1>2, <1>3, SerialInvariant, PTL DEF Spec

=============================================================================
