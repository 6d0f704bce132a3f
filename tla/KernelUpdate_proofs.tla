------------------------- MODULE KernelUpdate_proofs -------------------------
(***************************************************************************)
(* Theorems about KernelUpdate, for every set of kernels and packages,     *)
(* every number of transactions and failures, with and without overlapping *)
(* runs.                                                                   *)
(***************************************************************************)
EXTENDS KernelUpdate, TLAPS

(***************************************************************************)
(* Every variable keeps its type.                                          *)
(***************************************************************************)

LEMMA IdleToolType == IdleTool \in ToolRec
BY DEF IdleTool, ToolRec

LEMMA NewRunType ==
  ASSUME NEW oper \in {"add", "remove", "inspect"},
         NEW scope \in {"all", "paths", "names"},
         NEW src \in SUBSET Image,
         NEW names \in SUBSET Pkg
  PROVE  NewRun(oper, scope, src, names) \in ToolRec
BY IdleToolType DEF NewRun, ToolRec

LEMMA HookRunType ==
  ASSUME NEW oper \in {"add", "remove"},
         NEW imgs \in SUBSET Image,
         NEW other \in BOOLEAN
  PROVE  HookRun(oper, imgs, other) \in ToolRec
BY NewRunType DEF HookRun, TriggerScope

(* The operators on the record of one run keep its type.                   *)

LEMMA ExitedType ==
  ASSUME NEW t \in ToolRec, NEW r \in {0, 1}
  PROVE  Exited(t, r) \in ToolRec
BY DEF Exited, ToolRec

LEMMA FoundType ==
  ASSUME NEW t \in ToolRec, NEW v \in Image, NEW n \in Pkg
  PROVE  Found(t, v, n) \in ToolRec
<1>1. [image |-> v, pkg |-> n] \in Info
  BY DEF Info
<1>2. Append(t.infos, [image |-> v, pkg |-> n]) \in Seq(Info)
  BY <1>1 DEF ToolRec
<1>. QED
  BY <1>2 DEF Found, ToolRec

LEMMA PcType ==
  ASSUME NEW t \in ToolRec, NEW c \in {"update", "child"}
  PROVE  [t EXCEPT !.pc = c] \in ToolRec
BY DEF ToolRec

LEMMA GlobType ==
  ASSUME NEW t \in ToolRec, NEW S \in SUBSET Image
  PROVE  [t EXCEPT !.pc = "lookup", !.src = S] \in ToolRec
BY DEF ToolRec

LEMMA NextInfoType ==
  ASSUME NEW t \in ToolRec
  PROVE  [t EXCEPT !.i = @ + 1] \in ToolRec
BY DEF ToolRec

LEMMA ReapedType ==
  ASSUME NEW t \in ToolRec, NEW ok \in BOOLEAN
  PROVE  Reaped(t, ok) \in ToolRec
<1>1. ASSUME NEW m \in Nat
      PROVE  [t EXCEPT !.pc = "update", !.i = @ + 1, !.missed = m] \in ToolRec
  <2>1. t.i + 1 \in Nat \ {0}
    BY DEF ToolRec
  <2>. QED BY <2>1 DEF ToolRec
<1>2. t.missed \in Nat /\ t.missed + 1 \in Nat
  BY DEF ToolRec
<1>3. CASE ok
  BY <1>1, <1>2, <1>3 DEF Reaped
<1>4. CASE ~ok
  BY <1>1, <1>2, <1>4 DEF Reaped
<1>. QED
  BY <1>3, <1>4

\* One step of a run replaces the record of its process by one of the type.
LEMMA ToolStepType ==
  ASSUME TypeOK, NEW p \in Proc, Run(p) \/ Failure(p)
  PROVE  tool' \in [Proc -> ToolRec]
<1>1. tool \in [Proc -> ToolRec] /\ tool[p] \in ToolRec
  BY DEF TypeOK
<1>2. SUFFICES \E t \in ToolRec : tool' = [tool EXCEPT ![p] = t]
  BY <1>1
<1>3. CASE InitFails(p) \/ SpawnFails(p) \/ EndUpdate(p)
  <2>1. \E r \in {0, 1} : tool' = [tool EXCEPT ![p] = Exited(tool[p], r)]
    BY <1>3 DEF InitFails, SpawnFails, EndUpdate
  <2>. QED BY <1>1, <2>1, ExitedType
<1>4. CASE ChildFails(p) \/ ChildDone(p)
  <2>1. PICK ok \in BOOLEAN : tool' = [tool EXCEPT ![p] = Reaped(tool[p], ok)]
    BY <1>4 DEF ChildFails, ChildDone, ChildReaped
  <2>2. Reaped(tool[p], ok) \in ToolRec
    BY <1>1, ReapedType
  <2>. QED
    BY <2>1, <2>2
<1>5. CASE Glob(p)
  BY <1>1, <1>5, GlobType DEF Glob, TypeOK
<1>6. CASE LookupImage(p)
  <2>1. PICK v \in tool[p].src :
          IF PkgName(v) = NoPkg
            THEN tool' = [tool EXCEPT ![p] = Exited(@, 1)]
            ELSE tool' = [tool EXCEPT ![p] = Found(@, v, PkgName(v))]
    BY <1>6 DEF LookupImage
  <2>2. v \in Image
    BY <1>1 DEF ToolRec
  <2>3. CASE PkgName(v) = NoPkg
    BY <1>1, <2>1, <2>3, ExitedType
  <2>4. CASE PkgName(v) # NoPkg
    <3>1. PkgName(v) \in Pkg
      BY <2>2, <2>4, PkgBaseAssumption DEF PkgName
    <3>. QED BY <1>1, <2>1, <2>2, <2>4, <3>1, FoundType
  <2>. QED BY <2>3, <2>4
<1>7. CASE LookupName(p)
  <2>1. PICK n \in tool[p].names :
          IF ImagesNamed(n) = {}
            THEN tool' = [tool EXCEPT ![p] = Exited(@, 1)]
            ELSE \E v \in ImagesNamed(n) :
                   tool' = [tool EXCEPT ![p] = Found(@, v, n)]
    BY <1>7 DEF LookupName
  <2>2. n \in Pkg
    BY <1>1 DEF ToolRec
  <2>3. CASE ImagesNamed(n) = {}
    BY <1>1, <2>1, <2>3, ExitedType
  <2>4. CASE ImagesNamed(n) # {}
    <3>1. PICK v \in ImagesNamed(n) : tool' = [tool EXCEPT ![p] = Found(@, v, n)]
      BY <2>1, <2>4
    <3>2. v \in Image
      BY DEF ImagesNamed, TypeOK
    <3>. QED BY <1>1, <2>2, <3>1, <3>2, FoundType
  <2>. QED BY <2>3, <2>4
<1>8. CASE EndLookup(p)
  <2>1. \/ tool' = [tool EXCEPT ![p] = [@ EXCEPT !.pc = "update"]]
        \/ tool' = [tool EXCEPT ![p] = Exited(@, 0)]
    BY <1>8 DEF EndLookup
  <2>. QED BY <1>1, <2>1, ExitedType, PcType
<1>9. CASE SkipUnmanaged(p)
  BY <1>1, <1>9, NextInfoType DEF SkipUnmanaged
<1>10. CASE Spawn(p)
  BY <1>1, <1>10, PcType DEF Spawn
<1>11. CASE Exit(p)
  BY <1>11, IdleToolType DEF Exit
<1>. QED
  BY <1>3, <1>4, <1>5, <1>6, <1>7, <1>8, <1>9, <1>10, <1>11 DEF Run, Failure

LEMMA NoTransType == NoTrans \in TransRec
BY DEF NoTrans, TransRec

\* TypeOK holds initially and every step keeps it.
LEMMA TypeInit == Init => TypeOK
BY IdleToolType, NoTransType DEF Init, TypeOK, Proc

\* The steps of pacman keep the types.
LEMMA PacmanType == TypeOK /\ Pacman => TypeOK'
<1>. SUFFICES ASSUME TypeOK, Pacman
              PROVE  TypeOK'
  OBVIOUS
<1>0. "hook" \in Proc /\ trans.rm \in SUBSET Image /\ trans.ins \in SUBSET Image
      /\ trans.other \in BOOLEAN
  BY DEF TypeOK, TransRec, Proc
<1>1. CASE PreHook
  <2>1. HookRun("remove", trans.rm, FALSE) \in ToolRec
    BY <1>0, HookRunType
  <2>. QED
    BY <1>1, <2>1 DEF PreHook, TypeOK
<1>2. ASSUME NEW v \in Image, CommitRemove(v) \/ CommitInstall(v)
      PROVE  TypeOK'
  <2>1. trans' \in TransRec
    BY <1>2 DEF CommitRemove, CommitInstall, TypeOK, TransRec
  <2>. QED
    BY <1>2, <2>1 DEF CommitRemove, CommitInstall, TypeOK
<1>3. CASE CommitEnd
  BY <1>3 DEF CommitEnd, TypeOK
<1>4. CASE PostHook
  <2>1. HookRun("add", trans.ins, trans.other) \in ToolRec
    BY <1>0, HookRunType
  <2>2. tool' \in [Proc -> ToolRec]
    BY <1>4, <2>1 DEF PostHook, TypeOK
  <2>3. trans' \in TransRec /\ phase' \in {"idle", "postRun"}
    BY <1>4, NoTransType DEF PostHook, TypeOK
  <2>. QED
    BY <1>4, <2>2, <2>3 DEF PostHook, TypeOK
<1>. QED
  BY <1>1, <1>2, <1>3, <1>4 DEF Pacman

\* The steps of a run keep the types.
LEMMA RunType == \A p \in Proc : TypeOK /\ (Run(p) \/ Failure(p)) => TypeOK'
<1>. SUFFICES ASSUME TypeOK, NEW p \in Proc, Run(p) \/ Failure(p)
              PROVE  TypeOK'
  OBVIOUS
<1>0. tool' \in [Proc -> ToolRec]
  BY ToolStepType
<1>1. CASE ChildDone(p)
  <2>1. entries' \subseteq entries \cup images /\ stale' \subseteq stale
    BY <1>1 DEF ChildDone
  <2>. QED
    BY <1>0, <1>1, <2>1 DEF ChildDone, TypeOK
<1>2. CASE Exit(p)
  <2>1. phase' \in {"idle", "commit", phase} /\ trans' \in {trans, NoTrans}
    BY <1>2 DEF Exit
  <2>. QED
    BY <1>0, <1>2, <2>1, NoTransType DEF Exit, TypeOK
<1>3. CASE Failure(p)
  <2>1. nFaults' = nFaults + 1 /\ UNCHANGED <<images, entries, stale, phase, trans, nTrans>>
    BY <1>3 DEF Failure, InitFails, SpawnFails, ChildFails, Fault
  <2>. QED
    BY <1>0, <2>1 DEF TypeOK
<1>4. CASE Glob(p) \/ LookupImage(p) \/ LookupName(p) \/ EndLookup(p)
  BY <1>0, <1>4 DEF Glob, LookupImage, LookupName, EndLookup, TypeOK
<1>5. CASE SkipUnmanaged(p) \/ Spawn(p) \/ EndUpdate(p)
  BY <1>0, <1>5 DEF SkipUnmanaged, Spawn, EndUpdate, TypeOK
<1>. QED
  BY <1>1, <1>2, <1>3, <1>4, <1>5 DEF Run

LEMMA TypeStep == TypeOK /\ [Next]_vars => TypeOK'
<1>. SUFFICES ASSUME TypeOK, [Next]_vars
              PROVE  TypeOK'
  OBVIOUS
<1>1. ASSUME NEW rm \in SUBSET Image, NEW ins \in SUBSET Image, NEW other \in BOOLEAN,
             Begin(rm, ins, other)
      PROVE  TypeOK'
  <2>1. trans' \in TransRec
    BY <1>1 DEF Begin, TransRec
  <2>. QED
    BY <1>1, <2>1 DEF Begin, TypeOK
<1>2. ASSUME NEW oper \in AdminOpers,
             NEW names \in {{n} : n \in Pkg} \cup {Managed}, AdminRun(oper, names)
      PROVE  TypeOK'
  <2>1. NewRun(oper, "names", {}, names) \in ToolRec
    BY PkgAssumption, OperAssumption, NewRunType
  <2>. QED
    BY <1>2, <2>1 DEF AdminRun, TypeOK
<1>3. CASE Crash
  BY <1>3, IdleToolType, NoTransType DEF Crash, Fault, TypeOK
<1>4. CASE UNCHANGED vars
  BY <1>4 DEF vars, TypeOK
<1>. QED
  BY <1>1, <1>2, <1>3, <1>4, PacmanType, RunType DEF Next

\* The variables of KernelUpdate keep their types in every behaviour.
THEOREM TypeCorrect == Spec => []TypeOK
<1>1. Init => TypeOK
  BY TypeInit
<1>2. TypeOK /\ [Next]_vars => TypeOK'
  BY TypeStep
<1>. QED
  BY <1>1, <1>2, PTL DEF Spec

(***************************************************************************)
(* No entry for an unmanaged kernel.                                       *)
(***************************************************************************)

\* A pkginfo carries the package its image belongs to, and kernel-install is
\* running only for the managed pkginfo of the current index.
RunSound(t) ==
  /\ \A k \in DOMAIN t.infos : PkgBase[t.infos[k].image] = t.infos[k].pkg
  /\ t.pc = "child" => t.i \in DOMAIN t.infos /\ IsManaged(t.infos[t.i])

RunsSound == \A p \in Proc : RunSound(tool[p])

ManagedInv == TypeOK /\ OnlyManaged /\ RunsSound

LEMMA FoundSound ==
  ASSUME NEW t \in ToolRec, RunSound(t), t.pc = "lookup",
         NEW v \in Image, NEW n \in Pkg, PkgBase[v] = n
  PROVE  RunSound(Found(t, v, n))
<1>. DEFINE u == Found(t, v, n)
<1>1. t.infos \in Seq(Info) /\ u.infos = Append(t.infos, [image |-> v, pkg |-> n])
  BY DEF ToolRec, Found
<1>2. u.pc = "lookup"
  BY DEF ToolRec, Found
<1>3. ASSUME NEW k \in DOMAIN u.infos
      PROVE  PkgBase[u.infos[k].image] = u.infos[k].pkg
  <2>1. CASE k = Len(t.infos) + 1
    BY <1>1, <2>1
  <2>2. CASE k # Len(t.infos) + 1
    <3>1. k \in DOMAIN t.infos /\ u.infos[k] = t.infos[k]
      BY <1>1, <1>3, <2>2
    <3>. QED BY <3>1 DEF RunSound
  <2>. QED BY <2>1, <2>2
<1>. QED
  BY <1>2, <1>3 DEF RunSound

LEMMA ExitedSound ==
  ASSUME NEW t \in ToolRec, RunSound(t), NEW r \in {0, 1}
  PROVE  RunSound(Exited(t, r))
BY DEF RunSound, Exited, ToolRec

LEMMA NewRunSound ==
  ASSUME NEW oper, NEW scope, NEW src, NEW names
  PROVE  RunSound(NewRun(oper, scope, src, names))
BY DEF RunSound, NewRun, IdleTool

LEMMA IdleSound == RunSound(IdleTool)
BY DEF RunSound, IdleTool

\* Every step of a run leaves its process with a sound record.
LEMMA RunStepSound ==
  ASSUME TypeOK, RunsSound, NEW p \in Proc, Run(p) \/ Failure(p)
  PROVE  RunsSound'
<1>0. tool \in [Proc -> ToolRec] /\ tool[p] \in ToolRec /\ RunSound(tool[p])
  BY DEF TypeOK, RunsSound
<1>. SUFFICES \E t : RunSound(t) /\ tool' = [tool EXCEPT ![p] = t]
  BY <1>0 DEF RunsSound
<1>1. CASE InitFails(p) \/ SpawnFails(p) \/ EndUpdate(p)
  <2>1. \E r \in {0, 1} : tool' = [tool EXCEPT ![p] = Exited(tool[p], r)]
    BY <1>1 DEF InitFails, SpawnFails, EndUpdate
  <2>. QED BY <1>0, <2>1, ExitedSound
<1>2. CASE ChildFails(p) \/ ChildDone(p)
  <2>1. PICK ok \in BOOLEAN : tool' = [tool EXCEPT ![p] = Reaped(tool[p], ok)]
    BY <1>2 DEF ChildFails, ChildDone, ChildReaped
  <2>2. RunSound(Reaped(tool[p], ok))
    BY <1>0 DEF Reaped, RunSound, ToolRec
  <2>. QED BY <2>1, <2>2
<1>3. CASE Glob(p)
  <2>1. RunSound([tool[p] EXCEPT !.pc = "lookup", !.src = images])
    BY <1>0 DEF RunSound, ToolRec
  <2>. QED BY <1>3, <2>1 DEF Glob
<1>4. CASE LookupImage(p)
  <2>1. PICK v \in tool[p].src :
          IF PkgName(v) = NoPkg
            THEN tool' = [tool EXCEPT ![p] = Exited(@, 1)]
            ELSE tool' = [tool EXCEPT ![p] = Found(@, v, PkgName(v))]
    BY <1>4 DEF LookupImage
  <2>2. v \in Image /\ tool[p].pc = "lookup"
    BY <1>0, <1>4 DEF ToolRec, LookupImage
  <2>3. CASE PkgName(v) = NoPkg
    BY <1>0, <2>1, <2>3, ExitedSound
  <2>4. CASE PkgName(v) # NoPkg
    <3>1. PkgName(v) \in Pkg /\ PkgBase[v] = PkgName(v)
      BY <2>2, <2>4, PkgBaseAssumption DEF PkgName
    <3>. QED BY <1>0, <2>1, <2>2, <2>4, <3>1, FoundSound
  <2>. QED BY <2>3, <2>4
<1>5. CASE LookupName(p)
  <2>1. PICK n \in tool[p].names :
          IF ImagesNamed(n) = {}
            THEN tool' = [tool EXCEPT ![p] = Exited(@, 1)]
            ELSE \E v \in ImagesNamed(n) :
                   tool' = [tool EXCEPT ![p] = Found(@, v, n)]
    BY <1>5 DEF LookupName
  <2>2. n \in Pkg /\ tool[p].pc = "lookup"
    BY <1>0, <1>5 DEF ToolRec, LookupName
  <2>3. CASE ImagesNamed(n) = {}
    BY <1>0, <2>1, <2>3, ExitedSound
  <2>4. CASE ImagesNamed(n) # {}
    <3>1. PICK v \in ImagesNamed(n) : tool' = [tool EXCEPT ![p] = Found(@, v, n)]
      BY <2>1, <2>4
    <3>2. v \in Image /\ PkgBase[v] = n
      BY DEF ImagesNamed, TypeOK
    <3>. QED BY <1>0, <2>2, <3>1, <3>2, FoundSound
  <2>. QED BY <2>3, <2>4
<1>6. CASE EndLookup(p)
  <2>1. RunSound([tool[p] EXCEPT !.pc = "update"])
    BY <1>0 DEF RunSound, ToolRec
  <2>2. \/ tool' = [tool EXCEPT ![p] = [@ EXCEPT !.pc = "update"]]
        \/ tool' = [tool EXCEPT ![p] = Exited(@, 0)]
    BY <1>6 DEF EndLookup
  <2>. QED BY <1>0, <2>1, <2>2, ExitedSound
<1>7. CASE SkipUnmanaged(p)
  <2>1. RunSound([tool[p] EXCEPT !.i = @ + 1])
    BY <1>0, <1>7 DEF RunSound, ToolRec, SkipUnmanaged
  <2>. QED BY <1>7, <2>1 DEF SkipUnmanaged
<1>8. CASE Spawn(p)
  <2>1. tool[p].i \in DOMAIN tool[p].infos
    BY <1>0, <1>8 DEF Spawn, ToolRec
  <2>2. RunSound([tool[p] EXCEPT !.pc = "child"])
    BY <1>0, <1>8, <2>1 DEF RunSound, ToolRec, Spawn, Current
  <2>. QED BY <1>8, <2>2 DEF Spawn
<1>9. CASE Exit(p)
  BY <1>9, IdleSound DEF Exit
<1>. QED
  BY <1>1, <1>2, <1>3, <1>4, <1>5, <1>6, <1>7, <1>8, <1>9 DEF Run, Failure

\* The only step that adds an entry is kernel-install for a managed pkginfo.
LEMMA EntriesGrow ==
  ASSUME ManagedInv, [Next]_vars
  PROVE  OnlyManaged'
<1>1. ASSUME NEW p \in Proc, ChildDone(p)
      PROVE  OnlyManaged'
  <2>1. tool[p] \in ToolRec /\ tool[p].i \in DOMAIN tool[p].infos
        /\ IsManaged(Current(p)) /\ PkgBase[Current(p).image] = Current(p).pkg
    BY <1>1 DEF ManagedInv, TypeOK, RunsSound, RunSound, ChildDone, Current
  <2>2. Current(p).image \in ManagedImage
    <3>1. tool[p].infos \in Seq(Info)
      BY <2>1 DEF ToolRec
    <3>2. Current(p) \in Info
      BY <2>1, <3>1 DEF Current
    <3>. QED BY <2>1, <3>2 DEF Info, ManagedImage, IsManaged
  <2>3. entries' \subseteq entries \cup {Current(p).image}
    BY <1>1 DEF ChildDone
  <2>. QED
    BY <2>2, <2>3 DEF ManagedInv, OnlyManaged, ManagedImage
<1>2. ASSUME UNCHANGED entries
      PROVE  OnlyManaged'
  BY <1>2 DEF ManagedInv, OnlyManaged, ManagedImage
<1>3. CASE Pacman
  BY <1>2, <1>3 DEF Pacman, PreHook, CommitRemove, CommitInstall, CommitEnd, PostHook
<1>4. ASSUME NEW p \in Proc, Run(p) \/ Failure(p), ~ChildDone(p)
      PROVE  OnlyManaged'
  BY <1>2, <1>4 DEF Run, Failure, Glob, LookupImage, LookupName, EndLookup, SkipUnmanaged,
     Spawn, EndUpdate, Exit, InitFails, SpawnFails, ChildFails
<1>. QED
  BY <1>1, <1>2, <1>3, <1>4 DEF Next, Begin, AdminRun, Crash, vars

LEMMA SoundStep ==
  ASSUME ManagedInv, [Next]_vars
  PROVE  RunsSound'
<1>0. TypeOK /\ RunsSound /\ "hook" \in Proc /\ "admin" \in Proc
      /\ tool \in [Proc -> ToolRec]
  BY DEF ManagedInv, TypeOK, Proc
<1>1. ASSUME NEW rm \in SUBSET Image, NEW ins \in SUBSET Image, NEW other \in BOOLEAN,
             Begin(rm, ins, other)
      PROVE  RunsSound'
  BY <1>0, <1>1 DEF Begin, RunsSound
<1>2. CASE Pacman
  <2>1. ASSUME NEW oper, NEW imgs, NEW other
        PROVE  RunSound(HookRun(oper, imgs, other))
    BY NewRunSound DEF HookRun
  <2>2. UNCHANGED tool \/ \E t : RunSound(t) /\ tool' = [tool EXCEPT !["hook"] = t]
    BY <1>2, <2>1 DEF Pacman, PreHook, CommitRemove, CommitInstall, CommitEnd, PostHook
  <2>. QED BY <1>0, <2>2 DEF RunsSound
<1>3. ASSUME NEW oper \in AdminOpers,
             NEW names \in {{n} : n \in Pkg} \cup {Managed}, AdminRun(oper, names)
      PROVE  RunsSound'
  BY <1>0, <1>3, NewRunSound DEF AdminRun, RunsSound
<1>4. ASSUME NEW p \in Proc, Run(p) \/ Failure(p)
      PROVE  RunsSound'
  BY <1>0, <1>4, RunStepSound
<1>5. CASE Crash
  BY <1>5, IdleSound DEF Crash, RunsSound
<1>6. CASE UNCHANGED vars
  BY <1>0, <1>6 DEF vars, RunsSound
<1>. QED
  BY <1>1, <1>2, <1>3, <1>4, <1>5, <1>6 DEF Next

LEMMA ManagedInvariant == Spec => []ManagedInv
<1>1. Init => ManagedInv
  BY TypeInit, IdleSound DEF Init, ManagedInv, OnlyManaged, RunsSound
<1>2. ManagedInv /\ [Next]_vars => ManagedInv'
  BY TypeStep, EntriesGrow, SoundStep DEF ManagedInv
<1>. QED
  BY <1>1, <1>2, PTL DEF Spec

\* No entry is ever made for a kernel of an unlisted package: with any number
\* of failures, crashes and transactions, and with the administrator's runs
\* interleaved with the hooks'.
THEOREM OnlyManagedAlways == Spec => []OnlyManaged
<1>1. ManagedInv => OnlyManaged
  BY DEF ManagedInv
<1>. QED
  BY <1>1, ManagedInvariant, PTL

(***************************************************************************)
(* An entry only goes for cause.                                           *)
(***************************************************************************)

\* The hook's process is there in pacman's two hook phases only.
HookInPlace == phase \notin {"preRun", "postRun"} => tool["hook"].pc = "idle"

\* A hook's run that removes is the one before the commit, and has nothing to
\* do but with images that pacman is to remove.
Removing(t, S) ==
  /\ t.scope = "paths" /\ t.pc # "glob"
  /\ t.src \subseteq S
  /\ \A k \in DOMAIN t.infos : t.infos[k].image \in S

CauseInv ==
  /\ HookInPlace
  /\ tool["hook"].pc # "idle" /\ tool["hook"].oper = "remove" =>
       phase = "preRun" /\ Removing(tool["hook"], trans.rm)

LEMMA ExitedKeeps ==
  ASSUME NEW t \in ToolRec, NEW r
  PROVE  LET u == Exited(t, r)
         IN  u.oper = t.oper /\ u.scope = t.scope /\ u.pc = "done" /\ u.src = {} /\ u.infos = t.infos
BY DEF Exited, ToolRec

LEMMA FoundKeeps ==
  ASSUME NEW t \in ToolRec, NEW v, NEW n
  PROVE  LET u == Found(t, v, n)
         IN  /\ u.oper = t.oper /\ u.scope = t.scope /\ u.pc = t.pc /\ u.src = t.src \ {v}
             /\ u.infos = Append(t.infos, [image |-> v, pkg |-> n])
BY DEF Found, ToolRec

\* A step of a run for removal stays with its images.
LEMMA RemovingStep ==
  ASSUME TypeOK, NEW p \in Proc, Run(p) \/ Failure(p), NEW S,
         tool[p].pc # "idle" /\ tool[p].oper = "remove" => Removing(tool[p], S)
  PROVE  tool'[p].pc # "idle" /\ tool'[p].oper = "remove" => Removing(tool'[p], S)
<1>0. tool \in [Proc -> ToolRec] /\ tool[p] \in ToolRec
  BY DEF TypeOK
<1>1. CASE InitFails(p) \/ SpawnFails(p) \/ EndUpdate(p)
  <2>1. PICK r \in {0, 1} : tool' = [tool EXCEPT ![p] = Exited(tool[p], r)]
    BY <1>1 DEF InitFails, SpawnFails, EndUpdate
  <2>2. tool[p].pc # "idle"
    BY <1>1 DEF InitFails, SpawnFails, EndUpdate
  <2>3. /\ tool'[p].oper = tool[p].oper /\ tool'[p].scope = tool[p].scope
        /\ tool'[p].pc = "done" /\ tool'[p].src = {} /\ tool'[p].infos = tool[p].infos
    BY <1>0, <2>1 DEF Exited, ToolRec
  <2>. QED BY <2>2, <2>3 DEF Removing
<1>2. CASE ChildFails(p) \/ ChildDone(p)
  <2>1. PICK ok \in BOOLEAN : tool' = [tool EXCEPT ![p] = Reaped(tool[p], ok)]
    BY <1>2 DEF ChildFails, ChildDone, ChildReaped
  <2>2. tool[p].pc # "idle"
    BY <1>2 DEF ChildFails, ChildDone
  <2>3. /\ tool'[p].oper = tool[p].oper /\ tool'[p].scope = tool[p].scope
        /\ tool'[p].pc = "update" /\ tool'[p].src = tool[p].src
        /\ tool'[p].infos = tool[p].infos
    BY <1>0, <2>1 DEF Reaped, ToolRec
  <2>. QED BY <2>2, <2>3 DEF Removing
<1>3. CASE Glob(p)
  BY <1>0, <1>3 DEF Glob, Removing, ToolRec
<1>4. CASE LookupImage(p)
  <2>1. PICK v \in tool[p].src :
          IF PkgName(v) = NoPkg
            THEN tool' = [tool EXCEPT ![p] = Exited(@, 1)]
            ELSE tool' = [tool EXCEPT ![p] = Found(@, v, PkgName(v))]
    BY <1>4 DEF LookupImage
  <2>2. tool[p].pc = "lookup"
    BY <1>4 DEF LookupImage
  <2>3. CASE PkgName(v) = NoPkg
    <3>1. tool'[p] = Exited(tool[p], 1)
      BY <1>0, <2>1, <2>3
    <3>. QED BY <1>0, <2>2, <3>1, ExitedKeeps DEF Removing
  <2>4. CASE PkgName(v) # NoPkg
    <3>1. /\ tool'[p].oper = tool[p].oper /\ tool'[p].scope = tool[p].scope
          /\ tool'[p].pc = "lookup" /\ tool'[p].src = tool[p].src \ {v}
          /\ tool'[p].infos = Append(tool[p].infos, [image |-> v, pkg |-> PkgName(v)])
      <4>1. tool'[p] = Found(tool[p], v, PkgName(v))
        BY <1>0, <2>1, <2>4
      <4>. QED BY <1>0, <2>2, <4>1, FoundKeeps
    <3>2. ASSUME Removing(tool[p], S), NEW k \in DOMAIN tool'[p].infos
          PROVE  tool'[p].infos[k].image \in S
      <4>1. tool[p].infos \in Seq(Info)
        BY <1>0 DEF ToolRec
      <4>2. CASE k = Len(tool[p].infos) + 1
        BY <3>1, <3>2, <4>1, <4>2 DEF Removing
      <4>3. CASE k # Len(tool[p].infos) + 1
        <5>1. k \in DOMAIN tool[p].infos /\ tool'[p].infos[k] = tool[p].infos[k]
          BY <3>1, <3>2, <4>1, <4>3
        <5>. QED BY <3>2, <5>1 DEF Removing
      <4>. QED BY <4>2, <4>3
    <3>. QED BY <2>2, <3>1, <3>2 DEF Removing
  <2>. QED BY <2>3, <2>4
<1>5. CASE LookupName(p)
  <2>1. tool[p].scope = "names" /\ tool[p].pc = "lookup"
    BY <1>5 DEF LookupName
  <2>2. \E t : tool' = [tool EXCEPT ![p] = t] /\ t.oper = tool[p].oper
    <3>1. \/ tool' = [tool EXCEPT ![p] = Exited(tool[p], 1)]
          \/ \E v, n : tool' = [tool EXCEPT ![p] = Found(tool[p], v, n)]
      BY <1>5 DEF LookupName
    <3>2. Exited(tool[p], 1).oper = tool[p].oper
      BY <1>0 DEF Exited, ToolRec
    <3>3. \A v, n : Found(tool[p], v, n).oper = tool[p].oper
      BY <1>0 DEF Found, ToolRec
    <3>. QED BY <3>1, <3>2, <3>3
  <2>. QED BY <1>0, <2>1, <2>2 DEF Removing
<1>6. CASE EndLookup(p)
  <2>1. tool[p].pc = "lookup"
    BY <1>6 DEF EndLookup
  <2>2. CASE tool' = [tool EXCEPT ![p].pc = "update"]
    BY <1>0, <2>1, <2>2 DEF Removing, ToolRec
  <2>3. CASE tool' = [tool EXCEPT ![p] = Exited(@, 0)]
    <3>1. tool'[p] = Exited(tool[p], 0)
      BY <1>0, <2>3
    <3>. QED BY <1>0, <2>1, <3>1, ExitedKeeps DEF Removing
  <2>. QED BY <1>6, <2>2, <2>3 DEF EndLookup
<1>7. CASE SkipUnmanaged(p) \/ Spawn(p)
  <2>1. tool[p].pc = "update"
    BY <1>7 DEF SkipUnmanaged, Spawn
  <2>2. /\ tool'[p].oper = tool[p].oper /\ tool'[p].scope = tool[p].scope
        /\ tool'[p].pc \in {"update", "child"} /\ tool'[p].src = tool[p].src
        /\ tool'[p].infos = tool[p].infos
    BY <1>0, <1>7 DEF SkipUnmanaged, Spawn, ToolRec
  <2>. QED BY <2>1, <2>2 DEF Removing
<1>8. CASE Exit(p)
  BY <1>0, <1>8 DEF Exit, IdleTool
<1>. QED
  BY <1>1, <1>2, <1>3, <1>4, <1>5, <1>6, <1>7, <1>8 DEF Run, Failure

LEMMA OperKept ==
  ASSUME TypeOK, NEW p \in Proc, Run(p) \/ Failure(p), ~Exit(p)
  PROVE  tool'[p].oper = tool[p].oper
<1>0. tool \in [Proc -> ToolRec] /\ tool[p] \in ToolRec
  BY DEF TypeOK
<1>1. CASE InitFails(p) \/ SpawnFails(p) \/ EndUpdate(p)
  BY <1>0, <1>1, ExitedKeeps DEF InitFails, SpawnFails, EndUpdate
<1>2. CASE ChildFails(p) \/ ChildDone(p)
  <2>1. PICK ok \in BOOLEAN : tool' = [tool EXCEPT ![p] = Reaped(tool[p], ok)]
    BY <1>2 DEF ChildFails, ChildDone, ChildReaped
  <2>. QED BY <1>0, <2>1 DEF Reaped, ToolRec
<1>3. CASE Glob(p) \/ SkipUnmanaged(p) \/ Spawn(p)
  <2>1. CASE Glob(p)
    BY <1>0, <2>1 DEF Glob, ToolRec
  <2>2. CASE SkipUnmanaged(p)
    BY <1>0, <2>2 DEF SkipUnmanaged, ToolRec
  <2>3. CASE Spawn(p)
    BY <1>0, <2>3 DEF Spawn, ToolRec
  <2>. QED BY <1>3, <2>1, <2>2, <2>3
<1>4. CASE LookupImage(p) \/ LookupName(p)
  <2>1. \/ tool' = [tool EXCEPT ![p] = Exited(tool[p], 1)]
        \/ \E v, n : tool' = [tool EXCEPT ![p] = Found(tool[p], v, n)]
    <3>1. CASE LookupImage(p)
      BY <3>1 DEF LookupImage
    <3>2. CASE LookupName(p)
      BY <3>2 DEF LookupName
    <3>. QED BY <1>4, <3>1, <3>2
  <2>2. \A t : tool' = [tool EXCEPT ![p] = t] => tool'[p] = t
    BY <1>0
  <2>3. \A v, n : Found(tool[p], v, n).oper = tool[p].oper
    BY <1>0 DEF Found, ToolRec
  <2>4. Exited(tool[p], 1).oper = tool[p].oper
    BY <1>0, ExitedKeeps
  <2>. QED BY <2>1, <2>2, <2>3, <2>4
<1>5. CASE EndLookup(p)
  BY <1>0, <1>5, ExitedKeeps DEF EndLookup, ToolRec
<1>. QED
  BY <1>1, <1>2, <1>3, <1>4, <1>5 DEF Run, Failure

LEMMA CauseStep ==
  ASSUME TypeOK, CauseInv, [Next]_vars
  PROVE  CauseInv'
<1>0. /\ "hook" \in Proc /\ "admin" \in Proc /\ "admin" # "hook"
      /\ tool \in [Proc -> ToolRec]
  BY DEF TypeOK, Proc
<1>1. ASSUME NEW rm \in SUBSET Image, NEW ins \in SUBSET Image, NEW other \in BOOLEAN,
             Begin(rm, ins, other)
      PROVE  CauseInv'
  BY <1>1 DEF Begin, CauseInv, HookInPlace
<1>2. CASE PreHook
  <2>1. CASE trans.rm = {}
    BY <1>2, <2>1 DEF PreHook, CauseInv, HookInPlace
  <2>2. CASE trans.rm # {}
    <3>1. /\ phase' = "preRun" /\ trans' = trans
          /\ tool'["hook"] = HookRun("remove", trans.rm, FALSE)
      BY <1>0, <1>2, <2>2 DEF PreHook
    <3>2. Removing(HookRun("remove", trans.rm, FALSE), trans.rm)
      BY DEF HookRun, TriggerScope, NewRun, IdleTool, Removing
    <3>. QED BY <3>1, <3>2 DEF CauseInv, HookInPlace
  <2>. QED BY <2>1, <2>2
<1>3. CASE PostHook
  <2>1. HookRun("add", trans.ins, trans.other).oper = "add"
    BY DEF HookRun, NewRun, IdleTool
  <2>. QED BY <1>0, <1>3, <2>1 DEF PostHook, CauseInv, HookInPlace
<1>4. CASE CommitEnd \/ \E v \in Image : CommitRemove(v) \/ CommitInstall(v)
  BY <1>4 DEF CommitEnd, CommitRemove, CommitInstall, CauseInv, HookInPlace
<1>5. ASSUME NEW oper \in AdminOpers,
             NEW names \in {{n} : n \in Pkg} \cup {Managed}, AdminRun(oper, names)
      PROVE  CauseInv'
  <2>1. tool'["hook"] = tool["hook"]
    BY <1>0, <1>5 DEF AdminRun
  <2>. QED BY <1>5, <2>1 DEF AdminRun, CauseInv, HookInPlace
<1>6. CASE Run("admin") \/ Failure("admin")
  <2>1. tool'["hook"] = tool["hook"] /\ UNCHANGED <<phase, trans>>
    BY <1>0, <1>6 DEF Run, Failure, Glob, LookupImage, LookupName, EndLookup, SkipUnmanaged,
       Spawn, ChildDone, ChildReaped, EndUpdate, Exit, InitFails, SpawnFails, ChildFails
  <2>. QED BY <2>1 DEF CauseInv, HookInPlace
<1>7. CASE Run("hook") \/ Failure("hook")
  <2>1. CASE Exit("hook")
    BY <1>0, <2>1 DEF Exit, IdleTool, CauseInv, HookInPlace
  <2>2. CASE ~Exit("hook")
    <3>1. UNCHANGED <<phase, trans>> /\ tool["hook"].pc # "idle"
      BY <1>7, <2>2 DEF Run, Failure, Glob, LookupImage, LookupName, EndLookup, SkipUnmanaged,
         Spawn, ChildDone, EndUpdate, InitFails, SpawnFails, ChildFails
    <3>2. tool'["hook"].oper = tool["hook"].oper
      BY <1>0, <1>7, <2>2, OperKept
    <3>3. tool'["hook"].pc # "idle" /\ tool'["hook"].oper = "remove" =>
            Removing(tool'["hook"], trans.rm)
      BY <1>0, <1>7, RemovingStep DEF CauseInv
    <3>. QED BY <3>1, <3>2, <3>3 DEF CauseInv, HookInPlace
  <2>. QED BY <2>1, <2>2
<1>8. CASE Crash
  BY <1>0, <1>8 DEF Crash, IdleTool, CauseInv, HookInPlace
<1>9. CASE UNCHANGED vars
  BY <1>9 DEF vars, CauseInv, HookInPlace
<1>. QED
  BY <1>1, <1>2, <1>3, <1>4, <1>5, <1>6, <1>7, <1>8, <1>9 DEF Next, Pacman, Proc

LEMMA CauseStart == Init => CauseInv
BY DEF Init, IdleTool, Proc, CauseInv, HookInPlace

\* Whatever fails, crashes or interleaves, for any kernels: an entry goes only
\* by a run that is at that kernel to remove it, and by a hook's run only while
\* pacman is removing the kernel.
THEOREM RemovalHasCauseAlways == Spec => RemovalHasCause
<1>1. ManagedInv /\ CauseInv /\ [Next]_vars =>
        [\A v \in entries \ entries' :
           \E p \in Proc :
             /\ tool[p].pc = "child" /\ tool[p].oper = "remove"
             /\ Current(p).image = v
             /\ p = "hook" => v \in trans.rm]_vars
  <2>. SUFFICES ASSUME ManagedInv, CauseInv, [Next]_vars, NEW v \in entries \ entries'
                PROVE  \E p \in Proc :
                         /\ tool[p].pc = "child" /\ tool[p].oper = "remove"
                         /\ Current(p).image = v
                         /\ p = "hook" => v \in trans.rm
    OBVIOUS
  <2>1. PICK p \in Proc : ChildDone(p)
    BY DEF Next, Begin, Pacman, PreHook, CommitRemove, CommitInstall, CommitEnd, PostHook,
       AdminRun, Run, Failure, Glob, LookupImage, LookupName, EndLookup, SkipUnmanaged, Spawn,
       EndUpdate, Exit, InitFails, SpawnFails, ChildFails, Crash, vars
  <2>2. tool[p].pc = "child" /\ tool[p].oper = "remove" /\ Current(p).image = v
    BY <2>1 DEF ChildDone
  <2>3. tool[p].i \in DOMAIN tool[p].infos
    BY <2>2 DEF ManagedInv, RunsSound, RunSound
  <2>4. p = "hook" => v \in trans.rm
    BY <2>2, <2>3 DEF CauseInv, Removing, Current
  <2>. QED BY <2>2, <2>4
<1>2. TypeOK /\ CauseInv /\ [Next]_vars => CauseInv'
  BY CauseStep
<1>3. ManagedInv => TypeOK
  BY DEF ManagedInv
<1>. QED
  BY <1>1, <1>2, <1>3, CauseStart, ManagedInvariant, PTL DEF Spec, RemovalHasCause

=============================================================================
