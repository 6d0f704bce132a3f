-------------------------- MODULE EfiTool_proofs --------------------------
(***************************************************************************)
(* The efi tool side, for any packages, versions, machines and any number  *)
(* of transactions, failures and crashes: the types always; and where no   *)
(* package's name goes on where another's ends, that a run touches only    *)
(* its own package's versions, that an add leaves one version, and that    *)
(* the boot menu matches what is installed.                                *)
(***************************************************************************)
EXTENDS EfiTool, TLAPS

CurOf(t) == t.infos[t.i]

\* A run that removes old versions or has a child is at a managed package with
\* a version, and what it takes for old is of that package's name and is not
\* the version it adds.
InfoOf(t) ==
  /\ t.pc \in {"old", "child"} =>
       t.i \in DOMAIN t.infos /\ IsManaged(CurOf(t)) /\ CurOf(t).vers # 0
  /\ t.pc = "old" => t.oper = "add"
  /\ t.pc = "old" => \A kv \in t.old : /\ Matches(CurOf(t).pkg, kv)
                                       /\ kv # KiVers(CurOf(t).pkg, CurOf(t).vers)
InfoInv == \A p \in Proc : InfoOf(tool[p])

\* One run at a time: the hooks' in pacman's two hook phases, the
\* administrator's while pacman is idle.
SerialInv ==
  ~setup.overlap =>
    /\ phase # "idle" => tool["admin"].pc = "idle"
    /\ tool["hook"].pc # "idle" => phase \in {"preRun", "postRun"}

\* What a run looked up is still what is installed.
FreshOf(t) == t.pc # "idle" => \A k \in DOMAIN t.infos : t.infos[k].vers = installed[t.infos[k].pkg]
FreshInv == ~setup.overlap => \A p \in Proc : FreshOf(tool[p])

Has(S, n) == VersionsIn(S, n) = {installed[n]}
One(n) == Has(confs, n) /\ Has(dirs, n)

\* An add without mishap has one version of each package it is through with,
\* knows of all others of the package it is at, and has removed them before it
\* adds.
AddOf(t) ==
  t.oper = "add" /\ t.missed = 0 =>
    /\ t.pc = "lookup" => t.i = 1
    /\ t.pc \in {"update", "old", "child"} =>
         \A k \in DOMAIN t.infos : k < t.i /\ IsManaged(t.infos[k]) => One(t.infos[k].pkg)
    /\ t.pc = "done" /\ t.ret = 0 =>
         \A k \in DOMAIN t.infos : IsManaged(t.infos[k]) => One(t.infos[k].pkg)
    /\ t.pc = "old" =>
         \A kv \in confs \cup dirs :
            kv[1] = CurOf(t).pkg => kv \in t.old \/ kv = KiVers(CurOf(t).pkg, CurOf(t).vers)
    /\ t.pc = "child" =>
         \A kv \in confs \cup dirs :
            kv[1] = CurOf(t).pkg => kv = KiVers(CurOf(t).pkg, CurOf(t).vers)
AddInv == ~setup.overlap => \A p \in Proc : tool[p].pc # "idle" => AddOf(tool[p])

\* $BOOT has a package in its installed version, or not if it has none.
Right(n) ==
  /\ VersionsIn(confs, n) = {installed[n]} \ {0}
  /\ VersionsIn(dirs, n) = {installed[n]} \ {0}
Gone(n) == VersionsIn(confs, n) = {} /\ VersionsIn(dirs, n) = {}

Shipped == Managed \cap HookPkg

\* What pacman is about, in terms of what is installed.
TransOK ==
  /\ phase # "idle" => trans.rm \cap trans.ins = {}
  /\ phase \in {"pre", "preRun"} => trans.left = trans.rm \cup trans.ins
  /\ phase = "postRun" => trans.left = {}
  /\ phase # "idle" =>
       /\ \A n \in trans.rm : (n \in trans.left) <=> (installed[n] # 0)
       /\ \A n \in trans.ins : n \notin trans.left => installed[n] # 0

NamesOf(t) == t.names \cup {t.infos[k].pkg : k \in DOMAIN t.infos}

\* The run before the packages are removed takes them all from $BOOT.
RemoveOf(t) ==
  /\ t.oper = "remove" /\ t.pc # "old"
  /\ NamesOf(t) = trans.rm \cap HookPkg \/ t.pc = "done"
  /\ \A n \in Shipped \cap trans.rm : Right(n) \/ Gone(n)
  /\ t.pc \in {"update", "child"} =>
       /\ t.names = {}
       /\ \A k \in DOMAIN t.infos : k < t.i /\ t.infos[k].pkg \in Shipped => Gone(t.infos[k].pkg)
  /\ t.pc = "lookup" => t.i = 1
  /\ t.pc = "done" => \A n \in Shipped \cap trans.rm : Gone(n)

\* The run after the packages are written brings them all to $BOOT.
PostOf(t) ==
  /\ t.oper = "add"
  /\ NamesOf(t) = trans.ins \cap HookPkg \/ t.pc = "done"
  /\ t.pc \in {"update", "old", "child"} => t.names = {}
  /\ t.pc = "done" => \A n \in Shipped \cap trans.ins : Right(n)

\* One run at a time and before anything fails: no add missed anything, each
\* shipped and managed package the transaction is not about is right on $BOOT,
\* and those that go are gone before pacman removes them.
MenuBody ==
  /\ \A p \in Proc : tool[p].missed = 0
  /\ tool["admin"].oper # "remove"
  /\ TransOK
  /\ \A n \in Shipped : phase \in {"idle", "pre"} \/ n \notin trans.rm \cup trans.ins => Right(n)
  /\ phase \in {"commit", "postRun"} => \A n \in Shipped \cap trans.rm : Gone(n)
  /\ phase = "preRun" => RemoveOf(tool["hook"])
  /\ phase = "postRun" => PostOf(tool["hook"])

MenuInv == ~setup.overlap /\ nFaults = 0 => MenuBody

EInv == TypeOK /\ InfoInv
SInv == SerialInv /\ FreshInv /\ AddInv

Phases == {"idle", "pre", "preRun", "commit", "postRun"}
ToolPcs == {"idle", "lookup", "update", "old", "child", "done"}

LEMMA InfoFacts ==
  ASSUME NEW t \in ToolRec
  PROVE  /\ t.infos \in Seq(Info) /\ t.i \in Nat /\ t.i > 0 /\ t.pc \in ToolPcs
         /\ DOMAIN t.infos = 1..Len(t.infos) /\ Len(t.infos) \in Nat
         /\ \A k \in DOMAIN t.infos : /\ t.infos[k] \in Info
                                      /\ t.infos[k].pkg \in Pkg
                                      /\ t.infos[k].vers \in {0} \cup Vers
         /\ t.names \subseteq Pkg /\ t.old \subseteq Pkg \X Vers
         /\ t.oper \in {"none", "add", "remove", "inspect"}
         /\ t.ret \in {0, 1} /\ t.missed \in Nat
<1>1. /\ t.infos \in Seq(Info) /\ t.i \in Nat \ {0} /\ t.pc \in ToolPcs
      /\ t.names \subseteq Pkg /\ t.old \subseteq Pkg \X Vers
      /\ t.oper \in {"none", "add", "remove", "inspect"}
      /\ t.ret \in {0, 1} /\ t.missed \in Nat
  BY DEF ToolRec, ToolPcs
<1>2. DOMAIN t.infos = 1..Len(t.infos) /\ Len(t.infos) \in Nat
  BY <1>1
<1>3. \A k \in DOMAIN t.infos : t.infos[k] \in Info
  BY <1>1
<1>4. \A k \in DOMAIN t.infos : t.infos[k].pkg \in Pkg /\ t.infos[k].vers \in {0} \cup Vers
  BY <1>3 DEF Info
<1>. QED
  BY <1>1, <1>2, <1>3, <1>4

LEMMA SetupFacts ==
  ASSUME TypeOK
  PROVE  /\ Managed \subseteq Pkg /\ setup.opers \subseteq {"add", "remove", "inspect"}
         /\ setup.overlap \in BOOLEAN /\ setup.maxFaults \in Nat /\ setup.maxTrans \in Nat
         /\ setup \in Setups /\ Shipped \subseteq Managed
BY SetupAssumption DEF TypeOK, Setup, Managed, Shipped

LEMMA FaultFacts ==
  ASSUME TypeOK, Fault
  PROVE  nFaults' \in Nat /\ nFaults' # 0
BY DEF TypeOK, Fault

LEMMA IdleFacts ==
  /\ IdleTool \in ToolRec /\ IdleTool.pc = "idle" /\ IdleTool.oper = "none"
  /\ IdleTool.missed = 0 /\ IdleTool.names = {} /\ IdleTool.infos = <<>> /\ IdleTool.i = 1
BY DEF IdleTool, ToolRec

LEMMA NewRunFacts ==
  ASSUME NEW oper \in {"add", "remove", "inspect"}, NEW names \in SUBSET Pkg
  PROVE  LET t == NewRun(oper, names)
         IN  /\ t \in ToolRec /\ t.pc = "lookup" /\ t.oper = oper /\ t.names = names
             /\ t.infos = <<>> /\ t.i = 1 /\ t.missed = 0
BY IdleFacts DEF NewRun, ToolRec

LEMMA ExitedFacts ==
  ASSUME NEW t \in ToolRec, NEW r \in {0, 1}
  PROVE  LET u == Exited(t, r)
         IN  /\ u \in ToolRec /\ u.pc = "done" /\ u.ret = r /\ u.names = {} /\ u.old = {}
             /\ u.oper = t.oper /\ u.infos = t.infos /\ u.i = t.i /\ u.missed = t.missed
BY DEF Exited, ToolRec

\* One run goes on: what is left to show of the types.
LEMMA MoveE ==
  ASSUME EInv, NEW p \in Proc, NEW t \in ToolRec, tool' = [tool EXCEPT ![p] = t],
         UNCHANGED <<setup, installed, nTrans>>, phase' \in Phases, trans' \in TransRec,
         confs' \subseteq Pkg \X Vers, dirs' \subseteq Pkg \X Vers,
         nFaults' \in Nat, InfoOf(t)
  PROVE  EInv'
<1>1. tool \in [Proc -> ToolRec]
  BY DEF EInv, TypeOK
<1>2. tool' \in [Proc -> ToolRec] /\ tool'[p] = t /\ \A q \in Proc : q # p => tool'[q] = tool[q]
  BY <1>1
<1>3. TypeOK'
  BY <1>2 DEF EInv, TypeOK, Phases
<1>4. InfoInv'
  <2>. SUFFICES ASSUME NEW q \in Proc PROVE InfoOf(tool[q])'
    BY DEF InfoInv
  <2>1. InfoOf(tool'[q])
    BY <1>2 DEF EInv, InfoInv
  <2>. QED
    BY <2>1 DEF InfoOf, IsManaged, Managed, CurOf
<1>. QED
  BY <1>3, <1>4 DEF EInv

\* One run goes on: what is left to show of runs one at a time.
LEMMA MoveS ==
  ASSUME EInv, SInv, NEW p \in Proc, NEW t \in ToolRec, tool' = [tool EXCEPT ![p] = t],
         tool[p].pc # "idle", UNCHANGED <<setup, installed, phase, trans>>,
         ~setup.overlap => FreshOf(t) /\ AddOf(t)'
  PROVE  SInv'
<1>1. tool \in [Proc -> ToolRec]
  BY DEF EInv, TypeOK
<1>2. tool'[p] = t /\ \A q \in Proc : q # p => tool'[q] = tool[q]
  BY <1>1
<1>3. SerialInv'
  BY <1>2 DEF SInv, SerialInv, Proc
<1>4. FreshInv'
  <2>. SUFFICES ASSUME ~setup.overlap, NEW q \in Proc PROVE FreshOf(tool[q])'
    BY DEF FreshInv
  <2>1. FreshOf(tool'[q])
    BY <1>2 DEF SInv, FreshInv
  <2>. QED
    BY <2>1 DEF FreshOf
<1>5. AddInv'
  <2>. SUFFICES ASSUME ~setup.overlap, NEW q \in Proc, tool'[q].pc # "idle"
                PROVE  AddOf(tool[q])'
    BY DEF AddInv
  <2>1. q = p
    <3>. SUFFICES ASSUME q # p PROVE FALSE
      OBVIOUS
    <3>1. tool[q].pc # "idle"
      BY <1>2
    <3>. QED
      BY <3>1 DEF SInv, SerialInv, Proc
  <2>2. tool'[q] = t
    BY <1>2, <2>1
  <2>. QED
    BY <2>2 DEF AddOf, CurOf
<1>. QED
  BY <1>3, <1>4, <1>5 DEF SInv

-----------------------------------------------------------------------------
(* What the versions on $BOOT become.                                      *)

\* Taking something else away, or nothing, keeps the versions of n.
LEMMA TakeKeeps ==
  ASSUME NEW S, NEW kv, NEW n, NEW W \in SUBSET Vers, VersionsIn(S, n) = W,
         \A v \in W : kv # <<n, v>>,
         NEW T, T = S \/ T = S \ {kv}
  PROVE  VersionsIn(T, n) = W
BY DEF VersionsIn, KiVers

-----------------------------------------------------------------------------
(* The steps of a run: types, and runs one at a time.                      *)

\* At which package and version a run is that removes what is old or has a
\* child.
LEMMA CurFacts ==
  ASSUME EInv, NEW p \in Proc, tool[p].pc \in {"old", "child"}
  PROVE  LET c == CurOf(tool[p])
         IN  /\ tool[p].i \in DOMAIN tool[p].infos
             /\ Current(p) = c /\ CurrentKiVers(p) = <<c.pkg, c.vers>>
             /\ c.pkg \in Pkg /\ c.pkg \in Managed /\ c.vers \in Vers
             /\ <<c.pkg, c.vers>> \in Pkg \X Vers
<1>. DEFINE c == CurOf(tool[p])
<1>1. tool[p] \in ToolRec
  BY DEF EInv, TypeOK
<1>2. tool[p].i \in DOMAIN tool[p].infos /\ IsManaged(c) /\ c.vers # 0
  BY DEF EInv, InfoInv, InfoOf
<1>3. c.pkg \in Pkg /\ c.vers \in {0} \cup Vers
  BY <1>1, <1>2, InfoFacts DEF CurOf
<1>4. c.pkg \in Managed /\ c.vers \in Vers
  BY <1>2, <1>3 DEF IsManaged
<1>. QED
  BY <1>2, <1>3, <1>4 DEF Current, CurrentKiVers, KiVers, CurOf

\* A run ends, with 0 only if an add did all it was to.
LEMMA ExitedStep ==
  ASSUME EInv, NEW p \in Proc, tool[p].pc # "idle", NEW r \in {0, 1},
         tool' = [tool EXCEPT ![p] = Exited(tool[p], r)],
         UNCHANGED <<setup, installed, phase, trans, nTrans>>,
         confs' \subseteq Pkg \X Vers, dirs' \subseteq Pkg \X Vers, nFaults' \in Nat,
         r = 0 /\ tool[p].oper = "add" /\ SInv /\ ~setup.overlap /\ tool[p].missed = 0 =>
           \A n \in Managed : (\E k \in DOMAIN tool[p].infos : tool[p].infos[k].pkg = n) => One(n)'
  PROVE  EInv' /\ (SInv => SInv')
<1>1. tool[p] \in ToolRec /\ tool \in [Proc -> ToolRec] /\ phase \in Phases /\ trans \in TransRec
  BY DEF EInv, TypeOK, Phases
<1>2. PICK t \in ToolRec :
        /\ t.pc = "done" /\ t.ret = r /\ t.names = {} /\ t.old = {}
        /\ t.oper = tool[p].oper /\ t.infos = tool[p].infos /\ t.i = tool[p].i
        /\ t.missed = tool[p].missed
        /\ t = Exited(tool[p], r)
  BY <1>1, ExitedFacts
<1>3. tool' = [tool EXCEPT ![p] = t]
  BY <1>1, <1>2
<1>4. InfoOf(t)
  BY <1>2 DEF InfoOf
<1>5. EInv'
  BY <1>1, <1>2, <1>3, <1>4, MoveE
<1>6. ASSUME SInv PROVE SInv'
  <2>1. ~setup.overlap => FreshOf(t)
    BY <1>2, <1>6 DEF SInv, FreshInv, FreshOf
  <2>2. ~setup.overlap => AddOf(t)'
    BY <1>2, <1>6 DEF AddOf, IsManaged, Managed
  <2>. QED
    BY <1>2, <1>3, <1>6, <2>1, <2>2, MoveS
<1>. QED
  BY <1>5, <1>6

LEMMA FailStep ==
  ASSUME EInv, NEW p \in Proc, InitFails(p) \/ UpdateFails(p) \/ VersionFileFails(p) \/ NoVersion(p)
  PROVE  EInv' /\ (SInv => SInv')
<1>1. /\ tool[p].pc # "idle" /\ tool' = [tool EXCEPT ![p] = Exited(@, 1)]
      /\ UNCHANGED <<setup, installed, phase, trans, nTrans>>
      /\ confs' \subseteq confs /\ dirs' \subseteq dirs
      /\ Fault \/ nFaults' = nFaults
  BY DEF InitFails, UpdateFails, VersionFileFails, NoVersion, InLoop
<1>2. confs' \subseteq Pkg \X Vers /\ dirs' \subseteq Pkg \X Vers /\ nFaults' \in Nat
  BY <1>1, FaultFacts DEF EInv, TypeOK
<1>3. tool' = [tool EXCEPT ![p] = Exited(tool[p], 1)]
  BY <1>1 DEF EInv, TypeOK
<1>4. 1 \in {0, 1} /\ 1 # 0
  OBVIOUS
<1>. QED
  BY <1>1, <1>2, <1>3, <1>4, ExitedStep

\* A run goes on and leaves $BOOT alone.
LEMMA QuietStep ==
  ASSUME EInv, NEW p \in Proc, tool[p].pc # "idle",
         NEW t \in ToolRec, tool' = [tool EXCEPT ![p] = t],
         UNCHANGED <<setup, installed, confs, dirs, phase, trans, nTrans>>, nFaults' \in Nat,
         InfoOf(t),
         SInv /\ ~setup.overlap => FreshOf(t) /\ AddOf(t)
  PROVE  EInv' /\ (SInv => SInv')
<1>1. confs \subseteq Pkg \X Vers /\ dirs \subseteq Pkg \X Vers /\ phase \in Phases /\ trans \in TransRec
  BY DEF EInv, TypeOK, Phases
<1>2. EInv'
  BY <1>1, MoveE
<1>3. AddOf(t) => AddOf(t)'
  BY DEF AddOf, CurOf, One, Has, VersionsIn, IsManaged, Managed
<1>. QED
  BY <1>2, <1>3, MoveS

LEMMA LookupStep == ASSUME EInv, NEW p \in Proc, Lookup(p) PROVE EInv' /\ (SInv => SInv')
<1>1. PICK n \in tool[p].names :
        tool' = [tool EXCEPT ![p].names = @ \ {n},
                             ![p].infos = Append(@, [pkg |-> n, vers |-> PackageVersion(n)])]
  BY DEF Lookup
<1>. DEFINE info == [pkg |-> n, vers |-> installed[n]]
            t == [tool[p] EXCEPT !.names = @ \ {n}, !.infos = Append(@, info)]
<1>2. /\ tool[p] \in ToolRec /\ tool \in [Proc -> ToolRec] /\ tool[p].pc = "lookup"
      /\ UNCHANGED <<setup, installed, confs, dirs, phase, trans, nTrans, nFaults>>
      /\ nFaults \in Nat /\ installed \in [Pkg -> {0} \cup Vers]
  BY DEF EInv, TypeOK, Lookup
<1>3. tool' = [tool EXCEPT ![p] = t]
  BY <1>1, <1>2 DEF ToolRec, PackageVersion
<1>4. tool[p].infos \in Seq(Info) /\ n \in Pkg /\ tool[p].names \subseteq Pkg
  BY <1>2, InfoFacts
<1>5. info \in Info
  BY <1>2, <1>4 DEF Info
<1>6. Append(tool[p].infos, info) \in Seq(Info)
  BY <1>4, <1>5
<1>7. /\ t \in ToolRec /\ t.pc = "lookup" /\ t.infos = Append(tool[p].infos, info)
      /\ t.oper = tool[p].oper /\ t.i = tool[p].i /\ t.missed = tool[p].missed
  <2>1. tool[p].names \ {n} \in SUBSET Pkg
    BY <1>4
  <2>. HIDE DEF info
  <2>. QED
    BY <1>2, <1>6, <2>1 DEF ToolRec
<1>8. SInv /\ ~setup.overlap => FreshOf(t)
  <2>. SUFFICES ASSUME SInv, ~setup.overlap, NEW k \in DOMAIN t.infos
                PROVE  t.infos[k].vers = installed[t.infos[k].pkg]
    BY DEF FreshOf
  <2>0. \A j \in DOMAIN tool[p].infos : tool[p].infos[j].vers = installed[tool[p].infos[j].pkg]
    BY <1>2 DEF SInv, FreshInv, FreshOf
  <2>1. CASE k \in DOMAIN tool[p].infos
    <3>1. t.infos[k] = tool[p].infos[k]
      BY <1>4, <1>5, <1>7, <2>1
    <3>. QED
      BY <2>0, <2>1, <3>1
  <2>2. CASE k \notin DOMAIN tool[p].infos
    <3>1. k = Len(tool[p].infos) + 1 /\ t.infos[k] = info
      BY <1>4, <1>5, <1>7, <2>2
    <3>. QED
      BY <3>1
  <2>. QED
    BY <2>1, <2>2
<1>. HIDE DEF t
<1>9. InfoOf(t)
  BY <1>7 DEF InfoOf
<1>10. SInv /\ ~setup.overlap => AddOf(t)
  BY <1>2, <1>7 DEF SInv, AddInv, AddOf
<1>. QED
  BY <1>2, <1>3, <1>7, <1>8, <1>9, <1>10, QuietStep

LEMMA EndLookupStep == ASSUME EInv, NEW p \in Proc, EndLookup(p) PROVE EInv' /\ (SInv => SInv')
<1>1. /\ tool[p] \in ToolRec /\ tool \in [Proc -> ToolRec] /\ tool[p].pc = "lookup"
      /\ UNCHANGED <<setup, installed, confs, dirs, phase, trans, nTrans, nFaults>>
      /\ nFaults \in Nat /\ confs \subseteq Pkg \X Vers /\ dirs \subseteq Pkg \X Vers
  BY DEF EInv, TypeOK, EndLookup
<1>2. CASE tool' = [tool EXCEPT ![p].pc = "update"]
  <2>. DEFINE t == [tool[p] EXCEPT !.pc = "update"]
  <2>1. tool' = [tool EXCEPT ![p] = t]
    BY <1>1, <1>2 DEF ToolRec
  <2>2. /\ t \in ToolRec /\ t.pc = "update" /\ t.infos = tool[p].infos
        /\ t.oper = tool[p].oper /\ t.i = tool[p].i /\ t.missed = tool[p].missed
    BY <1>1 DEF ToolRec
  <2>. HIDE DEF t
  <2>3. SInv /\ ~setup.overlap => FreshOf(t)
    BY <1>1, <2>2 DEF SInv, FreshInv, FreshOf
  <2>4. SInv /\ ~setup.overlap => AddOf(t)
    <3>1. \A k \in DOMAIN t.infos : ~(k < 1)
      BY <2>2, InfoFacts
    <3>. QED
      BY <1>1, <2>2, <3>1 DEF SInv, AddInv, AddOf
  <2>5. InfoOf(t)
    BY <2>2 DEF InfoOf
  <2>. QED
    BY <1>1, <2>1, <2>2, <2>3, <2>4, <2>5, QuietStep
<1>3. CASE /\ ~\E k \in DOMAIN tool[p].infos : IsManaged(tool[p].infos[k])
           /\ tool' = [tool EXCEPT ![p] = Exited(@, 0)]
  <2>1. tool' = [tool EXCEPT ![p] = Exited(tool[p], 0)]
    BY <1>1, <1>3
  <2>2. \A n \in Managed : ~\E k \in DOMAIN tool[p].infos : tool[p].infos[k].pkg = n
    BY <1>3 DEF IsManaged
  <2>. QED
    BY <1>1, <2>1, <2>2, ExitedStep
<1>. QED
  BY <1>2, <1>3 DEF EndLookup

LEMMA SkipStep == ASSUME EInv, NEW p \in Proc, SkipUnmanaged(p) PROVE EInv' /\ (SInv => SInv')
<1>. DEFINE t == [tool[p] EXCEPT !.i = @ + 1]
<1>1. /\ tool[p] \in ToolRec /\ tool \in [Proc -> ToolRec] /\ tool[p].pc = "update"
      /\ ~IsManaged(tool[p].infos[tool[p].i])
      /\ UNCHANGED <<setup, installed, confs, dirs, phase, trans, nTrans, nFaults>>
      /\ nFaults \in Nat
  BY DEF EInv, TypeOK, SkipUnmanaged, InLoop, Current
<1>2. tool' = [tool EXCEPT ![p] = t]
  BY <1>1 DEF SkipUnmanaged, ToolRec
<1>3. tool[p].i \in Nat /\ tool[p].i + 1 \in Nat \ {0}
  BY <1>1, InfoFacts
<1>4. /\ t \in ToolRec /\ t.pc = "update" /\ t.infos = tool[p].infos
      /\ t.oper = tool[p].oper /\ t.i = tool[p].i + 1 /\ t.missed = tool[p].missed
  BY <1>1, <1>3 DEF ToolRec
<1>. HIDE DEF t
<1>5. SInv /\ ~setup.overlap => FreshOf(t)
  BY <1>1, <1>4 DEF SInv, FreshInv, FreshOf
<1>6. SInv /\ ~setup.overlap => AddOf(t)
  <2>1. \A k \in DOMAIN t.infos : k < t.i => k < tool[p].i \/ k = tool[p].i
    BY <1>3, <1>4, InfoFacts
  <2>. QED
    BY <1>1, <1>4, <2>1 DEF SInv, AddInv, AddOf
<1>7. InfoOf(t)
  BY <1>4 DEF InfoOf
<1>. QED
  BY <1>1, <1>2, <1>4, <1>5, <1>6, <1>7, QuietStep

LEMMA OlderFacts ==
  ASSUME EInv, NEW n, NEW v
  PROVE  /\ Older(n, v) \subseteq Pkg \X Vers
         /\ \A kv \in Older(n, v) : Matches(n, kv) /\ kv # KiVers(n, v)
         /\ \A kv \in confs \cup dirs : kv[1] = n => kv \in Older(n, v) \/ kv = KiVers(n, v)
BY DEF Older, Matches, EInv, TypeOK

LEMMA PrepareStep ==
  ASSUME EInv, NEW p \in Proc, Prepare(p) \/ PrepareBlind(p)
  PROVE  EInv' /\ (SInv => SInv')
<1>. DEFINE c == CurOf(tool[p])
            old == Older(c.pkg, c.vers)
<1>1. /\ tool[p] \in ToolRec /\ tool \in [Proc -> ToolRec] /\ tool[p].pc = "update"
      /\ IsManaged(c) /\ c.vers # 0 /\ tool[p].i <= Len(tool[p].infos)
      /\ UNCHANGED <<setup, installed, confs, dirs, phase, trans, nTrans>>
  BY DEF EInv, TypeOK, Prepare, PrepareBlind, InLoop, Current, CurOf
<1>2. tool[p].i \in DOMAIN tool[p].infos
  BY <1>1, InfoFacts
<1>3. /\ old \subseteq Pkg \X Vers
      /\ \A kv \in old : Matches(c.pkg, kv) /\ kv # KiVers(c.pkg, c.vers)
      /\ \A kv \in confs \cup dirs : kv[1] = c.pkg => kv \in old \/ kv = KiVers(c.pkg, c.vers)
  BY OlderFacts
<1>4. nFaults' \in Nat
  BY FaultFacts DEF EInv, TypeOK, Prepare, PrepareBlind
<1>5. CASE tool[p].oper = "add" /\ tool' = [tool EXCEPT ![p].pc = "old", ![p].old = old]
  <2>. DEFINE t == [tool[p] EXCEPT !.pc = "old", !.old = old]
  <2>. HIDE DEF old
  <2>1. tool' = [tool EXCEPT ![p] = t]
    BY <1>1, <1>5 DEF ToolRec
  <2>2. /\ t \in ToolRec /\ t.pc = "old" /\ t.infos = tool[p].infos /\ t.old = old
        /\ t.oper = "add" /\ t.i = tool[p].i /\ t.missed = tool[p].missed
    BY <1>1, <1>3, <1>5 DEF ToolRec
  <2>3. CurOf(t) = c
    BY <2>2 DEF CurOf
  <2>. HIDE DEF t, c
  <2>4. SInv /\ ~setup.overlap => FreshOf(t)
    BY <1>1, <2>2 DEF SInv, FreshInv, FreshOf
  <2>5. SInv /\ ~setup.overlap => AddOf(t)
    BY <1>1, <1>3, <1>5, <2>2, <2>3 DEF SInv, AddInv, AddOf
  <2>6. InfoOf(t)
    BY <1>1, <1>2, <1>3, <2>2, <2>3 DEF InfoOf
  <2>. QED
    BY <1>1, <1>4, <2>1, <2>2, <2>4, <2>5, <2>6, QuietStep
<1>6. CASE tool[p].oper # "add" /\ tool' = [tool EXCEPT ![p].pc = "child"]
  <2>. DEFINE t == [tool[p] EXCEPT !.pc = "child"]
  <2>1. tool' = [tool EXCEPT ![p] = t]
    BY <1>1, <1>6 DEF ToolRec
  <2>2. /\ t \in ToolRec /\ t.pc = "child" /\ t.infos = tool[p].infos
        /\ t.oper = tool[p].oper /\ t.i = tool[p].i
    BY <1>1 DEF ToolRec
  <2>3. CurOf(t) = c
    BY <2>2 DEF CurOf
  <2>. HIDE DEF t, c
  <2>4. SInv /\ ~setup.overlap => FreshOf(t)
    BY <1>1, <2>2 DEF SInv, FreshInv, FreshOf
  <2>5. AddOf(t)
    BY <1>6, <2>2 DEF AddOf
  <2>6. InfoOf(t)
    BY <1>1, <1>2, <2>2, <2>3 DEF InfoOf
  <2>. QED
    BY <1>1, <1>4, <2>1, <2>2, <2>4, <2>5, <2>6, QuietStep
<1>7. CASE PrepareBlind(p)
  <2>. DEFINE t == [tool[p] EXCEPT !.pc = "old", !.old = {}, !.missed = @ + 1]
  <2>1. tool' = [tool EXCEPT ![p] = t]
    BY <1>1, <1>7 DEF PrepareBlind, ToolRec
  <2>2. tool[p].missed + 1 \in Nat /\ tool[p].missed + 1 # 0
    BY <1>1, InfoFacts
  <2>3. /\ t \in ToolRec /\ t.pc = "old" /\ t.infos = tool[p].infos /\ t.old = {}
        /\ t.oper = tool[p].oper /\ t.i = tool[p].i /\ t.missed # 0
    BY <1>1, <2>2 DEF ToolRec
  <2>4. CurOf(t) = c
    BY <2>3 DEF CurOf
  <2>. HIDE DEF t, c
  <2>5. SInv /\ ~setup.overlap => FreshOf(t)
    BY <1>1, <2>3 DEF SInv, FreshInv, FreshOf
  <2>6. AddOf(t)
    BY <2>3 DEF AddOf
  <2>7. InfoOf(t)
    BY <1>1, <1>2, <1>7, <2>3, <2>4 DEF InfoOf, PrepareBlind
  <2>. QED
    BY <1>1, <1>4, <2>1, <2>3, <2>5, <2>6, <2>7, QuietStep
<1>. QED
  BY <1>5, <1>6, <1>7 DEF Prepare, Current, CurOf

LEMMA EndOldStep == ASSUME EInv, NEW p \in Proc, EndOld(p) PROVE EInv' /\ (SInv => SInv')
<1>. DEFINE t == [tool[p] EXCEPT !.pc = "child"]
<1>1. /\ tool[p] \in ToolRec /\ tool \in [Proc -> ToolRec] /\ tool[p].pc = "old" /\ tool[p].old = {}
      /\ UNCHANGED <<setup, installed, confs, dirs, phase, trans, nTrans, nFaults>>
      /\ nFaults \in Nat /\ InfoOf(tool[p])
  BY DEF EInv, TypeOK, EndOld, InfoInv
<1>2. tool' = [tool EXCEPT ![p] = t]
  BY <1>1 DEF EndOld, ToolRec
<1>3. /\ t \in ToolRec /\ t.pc = "child" /\ t.infos = tool[p].infos
      /\ t.oper = tool[p].oper /\ t.i = tool[p].i /\ t.missed = tool[p].missed
  BY <1>1 DEF ToolRec
<1>4. CurOf(t) = CurOf(tool[p])
  BY <1>3 DEF CurOf
<1>. HIDE DEF t
<1>5. SInv /\ ~setup.overlap => FreshOf(t)
  BY <1>1, <1>3 DEF SInv, FreshInv, FreshOf
<1>6. SInv /\ ~setup.overlap => AddOf(t)
  BY <1>1, <1>3, <1>4 DEF SInv, AddInv, AddOf
<1>7. InfoOf(t)
  BY <1>1, <1>3, <1>4 DEF InfoOf
<1>. QED
  BY <1>1, <1>2, <1>3, <1>5, <1>6, <1>7, QuietStep

LEMMA EndUpdateStep == ASSUME EInv, NEW p \in Proc, EndUpdate(p) PROVE EInv' /\ (SInv => SInv')
<1>1. /\ tool[p] \in ToolRec /\ tool \in [Proc -> ToolRec]
      /\ tool[p].pc = "update" /\ tool[p].i > Len(tool[p].infos)
      /\ tool' = [tool EXCEPT ![p] = Exited(@, 0)]
      /\ UNCHANGED <<setup, installed, confs, dirs, phase, trans, nTrans, nFaults>>
      /\ nFaults \in Nat /\ confs \subseteq Pkg \X Vers /\ dirs \subseteq Pkg \X Vers
  BY DEF EInv, TypeOK, EndUpdate
<1>2. tool' = [tool EXCEPT ![p] = Exited(tool[p], 0)]
  BY <1>1
<1>3. \A k \in DOMAIN tool[p].infos : k < tool[p].i
  BY <1>1, InfoFacts
<1>4. ASSUME tool[p].oper = "add", SInv, ~setup.overlap, tool[p].missed = 0,
             NEW n \in Managed, NEW k \in DOMAIN tool[p].infos, tool[p].infos[k].pkg = n
      PROVE  One(n)'
  <2>1. One(n)
    BY <1>1, <1>3, <1>4 DEF SInv, AddInv, AddOf, IsManaged
  <2>. QED
    BY <1>1, <2>1 DEF One, Has, VersionsIn
<1>. QED
  BY <1>1, <1>2, <1>4, ExitedStep

-----------------------------------------------------------------------------
(* The steps that change what is on $BOOT.                                 *)

LEMMA OneKeeps ==
  ASSUME NEW n, NEW kv, One(n), kv # <<n, installed[n]>>, installed' = installed,
         confs' = confs \/ confs' = confs \ {kv}, dirs' = dirs \/ dirs' = dirs \ {kv}
  PROVE  One(n)'
<1>. DEFINE W == {installed[n]}
<1>1. VersionsIn(confs, n) = W /\ VersionsIn(dirs, n) = W
  BY DEF One, Has
<1>2. W \in SUBSET Vers /\ \A v \in W : kv # <<n, v>>
  BY <1>1 DEF VersionsIn
<1>. HIDE DEF W
<1>3. VersionsIn(confs', n) = W /\ VersionsIn(dirs', n) = W
  BY <1>1, <1>2, TakeKeeps
<1>. QED
  BY <1>3 DEF One, Has, VersionsIn, W

LEMMA RemoveOldStep ==
  ASSUME EInv, NEW p \in Proc, RemoveOld(p) \/ RemoveOldFails(p)
  PROVE  EInv' /\ (Extends = {} /\ SInv => SInv')
<1>. DEFINE c == CurOf(tool[p])
<1>1. /\ tool[p] \in ToolRec /\ tool \in [Proc -> ToolRec] /\ tool[p].pc = "old"
      /\ UNCHANGED <<setup, installed, phase, trans, nTrans>>
      /\ confs \subseteq Pkg \X Vers /\ dirs \subseteq Pkg \X Vers /\ phase \in Phases
      /\ trans \in TransRec /\ InfoOf(tool[p])
  BY DEF EInv, TypeOK, RemoveOld, RemoveOldFails, Phases, InfoInv
<1>2. nFaults' \in Nat
  BY FaultFacts DEF EInv, TypeOK, RemoveOld, RemoveOldFails
<1>3. PICK kv \in tool[p].old :
        /\ confs' = confs \/ confs' = confs \ {kv}
        /\ dirs' = dirs \/ dirs' = dirs \ {kv}
        /\ \/ /\ tool' = [tool EXCEPT ![p].old = @ \ {kv}]
              /\ confs' = confs \ {kv} /\ dirs' = dirs \ {kv}
           \/ tool' = [tool EXCEPT ![p].old = @ \ {kv}, ![p].missed = @ + 1]
  BY DEF RemoveOld, RemoveOldFails
<1>4. PICK t \in ToolRec :
        /\ tool' = [tool EXCEPT ![p] = t]
        /\ t.pc = "old" /\ t.old = tool[p].old \ {kv} /\ t.infos = tool[p].infos
        /\ t.oper = tool[p].oper /\ t.i = tool[p].i
        /\ \/ /\ t.missed = tool[p].missed
              /\ confs' = confs \ {kv} /\ dirs' = dirs \ {kv}
           \/ t.missed # 0
  <2>1. CASE tool' = [tool EXCEPT ![p].old = @ \ {kv}] /\ confs' = confs \ {kv} /\ dirs' = dirs \ {kv}
    <3>. DEFINE u == [tool[p] EXCEPT !.old = @ \ {kv}]
    <3>1. tool' = [tool EXCEPT ![p] = u]
      BY <1>1, <2>1 DEF ToolRec
    <3>2. /\ u \in ToolRec /\ u.pc = "old" /\ u.old = tool[p].old \ {kv} /\ u.infos = tool[p].infos
          /\ u.oper = tool[p].oper /\ u.i = tool[p].i /\ u.missed = tool[p].missed
      BY <1>1 DEF ToolRec
    <3>. QED
      BY <2>1, <3>1, <3>2
  <2>2. CASE tool' = [tool EXCEPT ![p].old = @ \ {kv}, ![p].missed = @ + 1]
    <3>. DEFINE u == [tool[p] EXCEPT !.old = @ \ {kv}, !.missed = @ + 1]
    <3>1. tool' = [tool EXCEPT ![p] = u]
      BY <1>1, <2>2 DEF ToolRec
    <3>2. tool[p].missed + 1 \in Nat /\ tool[p].missed + 1 # 0
      BY <1>1, InfoFacts
    <3>3. /\ u \in ToolRec /\ u.pc = "old" /\ u.old = tool[p].old \ {kv} /\ u.infos = tool[p].infos
          /\ u.oper = tool[p].oper /\ u.i = tool[p].i /\ u.missed # 0
      BY <1>1, <3>2 DEF ToolRec
    <3>. QED
      BY <3>1, <3>3
  <2>. QED
    BY <1>3, <2>1, <2>2
<1>5. CurOf(t) = c
  BY <1>4 DEF CurOf
<1>. HIDE DEF c
<1>6. InfoOf(t)
  BY <1>1, <1>4, <1>5 DEF InfoOf, c
<1>7. EInv'
  <2>1. confs' \subseteq Pkg \X Vers /\ dirs' \subseteq Pkg \X Vers
    BY <1>1, <1>3
  <2>. QED
    BY <1>1, <1>2, <1>4, <1>6, <2>1, MoveE
<1>8. ASSUME Extends = {}, SInv PROVE SInv'
  <2>1. ~setup.overlap => FreshOf(t)
    BY <1>1, <1>4, <1>8 DEF SInv, FreshInv, FreshOf
  <2>2. ASSUME ~setup.overlap, t.oper = "add", t.missed = 0
        PROVE  AddOf(t)'
    <3>1. /\ confs' = confs \ {kv} /\ dirs' = dirs \ {kv} /\ AddOf(tool[p])
          /\ tool[p].oper = "add" /\ tool[p].missed = 0
      BY <1>1, <1>4, <1>8, <2>2 DEF SInv, AddInv
    <3>2. c.vers = installed[c.pkg]
      BY <1>1, <1>8, <2>2 DEF SInv, FreshInv, FreshOf, InfoOf, c, CurOf
    <3>3. kv[1] = c.pkg /\ kv # <<c.pkg, c.vers>>
      BY <1>1, <1>3, <1>8 DEF InfoOf, Matches, KiVers, c
    <3>4. ASSUME NEW k \in DOMAIN t.infos, k < t.i, IsManaged(t.infos[k])
          PROVE  One(t.infos[k].pkg)'
      <4>. DEFINE n == t.infos[k].pkg
      <4>1. One(n)
        BY <1>1, <1>4, <3>1, <3>4 DEF AddOf
      <4>2. kv # <<n, installed[n]>>
        BY <3>2, <3>3
      <4>. HIDE DEF n
      <4>3. One(n)'
        BY <1>1, <3>1, <4>1, <4>2, OneKeeps
      <4>. QED
        BY <4>3 DEF n, One, Has
    <3>5. \A e \in confs' \cup dirs' : e[1] = c.pkg => e \in t.old \/ e = KiVers(c.pkg, c.vers)
      BY <1>1, <1>4, <3>1 DEF AddOf, c
    <3>. QED
      BY <1>1, <1>4, <1>5, <3>4, <3>5 DEF AddOf, IsManaged, Managed, CurOf
  <2>3. ~setup.overlap => AddOf(t)'
    BY <2>2 DEF AddOf
  <2>. QED
    BY <1>1, <1>4, <1>8, <2>1, <2>3, MoveS
<1>. QED
  BY <1>7, <1>8

LEMMA OneGrows ==
  ASSUME NEW n, NEW m, NEW w \in Vers, w = installed[m], installed' = installed,
         confs' = confs \cup {<<m, w>>}, dirs' = dirs \cup {<<m, w>>},
         \/ One(n)
         \/ n = m /\ \A v \in Vers : <<n, v>> \in confs \cup dirs => v = w
  PROVE  One(n)'
<1>. DEFINE u == installed[n]
<1>1. ASSUME One(n) PROVE u \in Vers
  BY <1>1 DEF One, Has, VersionsIn
<1>2. ASSUME NEW v \in Vers
      PROVE  /\ <<n, v>> \in confs' <=> v = u
             /\ <<n, v>> \in dirs' <=> v = u
  <2>1. <<n, v>> \in confs' <=> <<n, v>> \in confs \/ <<n, v>> = <<m, w>>
    OBVIOUS
  <2>2. <<n, v>> \in dirs' <=> <<n, v>> \in dirs \/ <<n, v>> = <<m, w>>
    OBVIOUS
  <2>3. <<n, v>> = <<m, w>> <=> n = m /\ v = w
    OBVIOUS
  <2>4. CASE One(n)
    <3>1. (<<n, v>> \in confs <=> v = u) /\ (<<n, v>> \in dirs <=> v = u)
      BY <2>4 DEF One, Has, VersionsIn, KiVers
    <3>. QED
      BY <2>1, <2>2, <2>3, <3>1
  <2>5. CASE n = m /\ \A x \in Vers : <<n, x>> \in confs \cup dirs => x = w
    <3>1. (<<n, v>> \in confs => v = w) /\ (<<n, v>> \in dirs => v = w)
      BY <2>5
    <3>. QED
      BY <2>1, <2>2, <2>3, <2>5, <3>1
  <2>. QED
    BY <2>4, <2>5
<1>3. u \in Vers
  BY <1>1
<1>. QED
  BY <1>2, <1>3 DEF One, Has, VersionsIn, KiVers

LEMMA ReapedFacts ==
  ASSUME EInv, NEW p \in Proc, NEW ok \in BOOLEAN, tool[p].pc = "child", ChildReaped(p, ok)
  PROVE  \E t \in ToolRec :
           /\ tool' = [tool EXCEPT ![p] = t]
           /\ t.pc = "update" /\ t.infos = tool[p].infos /\ t.oper = tool[p].oper
           /\ t.i = tool[p].i + 1
           /\ IF ok THEN t.missed = tool[p].missed ELSE t.missed # 0
<1>1. tool[p] \in ToolRec /\ tool \in [Proc -> ToolRec]
  BY DEF EInv, TypeOK
<1>2. /\ tool[p].i + 1 \in Nat \ {0} /\ tool[p].missed \in Nat
      /\ tool[p].missed + 1 \in Nat /\ tool[p].missed + 1 # 0
  BY <1>1, InfoFacts
<1>. DEFINE w == IF ok THEN tool[p].missed ELSE tool[p].missed + 1
            u == [tool[p] EXCEPT !.pc = "update", !.i = @ + 1, !.missed = w]
<1>3. tool' = [tool EXCEPT ![p] = u]
  BY <1>1 DEF ChildReaped, ToolRec
<1>4. w \in Nat /\ (IF ok THEN w = tool[p].missed ELSE w # 0)
  BY <1>2
<1>. HIDE DEF w
<1>5. /\ u \in ToolRec /\ u.pc = "update" /\ u.infos = tool[p].infos /\ u.oper = tool[p].oper
      /\ u.i = tool[p].i + 1 /\ u.missed = w
  BY <1>1, <1>2, <1>4 DEF ToolRec
<1>. QED
  BY <1>3, <1>4, <1>5

\* What a child may have done, and what the run makes of it.
ChildTold(p) ==
  LET kv == CurrentKiVers(p)
  IN  \/ /\ tool[p].oper = "add" /\ confs' = confs \cup {kv} /\ dirs' = dirs \cup {kv}
         /\ ChildReaped(p, TRUE)
      \/ /\ confs' \subseteq confs /\ dirs' \subseteq dirs \cup {kv}
         /\ ChildReaped(p, FALSE)
      \/ /\ tool[p].oper # "add" /\ confs' \subseteq confs /\ dirs' \subseteq dirs
         /\ ChildReaped(p, TRUE)

LEMMA ChildStep ==
  ASSUME EInv, NEW p \in Proc, ChildDone(p) \/ ChildFails(p)
  PROVE  EInv' /\ (SInv => SInv')
<1>. DEFINE c == CurOf(tool[p])
            kv == <<c.pkg, c.vers>>
<1>1. /\ tool[p] \in ToolRec /\ tool[p].pc = "child"
      /\ UNCHANGED <<setup, installed, phase, trans, nTrans>>
      /\ confs \subseteq Pkg \X Vers /\ dirs \subseteq Pkg \X Vers /\ phase \in Phases
      /\ trans \in TransRec /\ installed \in [Pkg -> {0} \cup Vers]
  BY DEF EInv, TypeOK, ChildDone, ChildFails, Phases
<1>2. nFaults' \in Nat
  BY FaultFacts DEF EInv, TypeOK, ChildDone, ChildFails
<1>3. /\ tool[p].i \in DOMAIN tool[p].infos /\ CurrentKiVers(p) = kv
      /\ c.pkg \in Pkg /\ c.pkg \in Managed /\ c.vers \in Vers /\ kv \in Pkg \X Vers
  BY <1>1, CurFacts
<1>4. ChildTold(p)
  BY DEF ChildDone, ChildFails, ChildTold
<1>5. PICK ok \in BOOLEAN :
        /\ ChildReaped(p, ok)
        /\ \/ ok /\ tool[p].oper = "add" /\ confs' = confs \cup {kv} /\ dirs' = dirs \cup {kv}
           \/ ~ok /\ confs' \subseteq confs /\ dirs' \subseteq dirs \cup {kv}
           \/ tool[p].oper # "add" /\ confs' \subseteq confs /\ dirs' \subseteq dirs
  BY <1>3, <1>4 DEF ChildTold
<1>6. PICK t \in ToolRec :
        /\ tool' = [tool EXCEPT ![p] = t]
        /\ t.pc = "update" /\ t.infos = tool[p].infos /\ t.oper = tool[p].oper
        /\ t.i = tool[p].i + 1
        /\ IF ok THEN t.missed = tool[p].missed ELSE t.missed # 0
  BY <1>1, <1>5, ReapedFacts
<1>. HIDE DEF kv
<1>7. EInv'
  <2>1. confs' \subseteq Pkg \X Vers /\ dirs' \subseteq Pkg \X Vers
    BY <1>1, <1>3, <1>5
  <2>2. InfoOf(t)
    BY <1>6 DEF InfoOf
  <2>. QED
    BY <1>1, <1>2, <1>6, <2>1, <2>2, MoveE
<1>8. ASSUME SInv PROVE SInv'
  <2>1. ~setup.overlap => FreshOf(t)
    BY <1>1, <1>6, <1>8 DEF SInv, FreshInv, FreshOf
  <2>2. ASSUME ~setup.overlap, t.oper = "add", t.missed = 0
        PROVE  AddOf(t)'
    <3>1. /\ confs' = confs \cup {kv} /\ dirs' = dirs \cup {kv} /\ AddOf(tool[p])
          /\ tool[p].oper = "add" /\ tool[p].missed = 0
      BY <1>1, <1>5, <1>6, <1>8, <2>2 DEF SInv, AddInv
    <3>2. c.vers = installed[c.pkg]
      BY <1>1, <1>3, <1>8, <2>2 DEF SInv, FreshInv, FreshOf, CurOf
    <3>3. ASSUME NEW k \in DOMAIN t.infos, k < t.i, IsManaged(t.infos[k])
          PROVE  One(t.infos[k].pkg)'
      <4>. DEFINE n == t.infos[k].pkg
      <4>1. k < tool[p].i \/ k = tool[p].i
        BY <1>1, <1>6, <3>3, InfoFacts
      <4>2. k < tool[p].i => One(n)
        BY <1>1, <1>6, <3>1, <3>3 DEF AddOf
      <4>3. ASSUME k = tool[p].i
            PROVE  n = c.pkg /\ \A v \in Vers : <<n, v>> \in confs \cup dirs => v = c.vers
        <5>1. n = c.pkg
          BY <1>6, <4>3 DEF CurOf
        <5>2. ASSUME NEW v \in Vers, <<n, v>> \in confs \cup dirs PROVE v = c.vers
          <6>1. <<n, v>>[1] = c.pkg
            BY <5>1
          <6>2. <<n, v>> = <<c.pkg, c.vers>>
            BY <1>1, <3>1, <5>2, <6>1 DEF AddOf, KiVers
          <6>. QED
            BY <6>2
        <5>. QED
          BY <5>1, <5>2
      <4>4. \/ One(n)
            \/ n = c.pkg /\ \A v \in Vers : <<n, v>> \in confs \cup dirs => v = c.vers
        BY <4>1, <4>2, <4>3
      <4>. HIDE DEF n, c
      <4>5. One(n)'
        BY <1>1, <1>3, <3>1, <3>2, <4>4, OneGrows DEF kv
      <4>. QED
        BY <4>5 DEF n, One, Has
    <3>. QED
      BY <1>1, <1>6, <3>3 DEF AddOf, IsManaged, Managed
  <2>3. ~setup.overlap => AddOf(t)'
    BY <2>2 DEF AddOf
  <2>. QED
    BY <1>1, <1>6, <1>8, <2>1, <2>3, MoveS
<1>. QED
  BY <1>7, <1>8

-----------------------------------------------------------------------------
(* The steps of pacman and the administrator.                              *)

Started(t) == t.pc = "lookup" /\ t.infos = <<>> /\ t.i = 1

\* Runs start and end, and the rest stay as they are.
LEMMA RestStep ==
  ASSUME EInv, TypeOK', UNCHANGED <<setup, installed, confs, dirs>>,
         \A q \in Proc : tool'[q].pc = "idle" \/ tool'[q] = tool[q] \/ Started(tool'[q])
  PROVE  /\ EInv'
         /\ SInv /\ SerialInv' => SInv'
<1>1. InfoInv'
  <2>. SUFFICES ASSUME NEW q \in Proc PROVE InfoOf(tool[q])'
    BY DEF InfoInv
  <2>1. InfoOf(tool'[q])
    BY DEF EInv, InfoInv, InfoOf, Started
  <2>. QED
    BY <2>1 DEF InfoOf, IsManaged, Managed, CurOf
<1>2. ASSUME SInv PROVE FreshInv'
  <2>. SUFFICES ASSUME ~setup.overlap, NEW q \in Proc PROVE FreshOf(tool[q])'
    BY DEF FreshInv
  <2>1. FreshOf(tool'[q])
    BY <1>2 DEF SInv, FreshInv, FreshOf, Started
  <2>. QED
    BY <2>1 DEF FreshOf
<1>3. ASSUME SInv PROVE AddInv'
  <2>. SUFFICES ASSUME ~setup.overlap, NEW q \in Proc, tool'[q].pc # "idle" PROVE AddOf(tool[q])'
    BY DEF AddInv
  <2>1. CASE tool'[q] = tool[q]
    <3>1. AddOf(tool[q])
      BY <1>3, <2>1 DEF SInv, AddInv
    <3>. QED
      BY <2>1, <3>1 DEF AddOf, CurOf, One, Has, VersionsIn, IsManaged, Managed
  <2>2. CASE Started(tool'[q])
    BY <2>2 DEF AddOf, Started
  <2>. QED
    BY <2>1, <2>2
<1>. QED
  BY <1>1, <1>2, <1>3 DEF EInv, SInv

\* While pacman has neither hook running, and nothing overlaps, no run is on.
LEMMA AllIdle ==
  ASSUME SInv, ~setup.overlap, phase \in {"pre", "commit"}
  PROVE  \A q \in Proc : tool[q].pc = "idle"
BY DEF SInv, SerialInv, Proc

LEMMA ExitStep == ASSUME EInv, NEW p \in Proc, Exit(p) PROVE EInv' /\ (SInv => SInv')
<1>1. /\ tool \in [Proc -> ToolRec] /\ tool[p].pc = "done" /\ tool' = [tool EXCEPT ![p] = IdleTool]
      /\ UNCHANGED <<setup, installed, confs, dirs, nTrans, nFaults>>
      /\ \/ /\ p = "hook" /\ phase' = IF phase = "preRun" THEN "commit" ELSE "idle"
            /\ trans' = IF phase = "preRun" THEN trans ELSE NoTrans
         \/ p # "hook" /\ UNCHANGED <<phase, trans>>
  BY DEF EInv, TypeOK, Exit
<1>2. tool' \in [Proc -> ToolRec] /\ tool'[p].pc = "idle" /\ \A q \in Proc : q # p => tool'[q] = tool[q]
  BY <1>1, IdleFacts
<1>3. NoTrans \in TransRec
  BY DEF NoTrans, TransRec
<1>4. TypeOK'
  BY <1>1, <1>2, <1>3 DEF EInv, TypeOK
<1>5. SInv => SerialInv'
  BY <1>1, <1>2 DEF SInv, SerialInv, Proc
<1>. QED
  BY <1>1, <1>2, <1>4, <1>5, RestStep

LEMMA BeginStep ==
  ASSUME EInv, NEW rm \in SUBSET Pkg, NEW ins \in SUBSET Pkg, Begin(rm, ins)
  PROVE  EInv' /\ (SInv => SInv')
<1>1. trans' \in TransRec
  BY DEF Begin, TransRec
<1>2. TypeOK'
  BY <1>1 DEF EInv, TypeOK, Begin
<1>3. SInv => SerialInv'
  BY DEF Begin, SInv, SerialInv
<1>. QED
  BY <1>2, <1>3, RestStep DEF Begin

LEMMA PreHookStep == ASSUME EInv, PreHook PROVE EInv' /\ (SInv => SInv')
<1>. DEFINE t == NewRun("remove", trans.rm \cap HookPkg)
<1>1. /\ tool \in [Proc -> ToolRec] /\ trans \in TransRec /\ phase = "pre"
      /\ UNCHANGED <<setup, installed, confs, dirs, trans, nTrans, nFaults>>
      /\ "hook" \in Proc
  BY DEF EInv, TypeOK, PreHook, Proc
<1>2. trans.rm \cap HookPkg \in SUBSET Pkg
  BY <1>1 DEF TransRec
<1>3. t \in ToolRec /\ Started(t)
  BY <1>2, NewRunFacts DEF Started
<1>. HIDE DEF t
<1>4. CASE phase' = "commit" /\ UNCHANGED tool
  <2>1. TypeOK'
    BY <1>1, <1>4 DEF EInv, TypeOK
  <2>2. SInv => SerialInv'
    BY <1>1, <1>4, AllIdle DEF SInv, SerialInv
  <2>. QED
    BY <1>1, <1>4, <2>1, <2>2, RestStep
<1>5. CASE phase' = "preRun" /\ tool' = [tool EXCEPT !["hook"] = t]
  <2>1. tool' \in [Proc -> ToolRec] /\ tool'["hook"] = t /\ \A q \in Proc : q # "hook" => tool'[q] = tool[q]
    BY <1>1, <1>3, <1>5
  <2>2. TypeOK'
    BY <1>1, <1>5, <2>1 DEF EInv, TypeOK
  <2>3. SInv => SerialInv'
    BY <1>1, <1>5, <2>1, AllIdle DEF SInv, SerialInv, Proc
  <2>. QED
    BY <1>1, <1>3, <2>1, <2>2, <2>3, RestStep
<1>. QED
  BY <1>4, <1>5 DEF PreHook, t

LEMMA PostHookStep == ASSUME EInv, PostHook PROVE EInv' /\ (SInv => SInv')
<1>. DEFINE t == NewRun("add", trans.ins \cap HookPkg)
<1>1. /\ tool \in [Proc -> ToolRec] /\ trans \in TransRec /\ phase = "commit"
      /\ UNCHANGED <<setup, installed, confs, dirs, nTrans, nFaults>>
      /\ "hook" \in Proc /\ NoTrans \in TransRec
  BY DEF EInv, TypeOK, PostHook, Proc, NoTrans, TransRec
<1>2. trans.ins \cap HookPkg \in SUBSET Pkg
  BY <1>1 DEF TransRec
<1>3. t \in ToolRec /\ Started(t)
  BY <1>2, NewRunFacts DEF Started
<1>. HIDE DEF t
<1>4. CASE phase' = "idle" /\ trans' = NoTrans /\ UNCHANGED tool
  <2>1. TypeOK'
    BY <1>1, <1>4 DEF EInv, TypeOK
  <2>2. SInv => SerialInv'
    BY <1>1, <1>4, AllIdle DEF SInv, SerialInv, Proc
  <2>. QED
    BY <1>1, <1>4, <2>1, <2>2, RestStep
<1>5. CASE phase' = "postRun" /\ tool' = [tool EXCEPT !["hook"] = t] /\ UNCHANGED trans
  <2>1. tool' \in [Proc -> ToolRec] /\ tool'["hook"] = t /\ \A q \in Proc : q # "hook" => tool'[q] = tool[q]
    BY <1>1, <1>3, <1>5
  <2>2. TypeOK'
    BY <1>1, <1>5, <2>1 DEF EInv, TypeOK
  <2>3. SInv => SerialInv'
    BY <1>1, <1>5, <2>1, AllIdle DEF SInv, SerialInv, Proc
  <2>. QED
    BY <1>1, <1>3, <2>1, <2>2, <2>3, RestStep
<1>. QED
  BY <1>4, <1>5 DEF PostHook, t

LEMMA CommitStep ==
  ASSUME EInv, NEW p \in Pkg, CommitRemove(p) \/ \E v \in Vers : CommitInstall(p, v)
  PROVE  EInv' /\ (SInv => SInv')
<1>1. /\ tool \in [Proc -> ToolRec] /\ trans \in TransRec /\ installed \in [Pkg -> {0} \cup Vers]
      /\ UNCHANGED <<setup, confs, dirs, phase, tool, nTrans, nFaults>> /\ phase = "commit"
  BY DEF EInv, TypeOK, CommitRemove, CommitInstall
<1>2. PICK v \in {0} \cup Vers : installed' = [installed EXCEPT ![p] = v]
  BY DEF CommitRemove, CommitInstall
<1>3. installed' \in [Pkg -> {0} \cup Vers]
  BY <1>1, <1>2
<1>4. trans' \in TransRec
  <2>1. trans' = [trans EXCEPT !.left = @ \ {p}]
    BY DEF CommitRemove, CommitInstall
  <2>. QED
    BY <1>1, <2>1 DEF TransRec
<1>5. TypeOK'
  BY <1>1, <1>3, <1>4 DEF EInv, TypeOK
<1>6. InfoInv'
  BY <1>1 DEF EInv, InfoInv, InfoOf, IsManaged, Managed, CurOf
<1>7. ASSUME SInv PROVE SInv'
  BY <1>1, <1>7, AllIdle DEF SInv, SerialInv, FreshInv, FreshOf, AddInv
<1>. QED
  BY <1>5, <1>6, <1>7 DEF EInv

LEMMA AdminStep ==
  ASSUME EInv, NEW oper \in setup.opers,
         NEW names \in {{n} : n \in Pkg} \cup {Managed}, AdminRun(oper, names)
  PROVE  EInv' /\ (SInv => SInv')
<1>. DEFINE t == NewRun(oper, names)
<1>1. /\ tool \in [Proc -> ToolRec] /\ tool["admin"].pc = "idle"
      /\ tool' = [tool EXCEPT !["admin"] = t]
      /\ UNCHANGED <<setup, installed, confs, dirs, phase, trans, nTrans, nFaults>>
      /\ setup.overlap \/ phase = "idle"
      /\ "admin" \in Proc
  BY DEF EInv, TypeOK, AdminRun, Proc
<1>2. oper \in {"add", "remove", "inspect"} /\ names \in SUBSET Pkg
  BY SetupFacts DEF EInv
<1>3. t \in ToolRec /\ Started(t)
  BY <1>2, NewRunFacts DEF Started
<1>. HIDE DEF t
<1>4. tool' \in [Proc -> ToolRec] /\ tool'["admin"] = t /\ \A q \in Proc : q # "admin" => tool'[q] = tool[q]
  BY <1>1, <1>3
<1>5. TypeOK'
  BY <1>1, <1>4 DEF EInv, TypeOK
<1>6. SInv => SerialInv'
  BY <1>1, <1>4 DEF SInv, SerialInv, Proc
<1>. QED
  BY <1>1, <1>3, <1>4, <1>5, <1>6, RestStep

LEMMA CrashStep == ASSUME EInv, Crash PROVE EInv' /\ (SInv => SInv')
<1>1. /\ tool' = [p \in Proc |-> IdleTool] /\ phase' = "idle" /\ trans' = NoTrans
      /\ UNCHANGED <<setup, installed, confs, dirs, nTrans>> /\ nFaults' \in Nat
  BY FaultFacts DEF EInv, Crash
<1>2. \A q \in Proc : tool'[q] \in ToolRec /\ tool'[q].pc = "idle"
  BY <1>1, IdleFacts
<1>3. tool' \in [Proc -> ToolRec] /\ NoTrans \in TransRec
  BY <1>1, IdleFacts DEF NoTrans, TransRec
<1>4. TypeOK'
  BY <1>1, <1>3 DEF EInv, TypeOK
<1>5. SerialInv'
  BY <1>1, <1>2 DEF SerialInv, Proc
<1>. QED
  BY <1>1, <1>2, <1>4, <1>5, RestStep

-----------------------------------------------------------------------------

LEMMA InitInv == Init => EInv /\ SInv
<1>. SUFFICES ASSUME Init PROVE EInv /\ SInv
  OBVIOUS
<1>1. \A q \in Proc : tool[q] = IdleTool /\ tool[q].pc = "idle"
  BY IdleFacts DEF Init
<1>2. tool \in [Proc -> ToolRec] /\ NoTrans \in TransRec
  BY IdleFacts DEF Init, NoTrans, TransRec
<1>3. confs \subseteq Pkg \X Vers
  <2>1. Managed \subseteq Pkg
    BY SetupAssumption DEF Init, Setup, Managed
  <2>. QED
    BY <2>1 DEF Init, KiVers
<1>4. TypeOK
  BY <1>2, <1>3 DEF Init, TypeOK
<1>5. InfoInv /\ SInv
  BY <1>1 DEF InfoInv, InfoOf, SInv, SerialInv, FreshInv, FreshOf, AddInv, Init, Proc
<1>. QED
  BY <1>4, <1>5 DEF EInv

LEMMA StepInv == EInv /\ [Next]_vars => EInv' /\ (Extends = {} /\ SInv => SInv')
<1>. SUFFICES ASSUME EInv, [Next]_vars PROVE EInv' /\ (Extends = {} /\ SInv => SInv')
  OBVIOUS
<1>1. CASE UNCHANGED vars
  <2>1. EInv'
    BY <1>1 DEF EInv, TypeOK, InfoInv, InfoOf, IsManaged, Managed, CurOf, vars
  <2>2. SInv => SInv'
    BY <1>1 DEF SInv, SerialInv, FreshInv, FreshOf, AddInv, AddOf, CurOf, One, Has,
                VersionsIn, IsManaged, Managed, vars
  <2>. QED
    BY <2>1, <2>2
<1>2. ASSUME NEW rm \in SUBSET Pkg, NEW ins \in SUBSET Pkg, Begin(rm, ins)
      PROVE  EInv' /\ (SInv => SInv')
  BY <1>2, BeginStep
<1>3. CASE Pacman
  BY <1>3, PreHookStep, PostHookStep, CommitStep DEF Pacman
<1>4. ASSUME NEW oper \in setup.opers, NEW names \in {{n} : n \in Pkg} \cup {Managed},
             AdminRun(oper, names)
      PROVE  EInv' /\ (SInv => SInv')
  BY <1>4, AdminStep
<1>5. ASSUME NEW p \in Proc, Run(p) PROVE EInv' /\ (Extends = {} /\ SInv => SInv')
  BY <1>5, LookupStep, EndLookupStep, SkipStep, FailStep, PrepareStep, RemoveOldStep, EndOldStep,
     ChildStep, EndUpdateStep, ExitStep DEF Run
<1>6. ASSUME NEW p \in Proc, Failure(p) PROVE EInv' /\ (Extends = {} /\ SInv => SInv')
  BY <1>6, FailStep, PrepareStep, RemoveOldStep, ChildStep DEF Failure
<1>7. CASE Crash
  BY <1>7, CrashStep
<1>. QED
  BY <1>1, <1>2, <1>3, <1>4, <1>5, <1>6, <1>7 DEF Next

\* The variables keep their types: what names a version on $BOOT is a version.
THEOREM EfiToolTypes == Spec => []TypeOK
<1>1. Init => EInv
  BY InitInv
<1>2. EInv /\ [Next]_vars => EInv'
  BY StepInv
<1>3. EInv => TypeOK
  BY DEF EInv
<1>. QED
  BY <1>1, <1>2, <1>3, PTL DEF Spec

\* Where no package's name goes on where another's ends, one run at a time
\* leaves a package it added in the one version it looked up, whatever failures
\* and crashes left on $BOOT before: what is old is searched among the entries
\* and the directories.
THEOREM AddLeavesOneAlways == ASSUME Extends = {} PROVE Spec => []AddLeavesOne
<1>1. Init => EInv /\ SInv
  BY InitInv
<1>2. EInv /\ SInv /\ [Next]_vars => (EInv /\ SInv)'
  BY StepInv
<1>3. EInv /\ SInv => AddLeavesOne
  <2>. SUFFICES ASSUME EInv, SInv, NEW p \in Proc, ~setup.overlap,
                       tool[p].pc = "done", tool[p].ret = 0,
                       tool[p].oper = "add", tool[p].missed = 0,
                       NEW k \in DOMAIN tool[p].infos, IsManaged(tool[p].infos[k])
                PROVE  /\ VersionsIn(confs, tool[p].infos[k].pkg) = {tool[p].infos[k].vers}
                       /\ VersionsIn(dirs, tool[p].infos[k].pkg) = {tool[p].infos[k].vers}
    BY DEF AddLeavesOne
  <2>1. One(tool[p].infos[k].pkg)
    BY DEF SInv, AddInv, AddOf
  <2>2. tool[p].infos[k].vers = installed[tool[p].infos[k].pkg]
    BY DEF SInv, FreshInv, FreshOf
  <2>. QED
    BY <2>1, <2>2 DEF One, Has
<1>. QED
  BY <1>1, <1>2, <1>3, PTL DEF Spec

-----------------------------------------------------------------------------
(* What a step may change on $BOOT.                                        *)

Changed == (confs \ confs') \cup (confs' \ confs) \cup (dirs \ dirs') \cup (dirs' \ dirs)

InHand(kv) ==
  \E p \in Proc :
    /\ tool[p].pc \in {"old", "child"}
    /\ Current(p).pkg = kv[1]
    /\ kv[1] \in Managed

LEMMA RunTouches ==
  ASSUME EInv, Extends = {}, NEW p \in Proc, Run(p) \/ Failure(p), NEW kv \in Changed
  PROVE  InHand(kv)
<1>1. CASE RemoveOld(p) \/ RemoveOldFails(p)
  <2>1. tool[p].pc = "old" /\ kv \in tool[p].old
    BY <1>1 DEF RemoveOld, RemoveOldFails, Changed
  <2>2. kv[1] = CurOf(tool[p]).pkg
    BY <2>1 DEF EInv, InfoInv, InfoOf, Matches
  <2>. QED
    BY <2>1, <2>2, CurFacts DEF InHand
<1>2. CASE ChildDone(p) \/ ChildFails(p) \/ VersionFileFails(p)
  <2>1. tool[p].pc = "child" /\ kv = CurrentKiVers(p)
    BY <1>2 DEF ChildDone, ChildFails, VersionFileFails, Changed
  <2>2. kv = <<CurOf(tool[p]).pkg, CurOf(tool[p]).vers>>
    BY <2>1, CurFacts
  <2>3. kv[1] = CurOf(tool[p]).pkg
    BY <2>2
  <2>. QED
    BY <2>1, <2>3, CurFacts DEF InHand
<1>3. CASE UNCHANGED <<confs, dirs>>
  BY <1>3 DEF Changed
<1>. QED
  BY <1>1, <1>2, <1>3 DEF Run, Failure, Lookup, EndLookup, SkipUnmanaged, NoVersion, Prepare, EndOld,
     EndUpdate, Exit, InitFails, UpdateFails, PrepareBlind

\* Where no package's name goes on where another's ends, what goes from $BOOT
\* or comes to it is of a managed package that some run has in hand, however
\* many runs of the hooks and the administrator interleave, fail or crash.
THEOREM OwnVersions == ASSUME Extends = {} PROVE Spec => OnlyOwnVersions
<1>1. Init => EInv
  BY InitInv
<1>2. EInv /\ [Next]_vars => EInv'
  BY StepInv
<1>3. EInv /\ [Next]_vars => [\A kv \in Changed : InHand(kv)]_vars
  <2>. SUFFICES ASSUME EInv, Next, NEW kv \in Changed PROVE InHand(kv)
    OBVIOUS
  <2>1. PICK p \in Proc : Run(p) \/ Failure(p)
    BY DEF Next, Begin, Pacman, PreHook, PostHook, CommitRemove, CommitInstall, AdminRun, Crash, Changed
  <2>. QED
    BY <2>1, RunTouches
<1>4. Spec => [][\A kv \in Changed : InHand(kv)]_vars
  BY <1>1, <1>2, <1>3, PTL DEF Spec
<1>. QED
  BY <1>4 DEF OnlyOwnVersions, Changed, InHand

-----------------------------------------------------------------------------
(* The boot menu.                                                          *)

LEMMA RightKeeps ==
  ASSUME NEW n, NEW kv, Right(n), kv # <<n, installed[n]>>, installed' = installed,
         confs' = confs \ {kv}, dirs' = dirs \ {kv}
  PROVE  Right(n)'
<1>. DEFINE W == {installed[n]} \ {0}
<1>1. VersionsIn(confs, n) = W /\ VersionsIn(dirs, n) = W
  BY DEF Right
<1>2. W \in SUBSET Vers /\ \A v \in W : kv # <<n, v>>
  BY <1>1 DEF VersionsIn
<1>. HIDE DEF W
<1>3. VersionsIn(confs', n) = W /\ VersionsIn(dirs', n) = W
  BY <1>1, <1>2, TakeKeeps
<1>. QED
  BY <1>3 DEF Right, VersionsIn, W

LEMMA GoneKeeps ==
  ASSUME NEW n, NEW kv, Gone(n), confs' = confs \ {kv}, dirs' = dirs \ {kv}
  PROVE  Gone(n)'
BY DEF Gone, VersionsIn

LEMMA GoneAfter ==
  ASSUME NEW n, Right(n) \/ Gone(n),
         confs' = confs \ {<<n, installed[n]>>}, dirs' = dirs \ {<<n, installed[n]>>}
  PROVE  Gone(n)'
<1>1. \A v \in Vers : <<n, v>> \in confs \cup dirs => v = installed[n]
  BY DEF Right, Gone, VersionsIn, KiVers
<1>2. \A v \in Vers : <<n, v>> \notin confs' /\ <<n, v>> \notin dirs'
  BY <1>1
<1>. QED
  BY <1>2 DEF Gone, VersionsIn, KiVers

\* Bringing the installed version of a package keeps what is right, and
\* what is gone of the others.
LEMMA RightGrows ==
  ASSUME NEW n, NEW m, NEW w \in Vers, w = installed[m], installed' = installed,
         confs' = confs \cup {<<m, w>>}, dirs' = dirs \cup {<<m, w>>}
  PROVE  /\ Right(n) => Right(n)'
         /\ Gone(n) /\ n # m => Gone(n)'
<1>1. ASSUME NEW v \in Vers
      PROVE  /\ <<n, v>> \in confs' <=> <<n, v>> \in confs \/ (n = m /\ v = w)
             /\ <<n, v>> \in dirs' <=> <<n, v>> \in dirs \/ (n = m /\ v = w)
  <2>1. <<n, v>> \in confs' <=> <<n, v>> \in confs \/ <<n, v>> = <<m, w>>
    OBVIOUS
  <2>2. <<n, v>> \in dirs' <=> <<n, v>> \in dirs \/ <<n, v>> = <<m, w>>
    OBVIOUS
  <2>3. <<n, v>> = <<m, w>> <=> n = m /\ v = w
    OBVIOUS
  <2>. QED
    BY <2>1, <2>2, <2>3
<1>2. ASSUME Right(n) PROVE Right(n)'
  <2>. DEFINE W == {installed[n]} \ {0}
  <2>1. ASSUME NEW v \in Vers
        PROVE  (<<n, v>> \in confs <=> v \in W) /\ (<<n, v>> \in dirs <=> v \in W)
    BY <1>2 DEF Right, VersionsIn, KiVers
  <2>2. W \subseteq Vers
    BY <1>2 DEF Right, VersionsIn
  <2>3. n = m => w \in W
    BY DEF Vers
  <2>. HIDE DEF W
  <2>4. ASSUME NEW v \in Vers
        PROVE  (<<n, v>> \in confs' <=> v \in W) /\ (<<n, v>> \in dirs' <=> v \in W)
    BY <1>1, <2>1, <2>3
  <2>5. VersionsIn(confs', n) = W /\ VersionsIn(dirs', n) = W
    BY <2>2, <2>4 DEF VersionsIn, KiVers
  <2>. QED
    BY <2>5 DEF Right, VersionsIn, W
<1>3. ASSUME Gone(n), n # m PROVE Gone(n)'
  BY <1>1, <1>3 DEF Gone, VersionsIn, KiVers
<1>. QED
  BY <1>2, <1>3

\* A run goes on and leaves $BOOT alone.
LEMMA QuietMenu ==
  ASSUME EInv, SInv, MenuBody, ~setup.overlap, NEW p \in Proc, tool[p].pc # "idle",
         UNCHANGED <<setup, installed, confs, dirs, phase, trans>>,
         \A q \in Proc : q # p => tool'[q] = tool[q],
         tool'[p].missed = tool[p].missed, tool'[p].oper = tool[p].oper,
         p = "hook" /\ phase = "preRun" => RemoveOf(tool'[p]),
         p = "hook" /\ phase = "postRun" => PostOf(tool'[p])
  PROVE  MenuBody'
<1>1. p = "admin" => phase = "idle"
  BY DEF SInv, SerialInv
<1>2. \A n : (Right(n)' <=> Right(n)) /\ (Gone(n)' <=> Gone(n))
  BY DEF Right, Gone, VersionsIn
<1>3. TransOK'
  BY DEF MenuBody, TransOK
<1>4. Shipped' = Shipped
  BY DEF Shipped, Managed
<1>5. phase = "preRun" => RemoveOf(tool["hook"])'
  BY <1>1, <1>2, <1>4 DEF MenuBody, RemoveOf, NamesOf, Proc
<1>6. phase = "postRun" => PostOf(tool["hook"])'
  BY <1>1, <1>2, <1>4 DEF MenuBody, PostOf, NamesOf, Proc
<1>7. (\A q \in Proc : tool[q].missed = 0)' /\ (tool["admin"].oper # "remove")'
  BY DEF MenuBody, Proc
<1>. QED
  BY <1>2, <1>3, <1>4, <1>5, <1>6, <1>7 DEF MenuBody

LEMMA LookupMenu ==
  ASSUME EInv, SInv, MenuBody, ~setup.overlap, NEW p \in Proc, Lookup(p)
  PROVE  MenuBody'
<1>1. PICK n \in tool[p].names :
        tool' = [tool EXCEPT ![p].names = @ \ {n},
                             ![p].infos = Append(@, [pkg |-> n, vers |-> PackageVersion(n)])]
  BY DEF Lookup
<1>. DEFINE info == [pkg |-> n, vers |-> PackageVersion(n)]
            t == tool'[p]
<1>2. /\ tool[p] \in ToolRec /\ tool \in [Proc -> ToolRec] /\ tool[p].pc = "lookup"
      /\ UNCHANGED <<setup, installed, confs, dirs, phase, trans>>
      /\ installed \in [Pkg -> {0} \cup Vers]
  BY DEF EInv, TypeOK, Lookup
<1>3. /\ \A q \in Proc : q # p => tool'[q] = tool[q]
      /\ t.pc = "lookup" /\ t.oper = tool[p].oper /\ t.missed = tool[p].missed /\ t.i = tool[p].i
      /\ t.names = tool[p].names \ {n} /\ t.infos = Append(tool[p].infos, info)
  BY <1>1, <1>2 DEF ToolRec
<1>4. n \in Pkg /\ tool[p].infos \in Seq(Info) /\ info \in Info /\ info.pkg = n
  BY <1>2, InfoFacts DEF Info, PackageVersion
<1>. HIDE DEF info, t
<1>5. NamesOf(t) = NamesOf(tool[p])
  <2>. DEFINE l == Len(tool[p].infos)
  <2>1. DOMAIN tool[p].infos = 1..l /\ l \in Nat /\ DOMAIN t.infos = 1..(l + 1)
    BY <1>3, <1>4
  <2>2. t.infos[l + 1] = info /\ \A k \in 1..l : t.infos[k] = tool[p].infos[k]
    BY <1>3, <1>4
  <2>. HIDE DEF l
  <2>3. 1..(l + 1) = (1..l) \cup {l + 1}
    BY <2>1
  <2>4. {t.infos[k].pkg : k \in DOMAIN t.infos} = {tool[p].infos[k].pkg : k \in DOMAIN tool[p].infos} \cup {n}
    BY <1>4, <2>1, <2>2, <2>3
  <2>. QED
    BY <1>1, <1>3, <2>4 DEF NamesOf
<1>6. /\ p = "hook" /\ phase = "preRun" => RemoveOf(t)
      /\ p = "hook" /\ phase = "postRun" => PostOf(t)
  BY <1>2, <1>3, <1>5 DEF MenuBody, RemoveOf, PostOf
<1>. QED
  BY <1>2, <1>3, <1>6, QuietMenu DEF t

\* A run that no longer looks up and is not through names what it looked up.
LEMMA HookNames ==
  ASSUME MenuBody, phase \in {"preRun", "postRun"}, tool["hook"].pc \in {"update", "old", "child"}
  PROVE  /\ \A k \in DOMAIN tool["hook"].infos :
              LET n == tool["hook"].infos[k].pkg
              IN  n \in HookPkg /\ (IF phase = "preRun" THEN n \in trans.rm ELSE n \in trans.ins)
         /\ \A n \in HookPkg \cap (IF phase = "preRun" THEN trans.rm ELSE trans.ins) :
              \E k \in DOMAIN tool["hook"].infos : tool["hook"].infos[k].pkg = n
         /\ tool["hook"].oper = IF phase = "preRun" THEN "remove" ELSE "add"
BY DEF MenuBody, RemoveOf, PostOf, NamesOf

LEMMA EndLookupMenu ==
  ASSUME EInv, SInv, MenuBody, ~setup.overlap, NEW p \in Proc, EndLookup(p)
  PROVE  MenuBody'
<1>. DEFINE t == tool'[p]
<1>1. /\ tool[p] \in ToolRec /\ tool \in [Proc -> ToolRec] /\ tool[p].pc = "lookup"
      /\ UNCHANGED <<setup, installed, confs, dirs, phase, trans>> /\ tool[p].names = {}
  BY DEF EInv, TypeOK, EndLookup
<1>2. CASE tool' = [tool EXCEPT ![p].pc = "update"]
  <2>1. /\ \A q \in Proc : q # p => tool'[q] = tool[q]
        /\ t.pc = "update" /\ t.oper = tool[p].oper /\ t.missed = tool[p].missed /\ t.i = tool[p].i
        /\ t.names = {} /\ t.infos = tool[p].infos
    BY <1>1, <1>2 DEF ToolRec
  <2>2. \A k \in DOMAIN tool[p].infos : ~(k < 1)
    BY <1>1, InfoFacts
  <2>. HIDE DEF t
  <2>3. /\ p = "hook" /\ phase = "preRun" => RemoveOf(t)
        /\ p = "hook" /\ phase = "postRun" => PostOf(t)
    BY <1>1, <2>1, <2>2 DEF MenuBody, RemoveOf, PostOf, NamesOf
  <2>. QED
    BY <1>1, <2>1, <2>3, QuietMenu DEF t
<1>3. CASE /\ ~\E k \in DOMAIN tool[p].infos : IsManaged(tool[p].infos[k])
           /\ tool' = [tool EXCEPT ![p] = Exited(@, 0)]
  <2>1. /\ \A q \in Proc : q # p => tool'[q] = tool[q]
        /\ t.pc = "done" /\ t.oper = tool[p].oper /\ t.missed = tool[p].missed
    BY <1>1, <1>3, ExitedFacts
  <2>. HIDE DEF t
  <2>2. /\ p = "hook" /\ phase = "preRun" => RemoveOf(t)
        /\ p = "hook" /\ phase = "postRun" => PostOf(t)
    BY <1>1, <1>3, <2>1 DEF MenuBody, RemoveOf, PostOf, NamesOf, IsManaged, Shipped
  <2>. QED
    BY <1>1, <2>1, <2>2, QuietMenu DEF t
<1>. QED
  BY <1>2, <1>3 DEF EndLookup

LEMMA SkipMenu ==
  ASSUME EInv, SInv, MenuBody, ~setup.overlap, NEW p \in Proc, SkipUnmanaged(p)
  PROVE  MenuBody'
<1>. DEFINE t == tool'[p]
<1>1. /\ tool[p] \in ToolRec /\ tool \in [Proc -> ToolRec] /\ tool[p].pc = "update"
      /\ ~IsManaged(tool[p].infos[tool[p].i])
      /\ tool' = [tool EXCEPT ![p].i = @ + 1]
      /\ UNCHANGED <<setup, installed, confs, dirs, phase, trans>>
  BY DEF EInv, TypeOK, SkipUnmanaged, InLoop, Current
<1>2. /\ \A q \in Proc : q # p => tool'[q] = tool[q]
      /\ t.pc = "update" /\ t.oper = tool[p].oper /\ t.missed = tool[p].missed
      /\ t.i = tool[p].i + 1 /\ t.names = tool[p].names /\ t.infos = tool[p].infos
  BY <1>1 DEF ToolRec
<1>3. \A k \in DOMAIN tool[p].infos : k < tool[p].i + 1 => k < tool[p].i \/ k = tool[p].i
  BY <1>1, InfoFacts
<1>. HIDE DEF t
<1>4. /\ p = "hook" /\ phase = "preRun" => RemoveOf(t)
      /\ p = "hook" /\ phase = "postRun" => PostOf(t)
  BY <1>1, <1>2, <1>3 DEF MenuBody, RemoveOf, PostOf, NamesOf, IsManaged, Shipped
<1>. QED
  BY <1>1, <1>2, <1>4, QuietMenu DEF t

\* A hook's run is at packages that are installed.
LEMMA NoVersionMenu ==
  ASSUME EInv, SInv, MenuBody, ~setup.overlap, NEW p \in Proc, NoVersion(p)
  PROVE  MenuBody'
<1>. DEFINE t == tool'[p]
            n == CurOf(tool[p]).pkg
<1>1. /\ tool[p] \in ToolRec /\ tool \in [Proc -> ToolRec] /\ tool[p].pc = "update"
      /\ CurOf(tool[p]).vers = 0 /\ tool[p].i <= Len(tool[p].infos)
      /\ tool' = [tool EXCEPT ![p] = Exited(@, 1)]
      /\ UNCHANGED <<setup, installed, confs, dirs, phase, trans>>
  BY DEF EInv, TypeOK, NoVersion, InLoop, Current, CurOf
<1>2. /\ \A q \in Proc : q # p => tool'[q] = tool[q]
      /\ t.oper = tool[p].oper /\ t.missed = tool[p].missed
  BY <1>1, ExitedFacts
<1>3. tool[p].i \in DOMAIN tool[p].infos
  BY <1>1, InfoFacts
<1>4. installed[n] = 0
  BY <1>1, <1>3 DEF SInv, FreshInv, FreshOf, CurOf
<1>5. p # "hook"
  <2>. SUFFICES ASSUME p = "hook" PROVE FALSE
    OBVIOUS
  <2>1. phase \in {"preRun", "postRun"}
    BY <1>1 DEF SInv, SerialInv
  <2>2. n \in HookPkg /\ (IF phase = "preRun" THEN n \in trans.rm ELSE n \in trans.ins)
    BY <1>1, <1>3, <2>1, HookNames DEF CurOf
  <2>3. installed[n] # 0
    BY <2>1, <2>2 DEF MenuBody, TransOK
  <2>. QED
    BY <1>4, <2>3
<1>. QED
  BY <1>1, <1>2, <1>5, QuietMenu

LEMMA PrepareMenu ==
  ASSUME EInv, SInv, MenuBody, ~setup.overlap, NEW p \in Proc, Prepare(p) \/ EndOld(p)
  PROVE  MenuBody'
<1>. DEFINE t == tool'[p]
<1>1. /\ tool[p] \in ToolRec /\ tool \in [Proc -> ToolRec] /\ tool[p].pc \in {"update", "old"}
      /\ UNCHANGED <<setup, installed, confs, dirs, phase, trans>>
  BY DEF EInv, TypeOK, Prepare, EndOld, InLoop
<1>2. /\ \A q \in Proc : q # p => tool'[q] = tool[q]
      /\ t.pc \in {"old", "child"} /\ t.oper = tool[p].oper /\ t.missed = tool[p].missed
      /\ t.i = tool[p].i /\ t.names = tool[p].names /\ t.infos = tool[p].infos
      /\ tool[p].oper = "remove" => t.pc = "child"
  BY <1>1 DEF Prepare, EndOld, ToolRec
<1>. HIDE DEF t
<1>3. /\ p = "hook" /\ phase = "preRun" => RemoveOf(t)
      /\ p = "hook" /\ phase = "postRun" => PostOf(t)
  BY <1>1, <1>2 DEF MenuBody, RemoveOf, PostOf, NamesOf
<1>. QED
  BY <1>1, <1>2, <1>3, QuietMenu DEF t

LEMMA OneIsRight ==
  ASSUME NEW n, One(n)
  PROVE  Right(n)
<1>1. installed[n] \in Vers /\ 0 \notin Vers
  BY DEF One, Has, VersionsIn, Vers
<1>. QED
  BY <1>1 DEF One, Has, Right

LEMMA EndUpdateMenu ==
  ASSUME EInv, SInv, MenuBody, ~setup.overlap, NEW p \in Proc, EndUpdate(p)
  PROVE  MenuBody'
<1>. DEFINE t == tool'[p]
<1>1. /\ tool[p] \in ToolRec /\ tool \in [Proc -> ToolRec] /\ tool[p].pc = "update"
      /\ tool[p].i > Len(tool[p].infos)
      /\ tool' = [tool EXCEPT ![p] = Exited(@, 0)]
      /\ UNCHANGED <<setup, installed, confs, dirs, phase, trans>>
  BY DEF EInv, TypeOK, EndUpdate
<1>2. /\ \A q \in Proc : q # p => tool'[q] = tool[q]
      /\ t.pc = "done" /\ t.oper = tool[p].oper /\ t.missed = tool[p].missed
  BY <1>1, ExitedFacts
<1>3. \A k \in DOMAIN tool[p].infos : k < tool[p].i
  BY <1>1, InfoFacts
<1>. HIDE DEF t
<1>4. ASSUME p = "hook", phase = "preRun" PROVE RemoveOf(t)
  <2>1. \A n \in Shipped \cap trans.rm : Gone(n)
    BY <1>1, <1>3, <1>4, HookNames DEF MenuBody, RemoveOf, Shipped
  <2>. QED
    BY <1>1, <1>2, <1>4, <2>1 DEF MenuBody, RemoveOf
<1>5. ASSUME p = "hook", phase = "postRun" PROVE PostOf(t)
  <2>1. AddOf(tool[p]) /\ tool[p].oper = "add" /\ tool[p].missed = 0
    BY <1>1, <1>5 DEF SInv, AddInv, MenuBody, PostOf
  <2>2. ASSUME NEW n \in Shipped \cap trans.ins PROVE Right(n)
    <3>1. PICK k \in DOMAIN tool[p].infos : tool[p].infos[k].pkg = n
      BY <1>1, <1>5, HookNames DEF Shipped
    <3>2. One(n)
      BY <1>1, <1>3, <2>1, <3>1 DEF AddOf, IsManaged, Shipped
    <3>. QED
      BY <3>2, OneIsRight
  <2>. QED
    BY <1>1, <1>2, <1>5, <2>2 DEF MenuBody, PostOf
<1>. QED
  BY <1>1, <1>2, <1>4, <1>5, QuietMenu DEF t

LEMMA RemoveOldMenu ==
  ASSUME EInv, SInv, MenuBody, ~setup.overlap, Extends = {}, NEW p \in Proc, RemoveOld(p)
  PROVE  MenuBody'
<1>. DEFINE c == CurOf(tool[p])
            t == tool'[p]
<1>1. /\ tool[p] \in ToolRec /\ tool \in [Proc -> ToolRec] /\ tool[p].pc = "old" /\ InfoOf(tool[p])
      /\ UNCHANGED <<setup, installed, phase, trans>>
  BY DEF EInv, TypeOK, InfoInv, RemoveOld
<1>2. PICK kv \in tool[p].old :
        /\ confs' = confs \ {kv} /\ dirs' = dirs \ {kv}
        /\ tool' = [tool EXCEPT ![p].old = @ \ {kv}]
  BY DEF RemoveOld
<1>3. /\ \A q \in Proc : q # p => tool'[q] = tool[q]
      /\ t.pc = "old" /\ t.oper = tool[p].oper /\ t.missed = tool[p].missed
      /\ t.i = tool[p].i /\ t.names = tool[p].names /\ t.infos = tool[p].infos
  BY <1>1, <1>2 DEF ToolRec
<1>4. c.vers = installed[c.pkg]
  BY <1>1 DEF SInv, FreshInv, FreshOf, InfoOf, CurOf
<1>5. \A n : kv # <<n, installed[n]>>
  BY <1>1, <1>2, <1>4 DEF InfoOf, Matches, KiVers
<1>6. \A n : (Right(n) => Right(n)') /\ (Gone(n) => Gone(n)')
  BY <1>1, <1>2, <1>5, RightKeeps, GoneKeeps
<1>7. (p = "admin" => phase = "idle") /\ tool[p].oper = "add"
  BY <1>1 DEF SInv, SerialInv, InfoOf
<1>. HIDE DEF t, c
<1>8. /\ phase # "preRun" \/ p # "hook"
      /\ p = "hook" /\ phase = "postRun" => PostOf(t)
  BY <1>1, <1>3, <1>7 DEF MenuBody, RemoveOf, PostOf, NamesOf
<1>9. Shipped' = Shipped /\ TransOK'
  BY <1>1 DEF MenuBody, TransOK, Shipped, Managed
<1>10. phase' # "preRun"
  BY <1>1, <1>7, <1>8 DEF Proc
<1>11. phase = "postRun" => PostOf(tool["hook"])'
  BY <1>1, <1>3, <1>6, <1>7, <1>8, <1>9, <1>10 DEF MenuBody, PostOf, NamesOf, Proc, t
<1>12. (\A q \in Proc : tool[q].missed = 0)' /\ (tool["admin"].oper # "remove")'
  BY <1>3 DEF MenuBody, Proc, t
<1>. QED
  BY <1>1, <1>6, <1>9, <1>10, <1>11, <1>12 DEF MenuBody

LEMMA ChildMenu ==
  ASSUME EInv, SInv, MenuBody, ~setup.overlap, NEW p \in Proc, ChildDone(p)
  PROVE  MenuBody'
<1>. DEFINE c == CurOf(tool[p])
            kv == <<c.pkg, c.vers>>
            t == tool'[p]
<1>1. /\ tool[p] \in ToolRec /\ tool \in [Proc -> ToolRec] /\ tool[p].pc = "child"
      /\ UNCHANGED <<setup, installed, phase, trans>>
  BY DEF EInv, TypeOK, ChildDone
<1>2. /\ tool[p].i \in DOMAIN tool[p].infos /\ CurrentKiVers(p) = kv /\ Current(p) = c
      /\ c.pkg \in Pkg /\ c.pkg \in Managed /\ c.vers \in Vers
  BY <1>1, CurFacts
<1>3. c.vers = installed[c.pkg] /\ installed[c.pkg] # 0
  <2>1. c.vers = installed[c.pkg]
    BY <1>1, <1>2 DEF SInv, FreshInv, FreshOf, CurOf
  <2>. QED
    BY <1>2, <2>1 DEF Vers
<1>4. /\ ChildReaped(p, TRUE)
      /\ \/ tool[p].oper = "add" /\ confs' = confs \cup {kv} /\ dirs' = dirs \cup {kv}
         \/ tool[p].oper = "remove" /\ confs' = confs \ {kv} /\ dirs' = dirs \ {kv}
         \/ tool[p].oper = "inspect" /\ UNCHANGED <<confs, dirs>>
  BY <1>2, <1>3 DEF ChildDone
<1>5. /\ \A q \in Proc : q # p => tool'[q] = tool[q]
      /\ t.pc = "update" /\ t.oper = tool[p].oper /\ t.missed = tool[p].missed
      /\ t.i = tool[p].i + 1 /\ t.names = tool[p].names /\ t.infos = tool[p].infos
  BY <1>1, <1>4 DEF ChildReaped, ToolRec
<1>6. p = "admin" => phase = "idle"
  BY <1>1 DEF SInv, SerialInv
<1>7. p = "hook" => phase \in {"preRun", "postRun"}
  BY <1>1 DEF SInv, SerialInv
<1>8. p = "hook" => /\ c.pkg \in Shipped
                    /\ IF phase = "preRun" THEN c.pkg \in trans.rm ELSE c.pkg \in trans.ins
                    /\ tool[p].oper = IF phase = "preRun" THEN "remove" ELSE "add"
  BY <1>1, <1>2, <1>7, HookNames DEF CurOf, Shipped
<1>9. Shipped' = Shipped /\ TransOK'
  BY <1>1 DEF MenuBody, TransOK, Shipped, Managed
<1>10. (\A q \in Proc : tool[q].missed = 0)' /\ (tool["admin"].oper # "remove")'
  BY <1>5 DEF MenuBody, Proc
<1>11. \A k \in DOMAIN tool[p].infos : k < tool[p].i + 1 => k < tool[p].i \/ k = tool[p].i
  BY <1>1, InfoFacts
<1>12. p = "hook" /\ phase = "postRun" => PostOf(t)
  BY <1>1, <1>5 DEF MenuBody, PostOf, NamesOf
<1>. HIDE DEF t, kv, c
<1>13. CASE tool[p].oper = "inspect"
  <2>1. p = "admin" /\ phase = "idle"
    BY <1>6, <1>7, <1>8, <1>13 DEF Proc
  <2>. QED
    BY <1>1, <1>4, <1>5, <1>13, <2>1, QuietMenu DEF t
<1>14. CASE tool[p].oper = "add"
  <2>1. confs' = confs \cup {kv} /\ dirs' = dirs \cup {kv}
    BY <1>4, <1>14
  <2>2. \A n : (Right(n) => Right(n)') /\ (Gone(n) /\ n # c.pkg => Gone(n)')
    BY <1>1, <1>2, <1>3, <2>1, RightGrows DEF kv
  <2>3. phase # "preRun" \/ p # "hook"
    BY <1>8, <1>14
  <2>4. phase' \notin {"preRun", "commit"}
    BY <1>1, <1>6, <1>7, <2>3 DEF Proc
  <2>5. phase = "postRun" => PostOf(tool["hook"])'
    <3>. SUFFICES ASSUME phase = "postRun" PROVE PostOf(tool["hook"])'
      OBVIOUS
    <3>1. p = "hook" /\ PostOf(t)
      BY <1>6, <1>12 DEF Proc
    <3>. QED
      BY <1>1, <1>5, <1>9, <2>2, <3>1 DEF PostOf, NamesOf, t
  <2>6. phase = "postRun" => \A n \in Shipped \cap trans.rm : Gone(n)'
    <3>. SUFFICES ASSUME phase = "postRun", NEW n \in Shipped \cap trans.rm PROVE Gone(n)'
      OBVIOUS
    <3>1. c.pkg \in trans.ins
      BY <1>6, <1>8 DEF Proc
    <3>2. n # c.pkg
      BY <3>1 DEF MenuBody, TransOK
    <3>. QED
      BY <2>2, <3>2 DEF MenuBody
  <2>. QED
    BY <1>1, <1>9, <1>10, <2>2, <2>4, <2>5, <2>6 DEF MenuBody
<1>15. CASE tool[p].oper = "remove"
  <2>1. p = "hook" /\ phase = "preRun"
    BY <1>7, <1>8, <1>15 DEF MenuBody, Proc
  <2>2. confs' = confs \ {kv} /\ dirs' = dirs \ {kv}
    BY <1>4, <1>15
  <2>3. RemoveOf(tool[p])
    BY <2>1 DEF MenuBody
  <2>4. \A n : n # c.pkg => kv # <<n, installed[n]>>
    BY DEF kv
  <2>5. \A n : n # c.pkg /\ Right(n) => Right(n)'
    BY <1>1, <2>2, <2>4, RightKeeps
  <2>6. \A n : Gone(n) => Gone(n)'
    BY <2>2, GoneKeeps
  <2>. PICK m : m = c.pkg
    OBVIOUS
  <2>7. Gone(m)'
    <3>1. Right(m) \/ Gone(m)
      BY <1>8, <2>1, <2>3 DEF RemoveOf
    <3>. QED
      BY <1>3, <2>2, <3>1, GoneAfter DEF kv
  <2>8. \A n \in Shipped \cap trans.rm : Right(n)' \/ Gone(n)'
    BY <2>3, <2>5, <2>6, <2>7 DEF RemoveOf
  <2>9. \A k \in DOMAIN t.infos, n \in Shipped : k < t.i /\ t.infos[k].pkg = n => Gone(n)'
    BY <1>1, <1>5, <1>11, <2>3, <2>6, <2>7 DEF RemoveOf, c, CurOf
  <2>10. RemoveOf(tool["hook"])'
    BY <1>1, <1>5, <1>9, <2>1, <2>3, <2>8, <2>9 DEF RemoveOf, NamesOf, t
  <2>11. \A n \in Shipped : n \notin trans.rm \cup trans.ins => Right(n)'
    BY <1>8, <2>1, <2>5 DEF MenuBody
  <2>. QED
    BY <1>1, <1>9, <1>10, <2>1, <2>10, <2>11 DEF MenuBody
<1>. QED
  BY <1>4, <1>13, <1>14, <1>15

LEMMA ExitMenu ==
  ASSUME EInv, SInv, MenuBody, ~setup.overlap, NEW p \in Proc, Exit(p)
  PROVE  MenuBody'
<1>1. /\ tool \in [Proc -> ToolRec] /\ tool[p].pc = "done"
      /\ tool' = [tool EXCEPT ![p] = IdleTool]
      /\ UNCHANGED <<setup, installed, confs, dirs>>
  BY DEF EInv, TypeOK, Exit
<1>2. /\ \A q \in Proc : q # p => tool'[q] = tool[q]
      /\ tool'[p].missed = 0 /\ tool'[p].oper = "none"
  BY <1>1, IdleFacts
<1>3. (\A q \in Proc : tool[q].missed = 0)' /\ (tool["admin"].oper # "remove")'
  BY <1>2 DEF MenuBody, Proc
<1>4. Shipped' = Shipped /\ \A n : (Right(n)' <=> Right(n)) /\ (Gone(n)' <=> Gone(n))
  BY <1>1 DEF Shipped, Managed, Right, Gone, VersionsIn
<1>5. CASE p = "admin"
  <2>1. phase = "idle" /\ UNCHANGED <<phase, trans>>
    BY <1>1, <1>5 DEF SInv, SerialInv, Exit
  <2>. QED
    BY <1>1, <1>3, <1>4, <2>1 DEF MenuBody, TransOK
<1>6. CASE p = "hook" /\ phase = "preRun"
  <2>1. phase' = "commit" /\ trans' = trans
    BY <1>6 DEF Exit
  <2>2. \A n \in Shipped \cap trans.rm : Gone(n)
    BY <1>1, <1>6 DEF MenuBody, RemoveOf
  <2>3. TransOK'
    BY <1>1, <1>6, <2>1 DEF MenuBody, TransOK
  <2>. QED
    BY <1>3, <1>4, <1>6, <2>1, <2>2, <2>3 DEF MenuBody
<1>7. CASE p = "hook" /\ phase = "postRun"
  <2>1. phase' = "idle" /\ trans' = NoTrans
    BY <1>7 DEF Exit
  <2>2. \A n \in Shipped \cap trans.ins : Right(n)
    BY <1>1, <1>7 DEF MenuBody, PostOf
  <2>3. \A n \in Shipped \cap trans.rm : installed[n] = 0 /\ Gone(n)
    BY <1>7 DEF MenuBody, TransOK
  <2>4. \A n \in Shipped : Right(n)
    BY <1>7, <2>2, <2>3 DEF MenuBody, Right, Gone
  <2>. QED
    BY <1>3, <1>4, <2>1, <2>4 DEF MenuBody, TransOK
<1>. QED
  BY <1>1, <1>5, <1>6, <1>7 DEF SInv, SerialInv, Proc

LEMMA PacmanMenu ==
  ASSUME EInv, SInv, MenuBody, ~setup.overlap, Pacman
  PROVE  MenuBody'
<1>1. UNCHANGED <<setup, confs, dirs>> /\ tool \in [Proc -> ToolRec] /\ phase \in {"pre", "commit"}
  BY DEF EInv, TypeOK, Pacman, PreHook, PostHook, CommitRemove, CommitInstall
<1>2. /\ trans \in TransRec /\ installed \in [Pkg -> {0} \cup Vers] /\ Proc = {"hook", "admin"}
      /\ Shipped \subseteq Pkg
  BY SetupFacts DEF EInv, TypeOK, Proc
<1>3. Shipped' = Shipped /\ \A n : Gone(n)' <=> Gone(n)
  BY <1>1 DEF Shipped, Managed, Gone, VersionsIn
<1>4. CASE PreHook
  <2>. DEFINE names == trans.rm \cap HookPkg
              t == NewRun("remove", names)
  <2>1. phase = "pre" /\ UNCHANGED <<installed, trans>>
    BY <1>4 DEF PreHook
  <2>2. \A n : Right(n)' <=> Right(n)
    BY <1>1, <2>1 DEF Right, VersionsIn
  <2>3. names \in SUBSET Pkg
    BY <1>2 DEF TransRec
  <2>4. /\ t \in ToolRec /\ t.pc = "lookup" /\ t.oper = "remove" /\ t.names = names
        /\ t.infos = <<>> /\ t.i = 1 /\ t.missed = 0
    BY <2>3, NewRunFacts
  <2>. HIDE DEF t
  <2>5. CASE names = {} /\ phase' = "commit" /\ UNCHANGED tool
    BY <1>1, <1>3, <2>1, <2>2, <2>5 DEF MenuBody, TransOK, Shipped
  <2>6. CASE phase' = "preRun" /\ tool' = [tool EXCEPT !["hook"] = t]
    <3>1. tool'["hook"] = t /\ tool'["admin"] = tool["admin"]
      BY <1>1, <1>2, <2>6
    <3>2. RemoveOf(tool["hook"])'
      <4>1. NamesOf(t) = names
        BY <2>4 DEF NamesOf
      <4>. QED
        BY <1>3, <2>1, <2>2, <2>4, <3>1, <4>1 DEF MenuBody, RemoveOf, NamesOf, Shipped
    <3>. QED
      BY <1>1, <1>2, <1>3, <2>1, <2>2, <2>4, <2>6, <3>1, <3>2 DEF MenuBody, TransOK
  <2>. QED
    BY <1>4, <2>5, <2>6 DEF PreHook, t
<1>5. ASSUME NEW p \in Pkg, CommitRemove(p) \/ \E v \in Vers : CommitInstall(p, v)
      PROVE  MenuBody'
  <2>1. UNCHANGED <<phase, tool>> /\ phase = "commit" /\ p \in trans.left
    BY <1>5 DEF CommitRemove, CommitInstall
  <2>2. PICK v \in {0} \cup Vers :
          /\ installed' = [installed EXCEPT ![p] = v]
          /\ (v = 0 /\ p \in trans.rm) \/ (v # 0 /\ p \in trans.ins)
    BY <1>5 DEF CommitRemove, CommitInstall, Vers
  <2>3. installed'[p] = v /\ \A n \in Pkg : n # p => installed'[n] = installed[n]
    BY <1>2, <2>2
  <2>4. trans' = [trans EXCEPT !.left = @ \ {p}]
    BY <1>5 DEF CommitRemove, CommitInstall
  <2>5. trans'.rm = trans.rm /\ trans'.ins = trans.ins /\ trans'.left = trans.left \ {p}
    BY <1>2, <2>4 DEF TransRec
  <2>6. trans.rm \subseteq Pkg /\ trans.ins \subseteq Pkg /\ trans.rm \cap trans.ins = {}
    BY <1>2, <2>1 DEF TransRec, MenuBody, TransOK
  <2>7. TransOK'
    BY <2>1, <2>2, <2>3, <2>5, <2>6 DEF MenuBody, TransOK
  <2>8. \A n \in Shipped : n \notin trans.rm \cup trans.ins => Right(n)'
    <3>. SUFFICES ASSUME NEW n \in Shipped, n \notin trans.rm \cup trans.ins PROVE Right(n)'
      OBVIOUS
    <3>1. installed'[n] = installed[n]
      BY <1>2, <2>2, <2>3
    <3>. QED
      BY <1>1, <2>1, <3>1 DEF MenuBody, Right, VersionsIn
  <2>. QED
    BY <1>3, <2>1, <2>5, <2>7, <2>8 DEF MenuBody
<1>6. CASE PostHook
  <2>. DEFINE names == trans.ins \cap HookPkg
              t == NewRun("add", names)
  <2>1. phase = "commit" /\ trans.left = {} /\ UNCHANGED installed
    BY <1>6 DEF PostHook
  <2>2. \A n : Right(n)' <=> Right(n)
    BY <1>1, <2>1 DEF Right, VersionsIn
  <2>3. names \in SUBSET Pkg
    BY <1>2 DEF TransRec
  <2>4. /\ t \in ToolRec /\ t.pc = "lookup" /\ t.oper = "add" /\ t.names = names
        /\ t.infos = <<>> /\ t.i = 1 /\ t.missed = 0
    BY <2>3, NewRunFacts
  <2>. HIDE DEF t
  <2>5. CASE names = {} /\ phase' = "idle" /\ UNCHANGED tool
    <3>1. \A n \in Shipped \cap trans.rm : installed[n] = 0 /\ Gone(n)
      BY <2>1 DEF MenuBody, TransOK
    <3>2. \A n \in Shipped : Right(n)
      BY <2>1, <2>5, <3>1 DEF MenuBody, Right, Gone, Shipped
    <3>. QED
      BY <1>3, <2>2, <2>5, <3>2 DEF MenuBody, TransOK
  <2>6. CASE phase' = "postRun" /\ tool' = [tool EXCEPT !["hook"] = t] /\ UNCHANGED trans
    <3>1. tool'["hook"] = t /\ tool'["admin"] = tool["admin"]
      BY <1>1, <1>2, <2>6
    <3>2. PostOf(tool["hook"])'
      <4>1. NamesOf(t) = names
        BY <2>4 DEF NamesOf
      <4>. QED
        BY <1>3, <2>1, <2>2, <2>4, <2>6, <3>1, <4>1 DEF MenuBody, PostOf, NamesOf, Shipped
    <3>. QED
      BY <1>1, <1>2, <1>3, <2>1, <2>2, <2>4, <2>6, <3>1, <3>2 DEF MenuBody, TransOK
  <2>. QED
    BY <1>6, <2>5, <2>6 DEF PostHook, t
<1>. QED
  BY <1>4, <1>5, <1>6 DEF Pacman

LEMMA BeginMenu ==
  ASSUME EInv, MenuBody, NEW rm \in SUBSET Pkg, NEW ins \in SUBSET Pkg, Begin(rm, ins)
  PROVE  MenuBody'
<1>1. /\ phase = "idle" /\ phase' = "pre" /\ UNCHANGED <<setup, installed, confs, dirs, tool>>
      /\ rm \cap ins = {} /\ \A n \in rm : installed[n] # 0
      /\ trans'.rm = rm /\ trans'.ins = ins /\ trans'.left = rm \cup ins
  BY DEF Begin
<1>2. TransOK'
  BY <1>1 DEF TransOK
<1>3. Shipped' = Shipped /\ \A n : Right(n)' <=> Right(n)
  BY <1>1 DEF Shipped, Managed, Right, VersionsIn
<1>. QED
  BY <1>1, <1>2, <1>3 DEF MenuBody

LEMMA AdminMenu ==
  ASSUME EInv, MenuBody, ~setup.overlap, NEW oper \in setup.opers \ {"remove"},
         NEW names \in {{n} : n \in Pkg} \cup {Managed}, AdminRun(oper, names)
  PROVE  MenuBody'
<1>1. /\ tool \in [Proc -> ToolRec] /\ phase = "idle"
      /\ tool' = [tool EXCEPT !["admin"] = NewRun(oper, names)]
      /\ UNCHANGED <<setup, installed, confs, dirs, phase, trans>>
  BY DEF EInv, TypeOK, AdminRun
<1>2. oper \in {"add", "remove", "inspect"} /\ oper # "remove" /\ names \in SUBSET Pkg
  BY SetupFacts DEF EInv
<1>3. NewRun(oper, names).missed = 0 /\ NewRun(oper, names).oper = oper
  BY <1>2, NewRunFacts
<1>4. (\A q \in Proc : tool[q].missed = 0)' /\ (tool["admin"].oper # "remove")'
  BY <1>1, <1>2, <1>3 DEF MenuBody, Proc
<1>5. Shipped' = Shipped /\ \A n : Right(n)' <=> Right(n)
  BY <1>1 DEF Shipped, Managed, Right, VersionsIn
<1>. QED
  BY <1>1, <1>4, <1>5 DEF MenuBody, TransOK

LEMMA InitMenu == Init => MenuInv
<1>. SUFFICES ASSUME Init PROVE MenuBody
  BY DEF MenuInv
<1>1. \A q \in Proc : tool[q].missed = 0 /\ tool[q].oper = "none"
  BY IdleFacts DEF Init
<1>2. ASSUME NEW n \in Shipped PROVE Right(n)
  <2>1. n \in Managed /\ n \in Pkg /\ installed[n] \in {0} \cup Vers
    BY SetupAssumption DEF Shipped, Init, Setup, Managed
  <2>2. ASSUME NEW v \in Vers PROVE <<n, v>> \in confs <=> v = installed[n]
    <3>1. v # 0
      BY DEF Vers
    <3>. QED
      BY <2>1, <3>1 DEF Init, KiVers
  <2>3. VersionsIn(confs, n) = {installed[n]} \ {0}
    <3>1. 0 \notin Vers
      BY DEF Vers
    <3>. QED
      BY <2>1, <2>2, <3>1 DEF VersionsIn, KiVers
  <2>. QED
    BY <2>3 DEF Right, Init
<1>. QED
  BY <1>1, <1>2 DEF MenuBody, TransOK, Init, Proc

\* On every machine whose administrator does not ask for a removal when runs
\* are one at a time.
LEMMA StepMenu ==
  ASSUME Extends = {}, \A s \in Setups : s.overlap \/ "remove" \notin s.opers,
         EInv, SInv, MenuInv, [Next]_vars
  PROVE  MenuInv'
<1>. SUFFICES ASSUME ~setup'.overlap, nFaults' = 0 PROVE MenuBody'
  BY DEF MenuInv
<1>1. /\ setup' = setup
      /\ \/ nFaults' = nFaults
         \/ Crash
         \/ \E p \in Proc : Failure(p)
  <2>1. CASE Crash
    BY <2>1 DEF Crash
  <2>2. ASSUME NEW p \in Proc, Failure(p) PROVE setup' = setup
    BY <2>2 DEF Failure, InitFails, UpdateFails, RemoveOldFails, ChildFails, VersionFileFails,
       PrepareBlind
  <2>3. ASSUME NEW p \in Proc, Run(p) PROVE setup' = setup /\ nFaults' = nFaults
    BY <2>3 DEF Run, Lookup, EndLookup, SkipUnmanaged, NoVersion, Prepare, RemoveOld, EndOld,
       ChildDone, EndUpdate, Exit
  <2>4. CASE Pacman \/ \E rm, ins \in SUBSET Pkg : Begin(rm, ins)
    BY <2>4 DEF Pacman, Begin, PreHook, PostHook, CommitRemove, CommitInstall
  <2>5. CASE \E oper \in setup.opers :
               \E names \in {{n} : n \in Pkg} \cup {Managed} : AdminRun(oper, names)
    BY <2>5 DEF AdminRun
  <2>6. CASE UNCHANGED vars
    BY <2>6 DEF vars
  <2>. QED
    BY <2>1, <2>2, <2>3, <2>4, <2>5, <2>6 DEF Next
<1>2. ~Fault
  BY FaultFacts DEF EInv
<1>3. ~Crash /\ \A p \in Proc : ~Failure(p)
  BY <1>2 DEF Crash, Failure, InitFails, UpdateFails, RemoveOldFails, ChildFails,
              VersionFileFails, PrepareBlind
<1>4. nFaults = 0 /\ ~setup.overlap /\ MenuBody
  BY <1>1, <1>3 DEF MenuInv
<1>5. "remove" \notin setup.opers
  BY <1>4, SetupFacts DEF EInv
<1>6. CASE UNCHANGED vars
  BY <1>4, <1>6 DEF MenuBody, TransOK, RemoveOf, PostOf, NamesOf, Right, Gone, Shipped, Managed,
                    VersionsIn, vars
<1>7. ASSUME NEW rm \in SUBSET Pkg, NEW ins \in SUBSET Pkg, Begin(rm, ins) PROVE MenuBody'
  BY <1>4, <1>7, BeginMenu
<1>8. CASE Pacman
  BY <1>4, <1>8, PacmanMenu
<1>9. ASSUME NEW oper \in setup.opers, NEW names \in {{n} : n \in Pkg} \cup {Managed},
             AdminRun(oper, names)
      PROVE  MenuBody'
  BY <1>4, <1>5, <1>9, AdminMenu
<1>10. ASSUME NEW p \in Proc, Run(p) PROVE MenuBody'
  BY <1>4, <1>10, LookupMenu, EndLookupMenu, SkipMenu, NoVersionMenu, PrepareMenu, RemoveOldMenu,
     ChildMenu, EndUpdateMenu, ExitMenu DEF Run
<1>. QED
  BY <1>3, <1>6, <1>7, <1>8, <1>9, <1>10 DEF Next

\* Where no package's name goes on where another's ends, runs are one at a time
\* and nothing fails, the boot menu offers each shipped and managed tool in its
\* installed version and in no other after any sequence of transactions.
THEOREM MenuMatchesAlways ==
  ASSUME Extends = {}, \A s \in Setups : s.overlap \/ "remove" \notin s.opers
  PROVE  Spec => []MenuMatches
<1>1. Init => EInv /\ SInv /\ MenuInv
  BY InitInv, InitMenu
<1>2. EInv /\ SInv /\ MenuInv /\ [Next]_vars => (EInv /\ SInv /\ MenuInv)'
  BY StepInv, StepMenu
<1>3. MenuInv => MenuMatches
  BY DEF MenuInv, MenuBody, MenuMatches, Right, Shipped
<1>. QED
  BY <1>1, <1>2, <1>3, PTL DEF Spec

=============================================================================
