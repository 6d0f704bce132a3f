------------------------ MODULE LoaderEntry_proofs ------------------------
(***************************************************************************)
(* What the loader entry plugin promises, for any entries kernel-install   *)
(* writes, any number of additions and removals and any number of failures:*)
(* the types, no temporary file left behind, bootable and right entries,   *)
(* and the refinement of AtomicEntry.                                      *)
(*                                                                         *)
(* The changed file is defined by recursion over the rows.  That the       *)
(* recursion defines what its equation says is proved here by a set of     *)
(* numbers that has 0 and is closed under successor.                       *)
(***************************************************************************)
EXTENDS LoaderEntry, WellFoundedInduction, TLAPS

\* A set that has 0 and every successor of its numbers has all of them.
LEMMA SetInduction ==
  ASSUME NEW S, 0 \in S, \A n \in Nat : n \in S => n + 1 \in S
  PROVE  Nat \subseteq S
<1>. SUFFICES ASSUME Nat \ S # {} PROVE FALSE
  OBVIOUS
<1>1. IsWellFoundedOn(OpToRel(<, Nat), Nat)
  BY NatLessThanWellFounded
<1>2. PICK x \in Nat \ S : \A y \in Nat \ S : ~(<<y, x>> \in OpToRel(<, Nat))
  BY <1>1, WFMin
<1>3. \A y \in Nat \ S : ~(y < x)
  BY <1>2 DEF OpToRel
<1>4. x # 0 /\ x - 1 \in Nat /\ x - 1 < x
  OBVIOUS
<1>5. x - 1 \in S
  BY <1>3, <1>4
<1>6. (x - 1) + 1 = x
  BY <1>4
<1>. QED
  BY <1>2, <1>4, <1>5, <1>6

\* A changed row is at most two pieces.
LEMMA RowType ==
  ASSUME NEW e \in BOOLEAN, NEW p \in Pieces
  PROVE  RowModify(e, p) \in Seq(Pieces)
<1>1. p.val \in Vals /\ p.key \in Keys
  BY DEF Pieces
<1>2. /\ Piece("title", "pkg") \in Pieces /\ Piece("blank", "own") \in Pieces
      /\ Piece("efi", p.val) \in Pieces
  BY <1>1 DEF Pieces, Piece, Keys, Vals
<1>3. TitleUpdate(p) \in Seq(Pieces)
  BY <1>2 DEF TitleUpdate
<1>4. EfiToolUpdate(p) \in Seq(Pieces)
  BY <1>2 DEF EfiToolUpdate
<1>. QED
  BY <1>3, <1>4 DEF RowModify

\* The rows changed so far: a function on the row numbers that satisfies the
\* equation it is defined by.
LEMMA ModifiedRows ==
  ASSUME NEW e \in BOOLEAN, NEW f \in Seq(Pieces)
  PROVE  /\ ModifiedUpTo(e, f) \in [0..Len(f) -> Seq(Pieces)]
         /\ ModifiedUpTo(e, f)[0] = <<>>
         /\ \A k \in 1..Len(f) :
              ModifiedUpTo(e, f)[k] = ModifiedUpTo(e, f)[k - 1] \o RowModify(e, f[k])
<1>. DEFINE n == Len(f)
            R(k) == RowModify(e, f[k])
            Good(g, j) == g = [k \in 0..j |-> IF k = 0 THEN <<>> ELSE g[k - 1] \o R(k)]
            Has(j) == \E g \in [0..j -> Seq(Pieces)] : Good(g, j)
            S == {j \in Nat : j <= n => Has(j)}
<1>0. n \in Nat /\ \A k \in 1..n : R(k) \in Seq(Pieces)
  BY RowType
<1>. HIDE DEF n, R
<1>1. Has(0)
  <2>. DEFINE h == [k \in 0..0 |-> <<>>]
  <2>1. h \in [0..0 -> Seq(Pieces)]
    OBVIOUS
  <2>2. \A k \in 0..0 : k = 0
    OBVIOUS
  <2>3. Good(h, 0)
    BY <2>2
  <2>. QED
    BY <2>1, <2>3
<1>2. ASSUME NEW j \in Nat, j \in S
      PROVE  j + 1 \in S
  <2>1. CASE j + 1 <= n
    <3>1. Has(j)
      <4>. HIDE DEF Has
      <4>. QED
        BY <1>0, <1>2, <2>1
    <3>2. PICK g \in [0..j -> Seq(Pieces)] : Good(g, j)
      BY <3>1
    <3>. DEFINE h == [k \in 0..(j + 1) |-> IF k = j + 1 THEN g[j] \o R(k) ELSE g[k]]
    <3>3. h \in [0..(j + 1) -> Seq(Pieces)]
      <4>1. j + 1 \in 1..n /\ j \in 0..j
        BY <1>0, <2>1
      <4>2. g[j] \o R(j + 1) \in Seq(Pieces)
        BY <1>0, <4>1
      <4>3. \A k \in 0..(j + 1) : k = j + 1 \/ k \in 0..j
        OBVIOUS
      <4>. QED
        BY <4>2, <4>3
    <3>4. ASSUME NEW k \in 0..(j + 1)
          PROVE  h[k] = IF k = 0 THEN <<>> ELSE h[k - 1] \o R(k)
      <4>1. CASE k = j + 1
        <5>1. k # 0 /\ k - 1 = j /\ j \in 0..(j + 1) /\ j # j + 1
          BY <4>1
        <5>. QED
          BY <5>1, <4>1
      <4>2. CASE k # j + 1
        <5>1. k \in 0..j /\ (k # 0 => k - 1 \in 0..(j + 1) /\ k - 1 # j + 1)
          BY <4>2
        <5>2. h[k] = g[k] /\ (k # 0 => h[k - 1] = g[k - 1])
          BY <5>1
        <5>3. g[k] = IF k = 0 THEN <<>> ELSE g[k - 1] \o R(k)
          BY <3>2, <5>1
        <5>. QED
          BY <5>2, <5>3
      <4>. QED
        BY <4>1, <4>2
    <3>5. h = [k \in 0..(j + 1) |-> IF k = 0 THEN <<>> ELSE h[k - 1] \o R(k)]
      BY <3>4
    <3>6. Has(j + 1)
      BY <3>3, <3>5, Zenon
    <3>. HIDE DEF Has
    <3>. QED
      BY <3>6
  <2>2. CASE ~(j + 1 <= n)
    BY <2>2
  <2>. QED
    BY <2>1, <2>2
<1>3. Has(n)
  <2>. HIDE DEF Has
  <2>1. 0 \in S
    BY <1>1
  <2>2. Nat \subseteq S
    <3>. HIDE DEF S
    <3>. QED
      BY <1>2, <2>1, SetInduction
  <2>. QED
    BY <1>0, <2>2
<1>4. Good(ModifiedUpTo(e, f), n)
  BY <1>3 DEF ModifiedUpTo, n, R
<1>. DEFINE m == ModifiedUpTo(e, f)
            T == {j \in Nat : j <= n => m[j] \in Seq(Pieces)}
<1>. HIDE DEF m
<1>5. /\ m = [k \in 0..n |-> m[k]]
      /\ \A k \in 0..n : m[k] = IF k = 0 THEN <<>> ELSE m[k - 1] \o R(k)
  BY <1>4 DEF m
<1>6. 0 \in T
  BY <1>0, <1>5
<1>7. ASSUME NEW j \in Nat, j \in T
      PROVE  j + 1 \in T
  <2>1. CASE j + 1 <= n
    <3>1. m[j] \in Seq(Pieces) /\ j + 1 \in 1..n /\ j + 1 \in 0..n /\ j + 1 # 0 /\ (j + 1) - 1 = j
      BY <1>0, <1>7, <2>1
    <3>2. m[j + 1] = m[j] \o R(j + 1)
      BY <1>5, <3>1
    <3>3. R(j + 1) \in Seq(Pieces)
      BY <1>0, <3>1
    <3>4. m[j + 1] \in Seq(Pieces)
      BY <3>1, <3>2, <3>3
    <3>. QED
      BY <3>4
  <2>2. CASE ~(j + 1 <= n)
    BY <2>2
  <2>. QED
    BY <2>1, <2>2
<1>8. \A j \in 0..n : m[j] \in Seq(Pieces)
  <2>. HIDE DEF T
  <2>1. Nat \subseteq T
    BY <1>6, <1>7, SetInduction
  <2>. QED
    BY <1>0, <2>1 DEF T
<1>9. m \in [0..n -> Seq(Pieces)]
  BY <1>5, <1>8
<1>10. m[0] = <<>> /\ \A k \in 1..n : m[k] = m[k - 1] \o R(k)
  BY <1>0, <1>5
<1>. QED
  BY <1>9, <1>10 DEF m, n, R

-----------------------------------------------------------------------------
(* The inductive invariant.                                                *)

AddArgs(image) == <<"add", "version", "dir", image>>
IsAdd == args = AddArgs("kernel") \/ args = AddArgs("tool")

\* The type invariant in two parts: the files, and what is about the run.
FileTypes ==
  /\ entry = NoFile \/ entry \in Seq(Pieces)
  /\ temp = NoFile \/ temp \in Seq(Pieces)
  /\ buf \in Seq(Pieces) /\ src \in Seq(Pieces)
  /\ pos \in 1..(Len(src) + 1)
  /\ due \in Due

RunTypes ==
  /\ args \in Seq(Words)
  /\ layout \in {"", "bls", "uki"}
  /\ listed \in BOOLEAN /\ lost \in {"none", "copy", "entry"}
  /\ plugin \in KIplugin
  /\ pc \in {"idle", "start", "look", "open", "temp", "copy", "rename"}
  /\ nAdds \in 0..MaxAdds /\ nFaults \in 0..MaxFaults

LEMMA TypeParts == TypeOK <=> FileTypes /\ RunTypes
BY Zenon DEF TypeOK, FileTypes, RunTypes, IsFile

\* kernel-install wrote an entry for this run: an addition, but not a kernel's
\* in the uki layout.
Ours == IsAdd /\ ~(args = AddArgs("kernel") /\ layout = "uki")

Right == entry # NoFile => entry = IF due.change THEN Modified(due.efi, due.file) ELSE due.file

\* The temporary file is there while it is written, and nothing is in the
\* stream before.
TempInv ==
  /\ pc \in {"copy", "rename"} => temp \in Seq(Pieces)
  /\ pc \notin {"copy", "rename"} => temp = NoFile
  /\ pc # "copy" => buf = <<>>
  /\ pc \notin {"copy", "rename"} => pos = 1

\* What the plugin knows is what kernel-install gave it.
ArgsInv ==
  /\ pc # "idle" => IsAdd \/ args = <<>> \/ args = <<"remove", "version", "dir">>
  /\ pc \in {"look", "open", "temp", "copy", "rename"} =>
       /\ IsAdd /\ plugin.version = "version"
       /\ plugin.isKernel = (args = AddArgs("kernel"))
       /\ plugin.isUki = (layout = "uki")
  /\ pc \in {"open", "temp", "copy", "rename"} => Ours /\ listed

\* While the plugin is at an entry of its own, that is the one kernel-install
\* wrote for this run, or gone.
EntryInv ==
  /\ pc # "idle" /\ Ours =>
       /\ due.file \in Written /\ due.change = listed
       /\ due.efi = (args = AddArgs("tool"))
       /\ entry \in {NoFile, due.file}
       /\ lost # "entry"
  /\ pc \in {"temp", "copy", "rename"} => src = due.file

\* The rows changed so far are in the file and the stream, together; if rows
\* are lost, nothing is read any more, and what there is begins a changed entry.
CopyInv ==
  /\ pc = "copy" =>
       \E n \in 0..Len(src) :
         /\ temp \o buf = ModifiedUpTo(~plugin.isKernel, src)[n]
         /\ lost # "copy" => n = pos - 1
  /\ pc = "rename" /\ lost # "copy" => temp = Modified(~plugin.isKernel, src)
  /\ pc = "rename" /\ lost = "copy" => IsStart(~plugin.isKernel, src, temp)
  /\ lost = "copy" => pc \in {"copy", "rename"} /\ nFaults > 0 /\ pos > Len(src)

\* Without failures an entry the plugin is not at is right.
RightInv == nFaults = 0 /\ (pc = "idle" \/ ~Ours) => Right

LInv == FileTypes /\ RunTypes /\ TempInv /\ ArgsInv /\ EntryInv /\ CopyInv /\ RightInv

\* The arguments of an addition tell a kernel from a tool.
LEMMA AddFacts ==
  /\ AddArgs("kernel") # AddArgs("tool")
  /\ \A i \in {"kernel", "tool"} :
       /\ Len(AddArgs(i)) = 4 /\ AddArgs(i)[1] = "add" /\ AddArgs(i)[2] = "version"
       /\ AddArgs(i)[4] = i
       /\ AddArgs(i) \in Seq(Words)
       /\ AddArgs(i) # <<>> /\ AddArgs(i) # <<"remove", "version", "dir">>
BY DEF AddArgs, Words

\* What plugin_init makes of the arguments.
LEMMA ItemFacts ==
  ASSUME IsAdd \/ args = <<>> \/ args = <<"remove", "version", "dir">>
  PROVE  /\ Item(1) = "add" <=> IsAdd
         /\ Item(4) = "kernel" <=> args = AddArgs("kernel")
         /\ Item(1) \in {"", "add", "remove"} /\ Item(2) \in {"", "version"}
         /\ IsAdd => Item(2) = "version"
<1>1. CASE IsAdd
  <2>1. PICK i \in {"kernel", "tool"} : args = AddArgs(i)
    BY <1>1 DEF IsAdd
  <2>2. Len(args) = 4 /\ args[1] = "add" /\ args[2] = "version" /\ args[4] = i
    BY <2>1, AddFacts
  <2>3. Item(1) = "add" /\ Item(2) = "version" /\ Item(4) = i
    BY <2>2 DEF Item
  <2>. QED
    BY <1>1, <2>1, <2>3, AddFacts
<1>2. CASE args = <<>>
  <2>1. Len(args) = 0
    BY <1>2
  <2>. QED
    BY <1>2, <2>1, AddFacts DEF IsAdd, Item
<1>3. CASE args = <<"remove", "version", "dir">>
  <2>1. Len(args) = 3 /\ args[1] = "remove" /\ args[2] = "version"
    BY <1>3
  <2>. QED
    BY <1>3, <2>1, AddFacts DEF IsAdd, Item
<1>. QED
  BY <1>1, <1>2, <1>3

LEMMA InitInv == Init => LInv
<1>. SUFFICES ASSUME Init PROVE LInv
  OBVIOUS
<1>1. <<>> \in Seq(Pieces) /\ <<>> \in Seq(Words) /\ 1 \in 1..(Len(<<>>) + 1)
  OBVIOUS
<1>2. NoDue \in Due
  BY <1>1 DEF NoDue, Due
<1>3. NoPlugin \in KIplugin
  BY DEF NoPlugin, KIplugin
<1>4. FileTypes /\ RunTypes
  <2>1. FileTypes
    BY <1>1, <1>2, Zenon DEF Init, FileTypes
  <2>2. RunTypes
    <3>1. 0 \in 0..MaxAdds /\ 0 \in 0..MaxFaults
      BY BoundAssumption
    <3>. QED
      BY <1>1, <1>3, <3>1, Zenon DEF Init, RunTypes
  <2>. QED
    BY <2>1, <2>2
<1>5. TempInv /\ ArgsInv /\ EntryInv /\ CopyInv /\ RightInv
  BY DEF Init, TempInv, ArgsInv, EntryInv, CopyInv, RightInv, Right
<1>. QED
  BY <1>4, <1>5 DEF LInv

\* kernel-install runs the plugin with some arguments: what that does whatever
\* they are.
LEMMA RunFacts ==
  ASSUME LInv, NEW a, RunPlugin(a)
  PROVE  /\ pc = "idle" /\ pc' = "start" /\ args' = a
         /\ temp' = NoFile /\ buf' = <<>> /\ pos' = 1 /\ nAdds' \in 0..MaxAdds
         /\ UNCHANGED <<plugin, src, nFaults>>
         /\ lost # "copy"
         /\ nFaults = 0 => Right
<1>1. pc = "idle" /\ nAdds < MaxAdds /\ nAdds' = nAdds + 1 /\ nAdds \in 0..MaxAdds
  BY DEF LInv, RunTypes, RunPlugin
<1>2. nAdds' \in 0..MaxAdds
  BY <1>1, BoundAssumption
<1>. QED
  BY <1>1, <1>2 DEF LInv, TempInv, CopyInv, RightInv, RunPlugin

LEMMA AddInv == ASSUME LInv, Add PROVE LInv'
<1>1. PICK image \in {"kernel", "tool"} : RunPlugin(AddArgs(image))
  BY DEF Add, AddArgs
<1>2. /\ pc = "idle" /\ pc' = "start" /\ args' = AddArgs(image)
      /\ temp' = NoFile /\ buf' = <<>> /\ pos' = 1 /\ nAdds' \in 0..MaxAdds
      /\ UNCHANGED <<plugin, src, nFaults>>
      /\ lost # "copy"
      /\ nFaults = 0 => Right
  BY <1>1, RunFacts
<1>3. /\ args'[4] = image /\ layout' \in {"bls", "uki"} /\ listed' \in BOOLEAN
      /\ args' \in Seq(Words)
  BY <1>2, AddFacts DEF Add
<1>4. 1 \in 1..(Len(src) + 1) /\ src \in Seq(Pieces)
  BY DEF LInv, FileTypes
<1>5. Ours' <=> ~(image = "kernel" /\ layout' = "uki")
  BY <1>2, AddFacts DEF Ours, IsAdd
<1>6. CASE image = "kernel" /\ layout' = "uki"
  <2>1. UNCHANGED <<entry, due, lost>>
    BY <1>3, <1>6 DEF Add
  <2>2. FileTypes' /\ RunTypes'
    <3>1. FileTypes'
      BY <1>2, <1>3, <1>4, <2>1 DEF LInv, FileTypes
    <3>2. RunTypes'
      BY <1>2, <1>3, <1>4, <2>1 DEF LInv, RunTypes
    <3>. QED
      BY <3>1, <3>2
  <2>3. RightInv'
    BY <1>2, <2>1 DEF RightInv, Right
  <2>. QED
    BY <1>2, <1>5, <1>6, <2>1, <2>2, <2>3
    DEF LInv, TempInv, ArgsInv, EntryInv, CopyInv, IsAdd
<1>7. CASE ~(image = "kernel" /\ layout' = "uki")
  <2>1. /\ entry' \in Written /\ lost' = "none"
        /\ due' = [file |-> entry', change |-> listed', efi |-> image = "tool"]
    BY <1>3, <1>7 DEF Add
  <2>2. entry' \in Seq(Pieces)
    BY <2>1, WrittenAssumption
  <2>3. due' \in Due
    BY <1>3, <2>1, <2>2 DEF Due
  <2>4. FileTypes' /\ RunTypes'
    <3>1. FileTypes'
      BY <1>2, <1>3, <1>4, <2>1, <2>2, <2>3 DEF LInv, FileTypes
    <3>2. RunTypes'
      BY <1>2, <1>3, <1>4, <2>1, <2>2, <2>3 DEF LInv, RunTypes
    <3>. QED
      BY <3>1, <3>2
  <2>5. (image = "tool") = (args' = AddArgs("tool"))
    BY <1>2, AddFacts
  <2>6. EntryInv'
    BY <1>2, <2>1, <2>5 DEF EntryInv
  <2>. QED
    BY <1>2, <1>5, <1>7, <2>1, <2>4, <2>6
    DEF LInv, TempInv, ArgsInv, CopyInv, IsAdd, RightInv
<1>. QED
  BY <1>6, <1>7

LEMMA RunInv == ASSUME LInv, RemoveRun \/ BareRun PROVE LInv'
<1>. DEFINE a == args'
<1>1. /\ RunPlugin(a)
      /\ a = <<>> \/ a = <<"remove", "version", "dir">>
      /\ layout' \in {"", "bls", "uki"} /\ UNCHANGED <<listed, due>>
      /\ \/ entry' = NoFile /\ lost' = "none"
         \/ UNCHANGED <<entry, lost>>
  BY DEF RemoveRun, BareRun, RunPlugin
<1>. HIDE DEF a
<1>2. /\ pc = "idle" /\ pc' = "start" /\ args' = a
      /\ temp' = NoFile /\ buf' = <<>> /\ pos' = 1 /\ nAdds' \in 0..MaxAdds
      /\ UNCHANGED <<plugin, src, nFaults>>
      /\ lost # "copy"
      /\ nFaults = 0 => Right
  BY <1>1, RunFacts
<1>3. a \in Seq(Words)
  <2>1. CASE a = <<>>
    BY <2>1
  <2>2. CASE a = <<"remove", "version", "dir">>
    BY <2>2 DEF Words
  <2>. QED
    BY <1>1, <2>1, <2>2
<1>4. 1 \in 1..(Len(src) + 1) /\ src \in Seq(Pieces)
  BY DEF LInv, FileTypes
<1>5. FileTypes' /\ RunTypes'
  <2>1. FileTypes'
    <3>1. (entry' = NoFile \/ entry' = entry) /\ due' = due
      BY <1>1
    <3>. QED
      BY <1>2, <1>4, <3>1 DEF LInv, FileTypes
  <2>2. RunTypes'
    BY <1>1, <1>2, <1>3, <1>4 DEF LInv, RunTypes
  <2>. QED
    BY <2>1, <2>2
<1>6. ~IsAdd'
  BY <1>1, <1>2, AddFacts DEF IsAdd
<1>7. RightInv'
  BY <1>1, <1>2 DEF RightInv, Right
<1>. QED
  BY <1>1, <1>2, <1>5, <1>6, <1>7 DEF LInv, TempInv, ArgsInv, EntryInv, CopyInv, Ours

LEMMA RemoveInv == ASSUME LInv, Remove PROVE LInv'
<1>. USE DEF Remove, given, kept
<1>1. FileTypes' /\ RunTypes'
  <2>1. FileTypes'
    BY DEF LInv, FileTypes
  <2>2. RunTypes'
    BY DEF LInv, RunTypes
  <2>. QED
    BY <2>1, <2>2
<1>2. TempInv' /\ ArgsInv' /\ CopyInv'
  BY DEF LInv, TempInv, ArgsInv, CopyInv, IsAdd, Ours
<1>3. EntryInv' /\ RightInv'
  BY DEF LInv, EntryInv, RightInv, Right, IsAdd, Ours
<1>. QED
  BY <1>1, <1>2, <1>3 DEF LInv

\* The plugin ends and leaves no temporary file, and the entry as it was.
LEMMA OverInv ==
  ASSUME LInv, PluginOver, temp' = NoFile, UNCHANGED <<given, entry, nAdds>>,
         plugin' \in KIplugin, lost' \in {"none", "entry"},
         nFaults' \in 0..MaxFaults, nFaults' = 0 => Right
  PROVE  LInv'
<1>. USE DEF given, PluginOver
<1>1. FileTypes'
  <2>1. 1 \in 1..(Len(<<>>) + 1) /\ <<>> \in Seq(Pieces)
    OBVIOUS
  <2>2. entry' = entry /\ due' = due /\ buf' = <<>> /\ src' = <<>> /\ pos' = 1
    OBVIOUS
  <2>. QED
    BY <2>1, <2>2, Zenon DEF LInv, FileTypes
<1>2. RunTypes'
  BY DEF LInv, RunTypes
<1>3. RightInv'
  BY DEF RightInv, Right
<1>. QED
  BY <1>1, <1>2, <1>3 DEF LInv, TempInv, ArgsInv, EntryInv, CopyInv

\* One fault more is still within the bound, and more than none.
LEMMA FaultFacts ==
  ASSUME LInv, Fault
  PROVE  nFaults' \in 0..MaxFaults /\ nFaults' # 0 /\ nFaults' > 0
<1>1. nFaults \in 0..MaxFaults
  BY DEF LInv, RunTypes
<1>. QED
  BY <1>1, BoundAssumption DEF Fault

LEMMA PluginInitInv == ASSUME LInv, PluginInit PROVE LInv'
<1>1. /\ pc = "start" /\ temp = NoFile /\ lost # "copy" /\ lost \in {"none", "entry"}
      /\ nFaults \in 0..MaxFaults
      /\ IsAdd \/ args = <<>> \/ args = <<"remove", "version", "dir">>
  BY DEF PluginInit, LInv, TempInv, CopyInv, RunTypes, ArgsInv
<1>2. /\ Item(1) = "add" <=> IsAdd
      /\ Item(4) = "kernel" <=> args = AddArgs("kernel")
      /\ Item(1) \in {"", "add", "remove"} /\ Item(2) \in {"", "version"}
      /\ IsAdd => Item(2) = "version"
  BY <1>1, ItemFacts
<1>3. /\ plugin' = [command |-> Item(1), version |-> Item(2),
                     isKernel |-> Item(4) = "kernel", isUki |-> layout = "uki"]
      /\ UNCHANGED <<given, lost, entry, temp, nAdds, nFaults>>
  BY DEF PluginInit
<1>4. plugin' \in KIplugin
  <2>1. (Item(4) = "kernel") \in BOOLEAN /\ (layout = "uki") \in BOOLEAN
    OBVIOUS
  <2>. QED
    BY <1>2, <1>3, <2>1 DEF KIplugin
<1>5. CASE IsAdd
  <2>1. pc' = "look" /\ UNCHANGED <<buf, src, pos>>
    BY <1>2, <1>5 DEF PluginInit
  <2>2. /\ plugin'.isKernel = (args' = AddArgs("kernel"))
        /\ plugin'.isUki = (layout' = "uki") /\ plugin'.version = "version"
    BY <1>2, <1>3, <1>5 DEF given
  <2>3. FileTypes'
    BY <1>3, <2>1 DEF LInv, FileTypes, given
  <2>4. RunTypes'
    BY <1>3, <1>4, <2>1 DEF LInv, RunTypes, given
  <2>5. EntryInv' /\ RightInv'
    BY <1>1, <1>3, <2>1 DEF LInv, EntryInv, RightInv, Right, IsAdd, Ours, given
  <2>6. TempInv' /\ ArgsInv' /\ CopyInv'
    BY <1>1, <1>3, <1>5, <2>1, <2>2 DEF LInv, TempInv, ArgsInv, CopyInv, IsAdd, given
  <2>. QED
    BY <2>3, <2>4, <2>5, <2>6 DEF LInv
<1>6. CASE ~IsAdd
  <2>1. PluginOver
    BY <1>2, <1>6 DEF PluginInit
  <2>2. nFaults' = 0 => Right
    BY <1>1, <1>3, <1>6 DEF LInv, RightInv, Ours
  <2>. QED
    BY <1>1, <1>3, <1>4, <2>1, <2>2, OverInv
<1>. QED
  BY <1>5, <1>6

LEMMA StartInv == ASSUME LInv, Start PROVE LInv'
<1>1. /\ pc = "look" /\ temp = NoFile /\ lost # "copy" /\ lost \in {"none", "entry"}
      /\ nFaults \in 0..MaxFaults /\ plugin \in KIplugin
      /\ UNCHANGED <<kept, entry, temp, nAdds, nFaults>>
  BY DEF Start, LInv, TempInv, CopyInv, RunTypes
<1>2. /\ IsAdd /\ plugin.version = "version" /\ plugin.isKernel = (args = AddArgs("kernel"))
      /\ plugin.isUki = (layout = "uki")
  BY <1>1 DEF LInv, ArgsInv
<1>3. CASE pc' = "open" /\ UNCHANGED <<buf, src, pos>> /\ listed /\ ~(plugin.isKernel /\ plugin.isUki)
  <2>1. Ours
    BY <1>2, <1>3 DEF Ours
  <2>2. FileTypes' /\ RunTypes'
    BY <1>1, <1>3 DEF LInv, FileTypes, RunTypes, kept, given
  <2>3. EntryInv' /\ RightInv'
    BY <1>1, <1>3, <2>1 DEF LInv, EntryInv, RightInv, IsAdd, Ours, kept, given
  <2>4. TempInv' /\ ArgsInv' /\ CopyInv'
    BY <1>1, <1>2, <1>3, <2>1
    DEF LInv, TempInv, ArgsInv, CopyInv, IsAdd, Ours, kept, given
  <2>. QED
    BY <2>2, <2>3, <2>4 DEF LInv
<1>4. CASE PluginOver /\ ~(plugin.version # "" /\ ~(plugin.isKernel /\ plugin.isUki) /\ listed)
  <2>1. nFaults = 0 => Right
    <3>1. CASE ~Ours
      BY <3>1 DEF LInv, RightInv
    <3>2. CASE Ours
      <4>1. ~due.change /\ entry \in {NoFile, due.file}
        BY <1>1, <1>2, <1>4, <3>2, AddFacts DEF LInv, EntryInv, Ours
      <4>. QED
        BY <4>1 DEF Right
    <3>. QED
      BY <3>1, <3>2
  <2>. QED
    BY <1>1, <1>4, <2>1, OverInv DEF kept
<1>. QED
  BY <1>3, <1>4 DEF Start

LEMMA OpenEntryInv == ASSUME LInv, OpenEntry PROVE LInv'
<1>1. /\ pc = "open" /\ temp = NoFile /\ lost # "copy" /\ lost \in {"none", "entry"}
      /\ nFaults \in 0..MaxFaults /\ plugin \in KIplugin /\ Ours
      /\ UNCHANGED <<kept, entry, temp, nAdds, nFaults>>
  BY DEF OpenEntry, LInv, TempInv, CopyInv, RunTypes, ArgsInv
<1>2. CASE entry = NoFile /\ PluginOver
  <2>1. Right
    BY <1>2 DEF Right
  <2>. QED
    BY <1>1, <1>2, <2>1, OverInv DEF kept
<1>3. CASE entry # NoFile /\ src' = entry /\ pc' = "temp" /\ UNCHANGED <<buf, pos>>
  <2>1. src' = due.file /\ due.file \in Seq(Pieces) /\ pos = 1
    BY <1>1, <1>3, WrittenAssumption DEF LInv, EntryInv, TempInv
  <2>2. 1 \in 1..(Len(src') + 1)
    BY <2>1
  <2>3. FileTypes'
    BY <1>1, <1>3, <2>1, <2>2 DEF LInv, FileTypes, kept, given
  <2>4. RunTypes'
    BY <1>1, <1>3 DEF LInv, RunTypes, kept, given
  <2>5. EntryInv' /\ RightInv'
    BY <1>1, <1>3, <2>1 DEF LInv, EntryInv, RightInv, IsAdd, Ours, kept, given
  <2>6. TempInv' /\ ArgsInv' /\ CopyInv'
    BY <1>1, <1>3 DEF LInv, TempInv, ArgsInv, CopyInv, IsAdd, Ours, kept, given
  <2>. QED
    BY <2>3, <2>4, <2>5, <2>6 DEF LInv
<1>. QED
  BY <1>2, <1>3 DEF OpenEntry

\* In the middle of its work on an entry the plugin leaves the entry and what
\* it was told alone: what is left to show is about the files it writes.
LEMMA StayInv ==
  ASSUME LInv, pc \in {"open", "temp", "copy", "rename"},
         pc' \in {"temp", "copy", "rename"}, pc \in {"temp", "copy", "rename"},
         UNCHANGED <<given, plugin, entry, src, nAdds>>,
         lost' \in {lost, "copy"}, nFaults' \in 0..MaxFaults, nFaults' # 0 \/ nFaults' = nFaults,
         temp' \in Seq(Pieces), buf' \in Seq(Pieces), pos' \in 1..(Len(src) + 1),
         TempInv', CopyInv'
  PROVE  LInv'
<1>1. FileTypes'
  BY DEF LInv, FileTypes, given
<1>2. RunTypes'
  BY DEF LInv, RunTypes, given
<1>3. EntryInv' /\ RightInv'
  BY DEF LInv, EntryInv, RightInv, ArgsInv, IsAdd, Ours, given
<1>4. ArgsInv'
  BY DEF LInv, ArgsInv, IsAdd, Ours, given
<1>. QED
  BY <1>1, <1>2, <1>3, <1>4 DEF LInv

\* While it copies: the types of what is read and written.
LEMMA CopyFacts ==
  ASSUME LInv, pc \in {"temp", "copy", "rename"}
  PROVE  /\ src \in Seq(Pieces) /\ Len(src) \in Nat
         /\ buf \in Seq(Pieces) /\ pos \in 1..(Len(src) + 1)
         /\ pc # "temp" => temp \in Seq(Pieces)
         /\ plugin \in KIplugin /\ (~plugin.isKernel) \in BOOLEAN
         /\ lost # "entry" /\ nFaults \in 0..MaxFaults
         /\ Ours /\ due.file \in Written /\ src = due.file /\ entry \in {NoFile, due.file}
         /\ (~plugin.isKernel) = due.efi /\ due.change
<1>1. /\ src \in Seq(Pieces) /\ buf \in Seq(Pieces) /\ pos \in 1..(Len(src) + 1)
      /\ pc # "temp" => temp \in Seq(Pieces)
  BY DEF LInv, FileTypes, TempInv
<1>2. plugin \in KIplugin /\ nFaults \in 0..MaxFaults
  BY DEF LInv, RunTypes
<1>3. Ours /\ listed /\ IsAdd /\ plugin.isKernel = (args = AddArgs("kernel"))
  BY DEF LInv, ArgsInv
<1>4. /\ lost # "entry" /\ due.file \in Written /\ src = due.file
      /\ entry \in {NoFile, due.file} /\ due.change = listed
      /\ due.efi = (args = AddArgs("tool"))
  BY <1>3 DEF LInv, EntryInv
<1>5. (~plugin.isKernel) = due.efi
  BY <1>3, <1>4, AddFacts DEF IsAdd
<1>. QED
  BY <1>1, <1>2, <1>3, <1>4, <1>5

LEMMA OpenTempInv == ASSUME LInv, OpenTemp PROVE LInv'
<1>1. /\ pc = "temp" /\ temp' = <<>> /\ pc' = "copy"
      /\ UNCHANGED <<kept, entry, buf, src, pos, nAdds, nFaults>>
      /\ buf = <<>> /\ pos = 1 /\ lost # "copy" /\ nFaults \in 0..MaxFaults
  BY DEF OpenTemp, LInv, TempInv, CopyInv, RunTypes
<1>2. src \in Seq(Pieces) /\ pos \in 1..(Len(src) + 1) /\ (~plugin.isKernel) \in BOOLEAN
  BY <1>1, CopyFacts
<1>3. ModifiedUpTo(~plugin.isKernel, src)[0] = <<>>
  BY <1>2, ModifiedRows
<1>4. <<>> \o <<>> = <<>> /\ <<>> \in Seq(Pieces)
  OBVIOUS
<1>5. CopyInv'
  <2>1. 0 \in 0..Len(src) /\ pos - 1 = 0
    BY <1>1, <1>2
  <2>. QED
    BY <1>1, <1>3, <1>4, <2>1 DEF CopyInv, kept, given
<1>6. TempInv'
  BY <1>1, <1>4 DEF TempInv
<1>. QED
  BY <1>1, <1>2, <1>4, <1>5, <1>6, StayInv DEF kept

LEMMA CopyRowInv == ASSUME LInv, CopyRow PROVE LInv'
<1>. DEFINE row == RowModify(~plugin.isKernel, src[pos])
            m == ModifiedUpTo(~plugin.isKernel, src)
<1>1. /\ pc = "copy" /\ pos <= Len(src) /\ buf' = buf \o row /\ pos' = pos + 1
      /\ UNCHANGED <<kept, entry, temp, src, pc, nAdds, nFaults>>
  BY DEF CopyRow
<1>2. /\ src \in Seq(Pieces) /\ Len(src) \in Nat
      /\ buf \in Seq(Pieces) /\ pos \in 1..(Len(src) + 1)
      /\ temp \in Seq(Pieces) /\ (~plugin.isKernel) \in BOOLEAN /\ nFaults \in 0..MaxFaults
  BY <1>1, CopyFacts
<1>3. pos \in 1..Len(src) /\ pos + 1 \in 1..(Len(src) + 1) /\ (pos + 1) - 1 = pos
  BY <1>1, <1>2
<1>4. src[pos] \in Pieces
  BY <1>2, <1>3
<1>5. row \in Seq(Pieces)
  BY <1>2, <1>4, RowType
<1>6. m[pos] = m[pos - 1] \o row
  BY <1>2, <1>3, ModifiedRows
<1>7. temp \o buf = m[pos - 1] /\ lost # "copy"
  <2>1. ~(pos > Len(src))
    BY <1>1, <1>2
  <2>2. lost # "copy"
    BY <2>1 DEF LInv, CopyInv
  <2>. QED
    BY <1>1, <2>2 DEF LInv, CopyInv
<1>. HIDE DEF row, m
<1>8. buf' \in Seq(Pieces) /\ temp \o buf' = (temp \o buf) \o row
  <2>1. \A a, b, c \in Seq(Pieces) : a \o (b \o c) = (a \o b) \o c
    OBVIOUS
  <2>2. buf' = buf \o row /\ buf \in Seq(Pieces) /\ row \in Seq(Pieces) /\ temp \in Seq(Pieces)
    BY <1>1, <1>2, <1>5
  <2>3. buf' \in Seq(Pieces)
    BY <2>2
  <2>4. temp \o buf' = (temp \o buf) \o row
    BY <2>1, <2>2
  <2>. QED
    BY <2>3, <2>4
<1>9. temp' \o buf' = m'[pos' - 1]
  <2>1. m' = m
    BY <1>1 DEF m, kept
  <2>. QED
    BY <1>1, <1>3, <1>6, <1>7, <1>8, <2>1
<1>10. CopyInv'
  <2>1. pos' - 1 \in 0..Len(src)
    BY <1>1, <1>3
  <2>. QED
    BY <1>1, <1>7, <1>9, <2>1 DEF CopyInv, m, kept
<1>11. TempInv'
  BY <1>1, <1>2 DEF TempInv
<1>. QED
  BY <1>1, <1>2, <1>3, <1>8, <1>10, <1>11, StayInv DEF kept

LEMMA FlushInv == ASSUME LInv, Flush PROVE LInv'
<1>1. /\ pc = "copy" /\ temp' = temp \o buf /\ buf' = <<>>
      /\ UNCHANGED <<kept, entry, src, pos, pc, nAdds, nFaults>>
  BY DEF Flush
<1>2. /\ temp \in Seq(Pieces) /\ buf \in Seq(Pieces) /\ pos \in 1..(Len(src) + 1)
      /\ nFaults \in 0..MaxFaults
  BY <1>1, CopyFacts
<1>3. temp' \in Seq(Pieces) /\ buf' \in Seq(Pieces) /\ temp' \o buf' = temp \o buf
  <2>1. temp \o buf \in Seq(Pieces) /\ <<>> \in Seq(Pieces)
    BY <1>2
  <2>2. \A t \in Seq(Pieces) : t \o <<>> = t
    OBVIOUS
  <2>. QED
    BY <1>1, <2>1, <2>2, Zenon
<1>4. CopyInv'
  BY <1>1, <1>3 DEF LInv, CopyInv, kept
<1>5. TempInv'
  BY <1>1, <1>3 DEF TempInv
<1>. QED
  BY <1>1, <1>2, <1>3, <1>4, <1>5, StayInv DEF kept

LEMMA CloseInv == ASSUME LInv, Close PROVE LInv'
<1>1. /\ pc = "copy" /\ pos > Len(src) /\ temp' = temp \o buf /\ buf' = <<>> /\ pc' = "rename"
      /\ UNCHANGED <<kept, entry, src, pos, nAdds, nFaults>>
  BY DEF Close
<1>2. /\ temp \in Seq(Pieces) /\ buf \in Seq(Pieces) /\ pos \in 1..(Len(src) + 1)
      /\ Len(src) \in Nat /\ nFaults \in 0..MaxFaults
  BY <1>1, CopyFacts
<1>3. temp' \in Seq(Pieces) /\ buf' \in Seq(Pieces) /\ pos - 1 = Len(src)
  <2>1. temp \o buf \in Seq(Pieces) /\ <<>> \in Seq(Pieces)
    BY <1>2
  <2>. DEFINE l == Len(src)
  <2>2. l \in Nat /\ pos \in 1..(l + 1) /\ pos > l
    BY <1>1, <1>2
  <2>. HIDE DEF l
  <2>3. pos - 1 = l
    BY <2>2
  <2>. QED
    BY <1>1, <2>1, <2>3 DEF l
<1>. DEFINE m == ModifiedUpTo(~plugin.isKernel, src)
<1>4. PICK n \in 0..Len(src) : temp \o buf = m[n] /\ (lost # "copy" => n = pos - 1)
  BY <1>1 DEF LInv, CopyInv
<1>5. CopyInv'
  <2>1. lost # "copy" => temp' = Modified(~plugin.isKernel, src)
    BY <1>1, <1>3, <1>4 DEF Modified
  <2>2. m[n] \in Seq(Pieces)
    BY <1>1, <1>2, <1>3, <1>4
  <2>3. IsStart(~plugin.isKernel, src, temp')
    <3>. HIDE DEF m
    <3>1. Len(m[n]) \in 0..Len(m[n]) /\ m[n] = SubSeq(m[n], 1, Len(m[n]))
      BY <2>2
    <3>. QED
      BY <1>1, <1>4, <3>1 DEF IsStart, m
  <2>. QED
    BY <1>1, <2>1, <2>3 DEF LInv, CopyInv, kept
<1>6. TempInv'
  BY <1>1, <1>3 DEF TempInv
<1>. QED
  BY <1>1, <1>2, <1>3, <1>5, <1>6, StayInv DEF kept

\* A file and the first rows of the stream are the start of both together.
LEMMA SubSeqOfConcat ==
  ASSUME NEW s \in Seq(Pieces), NEW t \in Seq(Pieces), NEW n \in 0..Len(t)
  PROVE  /\ Len(s) + n \in 0..Len(s \o t)
         /\ s \o SubSeq(t, 1, n) = SubSeq(s \o t, 1, Len(s) + n)
<1>. DEFINE u == s \o t
            v == SubSeq(t, 1, n)
            a == s \o v
            b == SubSeq(u, 1, Len(s) + n)
<1>1. Len(s) \in Nat /\ Len(t) \in Nat /\ n \in Nat /\ n <= Len(t)
  OBVIOUS
<1>2. u \in Seq(Pieces) /\ Len(u) = Len(s) + Len(t)
  OBVIOUS
<1>3. v \in Seq(Pieces) /\ Len(v) = n /\ \A k \in 1..n : v[k] = t[k]
  OBVIOUS
<1>4. Len(s) + n \in 0..Len(u)
  BY <1>1, <1>2
<1>5. /\ b \in Seq(Pieces) /\ Len(b) = Len(s) + n
      /\ \A k \in 1..(Len(s) + n) : b[k] = u[k]
  <2>. HIDE DEF u
  <2>. QED
    BY <1>1, <1>2, <1>4
<1>6. a \in Seq(Pieces) /\ Len(a) = Len(s) + n
  <2>. HIDE DEF v
  <2>. QED
    BY <1>1, <1>3
<1>7. \A k \in 1..(Len(s) + n) : a[k] = u[k]
  <2>1. ASSUME NEW k \in 1..(Len(s) + n) PROVE a[k] = u[k]
    <3>1. CASE k <= Len(s)
      <4>. HIDE DEF v
      <4>. QED
        BY <1>1, <1>3, <3>1
    <3>2. CASE k > Len(s)
      <4>1. k - Len(s) \in 1..n /\ k - Len(s) \in 1..Len(t)
        BY <1>1, <3>2
      <4>2. u[k] = t[k - Len(s)]
        BY <1>1, <3>2, <4>1
      <4>3. v[k - Len(s)] = t[k - Len(s)]
        BY <1>3, <4>1
      <4>. HIDE DEF v
      <4>4. a[k] = v[k - Len(s)]
        BY <1>1, <1>3, <3>2, <4>1
      <4>. QED
        BY <4>2, <4>3, <4>4
    <3>. QED
      BY <1>1, <3>1, <3>2
  <2>. QED
    BY <2>1
<1>. HIDE DEF a, b, u
<1>8. a = b
  BY <1>1, <1>5, <1>6, <1>7
<1>. QED
  BY <1>4, <1>8 DEF a, b, u

LEMMA CloseFailsInv == ASSUME LInv, CloseFails PROVE LInv'
<1>1. /\ pc = "copy" /\ pos > Len(src) /\ buf' = <<>> /\ pc' = "rename" /\ lost' = "copy"
      /\ UNCHANGED <<given, plugin, entry, src, pos, nAdds>>
      /\ Fault /\ \E n \in 0..Len(buf) : temp' = temp \o SubSeq(buf, 1, n)
  BY DEF CloseFails
<1>2. temp \in Seq(Pieces) /\ buf \in Seq(Pieces) /\ pos \in 1..(Len(src) + 1)
  BY <1>1, CopyFacts
<1>3. nFaults' \in 0..MaxFaults /\ nFaults' # 0 /\ nFaults' > 0
  BY <1>1, FaultFacts
<1>4. PICK n \in 0..Len(buf) : temp' = temp \o SubSeq(buf, 1, n)
  BY <1>1
<1>5. SubSeq(buf, 1, n) \in Seq(Pieces)
  BY <1>2
<1>6. temp' \in Seq(Pieces) /\ buf' \in Seq(Pieces)
  BY <1>1, <1>2, <1>4, <1>5
<1>7. CopyInv'
  <2>. DEFINE m == ModifiedUpTo(~plugin.isKernel, src)
  <2>1. PICK k \in 0..Len(src) : temp \o buf = m[k]
    BY <1>1 DEF LInv, CopyInv
  <2>2. /\ Len(temp) + n \in 0..Len(temp \o buf)
        /\ temp \o SubSeq(buf, 1, n) = SubSeq(temp \o buf, 1, Len(temp) + n)
    BY <1>2, SubSeqOfConcat
  <2>3. IsStart(~plugin.isKernel, src, temp')
    BY <1>4, <2>1, <2>2 DEF IsStart
  <2>. QED
    BY <1>1, <1>3, <2>3 DEF CopyInv
<1>8. TempInv'
  BY <1>1, <1>6 DEF TempInv
<1>. QED
  BY <1>1, <1>2, <1>3, <1>6, <1>7, <1>8, StayInv

LEMMA ReadFailsInv == ASSUME LInv, ReadFails PROVE LInv'
<1>1. /\ pc = "copy" /\ pos <= Len(src) /\ pos' = Len(src) + 1 /\ lost' = "copy"
      /\ UNCHANGED <<given, plugin, entry, temp, buf, src, pc, nAdds>>
      /\ Fault
  BY DEF ReadFails
<1>2. /\ temp \in Seq(Pieces) /\ buf \in Seq(Pieces) /\ src \in Seq(Pieces)
      /\ Len(src) \in Nat
  BY <1>1, CopyFacts
<1>3. nFaults' \in 0..MaxFaults /\ nFaults' # 0 /\ nFaults' > 0
  BY <1>1, FaultFacts
<1>4. pos' \in 1..(Len(src) + 1) /\ pos' > Len(src)
  BY <1>1, <1>2
<1>5. CopyInv'
  BY <1>1, <1>3, <1>4 DEF LInv, CopyInv
<1>6. TempInv'
  BY <1>1, <1>2 DEF TempInv
<1>. QED
  BY <1>1, <1>2, <1>3, <1>4, <1>5, <1>6, StayInv

LEMMA WriteFailsInv == ASSUME LInv, WriteFails PROVE LInv'
<1>1. /\ pc \in {"start", "look", "open", "temp"} \/ (pc = "copy" /\ pos <= Len(src))
      /\ temp' = NoFile /\ PluginOver /\ UNCHANGED <<kept, entry, nAdds>>
      /\ Fault
  BY DEF WriteFails
<1>2. nFaults' \in 0..MaxFaults /\ nFaults' # 0
  BY <1>1, FaultFacts
<1>3. lost \in {"none", "entry"} /\ plugin \in KIplugin
  <2>1. pc = "copy" => ~(pos > Len(src))
    BY <1>1, CopyFacts
  <2>2. lost # "copy"
    BY <1>1, <2>1 DEF LInv, CopyInv
  <2>. QED
    BY <2>2 DEF LInv, RunTypes
<1>. QED
  BY <1>1, <1>2, <1>3, OverInv DEF kept

LEMMA RenameFailsInv == ASSUME LInv, RenameFails PROVE LInv'
<1>1. /\ temp' = NoFile /\ PluginOver /\ lost' = "none"
      /\ UNCHANGED <<given, plugin, entry, nAdds>>
      /\ Fault
  BY DEF RenameFails
<1>2. nFaults' \in 0..MaxFaults /\ nFaults' # 0
  BY <1>1, FaultFacts
<1>3. plugin \in KIplugin
  BY DEF LInv, RunTypes
<1>. QED
  BY <1>1, <1>2, <1>3, OverInv

LEMMA KillInv == ASSUME LInv, Kill PROVE LInv'
<1>1. /\ temp' = NoFile /\ PluginOver /\ lost' = IF lost = "copy" THEN "none" ELSE lost
      /\ UNCHANGED <<given, plugin, entry, nAdds>>
      /\ Fault
  BY DEF Kill
<1>2. nFaults' \in 0..MaxFaults /\ nFaults' # 0
  BY <1>1, FaultFacts
<1>3. plugin \in KIplugin /\ lost' \in {"none", "entry"}
  BY <1>1 DEF LInv, RunTypes
<1>. QED
  BY <1>1, <1>2, <1>3, OverInv

\* The changed entry takes the entry's place; it is the right one.
LEMMA RenameInv == ASSUME LInv, Rename PROVE LInv'
<1>1. /\ pc = "rename" /\ entry' = temp /\ temp' = NoFile /\ PluginOver
      /\ lost' = IF lost = "copy" THEN "entry" ELSE lost
      /\ UNCHANGED <<given, plugin, nAdds, nFaults>>
  BY DEF Rename
<1>2. /\ temp \in Seq(Pieces) /\ nFaults \in 0..MaxFaults /\ lost # "entry"
      /\ src = due.file /\ (~plugin.isKernel) = due.efi /\ due.change
  BY <1>1, CopyFacts
<1>3. FileTypes'
  <2>1. 1 \in 1..(Len(<<>>) + 1) /\ <<>> \in Seq(Pieces)
    OBVIOUS
  <2>2. /\ entry' = temp /\ temp' = NoFile /\ due' = due
        /\ buf' = <<>> /\ src' = <<>> /\ pos' = 1
    BY <1>1 DEF PluginOver, given
  <2>. QED
    BY <1>2, <2>1, <2>2, Zenon DEF LInv, FileTypes
<1>4. RunTypes'
  BY <1>1 DEF LInv, RunTypes, PluginOver, given
<1>5. RightInv'
  <2>. SUFFICES ASSUME nFaults = 0 PROVE Right'
    BY <1>1 DEF RightInv
  <2>1. lost # "copy"
    BY <1>2 DEF LInv, CopyInv
  <2>2. temp = Modified(~plugin.isKernel, src)
    BY <1>1, <2>1 DEF LInv, CopyInv
  <2>3. entry' = Modified(due'.efi, due'.file) /\ due'.change
    <3>. DEFINE k == ~plugin.isKernel
    <3>1. entry' = Modified(k, src)
      BY <1>1, <2>2, Zenon
    <3>2. k = due.efi /\ src = due.file /\ due.change
      BY <1>2, Zenon
    <3>3. due' = due
      BY <1>1 DEF given
    <3>. HIDE DEF k
    <3>4. entry' = Modified(due.efi, due.file)
      BY <3>1, <3>2, Zenon
    <3>. QED
      BY <3>2, <3>3, <3>4, Zenon
  <2>. QED
    BY <2>3 DEF Right
<1>6. TempInv' /\ ArgsInv' /\ EntryInv' /\ CopyInv'
  BY <1>1, <1>2 DEF TempInv, ArgsInv, EntryInv, CopyInv, PluginOver
<1>. QED
  BY <1>3, <1>4, <1>5, <1>6 DEF LInv

LEMMA StepInv == LInv /\ [Next]_vars => LInv'
<1>. SUFFICES ASSUME LInv, [Next]_vars PROVE LInv'
  OBVIOUS
<1>1. CASE Add
  BY <1>1, AddInv
<1>2. CASE RemoveRun \/ BareRun
  BY <1>2, RunInv
<1>3. CASE Remove
  BY <1>3, RemoveInv
<1>4. CASE PluginInit \/ Start
  BY <1>4, PluginInitInv, StartInv
<1>5. CASE OpenEntry \/ OpenTemp
  BY <1>5, OpenEntryInv, OpenTempInv
<1>6. CASE CopyRow \/ Flush
  BY <1>6, CopyRowInv, FlushInv
<1>7. CASE Close \/ Rename
  BY <1>7, CloseInv, RenameInv
<1>8. CASE WriteFails \/ CloseFails
  BY <1>8, WriteFailsInv, CloseFailsInv
<1>9. CASE ReadFails \/ RenameFails \/ Kill
  BY <1>9, ReadFailsInv, RenameFailsInv, KillInv
<1>10. CASE UNCHANGED vars
  <2>1. FileTypes'
    BY <1>10 DEF vars, given, LInv, FileTypes
  <2>2. RunTypes'
    BY <1>10 DEF vars, given, LInv, RunTypes
  <2>3. TempInv' /\ ArgsInv'
    BY <1>10 DEF vars, given, LInv, TempInv, ArgsInv, Ours, IsAdd
  <2>4. EntryInv'
    BY <1>10 DEF vars, given, LInv, EntryInv, Ours, IsAdd
  <2>5. CopyInv'
    BY <1>10 DEF vars, given, LInv, CopyInv
  <2>6. RightInv'
    BY <1>10 DEF vars, given, LInv, RightInv, Right, Ours, IsAdd
  <2>. QED
    BY <2>1, <2>2, <2>3, <2>4, <2>5, <2>6, Zenon DEF LInv
<1>. QED
  BY <1>1, <1>2, <1>3, <1>4, <1>5, <1>6, <1>7, <1>8, <1>9, <1>10, Zenon
  DEF Next, Plugin, Failure

LEMMA Invariance == Spec => []LInv
BY InitInv, StepInv, PTL DEF Spec

-----------------------------------------------------------------------------
(* The theorems.                                                           *)

\* The variables have their types, for any entry files of pieces, any number
\* of additions and removals and any number of failures.
THEOREM EntryTypes == Spec => []TypeOK
<1>1. LInv => TypeOK
  BY TypeParts DEF LInv
<1>. QED
  BY Invariance, <1>1, PTL

\* loaderentry_modify_file unlinks its temporary file on every way out, or has
\* renamed it, so none is left among the entries.
THEOREM NoLitterAlways == Spec => []NoLitter
<1>1. LInv => NoLitter
  BY DEF LInv, TempInv, NoLitter
<1>. QED
  BY Invariance, <1>1, PTL

\* However runs for additions and removals, managed packages and others follow
\* each other, the entry that stays is the one written last and changed as it
\* is to be, as long as nothing fails.
THEOREM EntryIsRightAlways == Spec => []EntryIsRight
<1>1. LInv => EntryIsRight
  BY DEF LInv, RightInv, Right, EntryIsRight
<1>. QED
  BY Invariance, <1>1, PTL

\* Among the changes there is the one the plugin makes.
LEMMA ChangeIsOne ==
  ASSUME NEW w \in Written, NEW e \in BOOLEAN
  PROVE  Modified(e, w) \in [file \in Written |-> {Modified(b, file) : b \in BOOLEAN}][w]
OBVIOUS

\* What a reader of the entry finds: one write, one removal, or one change of
\* the whole file.
LEMMA AtomicStep == LInv /\ [Next]_vars => [Atomic!Next]_(IF lost = "entry" THEN NoFile ELSE entry)
<1>. DEFINE seen == IF lost = "entry" THEN NoFile ELSE entry
<1>. SUFFICES ASSUME LInv, [Next]_vars PROVE Atomic!Next \/ seen' = seen
  BY Zenon
<1>. USE DEF given, kept
<1>1. CASE Add
  <2>1. PICK image \in {"kernel", "tool"} : RunPlugin(AddArgs(image))
    BY <1>1 DEF Add, AddArgs
  <2>2. UNCHANGED <<entry, due, lost>> \/ (entry' \in Written /\ lost' = "none")
    BY <1>1 DEF Add
  <2>3. CASE UNCHANGED <<entry, due, lost>>
    BY <2>3
  <2>4. CASE entry' \in Written /\ lost' = "none"
    <3>1. seen' \in Written
      BY <2>4
    <3>. QED
      BY <3>1 DEF Atomic!Next, Atomic!Write
  <2>. QED
    BY <2>2, <2>3, <2>4
<1>2. CASE RemoveRun
  <2>1. seen' = NoFile
    BY <1>2 DEF RemoveRun
  <2>. QED
    BY <2>1 DEF Atomic!Next, Atomic!Remove
<1>3. CASE Remove
  <2>1. seen' = NoFile
    BY <1>3 DEF Remove
  <2>. QED
    BY <2>1 DEF Atomic!Next, Atomic!Remove
<1>4. CASE Rename
  <2>1. /\ pc = "rename" /\ entry' = temp
        /\ lost' = IF lost = "copy" THEN "entry" ELSE lost
    BY <1>4 DEF Rename
  <2>2. /\ due.file \in Written /\ src = due.file /\ entry \in {NoFile, due.file}
        /\ lost # "entry" /\ (~plugin.isKernel) \in BOOLEAN
    BY <2>1, CopyFacts
  <2>3. CASE lost = "copy"
    <3>1. seen' = NoFile
      BY <2>1, <2>3
    <3>. QED
      BY <3>1 DEF Atomic!Next, Atomic!Remove
  <2>4. CASE lost # "copy"
    <3>. DEFINE changes == [file \in Written |-> {Modified(b, file) : b \in BOOLEAN}]
    <3>1. temp = Modified(~plugin.isKernel, src)
      BY <2>1, <2>4 DEF LInv, CopyInv
    <3>2. temp \in changes[due.file]
      BY <2>2, <3>1, ChangeIsOne
    <3>. HIDE DEF changes
    <3>3. seen' \in changes[due.file] /\ seen \in {NoFile, due.file} /\ due.file \in Written
      BY <2>1, <2>2, <2>4, <3>2
    <3>4. CASE seen = NoFile
      <4>1. Atomic!Return
        BY <3>3, <3>4, Zenon DEF Atomic!Return, changes
      <4>. QED
        BY <4>1 DEF Atomic!Next
    <3>5. CASE seen = due.file
      <4>1. Atomic!Replace
        BY <3>3, <3>5, Zenon DEF Atomic!Replace, changes
      <4>. QED
        BY <4>1 DEF Atomic!Next
    <3>. QED
      BY <3>3, <3>4, <3>5
  <2>. QED
    BY <2>3, <2>4
<1>5. CASE ReadFails \/ CloseFails
  <2>1. pc = "copy" /\ lost' = "copy" /\ entry' = entry
    BY <1>5 DEF ReadFails, CloseFails
  <2>2. lost # "entry"
    BY <2>1, CopyFacts
  <2>. QED
    BY <2>1, <2>2
<1>6. CASE RenameFails
  <2>1. pc = "rename" /\ lost' = "none" /\ entry' = entry
    BY <1>6 DEF RenameFails
  <2>2. lost # "entry"
    BY <2>1, CopyFacts
  <2>. QED
    BY <2>1, <2>2
<1>7. CASE Kill
  BY <1>7 DEF Kill
<1>8. CASE BareRun \/ PluginInit \/ Start \/ OpenEntry
  BY <1>8 DEF BareRun, PluginInit, Start, OpenEntry
<1>9. CASE OpenTemp \/ CopyRow \/ Flush \/ Close \/ WriteFails
  BY <1>9 DEF OpenTemp, CopyRow, Flush, Close, WriteFails
<1>10. CASE UNCHANGED vars
  BY <1>10 DEF vars
<1>. QED
  BY <1>1, <1>2, <1>3, <1>4, <1>5, <1>6, <1>7, <1>8, <1>9, <1>10
  DEF Next, Plugin, Failure

\* "rename the file (atomic)": the plugin implements AtomicEntry, for any
\* entries and any number of failures; an entry that lost rows because fgets or
\* fclose failed counts as gone.
THEOREM EntryIsAtomic == Spec => AtomicSpec
<1>1. Init => Atomic!Init
  BY DEF Init, Atomic!Init
<1>. QED
  BY Invariance, AtomicStep, <1>1, PTL DEF Spec, AtomicSpec, Atomic!Spec

-----------------------------------------------------------------------------
(* A changed entry boots.                                                  *)

\* An entry kernel-install writes says what to boot and with which options.
Boots(file) ==
  /\ \E k \in 1..Len(file) : file[k].key \in {"linux", "uki"}
  /\ \E k \in 1..Len(file) : file[k].key = "options"

HasKey(rows, keys) == \E k \in 1..Len(rows) : rows[k].key \in keys

\* No row is left as it must not be: the title is the package's, and an efi
\* program's entry has nothing that is for kernels only.
Clean(e, rows) ==
  \A k \in 1..Len(rows) :
    /\ rows[k] # Piece("title", "own")
    /\ e => rows[k].key \notin {"linux", "uki", "options"}

LEMMA ConcatRows ==
  ASSUME NEW s \in Seq(Pieces), NEW t \in Seq(Pieces), NEW e \in BOOLEAN, NEW keys
  PROVE  /\ Clean(e, s) /\ Clean(e, t) => Clean(e, s \o t)
         /\ HasKey(s, keys) \/ HasKey(t, keys) => HasKey(s \o t, keys)
<1>. DEFINE u == s \o t
<1>1. Len(s) \in Nat /\ Len(t) \in Nat /\ Len(u) = Len(s) + Len(t)
  OBVIOUS
<1>2. /\ \A k \in 1..Len(s) : u[k] = s[k]
      /\ \A k \in 1..Len(t) : u[Len(s) + k] = t[k]
  OBVIOUS
<1>. HIDE DEF u
<1>3. \A k \in 1..Len(u) : k \in 1..Len(s) \/ (k - Len(s) \in 1..Len(t) /\ k = Len(s) + (k - Len(s)))
  BY <1>1
<1>4. /\ \A k \in 1..Len(s) : k \in 1..Len(u)
      /\ \A k \in 1..Len(t) : Len(s) + k \in 1..Len(u)
  BY <1>1
<1>5. Clean(e, s) /\ Clean(e, t) => Clean(e, u)
  <2>. SUFFICES ASSUME Clean(e, s), Clean(e, t), NEW k \in 1..Len(u)
                PROVE  /\ u[k] # Piece("title", "own")
                       /\ e => u[k].key \notin {"linux", "uki", "options"}
    BY DEF Clean
  <2>1. CASE k \in 1..Len(s)
    BY <1>2, <2>1 DEF Clean
  <2>2. CASE k - Len(s) \in 1..Len(t) /\ k = Len(s) + (k - Len(s))
    <3>1. u[k] = t[k - Len(s)]
      BY <1>2, <2>2
    <3>. QED
      BY <2>2, <3>1 DEF Clean
  <2>. QED
    BY <1>3, <2>1, <2>2
<1>6. HasKey(s, keys) => HasKey(u, keys)
  BY <1>2, <1>4, Zenon DEF HasKey
<1>7. HasKey(t, keys) => HasKey(u, keys)
  BY <1>2, <1>4, Zenon DEF HasKey
<1>. QED
  BY <1>5, <1>6, <1>7 DEF u

LEMMA OneRow ==
  ASSUME NEW e \in BOOLEAN, NEW p \in Pieces
  PROVE  LET row == RowModify(e, p)
         IN  /\ Clean(e, row)
             /\ e /\ p.key \in {"linux", "uki"} => HasKey(row, {"efi"})
             /\ ~e => HasKey(row, {p.key})
<1>0. p.key \in Keys /\ p.val \in Vals
  BY DEF Pieces
<1>1. CASE p.key = "title"
  <2>1. RowModify(e, p) = <<Piece("title", "pkg")>>
    BY <1>1 DEF RowModify, TitleUpdate
  <2>. QED
    BY <1>1, <2>1 DEF Clean, HasKey, Piece
<1>2. CASE p.key # "title" /\ ~e
  <2>1. RowModify(e, p) = <<p>>
    BY <1>2 DEF RowModify, TitleUpdate
  <2>2. p # Piece("title", "own")
    BY <1>2 DEF Piece
  <2>. QED
    BY <1>2, <2>1, <2>2 DEF Clean, HasKey
<1>3. CASE p.key \in {"linux", "uki"} /\ e
  <2>1. RowModify(e, p) = <<Piece("efi", p.val), Piece("blank", "own")>>
    BY <1>3 DEF RowModify, EfiToolUpdate
  <2>. DEFINE r == <<Piece("efi", p.val), Piece("blank", "own")>>
  <2>2. Len(r) = 2 /\ r[1].key = "efi" /\ r[2].key = "blank"
    BY DEF Piece
  <2>3. \A q : q.key # "title" => q # Piece("title", "own")
    BY DEF Piece
  <2>. HIDE DEF r
  <2>4. \A k \in 1..Len(r) : r[k].key \in {"efi", "blank"}
    BY <2>2
  <2>5. Clean(e, r) /\ HasKey(r, {"efi"})
    BY <2>2, <2>3, <2>4 DEF Clean, HasKey
  <2>. QED
    BY <1>3, <2>1, <2>5 DEF r
<1>4. CASE p.key = "options" /\ e
  <2>1. RowModify(e, p) = <<>>
    BY <1>4 DEF RowModify, EfiToolUpdate
  <2>2. 1..Len(<<>>) = {}
    OBVIOUS
  <2>. QED
    BY <1>4, <2>1, <2>2 DEF Clean, HasKey
<1>5. CASE p.key \notin {"title", "linux", "uki", "options"} /\ e
  <2>1. RowModify(e, p) = <<p>>
    BY <1>5 DEF RowModify, EfiToolUpdate
  <2>2. p # Piece("title", "own")
    BY <1>5 DEF Piece
  <2>. DEFINE r == <<p>>
  <2>3. \A k \in 1..Len(r) : r[k] = p
    OBVIOUS
  <2>. HIDE DEF r
  <2>4. Clean(e, r)
    BY <1>5, <2>2, <2>3 DEF Clean
  <2>. QED
    BY <1>5, <2>1, <2>4 DEF r
<1>. QED
  BY <1>1, <1>2, <1>3, <1>4, <1>5

LEMMA AllRows ==
  ASSUME NEW e \in BOOLEAN, NEW f \in Seq(Pieces)
  PROVE  /\ Clean(e, Modified(e, f))
         /\ e /\ HasKey(f, {"linux", "uki"}) => HasKey(Modified(e, f), {"efi"})
         /\ \A keys : ~e /\ HasKey(f, keys) => HasKey(Modified(e, f), keys)
<1>. DEFINE n == Len(f)
            m == ModifiedUpTo(e, f)
            Upto(j) == /\ Clean(e, m[j])
                       /\ \A i \in 1..j : e /\ f[i].key \in {"linux", "uki"} => HasKey(m[j], {"efi"})
                       /\ \A i \in 1..j : ~e => HasKey(m[j], {f[i].key})
            S == {j \in Nat : j <= n => Upto(j)}
<1>1. /\ n \in Nat /\ m \in [0..n -> Seq(Pieces)] /\ m[0] = <<>>
      /\ \A k \in 1..n : m[k] = m[k - 1] \o RowModify(e, f[k])
      /\ \A k \in 1..n : f[k] \in Pieces
  <2>1. n \in Nat /\ \A k \in 1..n : f[k] \in Pieces
    OBVIOUS
  <2>. HIDE DEF Upto, S
  <2>2. /\ m \in [0..n -> Seq(Pieces)] /\ m[0] = <<>>
        /\ \A k \in 1..n : m[k] = m[k - 1] \o RowModify(e, f[k])
    BY ModifiedRows
  <2>. QED
    BY <2>1, <2>2
<1>. HIDE DEF n, m
<1>2. Upto(0)
  <2>1. Clean(e, <<>>)
    BY DEF Clean
  <2>. QED
    BY <1>1, <2>1
<1>3. ASSUME NEW j \in Nat, j \in S
      PROVE  j + 1 \in S
  <2>1. CASE j + 1 <= n
    <3>1. Upto(j)
      <4>. HIDE DEF Upto
      <4>. QED
        BY <1>1, <1>3, <2>1
    <3>. DEFINE row == RowModify(e, f[j + 1])
    <3>2. j + 1 \in 1..n /\ j \in 0..n /\ (j + 1) - 1 = j
      BY <1>1, <2>1
    <3>3. /\ m[j] \in Seq(Pieces) /\ f[j + 1] \in Pieces /\ m[j + 1] = m[j] \o row
      BY <1>1, <3>2
    <3>4. /\ row \in Seq(Pieces)
          /\ Clean(e, row)
          /\ e /\ f[j + 1].key \in {"linux", "uki"} => HasKey(row, {"efi"})
          /\ ~e => HasKey(row, {f[j + 1].key})
      BY <3>3, RowType, OneRow
    <3>. HIDE DEF row
    <3>5. \A i \in 1..(j + 1) : i \in 1..j \/ i = j + 1
      OBVIOUS
    <3>6. /\ Clean(e, m[j + 1])
          /\ \A keys : HasKey(m[j], keys) \/ HasKey(row, keys) => HasKey(m[j + 1], keys)
      BY <3>1, <3>3, <3>4, ConcatRows
    <3>7. ASSUME NEW i \in 1..(j + 1), e, f[i].key \in {"linux", "uki"}
          PROVE  HasKey(m[j + 1], {"efi"})
      BY <3>1, <3>4, <3>5, <3>6, <3>7
    <3>8. ASSUME NEW i \in 1..(j + 1), ~e
          PROVE  HasKey(m[j + 1], {f[i].key})
      BY <3>1, <3>4, <3>5, <3>6, <3>8
    <3>9. Upto(j + 1)
      BY <3>6, <3>7, <3>8
    <3>. HIDE DEF Upto
    <3>. QED
      BY <3>9
  <2>2. CASE ~(j + 1 <= n)
    BY <2>2
  <2>. QED
    BY <2>1, <2>2
<1>4. Upto(n)
  <2>. HIDE DEF Upto
  <2>1. 0 \in S
    BY <1>2
  <2>2. Nat \subseteq S
    <3>. HIDE DEF S
    <3>. QED
      BY <1>3, <2>1, SetInduction
  <2>. QED
    BY <1>1, <2>2
<1>5. m[n] = Modified(e, f)
  BY DEF Modified, m, n
<1>6. \A keys : ~e /\ HasKey(f, keys) => HasKey(m[n], keys)
  <2>. SUFFICES ASSUME NEW keys, ~e, HasKey(f, keys) PROVE HasKey(m[n], keys)
    OBVIOUS
  <2>1. PICK i \in 1..n : f[i].key \in keys
    BY DEF HasKey, n
  <2>2. HasKey(m[n], {f[i].key})
    BY <1>4
  <2>. QED
    BY <2>1, <2>2 DEF HasKey
<1>7. e /\ HasKey(f, {"linux", "uki"}) => HasKey(m[n], {"efi"})
  BY <1>4 DEF HasKey, n
<1>. QED
  BY <1>4, <1>5, <1>6, <1>7

\* Whatever came before, an entry about to take its place starts what it was
\* written for: of an efi tool the program, without what is for kernels only,
\* of a kernel the kernel with its options; if rows were lost it begins so.
THEOREM RenamedBoots ==
  ASSUME \A w \in Written : Boots(w)
  PROVE  Spec => []RenamedIsBootable
<1>1. LInv => RenamedIsBootable
  <2>. SUFFICES ASSUME LInv, pc = "rename" PROVE RenamedIsBootable
    BY DEF RenamedIsBootable
  <2>. DEFINE e == ~plugin.isKernel
  <2>1. src \in Written /\ temp \in Seq(Pieces) /\ e \in BOOLEAN
    BY CopyFacts
  <2>2. IsAdd /\ plugin.isKernel = (args = AddArgs("kernel"))
    BY DEF LInv, ArgsInv
  <2>3. args[1] = "add" /\ (args[4] = "tool" <=> e)
    BY <2>2, AddFacts DEF IsAdd
  <2>. HIDE DEF e
  <2>4. src \in Seq(Pieces) /\ Boots(src)
    BY <2>1, WrittenAssumption
  <2>5. HasKey(src, {"linux", "uki"}) /\ HasKey(src, {"options"})
    BY <2>4 DEF Boots, HasKey
  <2>6. ASSUME lost # "copy"
        PROVE  Bootable(temp) /\ \A k \in DOMAIN temp : temp[k] # Piece("title", "own")
    <3>1. temp = Modified(e, src)
      BY <2>6 DEF LInv, CopyInv, e
    <3>2. /\ Clean(e, temp)
          /\ e => HasKey(temp, {"efi"})
          /\ ~e => HasKey(temp, {"linux", "uki"}) /\ HasKey(temp, {"options"})
      BY <2>1, <2>4, <2>5, <3>1, AllRows
    <3>3. DOMAIN temp = 1..Len(temp)
      BY <2>1
    <3>. QED
      BY <2>3, <3>2, <3>3 DEF Bootable, Clean, HasKey
  <2>7. ASSUME lost = "copy"
        PROVE  IsStart(args[4] = "tool", src, temp)
    <3>1. IsStart(e, src, temp)
      BY <2>7 DEF LInv, CopyInv, e
    <3>2. (args[4] = "tool") = e
      BY <2>1, <2>3
    <3>. QED
      BY <3>1, <3>2
  <2>. QED
    BY <2>3, <2>6, <2>7 DEF RenamedIsBootable
<1>. QED
  BY Invariance, <1>1, PTL

=============================================================================
