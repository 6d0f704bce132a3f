------------------------ MODULE InstallConf_proofs ------------------------
(***************************************************************************)
(* What the reader of kernel-install's configuration promises, for any     *)
(* number of directories and names, any keys and values: the types, and    *)
(* that one file that changes during the read is seen as it was or as it   *)
(* is.                                                                     *)
(***************************************************************************)
EXTENDS InstallConf, WellFoundedInduction, TLAPS

-----------------------------------------------------------------------------
(* The meaning of files that stay as they are.                             *)

Places == Dirs \X Names

Typed(F) == F.main \in [Dirs -> Files] /\ F.dropin \in [Dirs -> [Names -> Files]]

FirstMain(F) == {d \in Dirs : F.main[d] # Absent /\ \A e \in 1..(d - 1) : F.main[e] = Absent}

Setters(F, k) == {p \in Places : Sets(F.dropin[p[1]][p[2]], k)}

\* What the install.conf that counts sets a key to.
MainValue(F, k) ==
  IF \E d \in FirstMain(F) : Sets(F.main[d], k)
  THEN F.main[CHOOSE d \in FirstMain(F) : TRUE][k]
  ELSE Unset

\* v is what the drop-ins at places S leave key k at, if S are those that set it.
Strongest(F, S, k, v) ==
  IF S = {} THEN v = MainValue(F, k)
  ELSE \E p \in S : (\A q \in S : Over(p, q)) /\ v = F.dropin[p[1]][p[2]][k]

\* A set of names has a least one.
LEMMA FirstIsLeast ==
  ASSUME NEW S \in SUBSET Names, S # {}
  PROVE  First(S) \in S /\ \A m \in S : First(S) <= m
<1>1. S \subseteq Nat
  BY SizeAssumption DEF Names
<1>2. IsWellFoundedOn(OpToRel(<, Nat), Nat)
  BY NatLessThanWellFounded
<1>3. PICK x \in S : \A y \in S : ~(<<y, x>> \in OpToRel(<, Nat))
  BY <1>1, <1>2, WFMin
<1>4. \A y \in S : ~(y < x)
  BY <1>1, <1>3 DEF OpToRel
<1>5. \A y \in S : x <= y
  BY <1>1, <1>4
<1>. QED
  BY <1>5 DEF First

\* Files are absent, bad, or settings; and what a file sets is a value.
LEMMA FileKinds ==
  ASSUME NEW f \in Files, NEW k \in Keys
  PROVE  /\ Sets(f, k) <=> f \in Settings /\ f[k] # Unset
         /\ Sets(f, k) => f \notin {Absent, Bad} /\ f[k] \in Values
         /\ Sets(f, k) => \A c : Extract(f, c)[k] = f[k]
         /\ ~Sets(f, k) => \A c \in [Keys -> Values \cup {Unset}] : Extract(f, c)[k] = c[k]
BY DistinctAssumption DEF Files, Settings, Sets, Extract

\* Reading a file keeps the type of what was read.
LEMMA ExtractType ==
  ASSUME NEW f \in Files, NEW c \in Settings
  PROVE  Extract(f, c) \in Settings
BY DistinctAssumption DEF Files, Settings, Extract

\* Only one install.conf counts.
LEMMA OneMain ==
  ASSUME NEW F, NEW d \in FirstMain(F)
  PROVE  FirstMain(F) = {d}
<1>1. ASSUME NEW e \in FirstMain(F) PROVE e = d
  <2>1. d \in Nat /\ e \in Nat /\ 1 <= d /\ 1 <= e
    BY SizeAssumption DEF FirstMain, Dirs
  <2>2. ~(e < d)
    BY <2>1 DEF FirstMain
  <2>3. ~(d < e)
    BY <2>1, <1>1 DEF FirstMain
  <2>. QED
    BY <2>1, <2>2, <2>3
<1>. QED
  BY <1>1

\* What files mean, key by key.
MeaningOf(F, k) ==
  LET top == CHOOSE p \in Setters(F, k) : \A q \in Setters(F, k) : Over(p, q)
  IN  IF Setters(F, k) # {} THEN F.dropin[top[1]][top[2]][k]
      ELSE IF \E d \in FirstMain(F) : Sets(F.main[d], k)
             THEN F.main[CHOOSE d \in FirstMain(F) : TRUE][k]
      ELSE Default(k)

LEMMA MeaningAt ==
  ASSUME NEW F
  PROVE  /\ \A k \in Keys : Meaning(F)[k] = MeaningOf(F, k)
         /\ Meaning(F) = [k \in Keys |-> Meaning(F)[k]]
<1>1. Meaning(F) = [k \in Keys |-> MeaningOf(F, k)]
  BY DEF Meaning, MeaningOf, Setters, FirstMain, Places
<1>. QED
  BY <1>1

\* What is left of a key after all drop-ins, with its default, is what the
\* files mean.
LEMMA MeaningValue ==
  ASSUME NEW F, Typed(F), NEW k \in Keys, NEW v, Strongest(F, Setters(F, k), k, v)
  PROVE  Meaning(F)[k] = IF v = Unset THEN Default(k) ELSE v
<1>. DEFINE setters == Setters(F, k)
            top == CHOOSE p \in setters : \A q \in setters : Over(p, q)
<1>1. Meaning(F)[k] =
        IF setters # {} THEN F.dropin[top[1]][top[2]][k]
        ELSE IF \E d \in FirstMain(F) : Sets(F.main[d], k)
               THEN F.main[CHOOSE d \in FirstMain(F) : TRUE][k]
        ELSE Default(k)
  BY MeaningAt DEF MeaningOf
<1>2. CASE setters = {}
  <2>1. v = MainValue(F, k)
    BY <1>2 DEF Strongest
  <2>2. CASE \E d \in FirstMain(F) : Sets(F.main[d], k)
    <3>1. PICK d \in FirstMain(F) : Sets(F.main[d], k)
      BY <2>2
    <3>2. FirstMain(F) = {d}
      BY OneMain
    <3>3. (CHOOSE x \in FirstMain(F) : TRUE) = d
      BY <3>2
    <3>4. F.main[d] \in Files
      BY DEF Typed, FirstMain
    <3>5. F.main[d][k] # Unset
      BY <3>1, <3>4, FileKinds
    <3>. QED
      BY <1>1, <1>2, <2>1, <2>2, <3>3, <3>5 DEF MainValue
  <2>3. CASE ~\E d \in FirstMain(F) : Sets(F.main[d], k)
    BY <1>1, <1>2, <2>1, <2>3 DEF MainValue
  <2>. QED
    BY <2>2, <2>3
<1>3. CASE setters # {}
  <2>1. PICK p \in setters : (\A q \in setters : Over(p, q)) /\ v = F.dropin[p[1]][p[2]][k]
    BY <1>3 DEF Strongest
  <2>2. top \in setters /\ \A q \in setters : Over(top, q)
    BY <2>1
  <2>3. Over(p, top) /\ Over(top, p)
    BY <2>1, <2>2
  <2>4. p \in Places /\ top \in Places
    BY <2>2 DEF Setters
  <2>5. p = top
    <3>1. /\ p[1] \in Nat /\ p[2] \in Nat /\ p = <<p[1], p[2]>>
          /\ top[1] \in Nat /\ top[2] \in Nat /\ top = <<top[1], top[2]>>
      <4>1. \A x \in Places : x[1] \in Nat /\ x[2] \in Nat /\ x = <<x[1], x[2]>>
        BY SizeAssumption DEF Places, Dirs, Names
      <4>. QED
        BY <2>4, <4>1
    <3>2. p[1] = top[1] /\ p[2] = top[2]
      BY <2>3, <3>1 DEF Over
    <3>. QED
      BY <3>1, <3>2
  <2>6. Sets(F.dropin[p[1]][p[2]], k)
    BY DEF Setters
  <2>7. F.dropin[p[1]][p[2]] \in Files
    BY <2>4 DEF Typed, Places
  <2>8. v # Unset
    BY <2>1, <2>6, <2>7, FileKinds
  <2>. QED
    BY <1>1, <1>3, <2>1, <2>5, <2>8
<1>. QED
  BY <1>2, <1>3

-----------------------------------------------------------------------------
(* The invariant.                                                          *)

\* The drop-in at place p has been read, or was not there to be read.
Passed(p) ==
  \/ pc = "done"
  \/ pc \in {"scan", "dropin"} /\ p[1] > dir
  \/ pc = "dropin" /\ p[1] = dir /\ p[2] \notin todo

PassedSetters(F, k) == {p \in Setters(F, k) : Passed(p)}

\* Until an install.conf is read, none of the directories passed has one, the
\* rest of F is what is on disk.
MainRead(F) ==
  /\ pc \in {"main", "parse"} => conf = Nothing /\ \A e \in 1..(dir - 1) : F.main[e] = Absent
  /\ pc = "main" => \A d \in dir..NDirs : F.main[d] = main[d]
  /\ pc = "parse" =>
       /\ F.main[dir] = main[dir]
       /\ F.main[dir] # Absent \/ \A d \in Dirs : F.main[d] = Absent

\* Drop-ins still to be read are those on disk, and come after those read.
DropinsAhead(F) ==
  /\ \A p \in Places : ~Passed(p) => F.dropin[p[1]][p[2]] = dropin[p[1]][p[2]]
  /\ pc = "dropin" =>
       \A m \in todo, n \in Names \ todo : F.dropin[dir][n] # Absent => n < m

\* What was read so far is what it is of the files F.
ReadSoFar(F) ==
  /\ pc \in {"scan", "dropin"} =>
       \A k \in Keys : Strongest(F, PassedSetters(F, k), k, conf[k])
  /\ pc = "done" => conf = Meaning(F)

Reads(F) == Typed(F) /\ MainRead(F) /\ DropinsAhead(F) /\ ReadSoFar(F)

\* The files the reader is reading, with at most one change: those before it,
\* those after it, or the drop-ins alone.
Candidate(F) == F \in {old, Now} \/ (MainWent /\ F = DropinsOnly)

\* conf is a setting of the keys until the defaults come in.
TypeInv ==
  /\ TypeOK
  /\ Typed(old)
  /\ conf = [k \in Keys |-> conf[k]]
  /\ pc # "done" => conf \in Settings

ReadInv ==
  /\ nEdits = 0 => old = Now
  /\ nEdits <= 1 => \E F : Candidate(F) /\ Reads(F)

-----------------------------------------------------------------------------
(* Types.                                                                  *)

LEMMA TypeInit == Init => TypeInv
<1>. SUFFICES ASSUME Init PROVE TypeInv
  OBVIOUS
<1>1. Absent \in Files
  BY DEF Files
<1>2. main \in [Dirs -> Files]
  BY <1>1 DEF Init
<1>3. dropin \in [Dirs -> [Names -> Files]]
  BY <1>1 DEF Init
<1>4. conf \in Settings /\ conf = [k \in Keys |-> conf[k]]
  BY DEF Init, Nothing, Settings
<1>5. dir \in Dirs /\ nEdits \in 0..MaxEdits /\ todo \subseteq Names
  BY SizeAssumption DEF Init, Dirs
<1>6. Typed(old)
  BY <1>2, <1>3 DEF Init, Typed
<1>7. \A k \in Keys : conf[k] \in Values \cup {Unset, Default(k)}
  BY <1>4 DEF Settings
<1>. QED
  BY <1>2, <1>3, <1>4, <1>5, <1>6, <1>7 DEF Init, TypeInv, TypeOK

LEMMA TypeStep ==
  ASSUME TypeInv, [Next]_vars
  PROVE  TypeInv'
<1>. USE DEF TypeInv, TypeOK
<1>0. \A c : c \in Settings =>
        c = [k \in Keys |-> c[k]] /\ \A k \in Keys : c[k] \in Values \cup {Unset, Default(k)}
  BY DEF Settings
<1>1. CASE StatMain
  BY <1>1, SizeAssumption DEF StatMain, Dirs, Typed
<1>2. CASE ParseMain
  <2>1. main[dir] \in Files /\ conf \in Settings
    BY <1>2 DEF ParseMain
  <2>2. conf' \in Settings
    BY <1>2, <2>1, ExtractType DEF ParseMain
  <2>3. dir' \in Dirs
    BY <1>2, SizeAssumption DEF ParseMain, Dirs
  <2>4. conf' = [k \in Keys |-> conf'[k]] /\ \A k \in Keys : conf'[k] \in Values \cup {Unset, Default(k)}
    BY <1>0, <2>2
  <2>. QED
    BY <1>2, <2>2, <2>3, <2>4 DEF ParseMain, Typed
<1>3. CASE ScanDropins
  BY <1>3 DEF ScanDropins, Typed
<1>4. CASE ReadDropin
  <2>1. First(todo) \in Names
    BY <1>4, FirstIsLeast DEF ReadDropin
  <2>2. dropin[dir][First(todo)] \in Files /\ conf \in Settings
    BY <1>4, <2>1 DEF ReadDropin
  <2>3. conf' \in Settings
    BY <1>4, <2>2, ExtractType DEF ReadDropin
  <2>. QED
    BY <1>0, <1>4, <2>3 DEF ReadDropin, Typed
<1>5. CASE NextDir
  <2>1. CASE dir > 1
    BY <1>5, <2>1, SizeAssumption DEF NextDir, Dirs, Typed
  <2>2. CASE ~(dir > 1)
    <3>1. conf' = WithDefaults(conf) /\ pc' = "done" /\ UNCHANGED <<main, dropin, todo, old, nEdits, dir>>
      BY <1>5, <2>2 DEF NextDir
    <3>2. \A k \in Keys : conf'[k] \in Values \cup {Unset, Default(k)}
      BY <3>1 DEF WithDefaults
    <3>3. conf' = [k \in Keys |-> conf'[k]]
      BY <3>1 DEF WithDefaults
    <3>. QED
      BY <3>1, <3>2, <3>3 DEF Typed
  <2>. QED
    BY <2>1, <2>2
<1>6. CASE Edit
  <2>1. main' \in [Dirs -> Files] /\ dropin' \in [Dirs -> [Names -> Files]]
    <3>1. PICK f \in Files :
            \/ \E d \in MainAt : main' = [main EXCEPT ![d] = f] /\ UNCHANGED dropin
            \/ \E p \in DropAt : dropin' = [dropin EXCEPT ![p[1]][p[2]] = f] /\ UNCHANGED main
      BY <1>6 DEF Edit
    <3>2. CASE \E d \in MainAt : main' = [main EXCEPT ![d] = f] /\ UNCHANGED dropin
      BY <3>2
    <3>3. CASE \E p \in DropAt : dropin' = [dropin EXCEPT ![p[1]][p[2]] = f] /\ UNCHANGED main
      <4>1. PICK p \in DropAt : dropin' = [dropin EXCEPT ![p[1]][p[2]] = f] /\ UNCHANGED main
        BY <3>3
      <4>2. p[1] \in Dirs /\ p[2] \in Names
        BY PlaceAssumption
      <4>. QED
        BY <4>1, <4>2
    <3>. QED
      BY <3>1, <3>2, <3>3
  <2>2. Typed(old)'
    BY <1>6 DEF Edit, Typed
  <2>3. nEdits' \in 0..MaxEdits
    BY <1>6, SizeAssumption DEF Edit
  <2>. QED
    BY <1>6, <2>1, <2>2, <2>3 DEF Edit
<1>7. CASE UNCHANGED vars
  BY <1>7 DEF vars, Typed
<1>. QED
  BY <1>1, <1>2, <1>3, <1>4, <1>5, <1>6, <1>7 DEF Next

\* The variables have their types; what is read is a setting until the
\* defaults come in.
THEOREM InstallConfTypes == Spec => []TypeOK
<1>1. Init => TypeInv
  BY TypeInit
<1>2. TypeInv /\ [Next]_vars => TypeInv'
  BY TypeStep
<1>3. TypeInv => TypeOK
  BY DEF TypeInv
<1>. QED
  BY <1>1, <1>2, <1>3, PTL DEF Spec

-----------------------------------------------------------------------------
(* One snapshot through the reader's steps.                                *)

\* The install.conf that is read is the one that counts.
LEMMA MainFound ==
  ASSUME NEW F, Typed(F), NEW d \in Dirs, F.main[d] # Absent,
         \A e \in 1..(d - 1) : F.main[e] = Absent, NEW k \in Keys
  PROVE  MainValue(F, k) = Extract(F.main[d], Nothing)[k]
<1>1. d \in FirstMain(F)
  BY DEF FirstMain
<1>2. FirstMain(F) = {d}
  BY <1>1, OneMain
<1>3. (CHOOSE x \in FirstMain(F) : TRUE) = d
  BY <1>2
<1>4. F.main[d] \in Files
  BY DEF Typed
<1>5. Nothing \in [Keys -> Values \cup {Unset}] /\ Nothing[k] = Unset
  BY DEF Nothing
<1>6. CASE Sets(F.main[d], k)
  BY <1>2, <1>3, <1>4, <1>6, FileKinds DEF MainValue
<1>7. CASE ~Sets(F.main[d], k)
  BY <1>2, <1>4, <1>5, <1>7, FileKinds DEF MainValue
<1>. QED
  BY <1>6, <1>7

\* No directory has an install.conf: nothing is set by one.
LEMMA MainMissing ==
  ASSUME NEW F, \A d \in Dirs : F.main[d] = Absent, NEW k \in Keys
  PROVE  MainValue(F, k) = Unset
BY DEF MainValue, FirstMain

\* Two facts of arithmetic.
LEMMA UpTo ==
  ASSUME NEW d \in Nat
  PROVE  \A e \in 1..d : e \in 1..(d - 1) \/ e = d
OBVIOUS

LEMMA AtLeast ==
  \A x, y \in Nat : (x > y \/ x = y) <=> x >= y
OBVIOUS

LEMMA ReadStatMain ==
  ASSUME TypeInv, NEW F, Reads(F), StatMain
  PROVE  Reads(F)'
<1>. USE DEF TypeInv, TypeOK
<1>1. /\ dir \in Nat /\ 1 <= dir /\ dir <= NDirs /\ NDirs \in Nat
      /\ pc = "main" /\ conf = Nothing
  BY SizeAssumption DEF Dirs, StatMain, Reads, MainRead
<1>2. Typed(F)'
  BY DEF Reads, Typed
<1>3. \A p \in Places : F.dropin[p[1]][p[2]] = dropin[p[1]][p[2]]
  BY <1>1 DEF Reads, DropinsAhead, Passed
<1>4. pc' # "dropin" /\ pc' # "done" /\ UNCHANGED <<main, dropin, conf>>
  BY <1>1 DEF StatMain
<1>5. DropinsAhead(F)'
  BY <1>3, <1>4 DEF DropinsAhead
<1>6. F.main[dir] = main[dir]
  BY <1>1 DEF Reads, MainRead
<1>7. \A e \in 1..(dir - 1) : F.main[e] = Absent
  BY <1>1 DEF Reads, MainRead
<1>8. CASE main[dir] # Absent
  <2>1. pc' = "parse" /\ dir' = dir
    BY <1>8 DEF StatMain
  <2>2. MainRead(F)'
    BY <1>1, <1>4, <1>6, <1>7, <1>8, <2>1 DEF MainRead
  <2>3. ReadSoFar(F)'
    BY <2>1 DEF ReadSoFar
  <2>. QED
    BY <1>2, <1>5, <2>2, <2>3 DEF Reads
<1>9. CASE main[dir] = Absent /\ dir < NDirs
  <2>1. pc' = "main" /\ dir' = dir + 1
    BY <1>1, <1>9 DEF StatMain
  <2>2. \A e \in 1..(dir' - 1) : F.main[e] = Absent
    <3>1. dir' - 1 = dir
      BY <1>1, <2>1
    <3>2. \A e \in 1..dir : e \in 1..(dir - 1) \/ e = dir
      BY <1>1, UpTo
    <3>3. \A e \in 1..dir : F.main[e] = Absent
      BY <1>6, <1>7, <1>9, <3>2
    <3>. QED
      BY <3>1, <3>3
  <2>3. \A d \in dir'..NDirs : F.main[d] = main[d]
    BY <1>1, <2>1 DEF Reads, MainRead
  <2>4. MainRead(F)'
    BY <1>1, <1>4, <2>1, <2>2, <2>3 DEF MainRead
  <2>5. ReadSoFar(F)'
    BY <2>1 DEF ReadSoFar
  <2>. QED
    BY <1>2, <1>5, <2>4, <2>5 DEF Reads
<1>10. CASE main[dir] = Absent /\ ~(dir < NDirs)
  <2>1. pc' = "scan" /\ dir' = NDirs /\ dir = NDirs
    <3>1. dir = NDirs
      BY <1>1, <1>10
    <3>. QED
      BY <1>10, <3>1 DEF StatMain
  <2>2. \A d \in Dirs : F.main[d] = Absent
    BY <1>1, <1>6, <1>7, <1>10, <2>1 DEF Dirs
  <2>3. \A p \in Places : ~Passed(p)'
    BY <2>1, SizeAssumption DEF Passed, Places, Dirs
  <2>4. \A k \in Keys : PassedSetters(F, k)' = {}
    BY <2>3 DEF PassedSetters, Setters
  <2>5. \A k \in Keys : conf'[k] = MainValue(F, k)
    BY <1>1, <1>4, <2>2, MainMissing DEF Nothing
  <2>6. ReadSoFar(F)'
    BY <2>1, <2>4, <2>5 DEF ReadSoFar, Strongest
  <2>7. MainRead(F)'
    BY <2>1 DEF MainRead
  <2>. QED
    BY <1>2, <1>5, <2>6, <2>7 DEF Reads
<1>. QED
  BY <1>8, <1>9, <1>10

LEMMA ReadParseMain ==
  ASSUME TypeInv, NEW F, Reads(F), ParseMain
  PROVE  Reads(F)'
<1>. USE DEF TypeInv, TypeOK
<1>1. /\ pc = "parse" /\ pc' = "scan" /\ dir' = NDirs
      /\ conf' = Extract(main[dir], conf) /\ UNCHANGED <<main, dropin>>
  BY DEF ParseMain
<1>2. Typed(F)'
  BY DEF Reads, Typed
<1>3. \A p \in Places : F.dropin[p[1]][p[2]] = dropin[p[1]][p[2]]
  BY <1>1 DEF Reads, DropinsAhead, Passed
<1>4. DropinsAhead(F)'
  BY <1>1, <1>3 DEF DropinsAhead
<1>5. MainRead(F)'
  BY <1>1 DEF MainRead
<1>6. \A p \in Places : ~Passed(p)'
  BY <1>1, SizeAssumption DEF Passed, Places, Dirs
<1>7. \A k \in Keys : PassedSetters(F, k)' = {}
  BY <1>6 DEF PassedSetters, Setters
<1>8. \A k \in Keys : conf'[k] = MainValue(F, k)
  <2>1. conf = Nothing /\ F.main[dir] = main[dir]
        /\ (\A e \in 1..(dir - 1) : F.main[e] = Absent)
        /\ (F.main[dir] # Absent \/ \A d \in Dirs : F.main[d] = Absent)
    BY <1>1 DEF Reads, MainRead
  <2>2. CASE F.main[dir] # Absent
    BY <1>1, <2>1, <2>2, MainFound DEF Reads
  <2>3. CASE \A d \in Dirs : F.main[d] = Absent
    <3>1. conf' = Nothing
      BY <1>1, <2>1, <2>3 DEF Extract
    <3>. QED
      BY <2>3, <3>1, MainMissing DEF Nothing
  <2>. QED
    BY <2>1, <2>2, <2>3
<1>9. ReadSoFar(F)'
  BY <1>1, <1>7, <1>8 DEF ReadSoFar, Strongest
<1>. QED
  BY <1>2, <1>4, <1>5, <1>9 DEF Reads

LEMMA ReadScanDropins ==
  ASSUME TypeInv, NEW F, Reads(F), ScanDropins
  PROVE  Reads(F)'
<1>. USE DEF TypeInv, TypeOK
<1>1. /\ pc = "scan" /\ pc' = "dropin" /\ UNCHANGED <<main, dropin, dir, conf>>
      /\ todo' = {n \in Names : dropin[dir][n] # Absent}
  BY DEF ScanDropins
<1>2. Typed(F)'
  BY DEF Reads, Typed
<1>3. dir \in Nat /\ dir \in Dirs /\ \A p \in Places : p[1] \in Nat /\ p[1] \in Dirs /\ p[2] \in Names
  BY SizeAssumption DEF Dirs, Places
<1>4. \A p \in Places : ~Passed(p) => F.dropin[p[1]][p[2]] = dropin[p[1]][p[2]]
  BY DEF Reads, DropinsAhead
<1>5. \A p \in Places : Passed(p) => Passed(p)'
  BY <1>1 DEF Passed
<1>6. \A n \in Names : F.dropin[dir][n] = dropin[dir][n]
  <2>1. ASSUME NEW n \in Names PROVE F.dropin[dir][n] = dropin[dir][n]
    <3>1. <<dir, n>> \in Places /\ ~Passed(<<dir, n>>)
      BY <1>1, <1>3 DEF Places, Passed
    <3>. QED
      BY <1>4, <3>1
  <2>. QED
    BY <2>1
<1>7. DropinsAhead(F)'
  BY <1>1, <1>4, <1>5, <1>6 DEF DropinsAhead
<1>8. \A p \in Places : Passed(p)' /\ ~Passed(p) => F.dropin[p[1]][p[2]] = Absent
  BY <1>1, <1>3, <1>6 DEF Passed
<1>9. \A k \in Keys : PassedSetters(F, k)' = PassedSetters(F, k)
  <2>1. ASSUME NEW k \in Keys, NEW p \in Setters(F, k) PROVE Passed(p)' <=> Passed(p)
    <3>1. p \in Places /\ Sets(F.dropin[p[1]][p[2]], k)
      BY DEF Setters
    <3>2. F.dropin[p[1]][p[2]] # Absent
      BY <3>1 DEF Sets
    <3>. QED
      BY <1>5, <1>8, <3>1, <3>2
  <2>2. \A k \in Keys : Setters(F, k)' = Setters(F, k)
    BY DEF Setters
  <2>. QED
    BY <2>1, <2>2 DEF PassedSetters
<1>10. ReadSoFar(F)'
  BY <1>1, <1>9 DEF Reads, ReadSoFar, Strongest
<1>11. MainRead(F)'
  BY <1>1 DEF MainRead
<1>. QED
  BY <1>2, <1>7, <1>10, <1>11 DEF Reads

LEMMA ReadReadDropin ==
  ASSUME TypeInv, NEW F, Reads(F), ReadDropin
  PROVE  Reads(F)'
<1>. USE DEF TypeInv, TypeOK
<1>a. PICK n0 : n0 = First(todo)
  OBVIOUS
<1>b. PICK p0 : p0 = <<dir, n0>>
  OBVIOUS
<1>1. /\ pc = "dropin" /\ pc' = "dropin" /\ UNCHANGED <<main, dropin, dir>>
      /\ todo # {} /\ todo' = todo \ {n0}
      /\ conf' = Extract(dropin[dir][n0], conf)
  BY <1>a DEF ReadDropin
<1>2. n0 \in todo /\ \A m \in todo : n0 <= m
  BY <1>1, <1>a, FirstIsLeast
<1>3. Names \subseteq Nat /\ Dirs \subseteq Nat
  BY SizeAssumption DEF Names, Dirs
<1>4. p0 \in Places /\ ~Passed(p0) /\ Passed(p0)'
  <2>1. p0 \in Places /\ p0[1] = dir /\ p0[2] = n0 /\ dir \in Nat
    BY <1>b, <1>2, <1>3 DEF Places
  <2>2. ~(p0[1] > dir) /\ n0 \notin todo'
    BY <1>1, <2>1
  <2>. QED
    BY <1>1, <1>2, <2>1, <2>2 DEF Passed
<1>5. \A p \in Places : Passed(p)' <=> Passed(p) \/ p = p0
  <2>1. \A p \in Places : p = <<p[1], p[2]>> /\ p[1] \in Dirs /\ p[2] \in Names
    BY DEF Places
  <2>2. \A p \in Places : p = p0 <=> p[1] = dir /\ p[2] = n0
    BY <1>b, <2>1
  <2>. QED
    BY <1>1, <1>2, <2>2 DEF Passed
<1>6. F.dropin[dir][n0] = dropin[dir][n0] /\ dropin[dir][n0] \in Files
  BY <1>b, <1>2, <1>4 DEF Reads, DropinsAhead
<1>7. Typed(F)'
  BY DEF Reads, Typed
<1>8. MainRead(F)'
  BY <1>1 DEF MainRead
<1>9. \A n \in Names \ todo : F.dropin[dir][n] # Absent => n < n0
  BY <1>1, <1>2 DEF Reads, DropinsAhead
<1>10. DropinsAhead(F)'
  <2>1. \A p \in Places : ~Passed(p)' => F.dropin[p[1]][p[2]] = dropin'[p[1]][p[2]]
    BY <1>1, <1>5 DEF Reads, DropinsAhead
  <2>2. ASSUME NEW m \in todo', NEW n \in Names \ todo', F.dropin[dir][n] # Absent
        PROVE  n < m
    <3>1. m \in todo /\ m # n0 /\ n0 <= m /\ m \in Nat /\ n0 \in Nat /\ n \in Nat
      BY <1>1, <1>2, <1>3
    <3>2. CASE n = n0
      <4>1. n0 < m
        BY <3>1
      <4>. QED
        BY <3>2, <4>1
    <3>3. CASE n \notin todo
      BY <3>3, <2>2, <1>1, <3>1 DEF Reads, DropinsAhead
    <3>. QED
      BY <1>1, <3>2, <3>3
  <2>. QED
    BY <1>1, <2>1, <2>2 DEF DropinsAhead
<1>11. ASSUME NEW k \in Keys PROVE Strongest(F, PassedSetters(F, k)', k, conf'[k])
  <2>1. Strongest(F, PassedSetters(F, k), k, conf[k])
    BY <1>1 DEF Reads, ReadSoFar
  <2>2. Setters(F, k)' = Setters(F, k) /\ Setters(F, k) \subseteq Places
    BY DEF Setters
  <2>3. CASE Sets(dropin[dir][n0], k)
    <3>1. p0 \in Setters(F, k)
      BY <1>b, <1>4, <1>6, <2>3 DEF Setters
    <3>2. p0 \in PassedSetters(F, k)'
      BY <1>4, <2>2, <3>1 DEF PassedSetters
    <3>3. ASSUME NEW q \in PassedSetters(F, k)' PROVE Over(p0, q)
      <4>1. q \in Setters(F, k) /\ q \in Places /\ (Passed(q) \/ q = p0)
        BY <1>5, <2>2 DEF PassedSetters
      <4>2. q[1] \in Nat /\ q[2] \in Nat /\ q[2] \in Names /\ dir \in Nat /\ n0 \in Nat
        BY <1>2, <1>3, <4>1 DEF Places
      <4>3. F.dropin[q[1]][q[2]] # Absent
        BY <4>1 DEF Setters, Sets
      <4>4. CASE q = p0
        BY <1>b, <4>2, <4>4 DEF Over
      <4>5. CASE q[1] > dir
        BY <1>b, <4>2, <4>5 DEF Over
      <4>6. CASE q[1] = dir /\ q[2] \notin todo
        <5>1. q[2] < n0
          BY <1>9, <4>2, <4>3, <4>6
        <5>. QED
          BY <1>b, <4>2, <4>6, <5>1 DEF Over
      <4>. QED
        BY <1>1, <4>1, <4>4, <4>5, <4>6 DEF Passed
    <3>4. conf'[k] = F.dropin[p0[1]][p0[2]][k]
      BY <1>1, <1>b, <1>6, <2>3, FileKinds
    <3>. QED
      BY <3>2, <3>3, <3>4 DEF Strongest
  <2>4. CASE ~Sets(dropin[dir][n0], k)
    <3>1. p0 \notin Setters(F, k)
      BY <1>b, <1>6, <2>4 DEF Setters
    <3>2. PassedSetters(F, k)' = PassedSetters(F, k)
      BY <1>5, <2>2, <3>1 DEF PassedSetters
    <3>3. conf'[k] = conf[k]
      BY <1>1, <1>6, <2>4, FileKinds DEF Settings
    <3>. QED
      BY <2>1, <3>2, <3>3
  <2>. QED
    BY <2>3, <2>4
<1>12. ReadSoFar(F)'
  BY <1>1, <1>11 DEF ReadSoFar, Strongest, MainValue, FirstMain
<1>. QED
  BY <1>7, <1>8, <1>10, <1>12 DEF Reads

LEMMA ReadNextDir ==
  ASSUME TypeInv, NEW F, Reads(F), NextDir
  PROVE  Reads(F)'
<1>. USE DEF TypeInv, TypeOK
<1>1. pc = "dropin" /\ todo = {} /\ UNCHANGED <<main, dropin, todo>>
  BY DEF NextDir
<1>2. dir \in Nat /\ dir \in Dirs /\ 1 <= dir /\ \A p \in Places : p[1] \in Nat /\ 1 <= p[1]
  BY SizeAssumption DEF Dirs, Places
<1>3. \A p \in Places : Passed(p) <=> p[1] >= dir
  <2>1. \A p \in Places : Passed(p) <=> p[1] > dir \/ p[1] = dir
    BY <1>1 DEF Passed
  <2>. QED
    BY <1>2, <2>1, AtLeast
<1>4. \A k \in Keys : Strongest(F, PassedSetters(F, k), k, conf[k])
  BY <1>1 DEF Reads, ReadSoFar
<1>5. \A k \in Keys : Setters(F, k)' = Setters(F, k) /\ Setters(F, k) \subseteq Places
  BY DEF Setters
<1>6. Typed(F)'
  BY DEF Reads, Typed
<1>7. CASE dir > 1
  <2>1. dir' = dir - 1 /\ pc' = "scan" /\ conf' = conf
    BY <1>7 DEF NextDir
  <2>2. \A p \in Places : Passed(p)' <=> Passed(p)
    <3>1. \A p \in Places : Passed(p)' <=> p[1] > dir - 1
      BY <2>1 DEF Passed
    <3>. QED
      BY <1>2, <1>3, <3>1
  <2>3. \A k \in Keys : PassedSetters(F, k)' = PassedSetters(F, k)
    BY <1>5, <2>2 DEF PassedSetters
  <2>4. ReadSoFar(F)'
    BY <1>4, <2>1, <2>3 DEF ReadSoFar, Strongest
  <2>5. DropinsAhead(F)'
    BY <1>1, <2>1, <2>2 DEF Reads, DropinsAhead
  <2>6. MainRead(F)'
    BY <2>1 DEF MainRead
  <2>. QED
    BY <1>6, <2>4, <2>5, <2>6 DEF Reads
<1>8. CASE ~(dir > 1)
  <2>1. conf' = WithDefaults(conf) /\ pc' = "done" /\ dir' = dir
    BY <1>8 DEF NextDir
  <2>2. \A p \in Places : Passed(p)
    BY <1>2, <1>3, <1>8
  <2>3. \A k \in Keys : PassedSetters(F, k) = Setters(F, k)
    BY <1>5, <2>2 DEF PassedSetters
  <2>4. \A k \in Keys : Meaning(F)[k] = IF conf[k] = Unset THEN Default(k) ELSE conf[k]
    BY <1>4, <2>3, MeaningValue DEF Reads
  <2>5. WithDefaults(conf) = [k \in Keys |-> Meaning(F)[k]]
    BY <2>4 DEF WithDefaults
  <2>6. Meaning(F) = [k \in Keys |-> Meaning(F)[k]]
    BY MeaningAt
  <2>7. conf' = Meaning(F)
    BY <2>1, <2>5, <2>6
  <2>8. ReadSoFar(F)'
    BY <2>1, <2>7 DEF ReadSoFar, Meaning
  <2>9. \A p \in Places : Passed(p)'
    BY <2>1 DEF Passed
  <2>10. DropinsAhead(F)'
    BY <2>1, <2>9 DEF DropinsAhead
  <2>11. MainRead(F)'
    BY <2>1 DEF MainRead
  <2>. QED
    BY <1>6, <2>8, <2>10, <2>11 DEF Reads
<1>. QED
  BY <1>7, <1>8

-----------------------------------------------------------------------------
(* A change of a file, and the whole.                                      *)

\* The reader steps leave the files alone, so a snapshot stays a candidate.
LEMMA ReadReader ==
  ASSUME TypeInv, ReadInv, StatMain \/ ParseMain \/ ScanDropins \/ ReadDropin \/ NextDir
  PROVE  ReadInv'
<1>1. UNCHANGED <<main, dropin, old, nEdits>>
  BY DEF StatMain, ParseMain, ScanDropins, ReadDropin, NextDir
<1>2. Now' = Now /\ DropinsOnly' = DropinsOnly /\ MainWent' = MainWent
  BY <1>1 DEF Now, DropinsOnly, MainWent
<1>3. ASSUME nEdits <= 1 PROVE \E F : Candidate(F)' /\ Reads(F)'
  <2>1. PICK F : Candidate(F) /\ Reads(F)
    BY <1>3 DEF ReadInv
  <2>2. Candidate(F)'
    BY <1>1, <1>2, <2>1 DEF Candidate
  <2>3. Reads(F)'
    BY <2>1, ReadStatMain, ReadParseMain, ReadScanDropins, ReadReadDropin, ReadNextDir
  <2>. QED
    BY <2>2, <2>3
<1>. QED
  BY <1>1, <1>2, <1>3 DEF ReadInv

\* The first change.  Behind the reader: it goes on reading the files as they
\* were.  Ahead of it: what it read is also what it is of the files as they are.
LEMMA ReadEdit ==
  ASSUME TypeInv, TypeInv', ReadInv, Edit
  PROVE  ReadInv'
<1>. SUFFICES ASSUME nEdits' <= 1 PROVE \E F : Candidate(F)' /\ Reads(F)'
  <2>1. nEdits' # 0
    BY SizeAssumption DEF Edit, TypeInv, TypeOK
  <2>. QED
    BY <2>1 DEF ReadInv
<1>. USE DEF TypeInv, TypeOK
<1>1. nEdits = 0 /\ nEdits <= 1 /\ old = Now
  <2>1. nEdits = 0
    BY SizeAssumption DEF Edit
  <2>. QED
    BY <2>1 DEF ReadInv
<1>2. ~MainWent
  BY <1>1 DEF MainWent, Now
<1>3. PICK F : F = Now /\ Reads(F)
  BY <1>1, <1>2 DEF ReadInv, Candidate
<1>4. /\ F.main = main /\ F.dropin = dropin /\ old' = F
      /\ pc # "done" /\ UNCHANGED <<pc, dir, todo, conf>>
  BY <1>3 DEF Now, Edit
<1>5. PICK G : G = Now'
  OBVIOUS
<1>6. G.main = main' /\ G.dropin = dropin' /\ Typed(G) /\ Typed(F)
  BY <1>3, <1>5 DEF Now, Typed, Reads
<1>7. Candidate(F)' /\ Candidate(G)'
  BY <1>4, <1>5 DEF Candidate
<1>8. \A p : Passed(p)' <=> Passed(p)
  BY <1>4 DEF Passed
<1>9. dir \in Nat /\ 1 <= dir /\ dir <= NDirs /\ dir \in Dirs /\ NDirs \in Nat
  BY SizeAssumption DEF Dirs
<1>10. ReadSoFar(F)'
  <2>1. \A k \in Keys : PassedSetters(F, k)' = PassedSetters(F, k)
    BY <1>8 DEF PassedSetters, Setters
  <2>. QED
    BY <1>3, <1>4, <2>1 DEF Reads, ReadSoFar, Strongest
<1>11. PICK f \in Files :
         \/ \E d \in MainAt : main' = [main EXCEPT ![d] = f] /\ UNCHANGED dropin
         \/ \E p \in DropAt : dropin' = [dropin EXCEPT ![p[1]][p[2]] = f] /\ UNCHANGED main
  BY DEF Edit
<1>12. ASSUME NEW d \in MainAt, main' = [main EXCEPT ![d] = f], UNCHANGED dropin
       PROVE  \E H : Candidate(H)' /\ Reads(H)'
  <2>1. d \in Dirs /\ \A e \in Dirs : e # d => main'[e] = main[e]
    BY <1>12, PlaceAssumption
  <2>1a. d \in Nat /\ 1 <= d /\ d <= NDirs
    BY <2>1, SizeAssumption DEF Dirs
  <2>2. DropinsAhead(F)'
    BY <1>3, <1>4, <1>8, <1>12 DEF Reads, DropinsAhead
  <2>3. CASE pc \notin {"main", "parse"}
    <3>1. MainRead(F)'
      BY <1>4, <2>3 DEF MainRead
    <3>. QED
      BY <1>6, <1>7, <1>10, <2>2, <3>1 DEF Reads, Typed
  <2>4. CASE pc \in {"main", "parse"} /\ d < dir
    <3>1. \A e \in dir..NDirs : e \in Dirs /\ e # d
      BY <1>9, <2>1, <2>1a, <2>4 DEF Dirs
    <3>2. MainRead(F)'
      BY <1>3, <1>4, <1>9, <2>1, <2>4, <3>1 DEF Reads, MainRead
    <3>. QED
      BY <1>6, <1>7, <1>10, <2>2, <3>2 DEF Reads, Typed
  <2>5. ASSUME pc \in {"main", "parse"}
        PROVE  DropinsAhead(G)' /\ ReadSoFar(G)' /\ Typed(G)' /\ conf' = Nothing
    BY <1>3, <1>4, <1>6, <2>5 DEF DropinsAhead, ReadSoFar, Typed, Reads, MainRead
  <2>6. CASE pc \in {"main", "parse"} /\ ~(d < dir)
    <3>1. \A e \in 1..(dir - 1) : e \in Dirs /\ e # d
      BY <1>9, <2>1a, <2>6 DEF Dirs
    <3>2. \A e \in 1..(dir - 1) : G.main[e] = Absent
      BY <1>3, <1>4, <1>6, <2>1, <2>6, <3>1 DEF Reads, MainRead
    <3>3. CASE pc = "main" \/ main'[dir] # Absent
      <4>1. MainRead(G)'
        BY <1>4, <1>6, <2>5, <2>6, <3>2, <3>3 DEF MainRead
      <4>. QED
        BY <1>7, <2>5, <2>6, <4>1 DEF Reads
    <3>4. CASE pc = "parse" /\ main'[dir] = Absent
      <4>1. CASE main[dir] # Absent
        <5>1. PICK H : H = DropinsOnly'
          OBVIOUS
        <5>2. H.dropin = dropin' /\ H.main = [e \in Dirs |-> Absent]
          BY <5>1 DEF DropinsOnly
        <5>3. MainWent'
          BY <1>3, <1>4, <1>9, <3>4, <4>1 DEF MainWent, Now
        <5>4. Candidate(H)'
          BY <5>1, <5>3 DEF Candidate
        <5>5. Typed(H)'
          BY <5>2 DEF Typed, Files
        <5>6. DropinsAhead(H)'
          BY <1>4, <3>4, <5>2 DEF DropinsAhead
        <5>7. ReadSoFar(H)'
          BY <1>4, <3>4 DEF ReadSoFar
        <5>8. \A e \in Dirs : H.main[e] = Absent
          BY <5>2
        <5>9. \A e \in 1..(dir - 1) : H.main[e] = Absent
          BY <3>1, <5>8
        <5>10. MainRead(H)'
          BY <1>4, <1>9, <2>5, <3>4, <5>8, <5>9 DEF MainRead
        <5>. QED
          BY <5>4, <5>5, <5>6, <5>7, <5>10 DEF Reads
      <4>2. CASE main[dir] = Absent
        <5>1. \A e \in Dirs : F.main[e] = Absent
          BY <1>3, <1>4, <3>4, <4>2 DEF Reads, MainRead
        <5>2. MainRead(F)'
          BY <1>4, <1>9, <2>5, <3>1, <3>4, <5>1 DEF MainRead
        <5>. QED
          BY <1>6, <1>7, <1>10, <2>2, <5>2 DEF Reads, Typed
      <4>. QED
        BY <4>1, <4>2
    <3>. QED
      BY <2>6, <3>3, <3>4
  <2>. QED
    BY <2>3, <2>4, <2>6
<1>13. ASSUME NEW p \in DropAt, dropin' = [dropin EXCEPT ![p[1]][p[2]] = f], UNCHANGED main
       PROVE  \E H : Candidate(H)' /\ Reads(H)'
  <2>1. p \in Places /\ p = <<p[1], p[2]>> /\ p[1] \in Dirs /\ p[2] \in Names
    BY PlaceAssumption DEF Places
  <2>2. \A q \in Places : q # p => dropin'[q[1]][q[2]] = dropin[q[1]][q[2]]
    <3>1. ASSUME NEW q \in Places, q # p PROVE dropin'[q[1]][q[2]] = dropin[q[1]][q[2]]
      <4>1. q = <<q[1], q[2]>> /\ q[1] \in Dirs /\ q[2] \in Names
        BY DEF Places
      <4>2. q[1] # p[1] \/ q[2] # p[2]
        BY <2>1, <3>1, <4>1
      <4>. QED
        BY <1>13, <2>1, <4>1, <4>2
    <3>. QED
      BY <3>1
  <2>3. CASE Passed(p)
    <3>1. DropinsAhead(F)'
      BY <1>3, <1>4, <1>8, <2>2, <2>3 DEF Reads, DropinsAhead
    <3>2. MainRead(F)'
      BY <1>3, <1>4, <1>13 DEF Reads, MainRead
    <3>. QED
      BY <1>6, <1>7, <1>10, <3>1, <3>2 DEF Reads, Typed
  <2>4. CASE ~Passed(p)
    <3>1. \A q \in Places : Passed(q) => G.dropin[q[1]][q[2]] = F.dropin[q[1]][q[2]]
      BY <1>4, <1>6, <2>2, <2>4
    <3>2. MainRead(G)'
      BY <1>3, <1>4, <1>6, <1>13 DEF Reads, MainRead
    <3>3. DropinsAhead(G)'
      <4>1. \A q \in Places : ~Passed(q)' => G.dropin[q[1]][q[2]] = dropin'[q[1]][q[2]]
        BY <1>6
      <4>2. ASSUME pc = "dropin", NEW m \in todo, NEW n \in Names \ todo, G.dropin[dir][n] # Absent
            PROVE  n < m
        <5>1. PICK q : q = <<dir, n>>
          OBVIOUS
        <5>2. q \in Places /\ q[1] = dir /\ q[2] = n /\ Passed(q)
          BY <1>9, <4>2, <5>1 DEF Places, Passed
        <5>3. F.dropin[dir][n] # Absent
          BY <3>1, <4>2, <5>2
        <5>. QED
          BY <1>3, <4>2, <5>3 DEF Reads, DropinsAhead
      <4>. QED
        BY <1>4, <4>1, <4>2 DEF DropinsAhead
    <3>4. \A k \in Keys : PassedSetters(G, k)' = PassedSetters(F, k)
      BY <1>8, <3>1 DEF PassedSetters, Setters
    <3>5. \A k \in Keys : MainValue(G, k) = MainValue(F, k)
      BY <1>4, <1>6, <1>13 DEF MainValue, FirstMain
    <3>6. ASSUME pc \in {"scan", "dropin"}, NEW k \in Keys
          PROVE  Strongest(G, PassedSetters(F, k), k, conf[k])
      <4>1. Strongest(F, PassedSetters(F, k), k, conf[k])
        BY <1>3, <3>6 DEF Reads, ReadSoFar
      <4>2. \A q \in PassedSetters(F, k) : q \in Places /\ Passed(q)
        BY DEF PassedSetters, Setters
      <4>. QED
        BY <3>1, <3>5, <4>1, <4>2 DEF Strongest
    <3>7. ReadSoFar(G)'
      BY <1>4, <3>4, <3>6 DEF ReadSoFar, Strongest
    <3>. QED
      BY <1>6, <1>7, <3>2, <3>3, <3>7 DEF Reads, Typed
  <2>. QED
    BY <2>3, <2>4
<1>. QED
  BY <1>11, <1>12, <1>13

LEMMA ReadInit == Init => ReadInv
<1>. SUFFICES ASSUME Init PROVE ReadInv
  OBVIOUS
<1>1. PICK F : F = Now
  OBVIOUS
<1>2. F.main = main /\ F.dropin = dropin /\ old = F
  BY <1>1 DEF Now, Init
<1>3. TypeInv
  BY TypeInit
<1>4. Typed(F)
  BY <1>2, <1>3 DEF TypeInv, TypeOK, Typed
<1>5. pc = "main" /\ dir = 1 /\ conf = Nothing
  BY DEF Init
<1>6. MainRead(F)
  BY <1>2, <1>5 DEF MainRead
<1>7. DropinsAhead(F) /\ ReadSoFar(F)
  BY <1>2, <1>5 DEF DropinsAhead, ReadSoFar
<1>. QED
  BY <1>1, <1>2, <1>4, <1>6, <1>7 DEF ReadInv, Reads, Candidate

\* At the end what the reader has is what its snapshot means.
LEMMA ReadAnswers == TypeInv /\ ReadInv => OldOrNew
<1>. SUFFICES ASSUME ReadInv, pc = "done", nEdits <= 1
              PROVE  \/ conf \in {Meaning(old), Meaning(Now)}
                     \/ MainWent /\ conf = Meaning(DropinsOnly)
  BY DEF OldOrNew
<1>1. PICK F : Candidate(F) /\ Reads(F)
  BY DEF ReadInv
<1>2. conf = Meaning(F)
  BY <1>1 DEF Reads, ReadSoFar
<1>. QED
  BY <1>1, <1>2 DEF Candidate

\* One file that changes during the read is seen as it was or as it is,
\* whatever directories, names, keys and values there are.
THEOREM OldOrNewAlways == Spec => []OldOrNew
<1>1. Init => TypeInv /\ ReadInv
  BY TypeInit, ReadInit
<1>2. TypeInv /\ ReadInv /\ [Next]_vars => TypeInv' /\ ReadInv'
  <2>. SUFFICES ASSUME TypeInv, ReadInv, [Next]_vars PROVE TypeInv' /\ ReadInv'
    OBVIOUS
  <2>1. TypeInv'
    BY TypeStep
  <2>2. CASE Edit
    BY <2>1, <2>2, ReadEdit
  <2>3. CASE StatMain \/ ParseMain \/ ScanDropins \/ ReadDropin \/ NextDir
    BY <2>1, <2>3, ReadReader
  <2>4. CASE UNCHANGED vars
    <3>1. Now' = Now /\ DropinsOnly' = DropinsOnly /\ MainWent' = MainWent
      BY <2>4 DEF vars, Now, DropinsOnly, MainWent
    <3>2. \A F : Candidate(F) => Candidate(F)'
      BY <2>4, <3>1 DEF vars, Candidate
    <3>3. \A p : Passed(p)' <=> Passed(p)
      BY <2>4 DEF vars, Passed
    <3>4. \A F, k : PassedSetters(F, k)' = PassedSetters(F, k)
      BY <3>3 DEF PassedSetters, Setters
    <3>5. \A F : DropinsAhead(F) => DropinsAhead(F)'
      BY <2>4, <3>3 DEF vars, DropinsAhead
    <3>6. \A F : MainRead(F) => MainRead(F)'
      BY <2>4 DEF vars, MainRead
    <3>7. \A F : ReadSoFar(F) => ReadSoFar(F)'
      BY <2>4, <3>4 DEF vars, ReadSoFar, Strongest
    <3>8. \A F : Reads(F) => Reads(F)'
      BY <3>5, <3>6, <3>7 DEF Reads, Typed
    <3>. QED
      BY <2>1, <2>4, <3>1, <3>2, <3>8 DEF ReadInv, vars
  <2>. QED
    BY <2>2, <2>3, <2>4 DEF Next
<1>3. TypeInv /\ ReadInv => OldOrNew
  BY ReadAnswers
<1>. QED
  BY <1>1, <1>2, <1>3, PTL DEF Spec

=============================================================================
