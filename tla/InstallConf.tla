---------------------------- MODULE InstallConf ----------------------------
(***************************************************************************)
(* How sd-boot reads the configuration of kernel-install to learn the      *)
(* layout: one install.conf, the first of four directories that has one,   *)
(* then every drop-in of every install.conf.d, each read overriding what   *)
(* was read before, and defaults for what no file sets.  Packages and the  *)
(* administrator may change a file while it is read.  A read error in the  *)
(* middle of a file, which parse_keyval takes for its end, is left out.    *)
(***************************************************************************)
EXTENDS Naturals, FiniteSets

CONSTANTS
  NDirs,     \* CONF_PATHS_COUNT: directory 1 is etc/kernel, NDirs is usr/lib/kernel
  NNames,    \* bound: file names in an install.conf.d, in alphasort order
  MainAt,    \* bound: the directories that may have an install.conf
  DropAt,    \* bound: the <<directory, name>> that may be a drop-in
  Keys,      \* the keys under study
  Values,    \* what a key can be set to
  Unset,     \* a key the file does not set, or sets to a number
  Absent,    \* there is no such file
  Bad,       \* a file that cannot be opened or has an overlong line
  MaxEdits   \* bound: changes of files while sd-boot reads

Dirs == 1..NDirs
Names == 1..NNames
Settings == [Keys -> Values \cup {Unset}]
Files == Settings \cup {Absent, Bad}

ASSUME SizeAssumption == NDirs \in Nat \ {0} /\ NNames \in Nat /\ MaxEdits \in Nat
ASSUME PlaceAssumption == MainAt \subseteq Dirs /\ DropAt \subseteq Dirs \X Names
ASSUME KeyAssumption == Keys \subseteq {"layout", "initrd_generator", "uki_generator"}
ASSUME DistinctAssumption ==
  /\ Unset \notin Values
  /\ Absent \notin Settings /\ Bad \notin Settings /\ Absent # Bad

VARIABLES
  main,     \* main[d]: the install.conf of directory d
  dropin,   \* dropin[d][n]: file n of the install.conf.d of directory d
  pc,       \* where the reader is
  dir,      \* the directory it is at
  todo,     \* names the scan of that directory found, not yet read
  conf,     \* what was read so far, the configuration in use at the end
  old,      \* the files before the last change, to state the properties
  nEdits    \* changes so far

vars == <<main, dropin, pc, dir, todo, conf, old, nEdits>>

Nothing == [k \in Keys |-> Unset]

Init ==
  /\ \E f \in [MainAt -> Files] :
       main = [d \in Dirs |-> IF d \in MainAt THEN f[d] ELSE Absent]
  /\ \E f \in [DropAt -> Files] :
       dropin = [d \in Dirs |-> [n \in Names |->
                   IF <<d, n>> \in DropAt THEN f[<<d, n>>] ELSE Absent]]
  /\ old = [main |-> main, dropin |-> dropin]
  /\ pc = "main" /\ dir = 1 /\ todo = {}
  /\ conf = Nothing
  /\ nEdits = 0

-----------------------------------------------------------------------------
(* Helpers.                                                                *)

\* extract_values, for a file that parse_keyval_file read to its end: what it
\* sets overrides what was read before.
Extract(file, c) ==
  IF file \in {Absent, Bad} THEN c
  ELSE [k \in Keys |-> IF file[k] = Unset THEN c[k] ELSE file[k]]

\* What load_kernel_install_conf takes for a key no file sets.
Default(k) ==
  CASE k = "layout" -> "uki"
    [] k = "initrd_generator" -> "dracut"
    [] OTHER -> "ukify"

WithDefaults(c) == [k \in Keys |-> IF c[k] = Unset THEN Default(k) ELSE c[k]]

First(S) == CHOOSE n \in S : \A m \in S : n <= m

-----------------------------------------------------------------------------
(* read_kernel_install_files.                                              *)

\* The search for the install.conf; stat says whether there is one.
StatMain ==
  /\ pc = "main"
  /\ IF main[dir] # Absent THEN pc' = "parse" /\ UNCHANGED dir
     ELSE IF dir < NDirs THEN dir' = dir + 1 /\ UNCHANGED pc
     ELSE pc' = "scan" /\ dir' = NDirs
  /\ UNCHANGED <<main, dropin, todo, conf, old, nEdits>>

MutantParseMain ==
  /\ pc = "parse"
  /\ conf' = Extract(main[dir], conf)
  /\ pc' = "scan"
  /\ UNCHANGED <<main, dropin, dir, todo, old, nEdits>>

\* The first match is the only one read, even when it cannot be.
ParseMain ==
  /\ pc = "parse"
  /\ conf' = Extract(main[dir], conf)
  /\ pc' = "scan" /\ dir' = NDirs
  /\ UNCHANGED <<main, dropin, todo, old, nEdits>>

\* process_dropin_dir: scandir with the names in order.
ScanDropins ==
  /\ pc = "scan"
  /\ todo' = {n \in Names : dropin[dir][n] # Absent}
  /\ pc' = "dropin"
  /\ UNCHANGED <<main, dropin, dir, conf, old, nEdits>>

\* The next file of the scan is read, as it is by now.
ReadDropin ==
  /\ pc = "dropin"
  /\ todo # {}
  /\ conf' = Extract(dropin[dir][First(todo)], conf)
  /\ todo' = todo \ {First(todo)}
  /\ UNCHANGED <<main, dropin, pc, dir, old, nEdits>>

MutantNextDir ==
  /\ pc = "dropin"
  /\ todo = {}
  /\ IF dir > 0
       THEN dir' = dir - 1 /\ pc' = "scan" /\ UNCHANGED conf
       ELSE conf' = WithDefaults(conf) /\ pc' = "done" /\ UNCHANGED dir
  /\ UNCHANGED <<main, dropin, todo, old, nEdits>>

\* From usr/lib up to etc; then load_kernel_install_conf fills in the defaults.
NextDir ==
  /\ pc = "dropin"
  /\ todo = {}
  /\ IF dir > 1
       THEN dir' = dir - 1 /\ pc' = "scan" /\ UNCHANGED conf
       ELSE conf' = WithDefaults(conf) /\ pc' = "done" /\ UNCHANGED dir
  /\ UNCHANGED <<main, dropin, todo, old, nEdits>>

-----------------------------------------------------------------------------
(* The others.                                                             *)

\* A file is added, replaced or removed in one step, as packages do.
Edit ==
  /\ pc # "done"
  /\ nEdits < MaxEdits
  /\ nEdits' = nEdits + 1
  /\ old' = [main |-> main, dropin |-> dropin]
  /\ \E f \in Files :
       \/ \E d \in MainAt :
            /\ main' = [main EXCEPT ![d] = f]
            /\ UNCHANGED dropin
       \/ \E p \in DropAt :
            /\ dropin' = [dropin EXCEPT ![p[1]][p[2]] = f]
            /\ UNCHANGED main
  /\ UNCHANGED <<pc, dir, todo, conf>>

Next == StatMain \/ ParseMain \/ ScanDropins \/ ReadDropin \/ NextDir \/ Edit

Spec == Init /\ [][Next]_vars

-----------------------------------------------------------------------------
(* Correctness.                                                            *)

\* The variables have their types.
TypeOK ==
  /\ main \in [Dirs -> Files] /\ dropin \in [Dirs -> [Names -> Files]]
  /\ pc \in {"main", "parse", "scan", "dropin", "done"}
  /\ dir \in Dirs /\ todo \subseteq Names
  /\ \A k \in Keys : conf[k] \in Values \cup {Unset, Default(k)}
  /\ nEdits \in 0..MaxEdits

Sets(file, k) == IF file \in {Absent, Bad} THEN FALSE ELSE file[k] # Unset

\* The drop-in at place p, a directory and a name, overrides the one at q.
Over(p, q) == p[1] < q[1] \/ (p[1] = q[1] /\ p[2] >= q[2])

\* The configuration that the files of a moment mean, said without reading
\* them in an order: of the drop-ins that set a key the one of the strongest
\* directory counts, and in it the last by name; then the install.conf of the
\* strongest directory that has one, and no other; then the default.
Meaning(files) ==
  LET first == {d \in Dirs : files.main[d] # Absent /\ \A e \in 1..(d - 1) : files.main[e] = Absent}
      setters(k) == {p \in Dirs \X Names : Sets(files.dropin[p[1]][p[2]], k)}
      top(k) == CHOOSE p \in setters(k) : \A q \in setters(k) : Over(p, q)
  IN  [k \in Keys |->
        IF setters(k) # {} THEN files.dropin[top(k)[1]][top(k)[2]][k]
        ELSE IF \E d \in first : Sets(files.main[d], k)
               THEN files.main[CHOOSE d \in first : TRUE][k]
        ELSE Default(k)]

Now == [main |-> main, dropin |-> dropin]

\* The last change took an install.conf away.
MainWent == \E d \in Dirs : old.main[d] # Absent /\ main[d] = Absent
DropinsOnly == [main |-> [d \in Dirs |-> Absent], dropin |-> dropin]

\* What sd-boot reads is what the files mean, whichever of them are absent,
\* unreadable or silent on a key; and one file that changes during the read is
\* seen as it was or as it is: sd-boot never uses a layout that neither the old
\* files nor the new ones mean.  Only an install.conf that goes just then may
\* leave it with the drop-ins alone.
OldOrNew ==
  pc = "done" /\ nEdits <= 1 =>
    \/ conf \in {Meaning(old), Meaning(Now)}
    \/ MainWent /\ conf = Meaning(DropinsOnly)

-----------------------------------------------------------------------------
(* What the repository says and the code does not do.                      *)

\* Configuration.rst: "Any settings in */etc/kernel/install.conf* will override
\* the defaults", the defaults being a drop-in file of usr/lib/kernel.
EtcOverrides ==
  pc = "done" /\ nEdits = 0 =>
    \A k \in Keys :
      Sets(main[1], k) /\ (\A d \in Dirs \ {NDirs}, n \in Names : ~Sets(dropin[d][n], k))
        => conf[k] = main[1][k]

=============================================================================
