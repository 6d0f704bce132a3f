----------------------------- MODULE ToolStart -----------------------------
(***************************************************************************)
(* How a program of sd-boot starts and what it gives its child: load_config *)
(* with config.yaml and the list of kernel-install's plugins, the triggers *)
(* pacman writes to stdin, and the arguments and environment of the child. *)
(*                                                                         *)
(* config.yaml is shared: other programs start at the same time and the    *)
(* administrator edits it.  All else is the memory of one program, Self.   *)
(* A failed load is only a warning: the program goes on with what it has.  *)
(***************************************************************************)
EXTENDS ArrayStr

CONSTANTS
  Self,        \* the start that is followed to its child
  Machines,    \* what differs between machines: the program Self is (prog), the starts
               \* of others at the time (others), config.yaml (file), whether there is
               \* a sample (sample), the edits to come (edits), the plugins found (usr,
               \* etc), the administrator's skip list (skips), pacman's trigger lines
               \* (lines) and the operation (oper)
  Chunk,       \* CHUNK: rows allocated at a time for the triggers
  MaxFaults    \* bound: failed allocations and writes

FileKinds == {"none", "empty", "sample", "admin", "bad"}

ASSUME StartAssumption ==
  \A m \in Machines :
    /\ Self \notin m.others /\ m.edits \in Nat /\ m.file \in FileKinds
    /\ \A list \in {m.usr, m.etc, m.skips, m.lines} : list \in Seq(Str)
ASSUME WordAssumption ==
  {"KERNEL_INSTALL_PLUGINS=", " ", "PATH=", "/usr/bin", "/", "kernel-install", "-v",
   "add", "remove", "version", "image"} \subseteq Word
ASSUME StartBounds == Chunk \in Nat \ {0} /\ MaxFaults \in Nat

VARIABLES
  machine,   \* the member of Machines this is
  file,      \* config.yaml: "none", "empty", "sample", "admin", "bad"
  look,      \* where each start is in read_config_file
  live,      \* the starts whose open file is still the one named config.yaml
  edits,     \* edits to come
  pc,        \* where Self is
  conf,      \* its SdBoot
  loaded,    \* did load_config return 0?
  trig,      \* the trigger lines, and
  trigs,     \* their split into packages and paths
  stdin,     \* what pacman wrote and is not read yet
  child,     \* what the child was given
  faults     \* failures so far

\* "tool": kernel-update-triggers; "mounts": find-boot-mounts
prog == machine.prog
Starts == {Self} \cup machine.others

fileVars == <<file, look, live, edits>>
trigVars == <<trig, trigs, stdin>>
svars == <<machine, fileVars, pc, conf, loaded, trigVars, child, faults>>

NoConf == [root |-> FALSE, seen |-> "none", verb |-> 0, skips |-> EmptyArr, all |-> EmptyArr,
           active |-> EmptyArr, plugins |-> EmptyArr, base |-> EmptyArr]
NoTrigs == [pkgs |-> EmptyArr, paths |-> EmptyArr]
NoChild == [env |-> EmptyArr, argv |-> EmptyArr]

StartInit ==
  /\ machine \in Machines
  /\ file = machine.file /\ edits = machine.edits
  /\ look = [p \in Starts |-> "look"] /\ live = {}
  /\ pc = "start"
  /\ conf = NoConf /\ loaded = FALSE
  /\ trig = EmptyArr /\ trigs = NoTrigs /\ stdin = machine.lines
  /\ child = NoChild
  /\ faults = 0

Fault == faults < MaxFaults /\ faults' = faults + 1

-----------------------------------------------------------------------------
(* read_config_file, the same for every start.                             *)

\* Self comes here after config_init; a program whose root could not be
\* allocated looks in a directory that is not there.
Reading(p) == p # Self \/ pc = "config"
Rooted(p) == p # Self \/ conf.root

\* access(config.yaml)
Look(p) ==
  /\ look[p] = "look" /\ Reading(p)
  /\ look' = [look EXCEPT ![p] = IF ~Rooted(p) THEN "done"
                                 ELSE IF file = "none" THEN "copy" ELSE "load"]
  /\ UNCHANGED <<machine, file, live, edits, pc, conf, loaded, trigVars, child, faults>>

MutantOpenCopy(p) ==
  /\ look[p] = "copy"
  /\ file' = "empty" /\ live' = live \cup {p}
  /\ look' = [look EXCEPT ![p] = IF machine.sample THEN "fill" ELSE "done"]
  /\ UNCHANGED <<machine, edits, pc, conf, loaded, trigVars, child, faults>>

\* copy_file opens the sample, then truncates config.yaml or makes it.
OpenCopy(p) ==
  /\ look[p] = "copy"
  /\ IF machine.sample
       THEN /\ file' = "empty" /\ live' = live \cup {p}
            /\ look' = [look EXCEPT ![p] = "fill"]
       ELSE look' = [look EXCEPT ![p] = "done"] /\ UNCHANGED <<file, live>>
  /\ UNCHANGED <<machine, edits, pc, conf, loaded, trigVars, child, faults>>

\* The sample is shorter than stdio's buffer: fclose writes it, and this start
\* does not load it.
Fill(p) ==
  /\ look[p] = "fill"
  /\ file' = IF p \in live THEN "sample" ELSE file
  /\ live' = live \ {p}
  /\ look' = [look EXCEPT ![p] = "done"]
  /\ UNCHANGED <<machine, edits, pc, conf, loaded, trigVars, child, faults>>

\* An open fails, or the disk is full: nobody looks at copy_file's result.
CopyFails(p) ==
  /\ look[p] \in {"copy", "fill"}
  /\ Fault
  /\ live' = live \ {p}
  /\ look' = [look EXCEPT ![p] = "done"]
  /\ UNCHANGED <<machine, file, edits, pc, conf, loaded, trigVars, child>>

\* The level and the skip list of a config.yaml with this content; none of a
\* file that is gone, empty or no yaml.
Verb(content) == CASE content = "sample" -> 1 [] content = "admin" -> 3 [] OTHER -> 0
Skips(content) == IF content = "admin" THEN machine.skips ELSE <<>>

\* The rows of an array to which each of the strings is added.
AddedAll(strings) == FoldLeft(Added, EmptyArr, strings)

\* load_config_yaml and save_config: the skips are added one by one, and n of
\* them when memory ends; every result is ignored.
LoadFirst(n) ==
  conf' = [conf EXCEPT !.seen = file, !.verb = Verb(file),
                       !.skips = AddedAll(SubSeq(Skips(file), 1, n))]

Load(p) ==
  /\ look[p] = "load"
  /\ look' = [look EXCEPT ![p] = "done"]
  /\ IF p = Self THEN LoadFirst(Len(Skips(file))) ELSE UNCHANGED conf
  /\ UNCHANGED <<machine, file, live, edits, pc, loaded, trigVars, child, faults>>

LoadCut ==
  /\ look[Self] = "load"
  /\ Fault
  /\ look' = [look EXCEPT ![Self] = "done"]
  /\ \E n \in 0..(Len(Skips(file)) - 1) : LoadFirst(n)
  /\ UNCHANGED <<machine, file, live, edits, pc, loaded, trigVars, child>>

\* An editor puts a new file in place, with a mistake maybe, or deletes it;
\* files open for a copy are config.yaml no longer.
AdminEdits ==
  /\ edits > 0
  /\ file' \in {"none", "admin", "bad"} \ {file}
  /\ live' = {}
  /\ edits' = edits - 1
  /\ UNCHANGED <<machine, look, pc, conf, loaded, trigVars, child, faults>>

-----------------------------------------------------------------------------
(* load_config                                                             *)

MemoryOnly == UNCHANGED <<machine, fileVars, trigVars, child>>

\* config_init goes on without a root when there is no memory for it.
ConfigInit ==
  /\ pc = "start"
  /\ conf' = [conf EXCEPT !.root = TRUE]
  /\ pc' = "config"
  /\ MemoryOnly /\ UNCHANGED <<loaded, faults>>

ConfigInitFails ==
  /\ pc = "start"
  /\ Fault
  /\ pc' = "config"
  /\ MemoryOnly /\ UNCHANGED <<conf, loaded>>

LoadOver(ok) ==
  /\ loaded' = ok
  /\ pc' = IF prog = "tool" THEN "packages" ELSE "mounts"

\* file_list_glob when glob gives these strings
Globbed(strings) == Refreshed(StoredAll(NewArr(Len(strings)), strings))

\* get_all_plugins when glob gives it usr and then etc; without a root it looks
\* where nothing is.
PluginsFound(usr, etc) ==
  /\ pc = "config" /\ look[Self] = "done"
  /\ conf' = [conf EXCEPT !.all =
       IF conf.root THEN Refreshed(Appended(Globbed(etc), Globbed(usr))) ELSE EmptyArr]
  /\ pc' = "active"
  /\ MemoryOnly /\ UNCHANGED loaded

AllPlugins == PluginsFound(machine.usr, machine.etc) /\ UNCHANGED faults

\* The lists that leave some of a list's strings out.
Sublists(strings) == {Selected(strings, S) : S \in SUBSET Range(strings)}

\* glob runs out of memory, or cannot open or go on reading a directory:
\* file_list_glob returns 0 with the plugins glob gave it, or with none.
GlobFails ==
  /\ Fault
  /\ \E usr \in Sublists(machine.usr), etc \in Sublists(machine.etc) : PluginsFound(usr, etc)

Unskipped(rows, skips) == Selected(rows, {r \in Range(rows) : r # NULL /\ r \notin Range(skips)})

MutantActivePlugins ==
  /\ pc = "active"
  /\ LET kept == Unskipped(conf.all.rows, conf.skips.rows)
         most == Resized(conf.active, Len(conf.all.rows))
     IN  conf' = [conf EXCEPT !.active =
           IF conf.skips.rows = <<>> THEN conf.all
           ELSE Resized(StoredAll(most, kept), Len(kept))]
  /\ pc' = "plugins"
  /\ MemoryOnly /\ UNCHANGED <<loaded, faults>>

\* get_active_plugins: a copy of all, or those that are not skipped in an array
\* that is cut to their number.
ActivePlugins ==
  /\ pc = "active"
  /\ LET kept == Unskipped(conf.all.rows, conf.skips.rows)
         most == Resized(conf.active, Len(conf.all.rows))
     IN  conf' = [conf EXCEPT !.active =
           IF conf.skips.rows = <<>> THEN conf.all
           ELSE Refreshed(Resized(StoredAll(most, kept), Len(kept)))]
  /\ pc' = "plugins"
  /\ MemoryOnly /\ UNCHANGED <<loaded, faults>>

\* strlcat into a buffer of n bytes
Strlcat(text, string, n) ==
  LET both == text \o string IN SubSeq(both, 1, IF Len(both) < n THEN Len(both) ELSE n - 1)

PluginsVar == <<"KERNEL_INSTALL_PLUGINS=">>

\* The bytes calloc is asked for: what the row lengths say, and a blank each.
PluginsBytes(a) == FoldLeft(LAMBDA n, len : n + len + 1, Len(PluginsVar) + 1, a.lens)

PluginsText(a) ==
  LET room == PluginsBytes(a)
  IN  FoldLeft(LAMBDA text, r : IF r = NULL THEN text ELSE Strlcat(Strlcat(text, r, room), <<" ">>, room),
               PluginsVar, a.rows)

\* ki_plugin_env_init
PluginEnv ==
  /\ pc = "plugins"
  /\ conf' = [conf EXCEPT !.plugins = Refreshed(Stored(NewArr(1), 1, PluginsText(conf.active)))]
  /\ pc' = "base"
  /\ MemoryOnly /\ UNCHANGED <<loaded, faults>>

PathVar == <<"PATH=", "/usr/bin">>
OnlyPath == Stored(NewArr(1), 1, PathVar)

\* config_set_base_env
BaseEnv ==
  /\ pc = "base"
  /\ conf' = [conf EXCEPT !.base = Refreshed(NullTerminated(OnlyPath))]
  /\ pc' = "install"
  /\ MemoryOnly /\ UNCHANGED <<loaded, faults>>

\* No memory for the variable, or for the row that ends the list.
BaseEnvFails ==
  /\ pc = "base"
  /\ Fault
  /\ conf' \in {conf, [conf EXCEPT !.base = OnlyPath]}
  /\ LoadOver(FALSE)
  /\ MemoryOnly

\* ki_install_conf_init, load_kernel_install_conf and the checks at the end.
InstallConf ==
  /\ pc = "install"
  /\ LoadOver(conf.root)
  /\ MemoryOnly /\ UNCHANGED <<conf, faults>>

\* A step of load_config fails and those after it are left out.
LoadFails ==
  /\ \/ pc = "config" /\ look[Self] = "done"
     \/ pc \in {"active", "plugins", "install"}
  /\ Fault
  /\ LoadOver(FALSE)
  /\ MemoryOnly /\ UNCHANGED conf

-----------------------------------------------------------------------------
(* kernel-update-triggers                                                  *)

ToolOnly == UNCHANGED <<machine, fileVars, conf, loaded>>

Exit == pc' = "done"

\* load_managed_package_list, then read_triggers begins; without a root the
\* list is not found.
Packages ==
  /\ pc = "packages"
  /\ IF conf.root THEN pc' = "lines" /\ trig' = NewArr(Chunk) ELSE Exit /\ UNCHANGED trig
  /\ ToolOnly /\ UNCHANGED <<trigs, stdin, child, faults>>

\* process_one_line counts the row and makes room for it.
Counted == [trig EXCEPT !.used = @ + 1]
Roomy == IF Counted.used > Len(trig.rows) THEN Resized(Counted, Len(trig.rows) + Chunk) ELSE Counted

MutantReadLine ==
  /\ pc = "lines" /\ stdin # <<>>
  /\ trig' = Stored(Counted, Counted.used, Head(stdin))
  /\ stdin' = Tail(stdin)
  /\ ToolOnly /\ UNCHANGED <<trigs, pc, child, faults>>

ReadLine ==
  /\ pc = "lines" /\ stdin # <<>>
  /\ trig' = [Stored(Roomy, Counted.used, Head(stdin)) EXCEPT !.lens[Counted.used] = Len(Head(stdin))]
  /\ stdin' = Tail(stdin)
  /\ ToolOnly /\ UNCHANGED <<trigs, pc, child, faults>>

MutantReadEnd ==
  /\ pc = "lines" /\ stdin = <<>>
  /\ pc' = "split"
  /\ ToolOnly /\ UNCHANGED <<trigVars, child, faults>>

\* The array is cut to the rows counted.
ReadEnd ==
  /\ pc = "lines" /\ stdin = <<>>
  /\ trig' = Resized(trig, trig.used)
  /\ pc' = "split"
  /\ ToolOnly /\ UNCHANGED <<trigs, stdin, child, faults>>

\* A row cannot be stored, or stdin reports an error: the rows counted are
\* kept, one of them without a string, and the caller is told.
ReadFails ==
  /\ pc = "lines"
  /\ Fault
  /\ trig' = IF stdin = <<>> THEN Resized(trig, trig.used) ELSE Resized(Roomy, Counted.used)
  /\ Exit
  /\ ToolOnly /\ UNCHANGED <<trigs, stdin, child>>

\* trigger_is_path: there is a slash in it.
IsPath(line) == line # NULL /\ \E k \in DOMAIN line : line[k] = "/"

\* path_add_slash
Slashed(line) == IF line[1] = "/" THEN line ELSE <<"/">> \o line

\* get_triggers: two arrays as large as the whole, filled, then cut.
Split ==
  /\ pc = "split"
  /\ LET n == Len(trig.rows)
         paths == Selected(trig.rows, {line \in Range(trig.rows) : IsPath(line)})
         names == Selected(trig.rows, {line \in Range(trig.rows) : ~IsPath(line)})
         slashed == [k \in DOMAIN paths |-> Slashed(paths[k])]
     IN  trigs' = [pkgs |-> Resized(StoredAll(Resized(trigs.pkgs, n), names), Len(names)),
                   paths |-> Resized(StoredAll(Resized(trigs.paths, n), slashed), Len(slashed))]
  /\ trig' = EmptyArr
  /\ pc' = "run"
  /\ ToolOnly /\ UNCHANGED <<stdin, child, faults>>

\* Which kernels the triggers ask for is KernelUpdate's; none, maybe.
NothingToRun ==
  /\ pc = "run"
  /\ Exit
  /\ ToolOnly /\ UNCHANGED <<trigVars, child, faults>>

\* init_arg_arr: what kernel-install is asked to do.
Args ==
  IF machine.oper = "add" THEN <<<<"add">>, <<"version">>, <<"image">>>>
                          ELSE <<<<"remove">>, <<"version">>>>
ArgArr == Refreshed(StoredAll(NewArr(Len(Args)), Args))

\* env_init and arg_init
EnvAll == Refreshed(NullTerminated(Appended(conf.plugins, Appended(conf.base, EmptyArr))))
ArgAll ==
  LET cmd == Appended(ArgArr, Stored(NewArr(1), 1, <<"kernel-install">>))
      n == Len(cmd.rows) + 1
      loud == IF conf.verb >= 3 THEN Stored(Resized(cmd, n), n, <<"-v">>) ELSE cmd
  IN  Refreshed(NullTerminated(loud))

\* kernel_install_run hands both to run_cmd.
RunChild ==
  /\ pc = "run"
  /\ child' = [env |-> EnvAll, argv |-> ArgAll]
  /\ Exit
  /\ ToolOnly /\ UNCHANGED <<trigVars, faults>>

\* The list of packages cannot be read, rights or the operation are missing, a
\* trigger cannot be copied or the child's arrays cannot be made.
ToolFails ==
  /\ pc \in {"packages", "split", "run"}
  /\ Fault
  /\ Exit
  /\ ToolOnly /\ UNCHANGED <<trigVars, child>>

-----------------------------------------------------------------------------
ReadConfig == \E p \in Starts : Look(p) \/ OpenCopy(p) \/ Fill(p) \/ Load(p)
LoadConfig == ConfigInit \/ AllPlugins \/ ActivePlugins \/ PluginEnv \/ BaseEnv \/ InstallConf
ToolRun == Packages \/ ReadLine \/ ReadEnd \/ Split \/ NothingToRun \/ RunChild
StartFault ==
  \/ \E p \in Starts : CopyFails(p)
  \/ LoadCut \/ ConfigInitFails \/ GlobFails \/ BaseEnvFails \/ LoadFails \/ ReadFails \/ ToolFails

StartNext == ReadConfig \/ LoadConfig \/ ToolRun \/ StartFault \/ AdminEdits

-----------------------------------------------------------------------------
(* Correctness.                                                            *)

StartPlaces == {"start", "config", "active", "plugins", "base", "install", "packages", "lines",
                "split", "run", "mounts", "done"}

\* The types of a start's variables: no array has a row outside its memory.
StartTypeOK ==
  /\ machine \in Machines
  /\ file \in FileKinds
  /\ look \in [Starts -> {"look", "copy", "fill", "load", "done"}] /\ live \subseteq Starts
  /\ edits \in Nat /\ faults \in 0..MaxFaults
  /\ loaded \in BOOLEAN /\ conf.root \in BOOLEAN /\ conf.verb \in 0..3
  /\ \A a \in {conf.skips, conf.all, conf.active, conf.plugins, conf.base, trig,
               trigs.pkgs, trigs.paths, child.env, child.argv} : IsArr(a)

\* The list kernel-install is given names every plugin found that is not
\* skipped, whole and in order, usr before etc.  Until something fails, all that
\* are there are found, and what is skipped is all that the config.yaml of the
\* load says.  A failure that nobody notices may leave plugins out or the end of
\* the skip list, but never adds to either, nor breaks their order.
PluginsRight ==
  conf.plugins.rows # <<>> =>
    LET found == conf.all.rows
        want == Unskipped(found, conf.skips.rows)
        list == FlattenSeq([k \in DOMAIN want |-> want[k] \o <<" ">>])
    IN  /\ conf.plugins.rows = <<PluginsVar \o list>>
        /\ \E usr \in Sublists(machine.usr), etc \in Sublists(machine.etc) : found = usr \o etc
        /\ IsPrefix(conf.skips.rows, Skips(conf.seen))
        /\ faults = 0 => found = machine.usr \o machine.etc /\ conf.skips.rows = Skips(conf.seen)

\* Starts that meet, and an editor among them, leave no empty config.yaml behind,
\* which no later start would ever fill: a copy that begins is finished by
\* somebody, unless a write fails.
ConfigWhole == (\A p \in Starts : look[p] = "done") /\ faults = 0 => file # "empty"

\* What the child can see of its arrays, to the first row without a string: all
\* of the environment load_config made and all of the arguments.  Only of
\* find-boot-mounts may the environment lack its end, if load_config failed.
ChildGets ==
  child # NoChild =>
    LET env == SubSeq(child.env.rows, 1, UpToNull(child.env))
        argv == SubSeq(child.argv.rows, 1, UpToNull(child.argv))
        loud == IF conf.verb = 3 THEN <<<<"-v">>>> ELSE <<>>
    IN  /\ loaded => conf.base.rows[1] = PathVar /\ conf.plugins.rows # <<>>
        /\ loaded /\ prog = "tool" => env = <<PathVar>> \o conf.plugins.rows
        /\ \A k \in DOMAIN env : env[k] = PathVar \/ <<env[k]>> = conf.plugins.rows
        /\ HasNull(child.argv)
        /\ prog = "tool" => argv = <<<<"kernel-install">>>> \o Args \o loud
        /\ loaded \/ prog = "tool" => HasNull(child.env)

\* After get_triggers every line pacman wrote is a package or a path, in order,
\* none twice, none empty-handed; a run whose reading failed goes no further.
TriggersRight ==
  pc = "run" =>
    LET lines == Range(machine.lines)
        paths == Selected(machine.lines, {line \in lines : IsPath(line)})
    IN  /\ trigs.pkgs.rows = Selected(machine.lines, {line \in lines : ~IsPath(line)})
        /\ trigs.paths.rows = [k \in DOMAIN paths |-> Slashed(paths[k])]
        /\ ~HasNull(trigs.pkgs) /\ ~HasNull(trigs.paths) /\ stdin = <<>>

=============================================================================
