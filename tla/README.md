# A verification development of sd-boot

sd-boot keeps systemd-boot's menu in step with the packages of an Arch Linux
system.  Pacman's hooks start its tools, the tools start `kernel-install`, and
`kernel-install` writes loader entries and images on `$BOOT`.  This directory
holds TLA+ modules of that machinery, translated from the C source and the hook
files, TLC configurations that check them on small instances, and theorems that
TLAPS proves for every value of the constants.  All source paths below are
relative to `src/src/`.

`PROJECT.json` is the index: components, runs, the lines each definition models,
the hazards and the properties that answer them, and one mutant for each
property, a plausible bug of the code which that property's run catches.

## The system

| Component | State it keeps | Operations | Correct when |
|---|---|---|---|
| ALPM hooks (`data/hooks`) | none; they fix *when* a tool runs and with which targets | kernel: remove before the transaction, add after it; efi tools: the same; efifs: remove and install, both after it | entries go before files do, and come after files do |
| Kernel tools (`tools-kernel`, `lib-kernel`) | the list of package infos of a run | look packages up from trigger lines, from `usr/lib/modules` or from names; add, remove or inspect one after another | every managed kernel on disk has a current entry, no entry lacks its kernel, no unmanaged kernel gets one |
| Efi tool programs (`tools-efi`, `lib-efi`) | list of package infos, list of older versions found on `$BOOT` | find older versions, remove them, add the installed one | each managed tool is in the menu in one version, the installed one |
| Shadow configuration (`lib-efi/ki_efi_conf_bls.c`, `lib-utils/dir_dup_links.c`) | `var/lib/sd-boot/kernel_conf_bls`: links and an `install.conf` | make the links, put wrong ones right, write `install.conf` | `kernel-install` finds the bls layout and the administrator's other files |
| Shared tool start (`lib/tool.c`, `lib-tool`, `lib-config/load_config*.c`) | arguments, the configuration, the managed list | load the configuration, choose the operation, read the list, make the package infos, hand the child its arguments and environment | a failure ends the run before anything is changed, the child gets all it is to get |
| Trigger reading (`lib/read_triggers.c`, `get_triggers.c`, ...) | a growing array of lines | read stdin, tell paths from names | each line is a package or a path, none lost |
| Loader entry plugin (`tools-plugins`, `lib/loaderentry_modify_file.c`) | a temporary file beside the entry | copy the entry with changed rows, rename the copy | systemd-boot finds the old entry or the new one |
| Plugin input (`lib/ki_plugin*.c`, `lib/plugins_*.c`) | copies of arguments and environment | read them, tell a kernel from an efi tool | a missing argument leaves the entry alone |
| Kernel-install runner (`lib/ki_run.c`, `lib-cmd/run_cmd.c`) | the child | spawn, wait | a failure of the child is a failure of the tool (it is not: see the findings) |
| Child output (`lib-cmd/run_cmd_output.c`, `read_child_output.c`) | a pipe, a growing buffer | spawn, read to the end, wait | neither side blocks for ever, all output is kept, nothing is left behind |
| kernel-install configuration (`lib-config/read_kernel_install_files.c`) | the settings read so far | find `install.conf`, read drop-ins, fill in defaults | the result is what the precedence says the files mean |
| sd-boot configuration (`lib-config/config*.c`) | one structure; the file `config.yaml`, shared with all other starts | make the file from a sample, load it, list the plugins, leave out the skipped ones, make the base environment | the plugin list is the right one, or there is none; the file is never left empty |
| Key value parser (`lib-keyval`) | a list of pairs | read rows, split, convert | the last setting of a key counts |
| Filesystem driver tool (`lib-efifs`) | the drivers directory on the ESP | copy all drivers, delete the directory | the ESP has the drivers of the package |
| Boot mounts (`lib-mounts`) | a snapshot of the mount table, rows of ESPs and XBOOTLDR partitions | walk the snapshot for the disk of the active ESP, walk it again for the rows, ask `bootctl` which are current | every boot partition has its row, active and current are the right ones |
| Package versions (`lib-package`, `lib-alpm`) | none; reads pacman's database | look one version up | |
| Arrays of strings (`lib-utils/array_str*.c`) | rows, and their lengths apart from them | resize, add, append, end with a null row | as many lengths as rows, the lengths those of the rows where they are used |
| File helpers, messages (`lib-utils`, `lib-msg`) | | | |

How they interact:

```
  pacman ----hooks----> kernel tools ----spawn---> kernel-install ----> $BOOT
     |                  efi tools -----/   |           |                  ^
     |                     | writes        | reads     | runs             |
     v                     v               v           v                  |
  files, database       shadow etc/kernel       entry plugin --rename-----+
     |
     +----hooks----> driver tool ----copies----> ESP
  administrator ---> any of the tools, at any time
```

There is no daemon and no lock.  What is hard comes from outside: the order of
pacman's steps and its hooks, two processes at once (nothing stops the
administrator from running a tool during a transaction), lists made first and
used later, `kernel-install` or `bootctl` failing or dying between two effects,
power loss at any point, files that are changed in place, a pipe on which parent
and child wait for each other, and arrays whose size, rows and lengths are kept
apart.

## Modules

| Module | Models | Composes or refines |
|---|---|---|
| `BootMirror` | abstract: entries follow files | |
| `KernelUpdate` | pacman, the two kernel hooks, the hook's and the administrator's run, `kernel-install` | implements `BootMirror` |
| `EfiTool` | pacman, the efi tool hooks, both runs, the search for older versions, `kernel-install` with its two effects | |
| `AtomicEntry` | abstract: an entry changes in one step | |
| `LoaderEntry` | the plugin: its arguments, then the entry row by row | implements `AtomicEntry` |
| `ShadowConf` | the shadow directory and the processes that remake it | |
| `InstallConf` | the reader of `kernel-install`'s configuration, with files changing meanwhile | |
| `ChildOutput` | `run_cmd_output`: the pipe, the child, the buffer | a component for a caller to drive |
| `EfiFs` | the driver tool, its hooks, the ESP | drives `ChildOutput` for `bootctl` |
| `ArrayStr` | what the array functions make of an array (no state) | |
| `ToolStart` | `load_config`, the triggers, what the child is given; other starts and an editor of `config.yaml` | uses `ArrayStr` |
| `BootMounts` | `find-boot-mounts`: two walks over the mount table, then `bootctl` | goes on where a start of `ToolStart` is over |
| `..._proofs` | theorems; `KernelUpdate_proofs` and `KernelSerial_proofs` are about `KernelUpdate` | |

Each `MC...` module gives the sets that its `.cfg` files name.

### KernelUpdate

State.  `images`, `entries` and `stale` are the disk: the kernels under
`usr/lib/modules`, those with a loader entry, and those whose files or initrd
inputs changed after their entry was made.  `phase` and `trans` are pacman's
transaction.  `tool["hook"]` and `tool["admin"]` are the two processes; their
fields are the variables of `SdBootTool` and of the loops: `src` and `names`
(what is left to look up), `infos` (the `pkginfos` array), `i` (the loop index
of `kernel_update_execute`), `ret` (the exit status).  `missed` counts the
children that failed; the code has no such variable, the properties need it.

Actions.  `Begin`, `PreHook`, `CommitRemove`, `CommitInstall`, `CommitEnd` and
`PostHook` are a transaction as the hook files see it: `PreHook` is
`60-sd-boot-kernel-remove.hook`, `PostHook` is `90-sd-boot-kernel-install.hook`.
A hook passes its trigger lines on, and `TriggerScope` is what
`parse_kernel_triggers` makes of them: a line that is no kernel image means all
kernels.  `Glob`, `LookupImage`, `LookupName` and `EndLookup` are
`initialize_tool`; `SkipUnmanaged`, `Spawn`, `ChildDone` and `EndUpdate` are
`kernel_update_execute` with `ki_kernel_update_one` and `run_cmd`; `Exit` hands
control back to pacman, which goes on whatever the status is, as no hook has
`AbortOnFail`.  `InitFails`, `SpawnFails` and `ChildFails` are the error paths,
`Crash` is power loss.

The images are numbered in the order in which glob returns them, since
`kernel_pkg_name_to_image` takes the first match.

### EfiTool

`confs` and `dirs` are what `kernel-install` keeps for a version of a tool: the
loader entry and the directory with the program.  The search for older versions
looks at both (`efi_tool_old_ki_vers.c`), and `kernel-install` may die between
them.  `Setups` are the machines of a run: which tools are listed, what the
administrator may ask for, and whether runs overlap.  `Extends` says which
package name is another's name, a dash and more: the file glob cannot tell these
apart.  An `add` works through the older versions (`old`) before it spawns the
addition.  `PrepareBlind` is a search that finds nothing although there is
something.

### LoaderEntry

`PluginInit` is the plugin's look at what it is given: command, version,
directory and image as arguments, the layout from the environment, and from the
image whether this is a kernel or an efi tool.  Some of them may be missing
(`BareRun`), or the command is `remove` (`RemoveRun`); a run that is not an
addition in a layout with an entry of its own leaves the entry alone.  `due` is
a history variable, the entry `kernel-install` wrote last and how it is to be
changed, against which `EntryIsRight` compares what is there.

A file is a sequence of pieces as `fgets` returns them.  `buf` is the stdio
buffer: a row that was written is in the file only after a flush.  `WriteFails`,
`CloseFails`, `RenameFails` and `Kill` fail at the places where the code does or
does not look at a result.  `Kill` takes the temporary file out of the model:
the real one stays on the disk, but under a name that `mkstemp` never gives
again, so no later run can see it.  It is the one litter `NoLitter` does not
speak about, as no program can unlink a file after it was killed.

Two failures the code does not ask about.  `fgets` returns null for an error as
for the end of the file, and there is no `ferror` (`ReadFails`); the result of
`fclose` is thrown away (`CloseFails`).  Both leave a copy cut short that is
renamed over the entry.  `lost` keeps where such rows are missing, in the copy
or in the entry.  `AtomicEntry` promises nothing of such an entry, it counts as
gone in the refinement; `RenamedIsBootable` says what a cut copy still is, the
start of a changed entry; and `EntryCut` shows that the plugin's promise breaks.

### ShadowConf

`links` and `conf` are the shadow directory.  The initial state is *any* shadow,
among them links to another root and plain files.  Steps are single system
calls: `symlinkat`, `readlinkat`, `unlinkat`, the second `symlinkat`, `open`
with `O_TRUNC`, `write`.  State `child` stands for all calls of `kernel-install`
in one update.  The field `alone` is a history variable: it says that no other
process ran since this one started, so that one run shows what holds for a
process alone and what holds when two interleave.  `LinkCut` is a failed
`readdir`, which the loop takes for the end of the directory: the names not yet
given get no link and the run goes on, so `ChildSeesLinks` is about the names
given (`listed`).  The model is about a system with the uki layout; with another layout `ki_efi_update_env` makes no shadow.

### InstallConf

`main` and `dropin` are all files of the directories; a file is what it sets for
the keys under study, or absent, or unreadable.  An `install.conf` that goes
between `stat` and `fopen` ends the search with nothing read; `OldOrNew` names
this outcome.  The reader goes from `StatMain` to `ParseMain` (first match
only), then through the drop-in directories from the weakest to the strongest,
and fills in the defaults.  A `getline` error in the middle of a file, which
`parse_keyval.c:199` takes for its end, is not modelled.  `Edit` changes one file in one step at any moment.
`MainAt` and `DropAt` bound where files may be.  `Meaning` says what the files
mean without reading them in an order; that is the reference definition.

### ChildOutput

`cmd` is the parent: its place, the pipe ends it holds, what it returns.  `str`
is the `Dynamic_str`, `pipe` what is written and not yet read, `child` the child
with what it has to say.  A pipe holds `PipeCap` pieces, so a child that says
more waits for the parent, and the parent waits for the end of the pipe, which
comes when nobody holds the write end any more.  That is why `ends` is kept: a
parent that forgot its own write end, or reaped before it read, would wait for
ever, which `TransactionEnds` and the deadlock check of the run would report.
`Grow`, `GrowLess` and `GrowTooBig` are the three outcomes of
`mem_grow_if_needed`; the buffer's bytes are counted in pieces.  The module has
no `Spec` of its own: `EfiFs` calls it.

### EfiFs

`esp` holds the version of each driver on the ESP, or `Part` for a file that is
truncated and not yet written (`copy_file` writes in place).  `efivars` is FALSE
in a chroot, where `bootctl` names no ESP and every failure becomes success.  A
run judges this for itself (`tool.seen`): where the directory of the efi
variables cannot be read it takes itself to be in a chroot (`StartUnseen`).
Three errors end a copy without anyone noticing: `fread` fails and returns 0, so
that the loop that would ask `ferror` is over; the `fwrite` of the last bytes
fails, whose result the loop overwrites (`CutCopy`); `readdir` fails in the
middle of the directory (`CutList`).  `tool.cut` is a history variable, the
drivers a run cut or left out in this way; every other failure ends the run
(`FileFails`).  To
find the ESP the tool starts `bootctl` through `ChildOutput`, and `Located`
looks for the ESP in the text it got.  A text is what the search tells apart:
rows that do not matter, the row's key, and the end of the row that has it.
`bootctl` may be killed after the key and before the end: what then stands in
the row is the name of another directory.

### ArrayStr and ToolStart

A string is a sequence of words (`Str`) and its length their number.  `ArrayStr` says
what the functions of `array_str*.c` make of an array: `rows`, `lens`, `used`.
`Stored` is `arr->rows[k] = string` and changes no length; `Refreshed` is the
call that brings lengths up to date.  The two are apart because the code keeps
them apart: `PluginsBytes` sizes a buffer by the lengths, `Strlcat` fills it
with the rows and cuts what does not fit.

`ToolStart` follows one start, `Self`, from `config_init` to the arguments and
the environment it hands to `run_cmd`, step by step as `load_config` has them;
`LoadFails`, `LoadCut`, `BaseEnvFails`, `ReadFails` and `ToolFails` are the
places where memory or a write fails.  `load_config`'s failure is only a
warning, so the start goes on.  `GlobFails` is a failure nobody notices:
`file_list_glob` returns 0 with no row when `glob` fails, and `glob` itself
leaves out a directory it cannot read, so the plugins found may be any part of
those there (`Sublists`), and the list made of them is shorter.  `LoadCut` cuts
the skip list in the same way.  `others` start at the same time.  All of them go
through `read_config_file`: look for `config.yaml` (`look`), open the copy and
with that truncate it (`copy`), close it (`fill`), or read it (`load`).  The
sample is shorter than the stdio buffer, so its bytes come with `fclose`.
`live` says whose open file is still the one named `config.yaml`, since an
editor renames a new file into place (`AdminEdits`).  A machine is a record of
what differs: the program, the plugins found, the skip list, the trigger lines,
and so on.

### BootMounts

`table` is the snapshot libmount makes; `FindDisk` reads which ESP the firmware
names (`uuid`) and is the first walk, for that ESP's disk; `ProcessOne` is the
second, one row a step, and `MarkCurrent` compares the rows' targets with
`bootctl`'s answer.  `nvram` is the variable, `uuid` what came of reading it:
where that fails (`UuidFails`) no partition has the uuid, and no row is active.
`ProcessFails` leaves a row out, or adds it without its mount point or as if on
no disk, as the unchecked results of `boot_mounts_add_mount` allow.

`said` is `bootctl`'s answer: for each type a mount point, and the partition
`bootctl` means by it.  The partition is not in the text and no step looks at
it; `CurrentRight` compares the marked row with it.  `BootctlCut` is an answer
cut short, the child killed or the memory for one row missing: rows may be gone,
the last one may end in the middle (`LeftOf`), and what then stands there may
be the name of another mount point (`Cuts`).  Mounts change
(`MountChanges`) where it can matter, while `bootctl` is asked: the snapshot
stays as it is.  A mount may be plain, a bind mount, an automount that is not
mounted yet or one of the system's, and may cover another one.  libmount, udev
and `bootctl` are external: what a mount's partition is, its type and its disk
are constants, and `bootctl` names any visible partition of the type, or none.
Two mounts of one type at one mount point cannot be told apart by `bootctl`'s
text: the older row is marked, and `MountsRight` says so.

## Runs

| Run | Question | Bounds |
|---|---|---|
| `KernelSerial` | One run at a time, with failures and power loss: until something fails, is the menu complete, current and without dangling entries?  In any case: are only managed kernels published, does one good refresh repair all, is `BootMirror` implemented, does every transaction end? | 3 kernels (two of one managed package, one unmanaged), a managed package that is not installed, 3 transactions, 2 faults |
| `KernelOverlap` | With the administrator's run inside a transaction, and a kernel without `pkgbase`: does an entry only go for cause, does every run end? | 3 kernels, 1 transaction, 1 fault |
| `EfiUpdates` | On a machine where one run goes at a time, with failures and power loss: until something fails, is every managed tool in the menu in exactly its installed version?  In any case: does a good `add` leave one version, whatever was on `$BOOT`?  On a machine where runs overlap as well: does only a package in hand change on `$BOOT`, does every run end? | 2 tools, 2 versions; one at a time: both managed, 3 transactions, 2 faults; overlapping: one managed, 1 transaction, 1 fault |
| `EntryReplace` | With arguments missing, failures, failed reads, a full disk, kills and the entry removed meanwhile: do readers see whole entries only (`AtomicEntry`, unless `fgets` or `fclose` failed unnoticed), is what is renamed bootable, or the start of it, is the entry that stays the right one and other packages' untouched, is there no litter, does the plugin end? | bls and uki entries, of kernels and of efi tools, 4 runs of the plugin, 2 failures |
| `ConfEdits` | Is what is read what the files mean, also when one of them changes during the read? | 4 directories, 6 places where there may be a file, 1 key, 2 values, 1 change |
| `EfifsSerial` | In a chroot or not, each run asking `bootctl` through a pipe, with failures and power loss: until something fails, does the ESP have the package's drivers after a transaction?  In any case: does an `add` that saw the efi variables and exits with 0 leave whole, current drivers, but for those its unnoticed failures cut, does the buffer hold what is read, is all output kept, is nothing of the call left behind, does every transaction end? | 2 drivers, 2 versions, 2 transactions, 2 faults; a pipe of 2 pieces, reads of 2, a buffer of at most 7, output of 3 pieces or, in a chroot, of none or 6 |
| `ShadowShared` | From any shadow, one process or two at once: right layout and right links, for the names `readdir` gave, for a process that runs alone, no failure without cause, and a right shadow when all are through? | 2 names, 2 processes, 3 updates, 1 edit, 2 faults |
| `ToolStarts` | From any of some 1500 machines, alone or with other starts and an editor of `config.yaml`, with a failure: is the plugin list all that was found and is not skipped, are arguments and environment whole when the child gets them, is no trigger lost, is no array used beyond its memory, is no empty `config.yaml` left; and does `find-boot-mounts` print the right rows, and mark the one `bootctl` means, while mounts change? | `CHUNK` 2 and up to 3 trigger lines, 3 plugins, 4 skip lists, up to 2 other starts, 1 edit, 1 fault; 9 kinds of mounts, every table of up to 3 (of up to 2 where the firmware names no ESP), 3 ways to cut a mount point, 1 change |

Four more runs end in a violation each: `KernelExitStatus`, `EfiPrefix`,
`EntryCut` and `ConfDocs`; they are the findings below.

"Until something fails" is `nFaults = 0` in the properties: one and the same run
then also shows what holds after failures.

Deadlock is checked in the kernel, efi tool and driver runs: pacman or the
administrator can always start again, or a bound stops the transactions and the
administrator goes on.  It is checked in `ToolStarts`, too, where `Stopped` says
when everything is over.  `CHECK_DEADLOCK FALSE` is said in the `Entry*`,
`Conf*` and `Shadow*` configurations, whose additions, reads and updates are a
bounded number and then really end.

Why the bounds are enough.  Three kernels give every relation two images can
have: same package, different package, managed or not, first or later in glob
order; a transaction may remove one and write another.  A second transaction
starts from what a first one left, a third shows that nothing accumulates.  Two
faults allow a crash in the repair of what a crash left.  Two versions give an
older one and a newer one, in both directions.  `ConfEdits` has the four
directories of the code (`CONF_PATHS_COUNT`); an `install.conf` may be in the
strongest and in the weakest, drop-ins in the strongest, in a middle one, and
two in the weakest, so that each comparison the precedence makes occurs: between
directories, within one, and between the two kinds of file.  The keys are read
independently, so one is enough.  An entry of five rows has every kind of row
the plugin tells apart, and a buffer that may be flushed between any two; four
runs of the plugin let an addition follow a changed entry, a removed one and a
kept one.

The sizes of `EfifsSerial` make each case of the buffer occur: the output is
longer than the pipe, so the child waits; it is longer than a read; the buffer
doubles, or grows by what is needed since twice its size is over the limit; and
the output of a chroot is over the limit altogether.  In `ToolStarts` the
trigger lines are none, one, or one more than `CHUNK`, so the array grows once;
the plugins have one name in both directories, and the skip lists name none,
one, both of them, or one and one that is not there.  Three mounts on two disks,
one of the ESPs the firmware's or none, give each relation of active, current
and covered; 1 change gives each difference between the snapshot and what
`bootctl` sees.  The cuts name another ESP's mount point, another XBOOTLDR's,
or none; where the firmware names no ESP nothing is active, and two mounts give
each relation of the rest.

What the runs leave out on purpose: `KernelSerial`, the first machine of
`EfiUpdates` and `EfifsSerial` have no `remove` by the administrator.  Its
effect is an entry missing by request, which `SyncedWhenIdle`, `MenuMatches` and
`DriversMatch` would report.  The hooks' removals are in these runs;
`KernelOverlap` and the second machine of `EfiUpdates` have the administrator's.

## Fairness

Weak fairness of pacman's steps, of each run's steps (`Run`, `Plugin`) and of a
`bootctl` call (`Bootctl`, the parent's steps and the child's), and of nothing
else: not of beginning a transaction, of starting a run, of a failure or of a
crash.  The code justifies it so: the tools have no timeouts and no retries,
every loop runs over a finite list made before it, so the kernel scheduling the
process is enough; `run_cmd` waits in `waitpid`, so the assumption includes that
`kernel-install` ends; `bootctl` prints and exits, and waits for nothing but
room in the pipe, which the model has; pacman waits for its hooks and does not
stop halfway.  The transaction's end needs both processes, a run's end only that
run.  `ToolStart`, `BootMounts`, `ShadowConf` and `InstallConf` state no
fairness, and no liveness is checked of them.

## Proofs

`KernelUpdate_proofs` proves, for every set of images, packages and lists, every
`AdminOpers`, and all bounds, with failures, crashes and overlapping runs:

- `TypeCorrect`: `Spec => []TypeOK`.  It has content where the update loop
  relies on it: each package info has a package name.
- `OnlyManagedAlways`: `Spec => []OnlyManaged`.  `OnlyManaged` speaks of
  `entries` alone and is not inductive; `ManagedInv` adds `RunsSound`: the name
  in a package info is the one its image's `pkgbase` gives, and a child is only
  running for a managed one.
- `RemovalHasCauseAlways`: `Spec => RemovalHasCause`.  `CauseInv` says that a
  hook's run that removes is the one before pacman's commit, was given paths,
  and holds images only that this transaction removes (`Removing`).

`KernelSerial_proofs` proves, under `Serial` (`Overlap = FALSE`), for any number
of kernels, transactions and failures:

- `NoDanglingSerial`: `Spec => []NoDangling`, no dangling entry until something
  fails.
- `MirrorImplemented`: `Spec => Mirror!Spec`, that `KernelUpdate` implements
  `BootMirror`, failures and power loss included: only after a failure are files
  deleted under an entry, and no entry is ever made without its files.

`NoDangling` is not inductive: the step that could break it is `CommitRemove`,
pacman deleting an image.  It is safe because the remove hook's run has
withdrawn that image's entry, and that must be carried through the whole run.
`SerialInv` therefore adds: the administrator waits while a transaction is on
(`AdminWaits`), the hook's process only lives in its two phases (`HookInPlace`),
the removed images are on disk and have a package until they are deleted
(`RemovedInv`), and, until something fails, during the remove run every removed
image that still has an entry is still to do, in the list to look up or in the
part of `infos` not yet worked off (`PreRunInv`), and in the commit no removed
image has an entry (`CommitInv`).  The lemmas `Withdraw...` show, step by step,
that a run keeps `PreRunInv` and that its end gives `CommitInv`; `SerialFailure`
shows that a failure keeps what is claimed after it.  The refinement needs the
invariant at the two steps where `BootMirror` has a guard: `Delete` and
`Publish`.  The conjuncts follow the assumptions named in `KernelUpdate`:
`ImageAssumption`, `PkgAssumption`, `PkgBaseAssumption`, `OperAssumption` and
`BoundAssumption`.

`KernelSerial_proofs` also proves, under `Serial`:

- `RefreshRepairsAlways`: a hook's refresh of all kernels that itself went well
  leaves every managed kernel a current entry, whatever was left behind.
- `SyncedAlways`: until something fails, whenever pacman is idle every managed
  kernel has a current entry.  Two more assumptions: the administrator removes
  nothing, and every image belongs to a package.

The argument is one of work in hand.  `RefreshInv` and `SyncInv` say, for each
phase, that a managed kernel on disk is either fresh (an entry not stale) or
still before the run or before pacman: in the list to look up, in the part of
`infos` not yet worked off, or among what the transaction is still to do.
`SourcesUsed` (a run that updates has looked everything up), `OperInv` (which
run is on in which phase) and `HereInv` (what was looked up is on disk) make
this inductive.

`EfiTool_proofs`, for any packages, versions, machines and bounds.  Except for
the first, the theorems assume `Extends = {}`: where one package's name goes on
with another's, the add of the one removes the other's entry, see `EfiPrefix`.

- `EfiToolTypes`: `Spec => []TypeOK`.
- `OwnVersions`: `Spec => OnlyOwnVersions`, overlapping runs and failures
  included.
- `AddLeavesOneAlways`: `Spec => []AddLeavesOne`.
- `MenuMatchesAlways`: `Spec => []MenuMatches`, if the administrator of a
  machine without overlap removes nothing.

`InfoInv` says what is in the list of older versions: this package's, and not
the version to be added.  `AddInv` goes through the loop: one version of each
package done, all others of the one in hand in the list, none left when the
child is spawned.  It needs `FreshInv`, that a run's versions are still the
installed ones, which overlapping runs would break.  `MenuInv` follows a
transaction like `SerialInv` of the kernel side.

`LoaderEntry_proofs`, for entries of any length:

- `EntryTypes`, `NoLitterAlways`, `EntryIsRightAlways`: `TypeOK`, `NoLitter`,
  `EntryIsRight`.
- `EntryIsAtomic`: `Spec => AtomicSpec`, that the plugin implements
  `AtomicEntry`, with kills, removals and every failure it notices; an entry cut
  by a failed `fgets` or `fclose` counts as gone, a promise of nothing.
- `RenamedBoots`: `Spec => []RenamedIsBootable`, if each entry `kernel-install`
  writes names a program and has options: what is renamed boots, and where rows
  were lost it is the start of a changed entry.

`LInv` says in `CopyInv` that file and stream buffer together hold exactly the
rows changed so far, or, once a row is lost, that they are the start of them;
`EntryInv` that the entry is the one written for this run
or gone; `RightInv` that without failures it is right when the plugin is not at
it.  `Modified` is a recursive function over the rows.  That it is what the
recursion says, and that it keeps what boots, is shown for every length by
induction on the number of rows: the smallest number of rows at which a
statement fails leads to a smaller one.

`ShadowConf_proofs` proves all five invariants of `ShadowConf` for any names,
any shadow to begin with, any number of processes and failures: `ShadowTypes`,
`ChildReadsBlsAlways`, `ChildSeesLinksAlways`, `FailsForCauseAlways`,
`SettlesRightAlways`.  `OwnInv` is about a process that runs alone (`AloneInv`):
a name it has dealt with is right.  `SettleInv` is about all of them: a name a
process has dealt with has a right link, or none and another process about to
make it (`Settled`), so two processes that undo each other's link still end with
one.

`EfiFs_proofs` proves all invariants of `EfifsSerial`.  For every size of pipe,
chunk and buffer, every text and any drivers: `EfiFsTypes`, `AddDoneAlways`,
`BufferHoldsAlways`, `OutputWholeAlways` and `NothingLeftAlways`, from `EInv`.
For `AddDone` it says that a driver of the package is whole, still to do, being
written, or one of those cut (`tool.cut`).  Its part `CInv` is about `ChildOutput` alone (`FlowRight`: what was read, then
what is in the pipe, is what the child wrote; `EndsRight`: who has which end
when).  `DriversMatchAlways` assumes that the administrator removes nothing
(`OnlyAdds`) and that what `bootctl` prints names the ESP and fits the buffer
(`EspNamed`); `DInv` says for each phase of a transaction and each place of the
tool what is on the ESP.

`BootMounts_proofs` proves all invariants of `ToolStarts`, those of `ToolStart`
among them, for every set of machines: any plugins, skip lists, trigger lines
and mount tables, any number of starts, edits, changes and failures, every
`CHUNK`, strings of any length.

- `TypesAlways`: `Spec => []TypeOK`.
- `PluginsRightAlways`, `TriggersRightAlways`, `ChildGetsAlways`,
  `MountsRightAlways`: `Spec => []` the property of that name.
- `ConfigWholeAlways`: `Spec => []ConfigWhole`, if `config.yaml` is not empty to
  begin with.

The first five come from one inductive invariant, `Inv`, in five parts, each
with the lemma that a step keeps it (`SharedStep`, `ConfStep`, `TrigStep`,
`ChildStep`, `MountInvStep`):

- `SharedInv`: where a start is in `read_config_file` fits where it is in the
  program, and which program is at which places.
- `ConfInv`: how far `load_config` has come with each array of `SdBoot`.  That
  the list of plugins is whole needs `Measured` here: at the moment `PluginEnv`
  sizes its buffer the lengths of `active` are those of its rows, which
  `ActivePlugins` sees to with its last call.  `TextGrows` then says that each
  row and its blank find room; `PluginsTextIs` sums that up.  That the list is
  never part of the text needs that `plugins` is empty or the text of what is
  wanted at every place, not at the end only.  `FoundInv` says what is wanted:
  of the plugins found, which are those of the machine unless something failed,
  and else a part of them in their order (`MayFind`).
- `TrigInv`: while reading, the rows counted are the first lines and `stdin` is
  the rest of them; an array cut to the count is then all of them.
- `ChildInv`: the child has nothing before it is run.  The two arrays it gets
  are a matter of `EndedRows` (a list that ends with a row without a string
  shows all of its strings), `BaseCopied` and `AppendedStrings`.
- `MountInv`: the rows of a type are, until something fails, the mounts of that
  type in the part of the snapshot walked so far, and active by the uuid and the
  disk found before the walk (`RowsInv`); nothing is current before
  `MarkCurrent`, after it the first row at the mount point named (`MarkInv`);
  and the partition `bootctl` means is, if no mount changed, one of that type in
  the snapshot, at the mount point it says (`SaidInv`).  So a row at that mount
  point exists, and if it is the only one it is that partition's.

Below these are the lemmas about arrays: what each operator of `ArrayStr` makes
of an array with a length for each row (`Arrays`), and of one none of whose rows
is counted as used (`Unused`), which all arrays but that of the triggers are.
The folds the operators are made of (`Selected`, `AddedAll`, `PluginsBytes`,
`PluginsText`, `FlattenSeq`) are taken step by step: `FoldExists` and what
follows from it give a function from the number of elements passed to the result
so far, and `UpToInduction`, by the smallest counterexample, does the rest.

For `ConfigWholeAlways` `FillInv` says that as long as nothing failed an empty
file is one that a live start is filling.

The assumptions are on constants: the lists of a machine are lists of strings
and its `config.yaml` is of a known kind (`StartAssumption`), the words the
program writes are words (`WordAssumption`, `MountAssumption`), no string is the
null pointer (`NullAssumption`), mounts are of known partitions
(`MountAssumption`), and `CHUNK` is not 0.

`InstallConf_proofs`, for any number of directories, names, keys and values, and
any number of changes (`OldOrNew` speaks of the reads with at most one):

- `InstallConfTypes`: `Spec => []TypeOK`.
- `OldOrNewAlways`: `Spec => []OldOrNew`.

`OldOrNew` speaks of the end of the read.  `ReadInv` says at every moment that
there is one snapshot `F` (the old files, the new ones, or the drop-ins alone if
an `install.conf` went) such that what was read is what it is of `F`
(`ReadSoFar`), what was passed of the search is absent in `F` (`MainRead`), and
what is still to be read is on disk as `F` has it and comes after what was read
(`DropinsAhead`).  A reader's step keeps `F`; the change picks it, the old files
if it is behind the reader, the new ones if ahead.  `MeaningValue` ties the reads
in order to `Meaning`, which is said without one: the strongest of the places
that set a key is unique.

Checked by TLC only: liveness (`TransactionEnds`, `RunEnds`, `PluginEnds`),
which needs fairness and `ENABLED` and is beyond TLAPS; and the four findings.
Every invariant and every step property of a passing run is a theorem.

## Findings

Each is a run that ends in a violation and is described, with the quoted line,
in `PROJECT.json`.

| Run | What it shows |
|---|---|
| `KernelExitStatus` | `kernel_install_run` drops the child's exit status (`lib/ki_run.c:274`): a failed `kernel-install` is success. |
| `EfiPrefix` | The glob for older versions also matches a package whose name goes on with a dash, and its entry is removed. |
| `EntryCut` | An `fgets` error is taken for the end of the entry, and the result of `fclose` is not looked at: a truncated entry may be renamed into place. |
| `ConfDocs` | A layout in `etc/kernel/install.conf` loses to the shipped drop-in in `usr/lib/kernel`. |

Disagreements met while reading that no run is about:

- `lib-tool/pkginfos_from_pkg_name.c:33` says a package that is not installed is
  marked not managed; it fails the run (`LookupName`).
- `lib-kernel/pkginfos_all.c:4` says all installed kernels; one kernel directory
  without `pkgbase` fails the refresh of all (`LookupImage`).
- A hook written as `data/docs/Efi-Tools.rst:45` shows calls
  `sd-boot-efi-tool-update add` without a package, which is a usage error: the
  tool never gets an entry.
- `lib/loaderentry_modify_file.c:195` says an options row is removed; of a row
  longer than `ROW_SZ` only the first piece is.
- The removal of drivers deletes all of the drivers directory, with drivers that
  came from elsewhere (`lib-efifs/efifs-add-remove.c:116`).
- A `bootctl` killed in the middle of its ESP row counts as exit status 0
  (`lib-mounts/find_boot_mounts_current.c:119`): a `remove` then looks into a
  directory that is not there, takes the drivers for gone and exits with 0, and
  they stay.
- A link in the shadow whose file left `etc/kernel` stays there, dangling
  (`lib-utils/dir_dup_links.c:123`).
- An administrator's `config.yaml` that appears between the look and the copy is
  overwritten by the sample, and a copy that fails leaves an empty file which no
  later start fills (`lib-config/config.c:81`).
- After a failed `load_config` `find-boot-mounts` may hand `bootctl` an
  environment without the null row that ends it (`lib-config/env_base.c:119`);
  `ChildGets` excepts this case by name.
- `lib-mounts/find_boot_mounts.c:16` says an XBOOTLDR partition is active if it
  is on the disk of the active ESP.  The code finds that disk only through a
  mount of the ESP: where the ESP is not mounted, or is an automount not yet
  used, no XBOOTLDR is active.
- The shadow's `install.conf` is truncated in place: a second process may empty
  it while the first one's `kernel-install` reads it
  (`lib-efi/ki_efi_conf_bls.c:88`).
- A plugin in `etc/kernel/install.d` does not replace the one of the same name
  in `usr/lib/kernel/install.d`, as it would for `kernel-install` alone: the
  list sd-boot makes names both (`AllPlugins`).
- The comment of `ki_kernel_update_one.c` on an empty environment for `remove`;
  the names of the environment variables in the comments of
  `load_kernel_install.c`; `efi-tools.packages` in a doc where the code reads
  `efi-tool.packages`; `usr/lib/efifs-x86` in a doc where the code reads
  `efifs-x64`.
- Failures that are taken for an end or for nothing, and leave the exit status
  0: a `fread` that returns 0 with an error, and the last `fwrite`
  (`lib-utils/copy_file.c:43`); `readdir`
  (`lib-utils/copy_directory_files.c:122`, `lib-utils/dir_dup_links.c:123`);
  `glob` (`lib-utils/file_list_glob.c:26`); a read of an efi variable
  (`lib/efi_var.c:71`); the directory of the efi variables, which then counts
  as a chroot; the skip list (`lib-config/load_config_cyaml.c:80`).  The models
  have each as an action of its own.
- Where two mounts of a type are at one mount point `find-boot-mounts` marks the
  older one as current, not the one that `bootctl` means; an answer of `bootctl`
  that is cut may mark the row of another mount point
  (`lib-mounts/find_boot_mounts_current.c:119`).
- No `fsync` before the plugin's rename; `BOOT_ROOT` joined without a slash in
  `find_dollar_boot_bls.c:76` (its outcome is `PrepareBlind`).

## Not modelled

- Pacman, `kernel-install`, `bootctl`, libalpm, libmount and udev: external.
  They are modelled from how the hooks and the tools use them.  The order of
  hooks of the same moment is their file names' order; sd-boot's own hooks of
  different parts are in different modules because they touch different things
  on `$BOOT`.
- Messages: output only, nothing reads it.  File and string helpers: single
  calls of the system or plain functions of strings; a failure they report is a
  failure of the action that calls them, one they do not report is an action of
  its own (`ReadFails` of `LoaderEntry`, `CutCopy`, `CutList`, `LinkCut`,
  `GlobFails`).
- A `glob` that fails in `get_all_kernel_image_paths` finds no kernel, or some of
  them, and the run exits with 0.  `KernelUpdate` has it as a run that failed (`InitFails`), so
  `RefreshRepairs` does not speak of it; in `EfiTool` it is `PrepareBlind`.
- A read error in the middle of the managed list (`lib-utils/read_file.c:116`) or
  of an `install.conf` or drop-in (`lib-keyval/parse_keyval.c:199`), which both
  readers take for the end of the file: what the file says is then cut.
- The developers' test mode (`lib-config/config_test.c`) and the freeing of
  memory at exit: no state of a run depends on them.
- The list of pairs of `lib-keyval`: it grows by one file at a time, in one
  process; what a file contributes is `Extract` of `InstallConf`.
- The growth of the lists in `lib-kernel/kernel_triggers_parse.c:71`, whose
  result is not looked at: what a failed allocation does there is undefined.
- Entries with rows of more than `ROW_SZ` bytes, whose first piece only is
  recognised.
- An editor that writes `config.yaml` in place instead of renaming a new one.
- The composition of `InstallConf` and `ShadowConf`: the layout the tool reads
  decides whether it makes a shadow; both layouts are modelled, in `ShadowConf`
  that with a shadow, in `EfiTool` both alike.

## Running

```
tlc -config KernelSerial.cfg MCKernelUpdate
tlc -config EfiUpdates.cfg   MCEfiTool
tlc -config EntryReplace.cfg MCLoaderEntry
tlc -config ConfEdits.cfg    MCInstallConf
tlc -config EfifsSerial.cfg  MCEfiFs
tlc -config ShadowShared.cfg MCShadowConf
tlc -config ToolStarts.cfg   MCBootMounts
for m in KernelUpdate KernelSerial EfiTool LoaderEntry ShadowConf \
         EfiFs BootMounts InstallConf
do tlapm ${m}_proofs.tla; done
```
