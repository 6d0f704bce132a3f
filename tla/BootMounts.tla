----------------------------- MODULE BootMounts -----------------------------
(***************************************************************************)
(* find-boot-mounts: the mounted EFI system and XBOOTLDR partitions, those *)
(* of the disk the machine booted from (active) and those bootctl uses     *)
(* (current).  It walks a snapshot of the mount table twice, then runs     *)
(* bootctl, which sees the mounts of that moment.                          *)
(*                                                                         *)
(* It starts as ToolStart says, and goes on where load_config is over.  A  *)
(* machine has two fields more: the mount table and the ESP of the boot.   *)
(* libmount, udev and bootctl are external; what run_cmd_output does with  *)
(* bootctl is ChildOutput, here an answer, a cut answer or a failure.      *)
(***************************************************************************)
EXTENDS ToolStart

CONSTANTS
  Mounts,      \* mounts there may be: [part, target, kind]
  PartType,    \* of each partition: "esp", "xbootldr" or "other"
  DiskOf,      \* of each partition: its disk, or
  NoDisk,      \* none, whose device number is 0
  NoPart,      \* no partition
  Cuts,        \* <<t, u>>: u is what a cut may leave of the mount point t
  MaxChanges   \* bound: mounts and unmounts while the program runs

Parts == DOMAIN PartType

ASSUME MountAssumption ==
  /\ Mounts \subseteq [part : Parts, target : STRING, kind : {"plain", "bind", "auto", "system"}]
  /\ \A m \in Machines : m.table \in Seq(Mounts) /\ m.nvram \in Parts \cup {NoPart}
  /\ DOMAIN DiskOf = Parts /\ NoPart \notin Parts
  /\ \A m \in Mounts : m.target # ""
  /\ Cuts \subseteq STRING \X STRING
  /\ "bootctl" \in Word
ASSUME ChangeBound == MaxChanges \in Nat

VARIABLES
  mounted,     \* the mount table of the machine, the oldest mount first
  changes,     \* changes of it so far
  table,       \* the snapshot libmount made
  entry,       \* the next entry of the walk
  uuid,        \* active_esp_uuid: what was read of LoaderDevicePartUUID, or NoPart
  active,      \* the disk of the active ESP as found, or NoDisk
  efis,        \* BootMounts: the rows of the ESPs and
  xbootldrs,   \* those of the XBOOTLDR partitions
  said         \* bootctl's answer

\* LoaderDevicePartUUID: the ESP the firmware started, or NoPart
nvram == machine.nvram

mvars == <<mounted, changes, table, entry, uuid, active, efis, xbootldrs, said>>
vars == <<svars, mvars>>

\* A row of bootctl's answer is a mount point; the partition bootctl means is
\* not in it and no step looks at it.
NoRow == [target |-> "", part |-> NoPart]
NoAnswer == [esp |-> NoRow, xbootldr |-> NoRow]

Init ==
  /\ StartInit
  /\ mounted = machine.table /\ changes = 0
  /\ table = <<>> /\ entry = 1 /\ uuid = NoPart /\ active = NoDisk
  /\ efis = <<>> /\ xbootldrs = <<>> /\ said = NoAnswer

MountsOnly == UNCHANGED <<machine, fileVars, conf, loaded, trigVars, child>>

-----------------------------------------------------------------------------
\* A mount comes, over another one maybe, or goes; an automount among them.  The
\* snapshot stays as it is, so that only bootctl can tell when.
MountChanges ==
  /\ pc = "bootctl" /\ changes < MaxChanges
  /\ \/ \E m \in Mounts : mounted' = Append(mounted, m)
     \/ \E k \in DOMAIN mounted : mounted' = RemoveAt(mounted, k)
  /\ changes' = changes + 1
  /\ UNCHANGED <<svars, table, entry, uuid, active, efis, xbootldrs, said>>

\* initialize: the mount table is parsed.
Snapshot ==
  /\ pc = "mounts"
  /\ table' = mounted
  /\ pc' = "disk"
  /\ MountsOnly /\ UNCHANGED <<mounted, changes, entry, uuid, active, efis, xbootldrs, said, faults>>

\* No table or no udev: find_boot_mounts fails and main prints nothing.
SnapshotFails ==
  /\ pc = "mounts"
  /\ Fault
  /\ pc' = "done"
  /\ MountsOnly /\ UNCHANGED mvars

\* skip_mount: pseudo file systems, automounts not yet mounted among them, bind
\* mounts, mounts of a part of a file system, and /, /dev, /sys, /proc, /run, /tmp.
SkipMount(m) == m.kind # "plain"

\* active_parent_dev_t: the disk of the first mount of the active ESP.
ActiveDisk(mounts) ==
  LET hits == {k \in DOMAIN mounts : ~SkipMount(mounts[k]) /\ mounts[k].part = nvram}
  IN  IF hits = {} THEN NoDisk ELSE DiskOf[nvram]

\* get_active_esp_uuid and active_parent_dev_t
FindDisk ==
  /\ pc = "disk"
  /\ uuid' = nvram /\ active' = ActiveDisk(table)
  /\ pc' = "walk"
  /\ MountsOnly /\ UNCHANGED <<mounted, changes, table, entry, efis, xbootldrs, said, faults>>

\* The device of the active ESP is gone, not known to udev or without a disk.
FindDiskFails ==
  /\ pc = "disk"
  /\ Fault
  /\ uuid' = nvram
  /\ pc' = "walk"
  /\ MountsOnly /\ UNCHANGED <<mounted, changes, table, entry, active, efis, xbootldrs, said>>

\* The variable cannot be read, or not whole: no partition has that uuid.
UuidFails ==
  /\ pc = "disk"
  /\ Fault
  /\ pc' = "walk"
  /\ MountsOnly /\ UNCHANGED mvars

IsActive(part) ==
  \/ PartType[part] = "esp" /\ part = uuid
  \/ PartType[part] = "xbootldr" /\ active # NoDisk /\ DiskOf[part] = active

Row(m) == [part |-> m.part, target |-> m.target, active |-> IsActive(m.part), current |-> FALSE]

\* boot_mounts_add_mount, for a mount of an ESP or an XBOOTLDR that is not skipped
AddMount(m, row) ==
  LET type == IF SkipMount(m) THEN "other" ELSE PartType[m.part]
  IN  /\ efis' = IF type = "esp" THEN Append(efis, row) ELSE efis
      /\ xbootldrs' = IF type = "xbootldr" THEN Append(xbootldrs, row) ELSE xbootldrs

\* process_one_mount
ProcessOne ==
  /\ pc = "walk" /\ entry <= Len(table)
  /\ entry' = entry + 1
  /\ AddMount(table[entry], Row(table[entry]))
  /\ MountsOnly /\ UNCHANGED <<pc, mounted, changes, table, uuid, active, said, faults>>

\* The device is gone or not known to udev, or the row cannot be added; or it is
\* added without its mount point, or as if on no disk.
ProcessFails ==
  /\ pc = "walk" /\ entry <= Len(table)
  /\ Fault
  /\ entry' = entry + 1
  /\ LET m == table[entry]
     IN  \/ UNCHANGED <<efis, xbootldrs>>
         \/ AddMount(m, [Row(m) EXCEPT !.target = ""])
         \/ PartType[m.part] = "xbootldr" /\ AddMount(m, [Row(m) EXCEPT !.active = FALSE])
  /\ MountsOnly /\ UNCHANGED <<pc, mounted, changes, table, uuid, active, said>>

\* The iterator ends, and find_boot_mounts_current runs bootctl if there is an
\* environment for it.
WalkEnd ==
  /\ pc = "walk" /\ entry > Len(table)
  /\ IF conf.base.rows = <<>>
       THEN pc' = "done" /\ UNCHANGED child
       ELSE /\ child' = [env |-> conf.base,
                         argv |-> NullTerminated(Stored(NewArr(1), 1, <<"bootctl">>))]
            /\ pc' = "bootctl"
  /\ UNCHANGED <<machine, fileVars, conf, loaded, trigVars, faults, mvars>>

\* The second walk has no iterator: find_boot_mounts returns 0 with no rows.
WalkFails ==
  /\ pc = "walk" /\ entry = 1
  /\ Fault
  /\ pc' = "done"
  /\ MountsOnly /\ UNCHANGED mvars

\* The mount that is on top at its target.
OnTop(k) == \A j \in DOMAIN mounted : mounted[j].target = mounted[k].target => j <= k

\* bootctl names one mounted partition of a type, or none.
MayName(type) ==
  {[target |-> mounted[k].target, part |-> mounted[k].part] : k \in {k \in DOMAIN mounted :
     mounted[k].kind = "plain" /\ PartType[mounted[k].part] = type /\ OnTop(k)}} \cup {NoRow}

Answers == [esp : MayName("esp"), xbootldr : MayName("xbootldr")]

Bootctl ==
  /\ pc = "bootctl"
  /\ said' \in Answers
  /\ pc' = "mark"
  /\ MountsOnly /\ UNCHANGED <<mounted, changes, table, entry, uuid, active, efis, xbootldrs, faults>>

\* What may be left of a row: nothing, or a part of its mount point.
LeftOf(row) == {[target |-> c[2], part |-> NoPart] : c \in {c \in Cuts : c[1] = row.target}} \cup {NoRow}

\* bootctl dies and what it wrote ends anywhere, the ESP before the XBOOTLDR; or
\* there is no memory for the mount point of one row.
BootctlCut ==
  /\ pc = "bootctl"
  /\ Fault
  /\ \E answer \in Answers :
       \/ \E row \in LeftOf(answer.xbootldr) : said' = [answer EXCEPT !.xbootldr = row]
       \/ \E row \in LeftOf(answer.esp) : said' = [esp |-> row, xbootldr |-> NoRow]
       \/ said' = [answer EXCEPT !.esp = NoRow]
  /\ pc' = "mark"
  /\ MountsOnly /\ UNCHANGED <<mounted, changes, table, entry, uuid, active, efis, xbootldrs>>

\* run_cmd_output fails: nothing is marked, and find_boot_mounts returns 0.
BootctlFails ==
  /\ pc = "bootctl"
  /\ Fault
  /\ pc' = "done"
  /\ MountsOnly /\ UNCHANGED mvars

\* The first row with the target bootctl named.
Marked(rows, target) ==
  [k \in DOMAIN rows |->
     [rows[k] EXCEPT !.current = /\ target # "" /\ rows[k].target = target
                                 /\ \A j \in 1..(k - 1) : rows[j].target # target]]

MutantMarkCurrent ==
  /\ pc = "mark"
  /\ IF said.esp.target # ""
       THEN /\ efis' = Marked(efis, said.esp.target)
            /\ xbootldrs' = Marked(xbootldrs, said.esp.target)
       ELSE UNCHANGED <<efis, xbootldrs>>
  /\ pc' = "done"
  /\ MountsOnly /\ UNCHANGED <<mounted, changes, table, entry, uuid, active, said, faults>>

\* boot_mounts_mark_current: without an ESP in the answer nothing is marked.
MarkCurrent ==
  /\ pc = "mark"
  /\ IF said.esp.target # ""
       THEN /\ efis' = Marked(efis, said.esp.target)
            /\ xbootldrs' = Marked(xbootldrs, said.xbootldr.target)
       ELSE UNCHANGED <<efis, xbootldrs>>
  /\ pc' = "done"
  /\ MountsOnly /\ UNCHANGED <<mounted, changes, table, entry, uuid, active, said, faults>>

-----------------------------------------------------------------------------
FindMounts == Snapshot \/ FindDisk \/ ProcessOne \/ WalkEnd \/ Bootctl \/ MarkCurrent
MountFault ==
  \/ SnapshotFails \/ FindDiskFails \/ UuidFails \/ ProcessFails \/ WalkFails
  \/ BootctlFails \/ BootctlCut

Stopped == pc = "done" /\ (\A p \in Starts : look[p] = "done") /\ UNCHANGED vars

Next ==
  \/ StartNext /\ UNCHANGED mvars
  \/ FindMounts
  \/ MountFault
  \/ MountChanges
  \/ Stopped

Spec == Init /\ [][Next]_vars

-----------------------------------------------------------------------------
(* Correctness.                                                            *)

Targets == {m.target : m \in Mounts} \cup {""}
Rows == Seq([part : Parts, target : Targets, active : BOOLEAN, current : BOOLEAN])
AnswerRow == [target : Targets \cup {c[2] : c \in Cuts}, part : Parts \cup {NoPart}]

\* The variables have their types.
TypeOK ==
  /\ StartTypeOK
  /\ pc \in StartPlaces \cup {"disk", "walk", "bootctl", "mark"}
  /\ mounted \in Seq(Mounts) /\ table \in Seq(Mounts)
  /\ changes \in 0..MaxChanges
  /\ entry \in 1..(Len(table) + 1)
  /\ uuid \in Parts \cup {NoPart}
  /\ active \in {DiskOf[p] : p \in Parts} \cup {NoDisk}
  /\ efis \in Rows /\ xbootldrs \in Rows
  /\ said \in [esp : AnswerRow, xbootldr : AnswerRow]

RowsAre(rows, type) ==
  [k \in DOMAIN rows |-> [part |-> rows[k].part, target |-> rows[k].target, kind |-> "plain"]] =
  Selected(table, {m \in Mounts : m.kind = "plain" /\ PartType[m.part] = type})

BootedFrom(part) ==
  /\ DiskOf[part] # NoDisk /\ nvram # NoPart /\ DiskOf[nvram] = DiskOf[part]
  /\ \E k \in DOMAIN table : table[k].kind = "plain" /\ table[k].part = nvram

MarkedRows(rows) == {k \in DOMAIN rows : rows[k].current}

\* The mounts of a type in the snapshot that are where bootctl says.
There(type) ==
  {k \in DOMAIN table : /\ table[k].kind = "plain" /\ PartType[table[k].part] = type
                        /\ table[k].target = said[type].target}

\* The row of a type that is marked current, by what bootctl said.
CurrentRight(rows, type) ==
  /\ \A k \in MarkedRows(rows) :
       /\ said.esp.target # "" /\ rows[k].target = said[type].target
       /\ \A j \in DOMAIN rows : rows[j].target = said[type].target => k <= j
       /\ MarkedRows(rows) = {k}
  /\ changes = 0 /\ said.esp.target # "" /\ said[type].part # NoPart =>
       /\ faults = 0 => MarkedRows(rows) # {}
       /\ (\A j, k \in There(type) : j = k) =>
            \A k \in MarkedRows(rows) : rows[k].part = said[type].part

\* What is printed, whatever is mounted and unmounted meanwhile: until something
\* fails every boot partition of the snapshot has its row.  No ESP is active but
\* the one the firmware says, no XBOOTLDR that is not on its disk, and if that
\* ESP is mounted those are all active until something fails.  Without an ESP in
\* bootctl's answer no row is current, else the first at the mount point named
\* for its type; if no mount changed and nothing failed there is one, and it is
\* the partition bootctl means unless the snapshot has two of the type there.
MountsRight ==
  prog = "mounts" /\ pc = "done" =>
    /\ faults = 0 => RowsAre(efis, "esp") /\ RowsAre(xbootldrs, "xbootldr")
    /\ \A k \in DOMAIN efis :
         /\ efis[k].active => efis[k].part = nvram
         /\ faults = 0 /\ efis[k].part = nvram => efis[k].active
    /\ \A k \in DOMAIN xbootldrs :
         /\ xbootldrs[k].active => BootedFrom(xbootldrs[k].part)
         /\ faults = 0 /\ BootedFrom(xbootldrs[k].part) => xbootldrs[k].active
    /\ CurrentRight(efis, "esp") /\ CurrentRight(xbootldrs, "xbootldr")

=============================================================================
